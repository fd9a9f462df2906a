---------------------------- MODULE ListNumbers ----------------------------
(***************************************************************************)
(* The numbers that LinkedList/list.c represents by lists of digits:       *)
(* getSum, and getDecimalToBinary followed by getBinaryToDecimal as main   *)
(* of ll.c calls them.  A list is the sequence of its data (LinkedList     *)
(* shows that the list functions used here do on the heap what they mean   *)
(* on sequences); an action is one iteration of a loop.  The last node of  *)
(* a number is taken to end its list: addToListAtBegin leaves there what   *)
(* malloc left (see LinkedList).                                           *)
(***************************************************************************)
EXTENDS Integers, Sequences, SequencesExt

CONSTANTS
  MaxNum,   \* the largest number typed in
  Garbage   \* what the uninitialised val of getBinaryToDecimal may hold

VARIABLES
  phase,         \* which loop runs
  num1, num2,    \* the numbers typed in; num1 is converted to binary, too
  t1, t2,        \* the digits not yet added, least significant first
  num,           \* the last sum of two digits, with its carry
  l3,            \* the sum, most significant digit first
  n, bits,       \* getDecimalToBinary: what is left of n, and its list t
  e, val, junk   \* getBinaryToDecimal; junk is the first content of val

vars == <<phase, num1, num2, t1, t2, num, l3, n, bits, e, val, junk>>
sum == <<t1, t2, num, l3>>
binary == <<n, bits, e, val, junk>>

(* getInput, and reverseList of its result. *)
Digits[k \in 0..MaxNum] == IF k = 0 THEN <<>> ELSE <<k % 10>> \o Digits[k \div 10]

(* getSum displays its lists: 0 has no digits and display needs a node. *)
Init ==
  /\ phase = "add"
  /\ num1 \in 1..MaxNum /\ num2 \in 1..MaxNum
  /\ t1 = Digits[num1] /\ t2 = Digits[num2] /\ num = 0 /\ l3 = <<>>
  /\ n = num1 /\ bits = <<>>
  /\ e = 0 /\ junk \in Garbage /\ val = junk

(* The powers that pow of the mathematical library returns. *)
Power(b) == LET pow[k \in Nat] == IF k = 0 THEN 1 ELSE b * pow[k - 1] IN pow

(* Mutant: the carry dropped. *)
AddDigits_NoCarry ==
  /\ phase = "add" /\ t1 # <<>> /\ t2 # <<>>
  /\ num' = Head(t1) + Head(t2)
  /\ l3' = <<num' % 10>> \o l3
  /\ t1' = Tail(t1) /\ t2' = Tail(t2)
  /\ UNCHANGED <<phase, num1, num2, binary>>

AddDigits ==
  /\ phase = "add" /\ t1 # <<>> /\ t2 # <<>>
  /\ num' = Head(t1) + Head(t2) + num \div 10
  /\ l3' = <<num' % 10>> \o l3
  /\ t1' = Tail(t1) /\ t2' = Tail(t2)
  /\ UNCHANGED <<phase, num1, num2, binary>>

(* One digit more of the longer number, or the last carry. *)
AddRest ==
  /\ phase = "add" /\ (t1 = <<>> \/ t2 = <<>>)
  /\ \/ t1 # <<>> /\ l3' = <<Head(t1) + num \div 10>> \o l3
     \/ t1 = <<>> /\ t2 # <<>> /\ l3' = <<Head(t2) + num \div 10>> \o l3
     \/ t1 = <<>> /\ t2 = <<>> /\ l3' = (IF num \div 10 # 0 THEN <<num \div 10>> \o l3 ELSE l3)
  /\ phase' = "toBinary"
  /\ UNCHANGED <<num1, num2, t1, t2, num, binary>>

NextBit ==
  /\ phase = "toBinary" /\ n # 0
  /\ bits' = <<n % 2>> \o bits /\ n' = n \div 2
  /\ UNCHANGED <<phase, num1, num2, sum, e, val, junk>>

(* reverseList at the head of getBinaryToDecimal. *)
ReverseBits ==
  /\ phase = "toBinary" /\ n = 0
  /\ bits' = Reverse(bits) /\ phase' = "toDecimal"
  /\ UNCHANGED <<num1, num2, sum, n, e, val, junk>>

AddBit ==
  /\ phase = "toDecimal" /\ e < Len(bits)
  /\ val' = val + bits[e + 1] * Power(2)[e] /\ e' = e + 1
  /\ UNCHANGED <<phase, num1, num2, sum, n, bits, junk>>

Finish ==
  /\ phase = "toDecimal" /\ e = Len(bits)
  /\ phase' = "done"
  /\ UNCHANGED <<num1, num2, sum, binary>>

Next == AddDigits \/ AddRest \/ NextBit \/ ReverseBits \/ AddBit \/ Finish

Spec == Init /\ [][Next]_vars

-----------------------------------------------------------------------------
(* The number that display shows: the data of the nodes one behind the other.
   Only the first may have two digits. *)
Shown(s) == FoldLeft(LAMBDA acc, d : 10 * acc + d, 0, s)

(* Type invariant. *)
TypeOK ==
  /\ phase \in {"add", "toBinary", "toDecimal", "done"}
  /\ num1 \in 1..MaxNum /\ num2 \in 1..MaxNum
  /\ t1 \in Seq(0..9) /\ t2 \in Seq(0..9) /\ num \in 0..19
  /\ l3 \in Seq(0..10) /\ \A i \in 2..Len(l3) : l3[i] <= 9
  /\ n \in 0..MaxNum /\ bits \in Seq({0, 1})
  /\ e \in Nat /\ val \in Int /\ junk \in Garbage

(* The invariant of getSum's loop: the digits so far and the carry are the sum
   of the digits taken from both numbers. *)
PartialSum ==
  phase = "add" =>
    LET power == Power(10)[Len(l3)]
    IN Shown(l3) + (num \div 10) * power = (num1 % power) + (num2 % power)

(* getSum is right for numbers of equal length, and as long as one has a single
   digit more than the other. *)
SumOfSimilar ==
  phase # "add" /\ Len(t1) + Len(t2) <= 1 => Shown(l3) = num1 + num2

(* getBinaryToDecimal takes back what getDecimalToBinary made, and adds what was
   in its uninitialised val. *)
RoundTrip == phase = "done" => val = num1 + junk

(* The arithmetic on lists, at every step and at its end. *)
NumbersRight == TypeOK /\ PartialSum /\ SumOfSimilar /\ RoundTrip
=============================================================================
