------------------------ MODULE ListQuestions_proofs ------------------------
(***************************************************************************)
(* Theorems about the questions on lists, for arrays of any length: how    *)
(* far the pointers go, which inputs make a program follow NULL, what each *)
(* program does to its heap, and what it returns.                          *)
(***************************************************************************)
EXTENDS MCLists_proofs, FiniteSetTheorems

(* The nodes of the first list, and of both lists, one behind the other. *)
Size == Len(list1)
Straight == [k \in 1..Size |-> IF k = Size THEN 0 ELSE k + 1]
Pair == [k \in 1..(Size + Len(list2)) |-> IF k = Size \/ k = Size + Len(list2) THEN 0 ELSE k + 1]
First == IF list1 = <<>> THEN 0 ELSE 1

InputTypes == list1 \in Seq(Values) /\ list2 \in Seq(Values) /\ arg \in Nat

(* The programs that follow no NULL whatever their input; what becomes of the two
   whose list has no end is part of their results. *)
Unsafe == OpenEnded \cup {"findmid", "reverse", "movelast", "findnode", "swap_two", "remove_node", "mergelist"}
Safe == prog \notin Unsafe => pc # "crashed"

(* The fast pointer is twice as far as the slow one, which is behind it in the list. *)
FindMidInv ==
  prog \in {"findmid", "ispalindrome"} =>
    /\ next = Straight
    /\ pc = "run" /\ list1 = <<>> => p = 0 /\ q = 0
    /\ pc = "run" /\ list1 # <<>> => p \in 1..Size /\ (q = 0 \/ (q \in 1..Size /\ q = 2 * p - 1))
    /\ prog = "findmid" /\ pc = "crashed" => list1 = <<>>
    /\ prog = "findmid" /\ pc = "done" => list1 # <<>>

(* The pointer ahead counts to arg, and then keeps that distance. *)
FindNodeInv ==
  prog = "findnode" =>
    /\ next = Straight
    /\ pc = "run" => /\ i \in 0..arg /\ i <= Size /\ p = First
                     /\ q = IF i < Size THEN i + 1 ELSE 0
    /\ pc = "both" => \/ p = 0 /\ q = 0 /\ arg \notin 1..Size
                      \/ /\ p \in 1..Size /\ p + arg <= Size + 1
                         /\ q = IF p + arg <= Size THEN p + arg ELSE 0
    /\ pc = "crashed" => arg \notin 1..Size
    /\ pc = "done" => arg \in 1..Size

(* The links from the leading pointer on are still those of createlist. *)
ReverseInv ==
  prog = "reverse" =>
    /\ next \in [1..Size -> 0..Size]
    /\ pc = "start" => next = Straight /\ head = First /\ p = First
    /\ pc = "run" => /\ list1 # <<>>
                     /\ q \in 0..Size /\ p \in 1..Size
                     /\ q # 0 => p = q - 1
                     /\ q # 0 => \A k \in q..Size : next[k] = IF k = Size THEN 0 ELSE k + 1
    /\ pc = "crashed" => list1 = <<>>
    /\ pc = "done" => list1 # <<>>

(* Only the test of an empty list matters. *)
MoveLastInv ==
  prog = "movelast" =>
    /\ pc = "start" => head = First
    /\ pc \in {"run", "done"} => list1 # <<>>
    /\ pc = "crashed" => list1 = <<>>

(* The pair starts at an odd place: links are never changed, only data. *)
SwapInv ==
  prog = "swap_two" =>
    /\ next = Straight
    /\ pc = "start" => head = First /\ p = First
    /\ pc = "run" => p \in 1..Size /\ p % 2 = 1 /\ q = next[p]
    /\ pc = "crashed" => list1 = <<>> \/ Size % 2 = 1
    /\ pc = "done" => list1 # <<>> /\ Size % 2 # 1

(* The trailing pointer is in the list and right behind the leading one, whatever
   was unlinked. *)
RemoveInv ==
  prog = "remove_node" =>
    /\ next \in [1..Size -> 0..Size]
    /\ pc = "start" => next = Straight /\ data = list1 /\ head = First /\ p = First
    /\ pc = "run" => p \in 1..Size /\ q \in 0..Size /\ q = next[p]
    /\ pc \in {"run", "done"} => list1 # <<>> /\ list1 # <<arg>>
    /\ pc = "crashed" => list1 = <<>> \/ list1 = <<arg>>

(* The second pointer has come as far as the pairs that were merged. *)
MergeInv ==
  prog = "mergelist" =>
    /\ next = Pair
    /\ pc = "run" => /\ i \in 0..Size /\ i <= Len(list2)
                     /\ q = IF i < Len(list2) THEN Size + 1 + i ELSE 0
    /\ pc = "crashed" => Len(list2) < Size
    /\ pc = "done" => ~(Len(list2) < Size)

(* Every program keeps what its next step relies on: the links it has not changed,
   and where its pointers are on them. *)
QuestionsInv ==
  /\ InputTypes /\ Safe
  /\ FindMidInv /\ FindNodeInv /\ ReverseInv /\ MoveLastInv /\ SwapInv /\ RemoveInv /\ MergeInv

(* createlist makes the straight lists that the walks rely on. *)
LEMMA QuestionsInit == Init => QuestionsInv
<1> SUFFICES ASSUME Init PROVE QuestionsInv
  OBVIOUS
<1>1. Lists \subseteq Seq(Values)
  BY LengthAssumption DEF Lists, SeqOf
<1>2. InputTypes
  <2>1. list1 \in Seq(Values)
    BY <1>1 DEF Init
  <2>2. list2 \in Seq(Values)
    <3>1. <<>> \in Seq(Values)
      OBVIOUS
    <3> QED
      BY <1>1, <3>1 DEF Init
  <2>3. arg \in Nat
    BY ArgsAssumption DEF Init
  <2> QED
    BY <2>1, <2>2, <2>3 DEF InputTypes
<1>3. Size \in Nat /\ (list1 = <<>> <=> Size = 0) /\ Len(list2) \in Nat /\ (list2 = <<>> <=> Len(list2) = 0)
  BY <1>2 DEF InputTypes, Size
<1>4. ASSUME prog \in {"findmid", "ispalindrome", "findnode", "reverse", "movelast", "swap_two", "remove_node"}
      PROVE  next = Straight /\ data = list1 /\ head = First /\ p = First /\ q = First
  <2>1. list2 = <<>> /\ prog \notin ExtraNode /\ prog \notin TwoLists
    BY <1>4 DEF Init, TwoLists, ExtraNode
  <2>2. data = list1
    <3>1. data = list1 \o <<>>
      BY <2>1 DEF Init, ExtraNode
    <3> QED
      BY <1>2, <3>1 DEF InputTypes
  <2>3. DOMAIN data = 1..Size /\ Len(data) = Size
    BY <1>2, <2>2 DEF InputTypes, Size
  <2>4. next = [k \in DOMAIN data |->
               CASE k = Len(data) -> IF prog = "visited" THEN k ELSE 0
                 [] k = Len(list1) /\ prog \in TwoLists -> 0
                 [] OTHER -> k + 1]
    BY DEF Init
  <2>5. next = Straight
    BY <2>1, <2>3, <2>4, <1>4 DEF Straight
  <2> QED
    BY <2>1, <2>2, <2>5 DEF Init, Head1, First
<1>5. ASSUME prog = "mergelist"
      PROVE  next = Pair /\ q = IF Len(list2) = 0 THEN 0 ELSE Size + 1
  <2>1. data = list1 \o list2 /\ q = Head2
    BY <1>5 DEF Init, ExtraNode, TwoLists
  <2>2. DOMAIN data = 1..(Size + Len(list2)) /\ Len(data) = Size + Len(list2)
    BY <1>2, <2>1 DEF InputTypes, Size
  <2>3. next = [k \in DOMAIN data |->
               CASE k = Len(data) -> IF prog = "visited" THEN k ELSE 0
                 [] k = Len(list1) /\ prog \in TwoLists -> 0
                 [] OTHER -> k + 1]
    BY DEF Init
  <2>4. next = Pair
    BY <2>2, <2>3, <1>5 DEF Pair, Size, TwoLists
  <2> QED
    BY <1>3, <2>1, <2>4 DEF Head2, Size
<1>6. (prog # "addlist" => i = 0) /\ pc = IF prog \in {"swap_two", "remove_node", "reverse", "movelast"} THEN "start" ELSE "run"
  BY DEF Init
<1>7. \A k \in 1..Size : Straight[k] \in 0..Size
  BY <1>3 DEF Straight
<1>8. Straight \in [1..Size -> 0..Size]
  BY <1>7 DEF Straight
<1>9. FindMidInv
  BY <1>3, <1>4, <1>6 DEF FindMidInv, First
<1>10. FindNodeInv
  BY <1>2, <1>3, <1>4, <1>6 DEF FindNodeInv, First, InputTypes
<1>11. ReverseInv
  BY <1>4, <1>6, <1>8 DEF ReverseInv
<1>12. MoveLastInv
  BY <1>4, <1>6 DEF MoveLastInv
<1>13. SwapInv
  BY <1>4, <1>6 DEF SwapInv
<1>14. RemoveInv
  BY <1>4, <1>6, <1>8 DEF RemoveInv
<1>15. MergeInv
  BY <1>3, <1>5, <1>6 DEF MergeInv
<1>16. Safe
  BY <1>6 DEF Safe
<1> QED
  BY <1>2, <1>9, <1>10, <1>11, <1>12, <1>13, <1>14, <1>15, <1>16 DEF QuestionsInv

(* A step disturbs the invariant of its own program only. *)
LEMMA OnlyIts ==
  ASSUME QuestionsInv, UNCHANGED input, Safe',
         prog \in {"findmid", "ispalindrome"} => FindMidInv',
         prog = "findnode" => FindNodeInv',
         prog = "reverse" => ReverseInv',
         prog = "movelast" => MoveLastInv',
         prog = "swap_two" => SwapInv',
         prog = "remove_node" => RemoveInv',
         prog = "mergelist" => MergeInv'
  PROVE  QuestionsInv'
BY DEF QuestionsInv, InputTypes, FindMidInv, FindNodeInv, ReverseInv, MoveLastInv, SwapInv,
       RemoveInv, MergeInv, input

(* A step of a program that follows no NULL, but for the distance of its pointers. *)
LEMMA SafeKeeps ==
  ASSUME QuestionsInv,
         \/ GetLength \/ GetIntersection \/ Compare \/ DeleteNode \/ Seg \/ Partition
         \/ AddList \/ FinList \/ DeepCopy \/ ConvertBinary \/ Visit
  PROVE  QuestionsInv'
<1>1. UNCHANGED input /\ (prog \in OpenEnded \/ pc' # "crashed")
      /\ prog \notin {"findmid", "ispalindrome", "reverse", "movelast", "findnode", "swap_two", "remove_node", "mergelist"}
  <2>1. CASE GetLength
    BY <2>1 DEF GetLength, At, Walk, Go, ReturnList, Return
  <2>2. CASE GetIntersection
    BY <2>2 DEF GetIntersection, At, Walk, Go, ReturnList, Return
  <2>3. CASE Compare
    BY <2>3 DEF Compare, At, Walk, Go, ReturnList, Return
  <2>4. CASE DeleteNode
    BY <2>4 DEF DeleteNode, At, Walk, Go, ReturnList, Return
  <2>5. CASE Seg
    BY <2>5 DEF Seg, At, Walk, Go, ReturnList, Return
  <2>6. CASE Partition
    BY <2>6 DEF Partition, At, Walk, Go, ReturnList, Return
  <2>7. CASE AddList
    BY <2>7 DEF AddList, OpenEnded, At, Walk, Go, ReturnList, Return
  <2>8. CASE FinList
    BY <2>8 DEF FinList, OpenEnded, At, Walk, Go, ReturnList, Return
  <2>9. CASE DeepCopy
    BY <2>9 DEF DeepCopy, OpenEnded, At, Walk, Go, ReturnList, Return
  <2>10. CASE ConvertBinary
    BY <2>10 DEF ConvertBinary, At, Walk, Go, ReturnList, Return
  <2>11. CASE Visit
    BY <2>11 DEF Visit, At, Walk, Go, ReturnList, Return
  <2> QED
    BY <2>1, <2>2, <2>3, <2>4, <2>5, <2>6, <2>7, <2>8, <2>9, <2>10, <2>11
<1> QED
  BY <1>1, OnlyIts DEF Safe, Unsafe, input

(* The lengths, and what the links of a straight list lead to. *)
LEMMA Sizes ==
  ASSUME QuestionsInv
  PROVE  /\ Size \in Nat /\ Len(list2) \in Nat /\ arg \in Nat
         /\ list1 = <<>> <=> Size = 0
         /\ First = IF Size = 0 THEN 0 ELSE 1
         /\ Straight \in [1..Size -> 0..Size]
         /\ \A k \in 1..Size : Straight[k] = IF k = Size THEN 0 ELSE k + 1
<1>1. Size \in Nat /\ Len(list2) \in Nat /\ arg \in Nat /\ (list1 = <<>> <=> Size = 0)
  BY DEF QuestionsInv, InputTypes, Size
<1>2. \A k \in 1..Size : (IF k = Size THEN 0 ELSE k + 1) \in 0..Size
  BY <1>1
<1> QED
  BY <1>1, <1>2 DEF First, Straight

(* Find_Middle_Element. *)
LEMMA FindMidKeeps ==
  ASSUME QuestionsInv, FindMid PROVE QuestionsInv'
<1>1. prog = "findmid" /\ pc = "run" /\ UNCHANGED input
  BY DEF FindMid, At, Walk, Return, Crash, Go
<1> SUFFICES FindMidInv'
  BY <1>1, OnlyIts DEF Safe, Unsafe, input
<1>2. next = Straight /\ (Size = 0 => p = 0 /\ q = 0)
      /\ (Size # 0 => p \in 1..Size /\ (q = 0 \/ (q \in 1..Size /\ q = 2 * p - 1)))
  BY <1>1, Sizes DEF QuestionsInv, FindMidInv
<1>3. CASE q # 0 /\ next[q] # 0
  <2>1. Walk(next[p], next[next[q]])
    BY <1>3 DEF FindMid
  <2>2. /\ q \in 1..Size /\ q = 2 * p - 1 /\ q # Size /\ p \in 1..Size /\ next[q] = q + 1
        /\ next[next[q]] = IF q + 1 = Size THEN 0 ELSE q + 2
    BY <1>2, <1>3, Sizes
  <2>3. next[p] = p + 1 /\ p + 1 \in 1..Size
    BY <1>2, <2>2, Sizes
  <2>4. p' = p + 1 /\ q' = (IF q + 1 = Size THEN 0 ELSE q + 2) /\ UNCHANGED <<next, pc>>
    BY <2>1, <2>2, <2>3 DEF Walk, heap
  <2>5. p' \in 1..Size /\ (q' = 0 \/ (q' \in 1..Size /\ q' = 2 * p' - 1)) /\ list1 # <<>>
    BY <2>2, <2>3, <2>4, Sizes
  <2> QED
    BY <1>1, <1>2, <2>4, <2>5 DEF FindMidInv, input, Straight, Size
<1>4. CASE ~(q # 0 /\ next[q] # 0) /\ p # 0
  <2>1. Return(<<data[p]>>)
    BY <1>4 DEF FindMid
  <2> QED
    BY <1>1, <1>2, <1>4, <2>1, Sizes DEF FindMidInv, input, heap, Return, Straight, Size
<1>5. CASE ~(q # 0 /\ next[q] # 0) /\ p = 0
  <2>1. Crash
    BY <1>5 DEF FindMid
  <2> QED
    BY <1>1, <1>2, <1>5, <2>1, Sizes DEF FindMidInv, input, heap, Crash, Go, Straight, Size
<1> QED
  BY <1>3, <1>4, <1>5

(* Palindrome_Linked_List finds the middle the same way. *)
LEMMA IsPalindromeKeeps ==
  ASSUME QuestionsInv, IsPalindrome PROVE QuestionsInv'
<1>1. prog = "ispalindrome" /\ pc' # "crashed" /\ UNCHANGED <<input, next>>
  BY DEF IsPalindrome, At, Walk, Return, Go, heap
<1>2. next = Straight
  BY <1>1 DEF QuestionsInv, FindMidInv
<1>3. ASSUME pc' = "run"
      PROVE  /\ list1 = <<>> => p' = 0 /\ q' = 0
             /\ list1 # <<>> => p' \in 1..Size /\ (q' = 0 \/ (q' \in 1..Size /\ q' = 2 * p' - 1))
  <2>1. pc = "run" /\ q # 0 /\ next[q] # 0 /\ Walk(next[p], next[next[q]])
    BY <1>3 DEF IsPalindrome, At, Walk, Return, Go
  <2>2. list1 # <<>> /\ p \in 1..Size /\ q \in 1..Size /\ q = 2 * p - 1
    BY <1>1, <2>1 DEF QuestionsInv, FindMidInv
  <2>3. /\ q # Size /\ next[q] = q + 1
        /\ next[next[q]] = IF q + 1 = Size THEN 0 ELSE q + 2
    BY <1>2, <2>1, <2>2, Sizes
  <2>4. next[p] = p + 1 /\ p + 1 \in 1..Size
    BY <1>2, <2>2, <2>3, Sizes
  <2>5. p' = p + 1 /\ q' = IF q + 1 = Size THEN 0 ELSE q + 2
    BY <2>1, <2>3, <2>4 DEF Walk
  <2> QED
    BY <2>2, <2>3, <2>4, <2>5, Sizes
<1>4. FindMidInv'
  BY <1>1, <1>2, <1>3 DEF FindMidInv, input, Straight, Size
<1> QED
  BY <1>1, <1>4, OnlyIts DEF Safe, Unsafe, input

(* The n-th node from the end. *)
LEMMA FindNodeKeeps ==
  ASSUME QuestionsInv, FindNode PROVE QuestionsInv'
<1>1. prog = "findnode" /\ UNCHANGED <<input, next>>
  BY DEF FindNode, At, Walk, Return, Crash, Go, heap
<1> SUFFICES FindNodeInv'
  BY <1>1, OnlyIts DEF Safe, Unsafe, input
<1>2. next = Straight
  BY <1>1 DEF QuestionsInv, FindNodeInv
<1>3. CASE pc = "run"
  <2>1. i \in 0..arg /\ i <= Size /\ p = First /\ q = IF i < Size THEN i + 1 ELSE 0
    BY <1>1, <1>3 DEF QuestionsInv, FindNodeInv
  <2>2. CASE i < arg /\ q # 0
    <3>1. q' = next[q] /\ i' = i + 1 /\ UNCHANGED <<p, pc>>
      BY <1>3, <2>2 DEF FindNode, At
    <3>2. i + 1 \in 0..arg /\ i + 1 <= Size /\ q' = IF i + 1 < Size THEN i + 1 + 1 ELSE 0
      BY <1>2, <2>1, <2>2, <3>1, Sizes
    <3> QED
      BY <1>1, <1>2, <1>3, <2>1, <3>1, <3>2 DEF FindNodeInv, input, First, Straight, Size
  <2>3. CASE i < arg /\ q = 0
    <3>1. pc' = "crashed" /\ arg \notin 1..Size
      BY <1>3, <2>1, <2>3, Sizes DEF FindNode, At, Crash, Go
    <3> QED
      BY <1>1, <1>2, <3>1 DEF FindNodeInv, input, Straight, Size
  <2>4. CASE ~(i < arg)
    <3>1. pc' = "both" /\ UNCHANGED <<p, q>>
      BY <1>3, <2>4 DEF FindNode, At, Go
    <3>2. \/ p = 0 /\ q = 0 /\ arg \notin 1..Size
          \/ /\ p \in 1..Size /\ p + arg <= Size + 1
             /\ q = IF p + arg <= Size THEN p + arg ELSE 0
      BY <2>1, <2>4, Sizes
    <3> QED
      BY <1>1, <1>2, <3>1, <3>2 DEF FindNodeInv, input, Straight, Size
  <2> QED
    BY <2>2, <2>3, <2>4
<1>4. CASE pc = "both"
  <2>1. \/ p = 0 /\ q = 0 /\ arg \notin 1..Size
        \/ /\ p \in 1..Size /\ p + arg <= Size + 1
           /\ q = IF p + arg <= Size THEN p + arg ELSE 0
    BY <1>1, <1>4 DEF QuestionsInv, FindNodeInv
  <2>2. CASE q # 0
    <3>1. p' = next[p] /\ q' = next[q] /\ UNCHANGED pc
      BY <1>4, <2>2 DEF FindNode, At, Walk
    <3>2. \/ p' = 0 /\ q' = 0 /\ arg \notin 1..Size
          \/ /\ p' \in 1..Size /\ p' + arg <= Size + 1
             /\ q' = IF p' + arg <= Size THEN p' + arg ELSE 0
      <4>1. p \in 1..Size /\ p + arg <= Size /\ q = p + arg /\ q \in 1..Size
        BY <2>1, <2>2, Sizes
      <4>2. p' = (IF p = Size THEN 0 ELSE p + 1) /\ q' = IF q = Size THEN 0 ELSE q + 1
        BY <1>2, <3>1, <4>1, Sizes
      <4> QED BY <4>1, <4>2, Sizes
    <3> QED
      BY <1>1, <1>2, <1>4, <3>1, <3>2 DEF FindNodeInv, input, Straight, Size
  <2>3. CASE q = 0 /\ p # 0
    <3>1. pc' = "done" /\ arg \in 1..Size
      BY <1>4, <2>1, <2>3, Sizes DEF FindNode, At, Return
    <3> QED
      BY <1>1, <1>2, <3>1 DEF FindNodeInv, input, Straight, Size
  <2>4. CASE q = 0 /\ p = 0
    <3>1. pc' = "crashed" /\ arg \notin 1..Size
      BY <1>4, <2>1, <2>4, Sizes DEF FindNode, At, Crash, Go
    <3> QED
      BY <1>1, <1>2, <3>1 DEF FindNodeInv, input, Straight, Size
  <2> QED
    BY <2>2, <2>3, <2>4
<1> QED
  BY <1>3, <1>4 DEF FindNode, At

(* A link is turned only behind the leading pointer. *)
LEMMA ReverseKeeps ==
  ASSUME QuestionsInv, ReverseStart \/ ReverseLoop PROVE QuestionsInv'
<1>1. prog = "reverse" /\ UNCHANGED input
  BY DEF ReverseStart, ReverseLoop, At, Second, Crash, Go
<1> SUFFICES ReverseInv' /\ Safe'
  BY <1>1, OnlyIts
<1>2. Safe'
  BY <1>1 DEF Safe, Unsafe, input
<1>3. CASE ReverseStart
  <2>1. next = Straight /\ head = First /\ p = First
    BY <1>1, <1>3 DEF QuestionsInv, ReverseInv, ReverseStart, At
  <2>2. CASE head = 0
    <3>1. pc' = "crashed" /\ UNCHANGED next /\ list1 = <<>>
      BY <1>3, <2>1, <2>2, Sizes DEF ReverseStart, Second, Crash, Go, heap
    <3> QED
      BY <1>1, <1>2, <2>1, <3>1, Sizes DEF ReverseInv, input, Straight, Size
  <2>3. CASE head # 0
    <3>1. pc' = "run" /\ q' = next[head] /\ UNCHANGED <<next, p>>
      BY <1>3, <2>3 DEF ReverseStart, Second, heap
    <3>2. /\ list1 # <<>> /\ Size \in Nat /\ q' \in 0..Size /\ p' \in 1..Size
          /\ q' # 0 => p' = q' - 1
      BY <2>1, <2>3, <3>1, Sizes
    <3>3. next \in [1..Size -> 0..Size] /\ \A k \in q'..Size : q' # 0 => next[k] = IF k = Size THEN 0 ELSE k + 1
      BY <2>1, <3>2, Sizes
    <3> QED
      BY <1>1, <1>2, <3>1, <3>2, <3>3 DEF ReverseInv, input, Size
  <2> QED
    BY <2>2, <2>3
<1>4. CASE ReverseLoop
  <2>1. /\ next \in [1..Size -> 0..Size] /\ list1 # <<>> /\ q \in 0..Size /\ p \in 1..Size
        /\ q # 0 => p = q - 1
        /\ q # 0 => \A k \in q..Size : next[k] = IF k = Size THEN 0 ELSE k + 1
    BY <1>1, <1>4 DEF QuestionsInv, ReverseInv, ReverseLoop, At
  <2>2. CASE q # 0
    <3>1. next' = [next EXCEPT ![q] = p] /\ p' = q /\ q' = next[q] /\ pc' = "run"
      BY <1>4, <2>2 DEF ReverseLoop, At
    <3>2. next[q] = IF q = Size THEN 0 ELSE q + 1
      BY <2>1, <2>2, Sizes
    <3>3. /\ next' \in [1..Size -> 0..Size] /\ q' \in 0..Size /\ p' \in 1..Size
          /\ q' # 0 => p' = q' - 1
          /\ q' # 0 => \A k \in q'..Size : next'[k] = IF k = Size THEN 0 ELSE k + 1
      BY <2>1, <2>2, <3>1, <3>2, Sizes
    <3> QED
      BY <1>1, <1>2, <2>1, <3>1, <3>3 DEF ReverseInv, input, Size
  <2>3. CASE q = 0
    <3>1. next' = [next EXCEPT ![head] = 0] /\ pc' = "done"
      BY <1>4, <2>3 DEF ReverseLoop, At
    <3>2. next' \in [1..Size -> 0..Size]
      <4>1. 0 \in 0..Size
        BY Sizes
      <4> QED
        BY <2>1, <3>1, <4>1
    <3> QED
      BY <1>1, <1>2, <2>1, <3>1, <3>2 DEF ReverseInv, input, Size
  <2> QED
    BY <2>2, <2>3
<1> QED
  BY <1>3, <1>4

(* Every step but the first follows links of a list that is not empty. *)
LEMMA MoveLastKeeps ==
  ASSUME QuestionsInv, MoveLast PROVE QuestionsInv'
<1>1. prog = "movelast" /\ UNCHANGED input
  BY DEF MoveLast, At, Walk, ReturnList, Crash, Go
<1>2. /\ pc = "start" => IF head = 0 THEN pc' = "crashed" ELSE pc' \in {"run", "done"}
      /\ pc = "run" => pc' \in {"run", "done"}
      /\ pc \in {"start", "run"}
  BY DEF MoveLast, At, Walk, ReturnList, Crash, Go
<1>3. MoveLastInv'
  BY <1>1, <1>2, Sizes DEF QuestionsInv, MoveLastInv, input
<1> QED
  BY <1>1, <1>3, OnlyIts DEF Safe, Unsafe, input

(* The pairs end at NULL if and only if the list has an odd length. *)
LEMMA SwapTwoKeeps ==
  ASSUME QuestionsInv, SwapTwo PROVE QuestionsInv'
<1>1. prog = "swap_two" /\ UNCHANGED <<input, next>>
  BY DEF SwapTwo, At, Second, Crash, Go, heap
<1> SUFFICES SwapInv'
  BY <1>1, OnlyIts DEF Safe, Unsafe, input
<1>2. next = Straight
  BY <1>1 DEF QuestionsInv, SwapInv
<1>3. CASE pc = "start"
  <2>1. head = First /\ p = First /\ Second("run")
    BY <1>1, <1>3 DEF QuestionsInv, SwapInv, SwapTwo, At
  <2>2. CASE head = 0
    <3>1. pc' = "crashed" /\ list1 = <<>>
      BY <2>1, <2>2, Sizes DEF Second, Crash, Go
    <3> QED
      BY <1>1, <1>2, <3>1 DEF SwapInv, input, Straight, Size
  <2>3. CASE head # 0
    <3>1. pc' = "run" /\ q' = next[p] /\ p' = 1 /\ p = 1 /\ 1 \in 1..Size
      BY <2>1, <2>3, Sizes DEF Second
    <3>2. next' = next /\ p' % 2 = 1 /\ Size' = Size
      BY <1>1, <3>1 DEF input, Size
    <3>3. next' = Straight'
      BY <1>1, <1>2, <3>2 DEF Straight, input, Size
    <3> QED
      BY <1>1, <3>1, <3>2, <3>3 DEF SwapInv
  <2> QED
    BY <2>2, <2>3
<1>4. CASE pc = "run"
  <2>1. p \in 1..Size /\ p % 2 = 1 /\ q = IF p = Size THEN 0 ELSE p + 1
    BY <1>1, <1>2, <1>4, Sizes DEF QuestionsInv, SwapInv
  <2>2. CASE q = 0
    <3>1. pc' = "crashed" /\ Size % 2 = 1
      BY <1>4, <2>1, <2>2, Sizes DEF SwapTwo, At, Crash, Go
    <3> QED
      BY <1>1, <1>2, <3>1 DEF SwapInv, input, Straight, Size
  <2>3. CASE q # 0 /\ next[q] = 0
    <3>1. pc' = "done" /\ q = Size /\ q = p + 1 /\ list1 # <<>>
      BY <1>2, <1>4, <2>1, <2>3, Sizes DEF SwapTwo, At
    <3>2. p \in Nat /\ Size = p + 1
      BY <2>1, <3>1, Sizes
    <3>3. Size % 2 # 1
      BY <2>1, <3>2
    <3> QED
      BY <1>1, <1>2, <3>1, <3>3 DEF SwapInv, input, Straight, Size
  <2>4. CASE q # 0 /\ next[q] # 0
    <3>1. p' = next[next[p]] /\ q' = next[next[q]] /\ UNCHANGED pc
      BY <1>4, <2>4 DEF SwapTwo, At
    <3>2. q = p + 1 /\ q # Size /\ q \in 1..Size /\ next[p] = q /\ next[q] = p + 2 /\ p + 2 \in 1..Size
      BY <1>2, <2>1, <2>4, Sizes
    <3>3. p' = p + 2 /\ (p + 2) % 2 = 1 /\ q' = next[p']
      BY <2>1, <3>1, <3>2
    <3> QED
      BY <1>1, <1>2, <1>4, <3>1, <3>2, <3>3 DEF SwapInv, input, Straight, Size
  <2> QED
    BY <2>2, <2>3, <2>4
<1> QED
  BY <1>3, <1>4 DEF SwapTwo, At

(* The head is removed once at most; then nodes behind the trailing pointer are. *)
LEMMA RemoveNodeKeeps ==
  ASSUME QuestionsInv, RemoveNode PROVE QuestionsInv'
<1>1. prog = "remove_node" /\ UNCHANGED input
  BY DEF RemoveNode, At, Second, Walk, ReturnList, Crash, Go
<1> SUFFICES RemoveInv'
  BY <1>1, OnlyIts DEF Safe, Unsafe, input
<1>2. next \in [1..Size -> 0..Size]
  BY <1>1 DEF QuestionsInv, RemoveInv
<1>3. CASE pc = "start"
  <2>1. next = Straight /\ data = list1 /\ head = First /\ p = First /\ list1 \in Seq(Values)
    BY <1>1, <1>3 DEF QuestionsInv, RemoveInv, InputTypes
  <2>2. CASE head # 0 /\ data[head] = arg
    <3>1. /\ head' = next[head] /\ p' = head' /\ UNCHANGED next
          /\ IF head' = 0 THEN pc' = "crashed" ELSE pc' = "run" /\ q' = next[head']
      BY <1>3, <2>2 DEF RemoveNode, At
    <3>2. head = 1 /\ 1 \in 1..Size /\ next[1] = IF Size = 1 THEN 0 ELSE 2
      BY <2>1, <2>2, Sizes
    <3>3. list1 = <<arg>> <=> Size = 1
      BY <2>1, <2>2, <3>2 DEF Size
    <3>4. list1 # <<>>
      BY <3>2, Sizes
    <3>5. CASE head' = 0
      BY <1>1, <1>2, <3>1, <3>2, <3>3, <3>5 DEF RemoveInv, input, Size
    <3>6. CASE head' # 0
      <4>1. head' = 2 /\ 2 \in 1..Size /\ next[2] \in 0..Size
        BY <1>2, <3>1, <3>2, <3>6, Sizes
      <4> QED
        BY <1>1, <1>2, <3>1, <3>2, <3>3, <3>4, <3>6, <4>1, Sizes DEF RemoveInv, input, Size
    <3> QED
      BY <3>5, <3>6
  <2>3. CASE ~(head # 0 /\ data[head] = arg)
    <3>1. Second("run")
      BY <1>3, <2>3 DEF RemoveNode, At
    <3>2. CASE head = 0
      <4>1. pc' = "crashed" /\ list1 = <<>> /\ UNCHANGED next
        BY <2>1, <3>1, <3>2, Sizes DEF Second, Crash, Go, heap
      <4> QED
        BY <1>1, <1>2, <4>1 DEF RemoveInv, input, Size
    <3>3. CASE head # 0
      <4>1. q' = next[head] /\ pc' = "run" /\ UNCHANGED <<p, next>>
        BY <3>1, <3>3 DEF Second, heap
      <4>2. p = 1 /\ head = 1 /\ 1 \in 1..Size /\ next[1] \in 0..Size /\ list1 # <<>>
        BY <1>2, <2>1, <3>3, Sizes
      <4>3. list1 # <<arg>>
        BY <2>1, <2>3, <4>2
      <4> QED
        BY <1>1, <1>2, <4>1, <4>2, <4>3 DEF RemoveInv, input, Size
    <3> QED
      BY <3>2, <3>3
  <2> QED
    BY <2>2, <2>3
<1>4. CASE pc = "run"
  <2>1. p \in 1..Size /\ q \in 0..Size /\ q = next[p] /\ list1 # <<>> /\ list1 # <<arg>>
    BY <1>1, <1>4 DEF QuestionsInv, RemoveInv
  <2>2. CASE q = 0
    <3>1. pc' = "done" /\ UNCHANGED next
      BY <1>4, <2>2 DEF RemoveNode, At, ReturnList, Go, heap
    <3> QED
      BY <1>1, <1>2, <2>1, <3>1 DEF RemoveInv, input, Size
  <2>3. CASE q # 0 /\ data[q] = arg
    <3>1. next' = [next EXCEPT ![p] = next[q]] /\ q' = next[q] /\ UNCHANGED <<p, pc>>
      BY <1>4, <2>3 DEF RemoveNode, At
    <3>2. next[q] \in 0..Size
      BY <1>2, <2>1, <2>3
    <3>3. next' \in [1..Size -> 0..Size] /\ q' = next'[p] /\ q' \in 0..Size
      BY <1>2, <2>1, <3>1, <3>2
    <3> QED
      BY <1>1, <1>4, <2>1, <3>1, <3>3 DEF RemoveInv, input, Size
  <2>4. CASE q # 0 /\ data[q] # arg
    <3>1. p' = next[p] /\ q' = next[q] /\ UNCHANGED <<next, pc>>
      BY <1>4, <2>4 DEF RemoveNode, At, Walk, heap
    <3>2. p' \in 1..Size /\ q' \in 0..Size /\ q' = next[p']
      BY <1>2, <2>1, <2>4, <3>1
    <3> QED
      BY <1>1, <1>2, <1>4, <2>1, <3>1, <3>2 DEF RemoveInv, input, Size
  <2> QED
    BY <2>2, <2>3, <2>4
<1> QED
  BY <1>3, <1>4 DEF RemoveNode, At

(* The loop counts the first list and follows the second. *)
LEMMA MergeListKeeps ==
  ASSUME QuestionsInv, MergeList PROVE QuestionsInv'
<1>1. prog = "mergelist" /\ pc = "run" /\ UNCHANGED <<input, next>>
  BY DEF MergeList, At, ReturnList, Crash, Go, heap
<1> SUFFICES MergeInv'
  BY <1>1, OnlyIts DEF Safe, Unsafe, input
<1> DEFINE m == Len(list2)
<1>2. /\ next = Pair /\ i \in 0..Size /\ i <= m
      /\ q = IF i < m THEN Size + 1 + i ELSE 0
  BY <1>1 DEF QuestionsInv, MergeInv
<1>3. CASE i = Size
  <2>1. pc' = "done" /\ ~(m < Size)
    BY <1>1, <1>2, <1>3, Sizes DEF MergeList, At, ReturnList, Go, Size
  <2> QED
    BY <1>1, <1>2, <2>1 DEF MergeInv, input, Pair, Size
<1>4. CASE i # Size /\ q = 0
  <2>1. pc' = "crashed" /\ m < Size
    BY <1>1, <1>2, <1>4, Sizes DEF MergeList, At, Crash, Go, Size
  <2> QED
    BY <1>1, <1>2, <2>1 DEF MergeInv, input, Pair, Size
<1>5. CASE i # Size /\ q # 0
  <2>1. q' = next[q] /\ i' = i + 1 /\ UNCHANGED pc
    BY <1>1, <1>2, <1>5, Sizes DEF MergeList, At, Size
  <2>2. i < m /\ q = Size + 1 + i /\ q \in 1..(Size + m)
    BY <1>2, <1>5, Sizes
  <2>3. Pair[q] = IF q = Size \/ q = Size + m THEN 0 ELSE q + 1
    BY <2>2 DEF Pair
  <2>4. q # Size /\ (q = Size + m <=> ~(i + 1 < m)) /\ q + 1 = Size + 1 + (i + 1)
    BY <1>2, <2>2, Sizes
  <2>5. i + 1 \in 0..Size /\ i + 1 <= m
    BY <1>2, <1>5, <2>2, Sizes
  <2>6. q' = IF i + 1 < m THEN Size + 1 + (i + 1) ELSE 0
    BY <1>2, <2>1, <2>3, <2>4
  <2> QED
    BY <1>1, <1>2, <2>1, <2>5, <2>6 DEF MergeInv, input, Pair, Size
<1> QED
  BY <1>3, <1>4, <1>5

(* The invariant of the pointers is inductive. *)
LEMMA QuestionsStep == QuestionsInv /\ [Next]_vars => QuestionsInv'
<1> SUFFICES ASSUME QuestionsInv, [Next]_vars PROVE QuestionsInv'
  OBVIOUS
<1>1. CASE UNCHANGED vars
  BY <1>1 DEF vars, input, heap, QuestionsInv, InputTypes, Safe, FindMidInv, FindNodeInv, ReverseInv,
     MoveLastInv, SwapInv, RemoveInv, MergeInv, Straight, Pair, First, Size
<1> QED
  BY <1>1, SafeKeeps, FindMidKeeps, FindNodeKeeps, IsPalindromeKeeps, ReverseKeeps,
     MoveLastKeeps, SwapTwoKeeps, RemoveNodeKeeps, MergeListKeeps DEF Next

-----------------------------------------------------------------------------
Heap == Len(data) \in Nat /\ next \in [1..Len(data) -> 0..Len(data)]

(* The last element of a sequence is at its length. *)
LEMMA LastIs ==
  ASSUME NEW S, NEW s \in Seq(S), s # <<>>
  PROVE  Last(s) = s[Len(s)] /\ Last(s) \in S
BY DEF Last

(* A behind s. *)
LEMMA AppendIs ==
  ASSUME NEW S, NEW s \in Seq(S), NEW y \in S
  PROVE  /\ Append(s, y) \in Seq(S) /\ Len(Append(s, y)) = Len(s) + 1 /\ Append(s, y) # <<>>
         /\ Append(s, y)[Len(s) + 1] = y /\ \A k \in 1..Len(s) : Append(s, y)[k] = s[k]
         /\ Last(Append(s, y)) = y
BY DEF Last

(* What NodesFrom does: it follows the links from x, up to as many nodes as it likes. *)
After(x, c) == IF c = <<>> THEN x ELSE next[Last(c)]
More(x, c) == IF After(x, c) = 0 THEN c ELSE Append(c, After(x, c))
Chain(f, x) ==
  /\ f \in [0..(Len(data) + 1) -> Seq(1..Len(data))] /\ f[0] = <<>>
  /\ \A k \in 1..(Len(data) + 1) : f[k] = More(x, f[k - 1])

(* The walk one node longer: NodesFrom adds what follows its last node, if anything does. *)
LEMMA MoreIs ==
  ASSUME Heap, NEW x \in 0..Len(data), NEW c \in Seq(1..Len(data))
  PROVE  More(x, c) \in Seq(1..Len(data))
<1>1. After(x, c) \in 0..Len(data)
  <2>1. c # <<>> => Last(c) \in 1..Len(data)
    BY LastIs
  <2> QED BY <2>1 DEF Heap, After
<1>2. ASSUME NEW y \in 1..Len(data) PROVE Append(c, y) \in Seq(1..Len(data))
  OBVIOUS
<1>3. After(x, c) # 0 => After(x, c) \in 1..Len(data)
  BY <1>1 DEF Heap
<1> QED BY <1>2, <1>3 DEF More

(* Chain walks like NodesFrom: one node more at each number, up to the number of nodes. *)
LEMMA ChainIs ==
  ASSUME Heap, NEW x \in 0..Len(data)
  PROVE  \E f : Chain(f, x) /\ f[Len(data) + 1] = NodesFrom(x)
<1> DEFINE m == Len(data) + 1
           X == 0..m
           S == Seq(1..Len(data))
           Eq(f, k) == IF k = 0 THEN <<>> ELSE More(x, f[k - 1])
           C == CHOOSE f : f = [k \in X |-> Eq(f, k)]
           rank == [k \in X |-> k]
           pred == [k \in X |-> IF k = 0 THEN 0 ELSE k - 1]
           step == [z \in X \X S |-> More(x, z[2])]
           Z == {0}
<1>0. m \in Nat /\ m >= 1
  BY DEF Heap
<1>1. Descends(X, Z, pred, rank)
  <2> HIDE DEF m
  <2> QED BY <1>0 DEF Descends
<1>2. ASSUME NEW c \in S PROVE More(x, c) \in S
  BY MoreIs
<1>3. step \in [X \X S -> S] /\ <<>> \in S
  <2> HIDE DEF S
  <2>1. <<>> \in S
    BY DEF S
  <2> QED BY <1>2, <2>1
<1>4. \E f \in [X -> S] : Recursive(f, X, Z, pred, <<>>, step)
  <2> HIDE DEF rank, pred, step, Z, S, X
  <2> QED BY <1>1, <1>3, Recursion
<1>5. PICK f \in [X -> S] : Recursive(f, X, Z, pred, <<>>, step)
  BY <1>4
<1>6. ASSUME NEW k \in X PROVE f[k] = Eq(f, k)
  <2>1. k # 0 => f[k - 1] \in S /\ k - 1 \in X
    <3> HIDE DEF S, m
    <3> QED BY <1>0
  <2> HIDE DEF S, X
  <2> QED BY <1>5, <2>1 DEF Recursive
<1>7. f = [k \in X |-> Eq(f, k)]
  <2> HIDE DEF S, X, Eq
  <2> QED BY <1>6
<1>8. C = [k \in X |-> Eq(C, k)]
  BY <1>7
<1> HIDE DEF C
<1> DEFINE W == {k \in Nat : k \in X => C[k] \in S}
<1>9. ASSUME NEW k \in Nat, \A j \in Nat : j < k => j \in W
      PROVE  k \in W
  <2> SUFFICES ASSUME k \in X PROVE C[k] \in S
    OBVIOUS
  <2>1. CASE k = 0
    BY <1>8, <2>1
  <2>2. CASE k # 0
    <3> HIDE DEF S, m
    <3>1. k - 1 \in Nat /\ k - 1 < k /\ k - 1 \in X
      BY <2>2, <1>0
    <3>2. C[k - 1] \in S
      BY <3>1, <1>9
    <3>3. C[k] = More(x, C[k - 1])
      BY <2>2, <1>8
    <3> QED BY <3>2, <3>3, <1>2
  <2> QED BY <2>1, <2>2
<1> HIDE DEF W
<1>10. W = Nat
  <2>1. W \in SUBSET Nat
    BY DEF W
  <2> QED BY <2>1, <1>9, Induction
<1>11. C \in [X -> S]
  <2>1. \A k \in X : k \in Nat
    BY <1>0
  <2>2. \A k \in X : C[k] \in S
    <3> HIDE DEF S, X
    <3> QED BY <1>10, <2>1 DEF W
  <2> HIDE DEF S, X, Eq
  <2> QED BY <1>8, <2>2
<1>12. C[m] = NodesFrom(x)
  BY DEF NodesFrom, C, More, After
<1>13. C[0] = <<>> /\ \A k \in 1..m : C[k] = More(x, C[k - 1])
  <2> HIDE DEF m
  <2>1. 0 \in X /\ \A k \in 1..m : k \in X /\ k # 0
    BY <1>0
  <2> QED BY <1>8, <2>1
<1> HIDE DEF C
<1> QED BY <1>11, <1>12, <1>13 DEF Chain

(* A path from x whose nodes are t. *)
Path(x, t) ==
  /\ t \in Seq(1..Len(data)) /\ t # <<>> /\ t[1] = x
  /\ \A k \in 1..(Len(t) - 1) : next[t[k]] = t[k + 1]

(* What is in a sequence. *)
LEMMA ElementsOf ==
  ASSUME NEW S, NEW s \in Seq(S)
  PROVE  Len(s) \in Nat /\ DOMAIN s = 1..Len(s) /\ s = [k \in 1..Len(s) |-> s[k]] /\ \A k \in 1..Len(s) : s[k] \in S
OBVIOUS

(* The first nodes from x are those of a path. *)
LEMMA PathIs ==
  ASSUME Heap, NEW x \in 0..Len(data), NEW t, Path(x, t),
         NEW f, Chain(f, x),
         NEW k \in 1..(Len(data) + 1), k <= Len(t)
  PROVE  f[k] = [j \in 1..k |-> t[j]]
<1> DEFINE W == {c \in Nat : c \in 1..(Len(data) + 1) /\ c <= Len(t) => f[c] = [j \in 1..c |-> t[j]]}
<1>1. ASSUME NEW c \in Nat, \A m \in Nat : m < c => m \in W
      PROVE  c \in W
  <2> SUFFICES ASSUME c \in 1..(Len(data) + 1), c <= Len(t) PROVE f[c] = [j \in 1..c |-> t[j]]
    OBVIOUS
  <2>0. t \in Seq(1..Len(data)) /\ Len(t) \in Nat /\ t[c] \in 1..Len(data) /\ t[c] # 0
    BY DEF Path, Heap
  <2>1. CASE c = 1
    <3>1. f[1] = Append(<<>>, x) /\ t[1] = x /\ x # 0
      <4>1. f[1] = More(x, f[1 - 1]) /\ f[0] = <<>>
        BY <2>1 DEF Chain
      <4>2. t[1] = x /\ x # 0
        BY <2>0, <2>1 DEF Path
      <4>3. f[1 - 1] = <<>>
        BY <4>1
      <4>4. After(x, <<>>) = x
        BY DEF After
      <4> QED BY <4>1, <4>2, <4>3, <4>4 DEF More
    <3>2. Append(<<>>, x) = [j \in 1..1 |-> x]
      OBVIOUS
    <3>3. [j \in 1..1 |-> x] = [j \in 1..1 |-> t[j]]
      BY <3>1
    <3> QED BY <2>1, <3>1, <3>2, <3>3
  <2>2. CASE c # 1
    <3> DEFINE b == c - 1
               u == [j \in 1..b |-> t[j]]
    <3>1. b \in Nat /\ b < c /\ b \in 1..(Len(data) + 1) /\ b <= Len(t) /\ b \in 1..(Len(t) - 1) /\ b + 1 = c
      BY <2>0, <2>2 DEF Heap
    <3>2. f[b] = u
      BY <1>1, <3>1
    <3>3. u \in Seq(1..Len(data)) /\ Len(u) = b /\ u # <<>> /\ u[b] = t[b]
      <4> HIDE DEF b
      <4>0. b <= Len(t)
        BY <3>1
      <4>1. \A j \in 1..b : t[j] \in 1..Len(data)
        <5>1. \A j \in 1..b : j \in 1..Len(t)
          BY <2>0, <3>1, <4>0
        <5>2. \A j \in 1..Len(t) : t[j] \in 1..Len(data)
          BY <2>0, ElementsOf
        <5> QED BY <5>1, <5>2
      <4>2. u \in [1..b -> 1..Len(data)]
        BY <4>1
      <4>3. u \in Seq(1..Len(data)) /\ Len(u) = b
        BY <4>2, <3>1
      <4>4. b >= 1
        BY <2>2, <3>1
      <4> QED BY <3>1, <4>3, <4>4
    <3>4. Last(u) = t[b]
      BY <3>3 DEF Last
    <3>5. next[t[b]] = t[c]
      BY <3>1 DEF Path
    <3>6. f[c] = Append(u, t[c])
      <4> HIDE DEF u
      <4>1. f[c] = More(x, f[c - 1])
        BY DEF Chain
      <4> QED BY <2>0, <3>2, <3>3, <3>4, <3>5, <4>1 DEF More, After
    <3>7. Append(u, t[c]) = [j \in 1..c |-> t[j]]
      <4> HIDE DEF b
      <4>1. Append(u, t[c]) = [j \in 1..(b + 1) |-> IF j <= b THEN u[j] ELSE t[c]]
        <5> HIDE DEF u
        <5>1. u \in Seq(1..Len(data)) /\ t[c] \in 1..Len(data)
          BY <2>0, <3>3
        <5>2. Len(u) = b
          BY <3>3
        <5> HIDE DEF b
        <5> QED BY <5>1, <5>2
      <4> QED BY <4>1, <3>1
    <3> QED BY <3>6, <3>7
  <2> QED BY <2>1, <2>2
<1> HIDE DEF W
<1>2. W = Nat
  <2>1. W \in SUBSET Nat
    BY DEF W
  <2> QED BY <2>1, <1>1, Induction
<1>3. k \in Nat /\ k \in W
  BY <1>2
<1> QED BY <1>3 DEF W

(* Nothing is behind NULL. *)
LEMMA NodesOfNull == ASSUME Heap PROVE NodesFrom(0) = <<>> /\ Reach(0) = {}
<1>1. PICK f : Chain(f, 0) /\ f[Len(data) + 1] = NodesFrom(0)
  BY ChainIs DEF Heap
<1> DEFINE W == {c \in Nat : c \in 0..(Len(data) + 1) => f[c] = <<>>}
<1>2. ASSUME NEW c \in Nat, \A m \in Nat : m < c => m \in W
      PROVE  c \in W
  <2>1. CASE c = 0
    BY <1>1, <2>1 DEF Chain
  <2>2. CASE c # 0
    <3> SUFFICES ASSUME c \in 1..(Len(data) + 1) PROVE f[c] = <<>>
      BY <2>2
    <3>1. c - 1 \in Nat /\ c - 1 < c /\ c - 1 \in 0..(Len(data) + 1)
      BY DEF Heap
    <3>2. f[c - 1] = <<>>
      BY <1>2, <3>1
    <3> QED BY <1>1, <3>2 DEF Chain, More, After
  <2> QED BY <2>1, <2>2
<1> HIDE DEF W
<1>3. W = Nat
  <2>1. W \in SUBSET Nat
    BY DEF W
  <2> QED BY <2>1, <1>2, Induction
<1>4. Len(data) + 1 \in W
  BY <1>3 DEF Heap
<1>5. NodesFrom(0) = <<>>
  BY <1>1, <1>4 DEF W, Heap
<1> QED BY <1>5 DEF Reach, ToSet

(* What has come behind stays behind. *)
LEMMA MoreKeeps ==
  ASSUME Heap, NEW x \in 0..Len(data), NEW c \in Seq(1..Len(data))
  PROVE  ToSet(c) \subseteq ToSet(More(x, c))
<1>1. CASE After(x, c) = 0
  BY <1>1 DEF More
<1>2. CASE After(x, c) # 0
  <2>1. After(x, c) \in 0..Len(data)
    <3>1. c # <<>> => Last(c) \in 1..Len(data)
      BY LastIs
    <3> QED BY <3>1 DEF Heap, After
  <2> DEFINE y == After(x, c)
             u == Append(c, y)
  <2>2. y \in 1..Len(data)
    BY <1>2, <2>1 DEF Heap
  <2> HIDE DEF y
  <2>3. u \in Seq(1..Len(data)) /\ Len(u) = Len(c) + 1 /\ \A k \in 1..Len(c) : u[k] = c[k]
    BY <2>2, AppendIs
  <2>4. DOMAIN c = 1..Len(c) /\ DOMAIN u = 1..(Len(c) + 1) /\ Len(c) \in Nat
    BY <2>3
  <2>5. ToSet(c) \subseteq ToSet(u)
    <3> HIDE DEF u
    <3> QED BY <2>3, <2>4 DEF ToSet
  <2>6. More(x, c) = u
    BY <1>2 DEF More, y, u
  <2> QED BY <2>5, <2>6
<1> QED BY <1>1, <1>2

(* The nodes of a path are in reach of its first, and a path that ends has all of them. *)
LEMMA PathReach ==
  ASSUME Heap, NEW x \in 0..Len(data), NEW t, Path(x, t), Len(t) <= Len(data) + 1
  PROVE  \A k \in 1..Len(t) : t[k] \in Reach(x)
<1>1. PICK f : Chain(f, x) /\ f[Len(data) + 1] = NodesFrom(x)
  BY ChainIs
<1>2. Len(t) \in 1..(Len(data) + 1)
  BY DEF Path, Heap
<1>3. f[Len(t)] = [j \in 1..Len(t) |-> t[j]]
  BY <1>1, <1>2, PathIs
<1> DEFINE T == {t[k] : k \in 1..Len(t)}
           W == {c \in Nat : c \in Len(t)..(Len(data) + 1) => T \subseteq ToSet(f[c])}
<1>4. ASSUME NEW c \in Nat, \A m \in Nat : m < c => m \in W
      PROVE  c \in W
  <2> SUFFICES ASSUME c \in Len(t)..(Len(data) + 1) PROVE T \subseteq ToSet(f[c])
    OBVIOUS
  <2>1. CASE c = Len(t)
    BY <2>1, <1>3 DEF ToSet
  <2>2. CASE c # Len(t)
    <3>1. c - 1 \in Nat /\ c - 1 < c /\ c - 1 \in Len(t)..(Len(data) + 1) /\ c \in 1..(Len(data) + 1)
      BY <1>2, <2>2 DEF Heap
    <3> HIDE DEF T
    <3>2. T \subseteq ToSet(f[c - 1])
      BY <1>4, <3>1
    <3>3. f[c - 1] \in Seq(1..Len(data)) /\ f[c] = More(x, f[c - 1])
      <4>1. c - 1 \in 0..(Len(data) + 1)
        BY <1>2, <3>1 DEF Heap
      <4> QED BY <1>1, <3>1, <4>1 DEF Chain
    <3> QED BY <3>2, <3>3, MoreKeeps
  <2> QED BY <2>1, <2>2
<1> HIDE DEF W
<1>5. W = Nat
  <2>1. W \in SUBSET Nat
    BY DEF W
  <2> QED BY <2>1, <1>4, Induction
<1>6. Len(data) + 1 \in W
  BY <1>5 DEF Heap
<1>7. T \subseteq ToSet(NodesFrom(x))
  <2>1. Len(data) + 1 \in Len(t)..(Len(data) + 1)
    BY <1>2 DEF Heap
  <2> HIDE DEF T
  <2>2. T \subseteq ToSet(f[Len(data) + 1])
    BY <1>6, <2>1 DEF W
  <2> QED BY <1>1, <2>2
<1> QED BY <1>7 DEF Reach

(* A path ends at a node that nothing follows. *)
LEMMA PathEnds ==
  ASSUME Heap, NEW x \in 0..Len(data), NEW t, Path(x, t), Len(t) <= Len(data) + 1,
         next[t[Len(t)]] = 0
  PROVE  NodesFrom(x) = t
<1>1. PICK f : Chain(f, x) /\ f[Len(data) + 1] = NodesFrom(x)
  BY ChainIs
<1>2. Len(t) \in 1..(Len(data) + 1) /\ t \in Seq(1..Len(data))
  BY DEF Path, Heap
<1>3. f[Len(t)] = t
  <2>1. f[Len(t)] = [j \in 1..Len(t) |-> t[j]]
    BY <1>1, <1>2, PathIs
  <2>2. t = [j \in 1..Len(t) |-> t[j]]
    BY <1>2
  <2> QED BY <2>1, <2>2
<1> DEFINE W == {c \in Nat : c \in Len(t)..(Len(data) + 1) => f[c] = t}
<1>4. ASSUME NEW c \in Nat, \A m \in Nat : m < c => m \in W
      PROVE  c \in W
  <2> SUFFICES ASSUME c \in Len(t)..(Len(data) + 1) PROVE f[c] = t
    OBVIOUS
  <2>1. CASE c = Len(t)
    BY <2>1, <1>3
  <2>2. CASE c # Len(t)
    <3>1. c - 1 \in Nat /\ c - 1 < c /\ c - 1 \in Len(t)..(Len(data) + 1) /\ c \in 1..(Len(data) + 1)
      BY <1>2, <2>2 DEF Heap
    <3>2. f[c - 1] = t
      BY <1>4, <3>1
    <3>3. f[c] = More(x, t)
      BY <1>1, <3>1, <3>2 DEF Chain
    <3>4. After(x, t) = 0
      <4>1. t # <<>> /\ Last(t) = t[Len(t)]
        BY <1>2, LastIs DEF Path
      <4> QED BY <4>1 DEF After
    <3> QED BY <3>3, <3>4 DEF More
  <2> QED BY <2>1, <2>2
<1> HIDE DEF W
<1>5. W = Nat
  <2>1. W \in SUBSET Nat
    BY DEF W
  <2> QED BY <2>1, <1>4, Induction
<1>6. Len(data) + 1 \in W
  BY <1>5 DEF Heap
<1> QED BY <1>1, <1>2, <1>6 DEF W, Heap

(* Only nodes of a set that the links do not leave are in reach of one of them. *)
LEMMA ClosedReach ==
  ASSUME Heap, NEW S \in SUBSET (1..Len(data)), NEW x \in S \cup {0},
         \A k \in S : next[k] \in S \cup {0}
  PROVE  Reach(x) \subseteq S
<1>0. x \in 0..Len(data)
  BY DEF Heap
<1>1. PICK f : Chain(f, x) /\ f[Len(data) + 1] = NodesFrom(x)
  BY <1>0, ChainIs
<1> DEFINE W == {c \in Nat : c \in 0..(Len(data) + 1) => f[c] \in Seq(S)}
<1>2. ASSUME NEW c \in Nat, \A m \in Nat : m < c => m \in W
      PROVE  c \in W
  <2> SUFFICES ASSUME c \in 0..(Len(data) + 1) PROVE f[c] \in Seq(S)
    OBVIOUS
  <2>1. CASE c = 0
    <3>1. <<>> \in Seq(S)
      OBVIOUS
    <3> QED BY <1>1, <2>1, <3>1 DEF Chain
  <2>2. CASE c # 0
    <3>1. c - 1 \in Nat /\ c - 1 < c /\ c - 1 \in 0..(Len(data) + 1) /\ c \in 1..(Len(data) + 1)
      BY <2>2 DEF Heap
    <3> DEFINE b == f[c - 1]
    <3>2. b \in Seq(S)
      BY <1>2, <3>1
    <3>3. f[c] = More(x, b)
      BY <1>1, <3>1 DEF Chain
    <3> HIDE DEF b
    <3>4. After(x, b) \in S \cup {0}
      <4>1. b # <<>> => Last(b) \in S
        BY <3>2, LastIs
      <4> QED BY <4>1 DEF After
    <3>5. \A y \in S : Append(b, y) \in Seq(S)
      BY <3>2
    <3> QED BY <3>2, <3>3, <3>4, <3>5 DEF More
  <2> QED BY <2>1, <2>2
<1> HIDE DEF W
<1>3. W = Nat
  <2>1. W \in SUBSET Nat
    BY DEF W
  <2> QED BY <2>1, <1>2, Induction
<1>4. Len(data) + 1 \in W
  BY <1>3 DEF Heap
<1>5. NodesFrom(x) \in Seq(S)
  BY <1>1, <1>4 DEF W, Heap
<1> QED BY <1>5 DEF Reach, ToSet

(* In reach are nodes. *)
LEMMA ReachIsNodes ==
  ASSUME Heap, NEW x \in 0..Len(data)
  PROVE  Reach(x) \subseteq 1..Len(data)
<1>1. x \in (1..Len(data)) \cup {0} /\ \A k \in 1..Len(data) : next[k] \in (1..Len(data)) \cup {0}
  BY DEF Heap
<1> QED BY <1>1, ClosedReach

-----------------------------------------------------------------------------
(* What the programs of the questions do to their heap, and what they return: an
   invariant for each program, of the form: so many nodes are behind the pointer,
   and this is what was made of them. *)
Node(k) == IF k <= Size THEN k ELSE 0                   \* node k of the first list
Node2(k) == IF k <= Len(list2) THEN Size + k ELSE 0     \* node k of the second
Picked(s, T) ==     \* Pick, as far as an index
  LET picked[k \in 0..Len(s)] ==
        IF k = 0 THEN <<>> ELSE IF k \in T THEN Append(picked[k - 1], s[k]) ELSE picked[k - 1]
  IN picked

(* The heap as createlist left it: one list, two lists, a list with a node more. *)
OneList == data = list1 /\ next = Straight /\ head = First /\ freed = {}
BothLists == data = list1 \o list2 /\ next = Pair /\ head = First /\ freed = {}
LongerList ==
  /\ data = Append(list1, arg) /\ head = 1 /\ freed = {}
  /\ next = [k \in 1..(Size + 1) |-> IF k = Size + 1 THEN 0 ELSE k + 1]

Inputs ==
  /\ prog \in Programs /\ list1 \in Lists /\ list2 \in Lists /\ arg \in Args \cup {0} /\ loose \in {0, Wild}
  /\ prog \notin TwoLists => list2 = <<>>
  /\ prog = "binary" => list1 \in Seq({0, 1})

LengthResult ==
  prog = "getlength" =>
    /\ OneList /\ q = First /\ i = 0
    /\ acc \in 0..Size /\ p = Node(acc + 1)
    /\ \/ pc = "run" /\ out = <<>>
       \/ pc = "done" /\ out = <<Size>>

(* The fast pointer after c iterations. *)
Halfway == \E c \in 0..Size : 2 * c <= Size /\ p = Node(c + 1) /\ q = Node(2 * c + 1)

MidResult ==
  prog = "findmid" =>
    /\ OneList /\ i = 0 /\ acc = 0 /\ Halfway
    /\ \/ pc \in {"run", "crashed"} /\ out = <<>>
       \/ pc = "done" /\ list1 # <<>> /\ out = <<list1[Size \div 2 + 1]>>

NodeResult ==
  prog = "findnode" =>
    /\ OneList /\ p \in 0..Size /\ q \in 0..Size /\ i \in Nat /\ acc = 0
    /\ \/ pc \in {"run", "both", "crashed"} /\ out = <<>>
       \/ pc = "done" /\ arg \in 1..Size /\ out = <<list1[Size + 1 - arg]>>

Shorter == IF Size < Len(list2) THEN Size ELSE Len(list2)

(* Elements of the same index have differed so far. *)
IntersectionResult ==
  prog = "getintersection" =>
    /\ BothLists /\ i = 0 /\ acc = 0
    /\ \E c \in 0..Shorter :
         /\ p = Node(c + 1) /\ q = Node2(c + 1)
         /\ \A k \in 1..c : list1[k] # list2[k]
         /\ \/ pc = "run" /\ out = <<>>
            \/ pc = "done" /\ c = Shorter /\ out = <<-1>>
            \/ pc = "done" /\ c < Shorter /\ list1[c + 1] = list2[c + 1] /\ out = <<list1[c + 1]>>

(* They have been equal so far. *)
CompareResult ==
  prog = "compare" =>
    /\ BothLists /\ i = 0 /\ acc = 0
    /\ \E c \in 0..Shorter :
         /\ p = Node(c + 1) /\ q = Node2(c + 1)
         /\ \A k \in 1..c : list1[k] = list2[k]
         /\ \/ pc = "run" /\ out = <<>>
            \/ pc = "done" /\ c = Shorter /\ out = <<1>>
            \/ pc = "done" /\ c < Shorter /\ list1[c + 1] # list2[c + 1] /\ out = <<0>>

(* The copy holds the second half, the last element in front; of it there is left
   what has not been compared. *)
Half == Size \div 2
PalindromeResult ==
  prog = "ispalindrome" =>
    /\ OneList /\ i = 0 /\ acc = 0 /\ p \in 0..Size /\ q \in 0..Size
    /\ \/ pc = "run" /\ Halfway /\ out = <<>>
       \/ /\ pc = "copy"
          /\ \E c \in Half..Size : p = Node(c + 1) /\ out = [k \in 1..(c - Half) |-> list1[c + 1 - k]]
       \/ /\ pc = "compare"
          /\ \E c \in 0..(Size - Half) :
               /\ p = Node(c + 1) /\ out = [k \in 1..(Size - Half - c) |-> list1[Size + 1 - c - k]]
               /\ \A k \in 1..c : list1[k] = list1[Size + 1 - k]
       \/ pc = "done" /\ out = <<1>> /\ \A k \in 1..Size : list1[k] = list1[Size + 1 - k]
       \/ pc = "done" /\ out = <<0>> /\ \E k \in 1..Size : list1[k] # list1[Size + 1 - k]

(* The odd nodes behind the pointer are linked to each other. *)
DeleteResult ==
  prog = "deletenode" =>
    /\ data = list1 /\ head = First /\ freed = {} /\ q = First /\ i = 0 /\ acc = 0 /\ out = <<>>
    /\ \E c \in 0..Size :
         /\ 2 * c <= Size /\ p = Node(2 * c + 1)
         /\ next = [k \in 1..Size |-> Node(IF Odd(k) /\ k <= 2 * c THEN k + 2 ELSE k + 1)]
         /\ pc = "run" \/ (pc = "done" /\ Size < 2 * c + 2)

(* The nodes behind the pointer are turned, but for the first. *)
ReverseResult ==
  prog = "reverse" =>
    /\ data = list1 /\ freed = {} /\ i = 0 /\ acc = 0 /\ out = <<>>
    /\ \/ pc \in {"start", "crashed"} /\ OneList /\ p = First /\ q = First
       \/ /\ pc = "run" /\ head = 1
          /\ \E c \in 1..Size :
               /\ p = c /\ q = Node(c + 1)
               /\ next = [k \in 1..Size |-> IF 1 < k /\ k <= c THEN k - 1 ELSE Node(k + 1)]
       \/ /\ pc = "done" /\ list1 # <<>> /\ head = Size /\ p = Size /\ q = 0
          /\ next = [k \in 1..Size |-> k - 1]

MoveLastResult ==
  prog = "movelast" =>
    /\ data = list1 /\ freed = {} /\ q = First /\ i = 0 /\ acc = 0 /\ out = <<>>
    /\ \/ pc \in {"start", "crashed"} /\ OneList /\ p = First
       \/ pc = "run" /\ OneList /\ p \in 1..(Size - 1)
       \/ /\ pc = "done" /\ p \in 1..Size /\ head = Size
          /\ next = [k \in 1..Size |-> IF k = Size THEN (IF Size = 1 THEN 0 ELSE 1)
                                       ELSE IF k = Size - 1 THEN 0 ELSE k + 1]

(* The pairs behind the pointer have changed places. *)
Swapped(c) == [k \in 1..Size |-> list1[IF k <= 2 * c THEN (IF Odd(k) THEN k + 1 ELSE k - 1) ELSE k]]
SwapResult ==
  prog = "swap_two" =>
    /\ next = Straight /\ head = First /\ freed = {} /\ i = 0 /\ acc = 0 /\ out = <<>>
    /\ \/ pc = "start" /\ data = list1 /\ p = First /\ q = First
       \/ /\ pc \in {"run", "done", "crashed"} /\ p \in 0..Size /\ q \in 0..Size
          /\ \E c \in 0..Size :
               /\ 2 * c <= Size /\ data = Swapped(c)
               /\ pc = "run" => p = 2 * c + 1 /\ q = Node(2 * c + 2) /\ 2 * c < Size
               /\ pc = "done" => 2 * c = Size

(* Of the first c nodes those that stay are t, the last of them p; the others are freed. *)
Kept ==
  IF list1[1] # arg THEN {k \in 1..Size : list1[k] # arg}
  ELSE {2} \cup {k \in 3..Size : list1[k] # arg}
KeptSoFar(c, t) ==
  /\ t # <<>> /\ t[1] = head /\ t[Len(t)] = p
  /\ \A j \in 1..Len(t) : t[j] <= c /\ t[j] \in Kept
  /\ \A k \in 1..c : k \in Kept => \E j \in 1..Len(t) : t[j] = k
  /\ \A j, k \in 1..Len(t) : j < k => t[j] < t[k]
  /\ \A j \in 1..(Len(t) - 1) : next[t[j]] = t[j + 1]
  /\ next[p] = Node(c + 1) /\ \A k \in (c + 1)..Size : next[k] = Node(k + 1)
  /\ Picked(list1, Kept)[c] = [j \in 1..Len(t) |-> list1[t[j]]]
  /\ freed = (1..c) \ Kept
RemoveResult ==
  prog = "remove_node" =>
    /\ data = list1 /\ next \in [1..Size -> 0..Size] /\ i = 0 /\ acc = 0 /\ out = <<>>
    /\ \/ pc \in {"start", "crashed"} /\ OneList /\ p = First /\ q = First
       \/ pc = "crashed" /\ Size = 1 /\ next = Straight /\ freed = {1} /\ head = 0 /\ p = 0 /\ q = 0
       \/ \E c \in 1..Size : \E t \in Seq(1..Size) :
            /\ KeptSoFar(c, t) /\ q = Node(c + 1)
            /\ pc = "run" \/ (pc = "done" /\ c = Size)

(* The numbers before both pointers are even and then odd, or odd and then even. *)
Split(a, b) ==
  \/ a = 1 /\ b = 1
  \/ /\ b < a
     /\ \A k \in 1..(b - 1) : ~Odd(data[k])
     /\ \A k \in b..(a - 1) : Odd(data[k])
  \/ /\ a < b
     /\ \A k \in 1..(a - 1) : Odd(data[k])
     /\ \A k \in a..(b - 1) : ~Odd(data[k])
SegResult ==
  prog = "seg" =>
    /\ next = Straight /\ head = First /\ freed = {} /\ i = 0 /\ acc = 0 /\ out = <<>>
    /\ data \in [1..Size -> Values]
    /\ \A x \in Values : Count(data, x) = Count(list1, x)
    /\ \E a, b \in 1..(Size + 1) :
         /\ p = Node(a) /\ q = Node(b) /\ Split(a, b)
         /\ pc = "run" \/ (pc = "done" /\ (b < a => a = Size + 1) /\ (a < b => b = Size + 1) /\ (a = b => Size = 0))

(* The pairs of the first c nodes of both lists, the smaller number in front. *)
Small(k) == IF list1[k] < list2[k] THEN list1[k] ELSE list2[k]
Large(k) == IF list1[k] < list2[k] THEN list2[k] ELSE list1[k]
Pairs(c) == [k \in 1..(2 * c) |-> IF Odd(k) THEN Small((k + 1) \div 2) ELSE Large(k \div 2)]
MergeResult ==
  prog = "mergelist" =>
    /\ BothLists /\ acc = 0
    /\ i \in 0..Shorter /\ p = Node(i + 1) /\ q = Node2(i + 1) /\ out = Pairs(i)
    /\ pc \in {"run", "crashed"} \/ (pc = "done" /\ i = Size)

Less == {k \in 1..Size : list1[k] < arg}
NotLess == {k \in 1..Size : list1[k] >= arg}
PartitionResult ==
  prog = "partition" =>
    /\ OneList /\ q = First /\ acc = 0
    /\ \E c \in 0..Size :
         /\ p = Node(c + 1) /\ i = Len(Picked(list1, Less)[c])
         /\ out = Picked(list1, Less)[c] \o Picked(list1, NotLess)[c]
         /\ pc = "run" \/ (pc = "done" /\ c = Size)

(* Whether one of the first c digits of a list, or of both lists, is not 0: then
   the sum has a node. *)
Positive(s, c) == \E k \in 1..c : s[k] > 0
SomeDigit == Positive(list1, Size) \/ Positive(list2, Len(list2))

(* The total of a list, c of its digits read, and what it is of up to two. *)
ReadSoFar(s, c) ==
  /\ acc \in Nat /\ i \in Nat /\ i > 0
  /\ acc > 0 <=> Positive(s, c)
  /\ c = 0 => acc = 0 /\ i = 1
  /\ c = 1 => acc = s[1] /\ i = 10
  /\ c = 2 => acc = 10 * s[1] + s[2]
AddResult ==
  prog = "addlist" =>
    /\ BothLists /\ q = Node2(1)
    /\ \/ pc = "run" /\ out = <<>> /\ \E c \in 0..Size : p = Node(c + 1) /\ ReadSoFar(list1, c)
       \/ /\ pc = "second" /\ out \in Seq(Nat) /\ Len(out) = 1 /\ (Size <= 2 => out[1] = Number(list1))
          /\ out[1] > 0 <=> Positive(list1, Size)
          /\ \E c \in 0..Len(list2) : p = Node2(c + 1) /\ ReadSoFar(list2, c)
       \/ /\ pc \in {"digits", "done", "crashed"} /\ p = 0 /\ acc \in Nat /\ i \in Nat /\ out \in Seq(0..9)
          /\ pc = "digits" => (acc > 0 \/ out # <<>> <=> SomeDigit)
          /\ pc = "done" => acc = 0 /\ ~(loose # 0 /\ SomeDigit)
          /\ pc = "crashed" => acc = 0 /\ loose # 0 /\ SomeDigit
          /\ Size <= 2 /\ Len(list2) <= 2 =>
               acc * Pow(10, Len(out)) + Number(out) = Number(list1) + Number(list2)

CopyResult ==
  prog = "deepcopy" =>
    /\ LongerList /\ q = 1 /\ i = 0 /\ acc = 0
    /\ p \in 1..(Size + 1)
    /\ \/ pc = "run" /\ out = [k \in 1..(p - 1) |-> list1[k]]
       \/ pc = EndOfPrint /\ p = Size + 1 /\ out = Append(list1, arg)

(* The bits read so far, those that fell out of an unsigned int left out. *)
BinaryResult ==
  prog = "binary" =>
    /\ LongerList /\ q = 1 /\ i = 0
    /\ \E c \in 0..(Size + 1) :
         /\ p = (IF c <= Size THEN c + 1 ELSE 0)
         /\ acc = IF c <= Size THEN Bits(SubSeq(list1, 1, c)) % UIntSize
                  ELSE Or((2 * (Bits(list1) % UIntSize)) % UIntSize, arg)
         /\ \/ pc = "run" /\ out = <<>>
            \/ pc = "done" /\ c = Size + 1 /\ out = <<acc \div 2>>

(* The nodes from the pointer on are not marked, but perhaps the last. *)
VisitResult ==
  prog = "visited" =>
    /\ head = 1 /\ freed = {} /\ q = 1 /\ i = 0 /\ acc = 0 /\ out = <<>>
    /\ p \in 1..(Size + 1) /\ data \in [1..(Size + 1) -> Nat]
    /\ \A k \in p..Size : data[k] = 0
    /\ pc \in {"run", "done"}
    /\ next = [k \in 1..(Size + 1) |->
                 IF k <= Size THEN k + 1 ELSE IF pc = "done" THEN 0 ELSE Size + 1]

ResultsInv ==
  /\ Inputs
  /\ LengthResult /\ MidResult /\ NodeResult /\ IntersectionResult /\ CompareResult /\ PalindromeResult
  /\ DeleteResult /\ ReverseResult /\ MoveLastResult /\ SwapResult /\ RemoveResult /\ SegResult
  /\ MergeResult /\ PartitionResult /\ AddResult /\ CopyResult /\ BinaryResult /\ VisitResult

-----------------------------------------------------------------------------
(* The lengths, and the lists that createlist makes of them. *)
LEMMA InputFacts ==
  ASSUME Inputs
  PROVE  /\ Size \in Nat /\ Len(list2) \in Nat /\ arg \in Nat /\ Values \subseteq 0..9
         /\ list1 \in Seq(Values) /\ list2 \in Seq(Values) /\ list1 \in Seq(Int) /\ list2 \in Seq(Int)
         /\ DOMAIN list1 = 1..Size
         /\ list1 = <<>> <=> Size = 0
         /\ list2 = <<>> <=> Len(list2) = 0
         /\ First = Node(1)
         /\ Straight = [k \in 1..Size |-> Node(k + 1)]
         /\ \A k \in 1..Size : list1[k] \in Values
         /\ \A k \in 1..Len(list2) : list2[k] \in Values
<1>1. Lists \subseteq Seq(Values)
  BY LengthAssumption DEF Lists, SeqOf
<1>2. list1 \in Seq(Values) /\ list2 \in Seq(Values)
  BY <1>1 DEF Inputs
<1>3. Values \subseteq 0..9
  BY ValuesAssumption
<1>4. list1 \in Seq(Int) /\ list2 \in Seq(Int)
  <2>1. ASSUME NEW s \in Seq(Values) PROVE s \in Seq(Int)
    <3>1. s \in [1..Len(s) -> Values] /\ Len(s) \in Nat
      OBVIOUS
    <3>2. Values \subseteq Int
      BY <1>3
    <3>3. \A k \in 1..Len(s) : s[k] \in Int
      BY <3>1, <3>2
    <3> QED
      BY <3>1, <3>3
  <2> QED
    BY <1>2, <2>1
<1>5. arg \in Nat
  BY ArgsAssumption, UIntAssumption DEF Inputs
<1>6. Size \in Nat /\ Len(list2) \in Nat /\ DOMAIN list1 = 1..Size /\ (list1 = <<>> <=> Size = 0) /\ (list2 = <<>> <=> Len(list2) = 0)
  BY <1>2 DEF Size
<1>7. First = Node(1)
  BY <1>6 DEF First, Node
<1>8. Straight = [k \in 1..Size |-> Node(k + 1)]
  BY <1>6 DEF Straight, Node
<1>9. \A k \in 1..Size : list1[k] \in Values
  BY <1>2, <1>6
<1>10. \A k \in 1..Len(list2) : list2[k] \in Values
  BY <1>2, <1>6
<1> QED
  BY <1>2, <1>3, <1>4, <1>5, <1>6, <1>7, <1>8, <1>9, <1>10

(* A digit that is not 0, by its place or by itself. *)
LEMMA SomeDigitIs ==
  ASSUME Inputs
  PROVE  SomeDigit <=> \E d \in ToSet(list1 \o list2) : d > 0
<1> DEFINE s == list1 \o list2
           m == Len(list2)
<1>1. /\ list1 \in Seq(Int) /\ list2 \in Seq(Int) /\ Size = Len(list1) /\ Size \in Nat /\ m \in Nat
  BY InputFacts DEF Size
<1>2. /\ DOMAIN s = 1..(Size + m)
      /\ \A k \in 1..Size : s[k] = list1[k]
      /\ \A k \in 1..m : s[Size + k] = list2[k]
  BY <1>1
<1>3. ToSet(s) = {s[k] : k \in 1..(Size + m)}
  BY <1>2 DEF ToSet
<1>4. \A k \in 1..(Size + m) : k \in 1..Size \/ (k - Size \in 1..m /\ k = Size + (k - Size))
  BY <1>1
<1>5. (\A k \in 1..Size : k \in 1..(Size + m)) /\ \A k \in 1..m : Size + k \in 1..(Size + m)
  BY <1>1
<1> HIDE DEF s, m
<1>6. (\E d \in ToSet(s) : d > 0) <=> \E k \in 1..(Size + m) : s[k] > 0
  BY <1>3
<1>7. ASSUME NEW k \in 1..(Size + m), s[k] > 0 PROVE Positive(list1, Size) \/ Positive(list2, m)
  BY <1>2, <1>4, <1>7 DEF Positive
<1>8. ASSUME Positive(list1, Size) \/ Positive(list2, m) PROVE \E k \in 1..(Size + m) : s[k] > 0
  BY <1>2, <1>5, <1>8 DEF Positive
<1> QED BY <1>6, <1>7, <1>8 DEF SomeDigit, s, m

(* What the elements of a list that are picked are, as far as an index. *)
LEMMA PickedIs ==
  ASSUME NEW S, NEW s \in Seq(S), NEW T
  PROVE  /\ Picked(s, T) \in [0..Len(s) -> Seq(S)] /\ Picked(s, T)[0] = <<>>
         /\ \A k \in 1..Len(s) :
              Picked(s, T)[k] = IF k \in T THEN Append(Picked(s, T)[k - 1], s[k]) ELSE Picked(s, T)[k - 1]
         /\ Pick(s, T) = Picked(s, T)[Len(s)]
<1> DEFINE X == 0..Len(s)
           SS == Seq(S)
           More1(k, c) == IF k \in T THEN Append(c, s[k]) ELSE c
           Eq(f, k) == IF k = 0 THEN <<>> ELSE More1(k, f[k - 1])
           C == CHOOSE f : f = [k \in X |-> Eq(f, k)]
           rank == [k \in X |-> k]
           pred == [k \in X |-> IF k = 0 THEN 0 ELSE k - 1]
           step == [z \in X \X SS |-> IF z[1] = 0 THEN <<>> ELSE More1(z[1], z[2])]
           Z == {0}
<1>0. Len(s) \in Nat /\ <<>> \in SS
  OBVIOUS
<1>1. Descends(X, Z, pred, rank)
  BY <1>0 DEF Descends
<1>2. ASSUME NEW c \in SS, NEW k \in X, k # 0 PROVE More1(k, c) \in SS
  <2>1. s[k] \in S
    BY <1>0, <1>2
  <2>2. Append(c, s[k]) \in SS
    BY <2>1
  <2> QED BY <2>2
<1>3. step \in [X \X SS -> SS]
  <2> HIDE DEF SS, X, More1
  <2> QED BY <1>0, <1>2
<1>4. \E f \in [X -> SS] : Recursive(f, X, Z, pred, <<>>, step)
  <2> HIDE DEF rank, pred, step, Z, SS, X
  <2> QED BY <1>0, <1>1, <1>3, Recursion
<1>5. PICK f \in [X -> SS] : Recursive(f, X, Z, pred, <<>>, step)
  BY <1>4
<1>6. ASSUME NEW k \in X PROVE f[k] = Eq(f, k)
  <2>1. k # 0 => f[k - 1] \in SS /\ k - 1 \in X
    <3> HIDE DEF SS
    <3> QED BY <1>0
  <2> HIDE DEF SS, X, More1
  <2> QED BY <1>5, <2>1 DEF Recursive
<1>7. f = [k \in X |-> Eq(f, k)]
  <2> HIDE DEF SS, X, Eq
  <2>1. f = [k \in X |-> f[k]]
    BY <1>5
  <2> QED BY <1>6, <2>1
<1>8. C = [k \in X |-> Eq(C, k)]
  BY <1>7, Zenon
<1> HIDE DEF C
<1> DEFINE W == {k \in Nat : k \in X => C[k] \in SS}
<1>9. ASSUME NEW k \in Nat, \A j \in Nat : j < k => j \in W
      PROVE  k \in W
  <2> SUFFICES ASSUME k \in X PROVE C[k] \in SS
    OBVIOUS
  <2>1. CASE k = 0
    BY <1>0, <1>8, <2>1
  <2>2. CASE k # 0
    <3> HIDE DEF More1, SS
    <3>1. k - 1 \in Nat /\ k - 1 < k /\ k - 1 \in X
      BY <2>2, <1>0
    <3>2. C[k - 1] \in SS
      BY <3>1, <1>9
    <3>3. C[k] = More1(k, C[k - 1])
      BY <2>2, <1>8
    <3> QED BY <2>2, <3>2, <3>3, <1>2
  <2> QED BY <2>1, <2>2
<1> HIDE DEF W
<1>10. W = Nat
  <2>1. W \in SUBSET Nat
    BY DEF W
  <2> QED BY <2>1, <1>9, Induction
<1>11. C \in [X -> SS]
  <2>1. \A k \in X : k \in Nat
    BY <1>0
  <2>2. \A k \in X : C[k] \in SS
    <3> HIDE DEF SS, X
    <3> QED BY <1>10, <2>1 DEF W
  <2> HIDE DEF SS, X, Eq
  <2> QED BY <1>8, <2>2
<1>12. C = Picked(s, T) /\ Pick(s, T) = C[Len(s)]
  BY DEF Picked, Pick, C
<1>13. C[0] = <<>> /\ \A k \in 1..Len(s) : C[k] = More1(k, C[k - 1])
  <2> HIDE DEF More1
  <2>1. 0 \in X /\ \A k \in 1..Len(s) : k \in X /\ k # 0
    BY <1>0
  <2> QED BY <1>8, <2>1
<1> HIDE DEF C
<1> QED BY <1>11, <1>12, <1>13

(* What create_list makes of the inputs: nodes 1..Size in a row, with the first at the head. *)
LEMMA Created ==
  ASSUME Init
  PROVE  /\ Inputs
         /\ prog \notin TwoLists \cup ExtraNode => OneList /\ p = First /\ q = First
         /\ prog \in TwoLists => BothLists /\ p = First /\ q = Node2(1)
         /\ prog \in {"deepcopy", "binary"} => LongerList /\ p = 1 /\ q = 1
         /\ prog = "visited" =>
              /\ p = 1 /\ q = 1 /\ head = 1 /\ freed = {} /\ data \in [1..(Size + 1) -> Nat]
              /\ \A k \in 1..Size : data[k] = 0
              /\ next = [k \in 1..(Size + 1) |-> IF k <= Size THEN k + 1 ELSE Size + 1]
<1>1. Inputs
  <2>1. <<>> \in Lists
    BY LengthAssumption DEF Lists, SeqOf
  <2> QED
    BY <2>1 DEF Init, Inputs, WithArg, ExtraNode
<1>2. next = [k \in DOMAIN data |->
               CASE k = Len(data) -> IF prog = "visited" THEN k ELSE 0
                 [] k = Len(list1) /\ prog \in TwoLists -> 0
                 [] OTHER -> k + 1]
  BY DEF Init
<1>3. freed = {} /\ head = Head1 /\ p = Head1 /\ q = IF prog \in TwoLists THEN Head2 ELSE Head1
  BY DEF Init
<1>4. ASSUME prog \notin TwoLists \cup ExtraNode
      PROVE  OneList /\ p = First /\ q = First
  <2>1. data = list1
    <3>1. data = list1 \o <<>>
      BY <1>4 DEF Init, ExtraNode
    <3> QED
      BY <1>1, InputFacts, <3>1
  <2>2. DOMAIN data = 1..Size /\ Len(data) = Size
    BY <1>1, InputFacts, <2>1 DEF Size
  <2>3. next = Straight
    BY <1>2, <1>4, <2>2 DEF Straight, ExtraNode
  <2> QED
    BY <1>3, <1>4, <2>1, <2>3 DEF OneList, Head1, First
<1>5. ASSUME prog \in TwoLists
      PROVE  BothLists /\ p = First /\ q = Node2(1)
  <2>1. data = list1 \o list2
    BY <1>5 DEF Init, ExtraNode, TwoLists
  <2>2. DOMAIN data = 1..(Size + Len(list2)) /\ Len(data) = Size + Len(list2) /\ (list1 # <<>> => data # <<>>)
    BY <1>1, InputFacts, <2>1 DEF Size
  <2>3. next = Pair
    BY <1>2, <1>5, <2>2 DEF Pair, Size, TwoLists
  <2>4. Head1 = First
    BY <1>5, <2>2 DEF Head1, First, TwoLists, ExtraNode
  <2>5. Head2 = Node2(1)
    BY <1>1, InputFacts DEF Head2, Node2, Size
  <2> QED
    BY <1>3, <1>5, <2>1, <2>3, <2>4, <2>5 DEF BothLists
<1>6. ASSUME prog \in {"deepcopy", "binary"}
      PROVE  LongerList /\ p = 1 /\ q = 1
  <2>1. data = Append(list1, arg)
    BY <1>6 DEF Init, ExtraNode
  <2>2. DOMAIN data = 1..(Size + 1) /\ Len(data) = Size + 1 /\ data # <<>>
    BY <1>1, InputFacts, <2>1 DEF Size
  <2>3. next = [k \in 1..(Size + 1) |-> IF k = Size + 1 THEN 0 ELSE k + 1]
    BY <1>2, <1>6, <2>2 DEF TwoLists
  <2>4. Head1 = 1
    BY <1>6, <2>2 DEF Head1, ExtraNode
  <2> QED
    BY <1>3, <1>6, <2>1, <2>3, <2>4 DEF LongerList, TwoLists
<1>7. ASSUME prog = "visited"
      PROVE  /\ p = 1 /\ q = 1 /\ head = 1 /\ freed = {} /\ data \in [1..(Size + 1) -> Nat]
             /\ \A k \in 1..Size : data[k] = 0
             /\ next = [k \in 1..(Size + 1) |-> IF k <= Size THEN k + 1 ELSE Size + 1]
  <2> DEFINE zeros == [k \in DOMAIN list1 |-> 0]
  <2>1. data = Append(zeros, arg)
    BY <1>7 DEF Init
  <2>2. zeros \in Seq(Nat) /\ Len(zeros) = Size /\ arg \in Nat /\ \A k \in 1..Size : zeros[k] = 0
    <3>1. zeros = [k \in 1..Size |-> 0] /\ Size \in Nat /\ arg \in Nat
      BY <1>1, InputFacts
    <3> QED
      BY <3>1
  <2> HIDE DEF zeros
  <2>3. data \in Seq(Nat) /\ Len(data) = Size + 1 /\ data # <<>> /\ \A k \in 1..Size : data[k] = 0
    BY <2>1, <2>2, AppendIs
  <2>4. DOMAIN data = 1..(Size + 1) /\ data \in [1..(Size + 1) -> Nat]
    BY <2>3
  <2>5. next = [k \in 1..(Size + 1) |-> IF k <= Size THEN k + 1 ELSE Size + 1]
    <3>1. \A k \in 1..(Size + 1) : ~(k = Size + 1) <=> k <= Size
      BY <1>1, InputFacts
    <3> QED
      BY <1>2, <1>7, <2>3, <2>4, <3>1 DEF TwoLists
  <2>6. Head1 = 1
    BY <1>7, <2>3 DEF Head1, ExtraNode
  <2> QED
    BY <1>3, <1>7, <2>3, <2>4, <2>5, <2>6 DEF TwoLists
<1> QED
  BY <1>1, <1>4, <1>5, <1>6, <1>7

(* The sums and numbers of the questions are those that the lists of digits have. *)
LEMMA NumberIs == \A s : Number(s) = Value(10, s)
  BY DEF Number, Value, FoldLeft, MapThenFoldSet
(* Bits is the value in base 2 of ListNumbers. *)
LEMMA BitsIs == \A s : Bits(s) = Value(2, s)
  BY DEF Bits, Value, FoldLeft, MapThenFoldSet

(* The inputs satisfy the invariant of every program. *)
LEMMA ResultsInit == Init => ResultsInv
<1> SUFFICES ASSUME Init PROVE ResultsInv
  OBVIOUS
<1>1. Inputs /\ Size \in Nat /\ Len(list2) \in Nat /\ First = Node(1) /\ (list1 = <<>> <=> Size = 0)
  BY Created, InputFacts
<1>2. /\ freed = {} /\ i = (IF prog = "addlist" THEN 1 ELSE 0) /\ acc = 0 /\ out = <<>>
      /\ pc = IF prog \in {"swap_two", "remove_node", "reverse", "movelast"} THEN "start" ELSE "run"
  BY DEF Init
<1>3. ASSUME prog \in {"getlength", "findmid", "findnode", "ispalindrome", "deletenode", "reverse",
                       "movelast", "swap_two", "remove_node", "seg", "partition"}
      PROVE  OneList /\ p = First /\ q = First
  <2>1. prog \notin TwoLists \cup ExtraNode
    BY <1>3 DEF TwoLists, ExtraNode
  <2> QED BY <2>1, Created
<1>4. ASSUME prog \in {"getintersection", "compare", "mergelist", "addlist"}
      PROVE  BothLists /\ p = First /\ q = Node2(1)
  BY <1>4, Created DEF TwoLists
<1>5. 0 \in 0..Size /\ 0 \in 0..Shorter /\ 0 \in 0..Len(list2) /\ Node(1) \in 0..Size
  BY <1>1 DEF Shorter, Node
<1>6. LengthResult
  BY <1>1, <1>2, <1>3, <1>5 DEF LengthResult
<1>7. Halfway \/ ~(p = First /\ q = First)
  BY <1>1, <1>5 DEF Halfway
<1>8. MidResult
  BY <1>2, <1>3, <1>7 DEF MidResult
<1>9. NodeResult
  BY <1>1, <1>2, <1>3, <1>5 DEF NodeResult
<1>10. IntersectionResult
  BY <1>1, <1>2, <1>4, <1>5 DEF IntersectionResult
<1>11. CompareResult
  BY <1>1, <1>2, <1>4, <1>5 DEF CompareResult
<1>12. PalindromeResult
  BY <1>1, <1>2, <1>3, <1>5, <1>7 DEF PalindromeResult
<1>13. DeleteResult
  <2> SUFFICES ASSUME prog = "deletenode" PROVE DeleteResult
    BY DEF DeleteResult
  <2>1. OneList /\ p = First /\ q = First
    BY <1>3
  <2>2. next = [k \in 1..Size |-> Node(IF Odd(k) /\ k <= 2 * 0 THEN k + 2 ELSE k + 1)]
    <3>1. \A k \in 1..Size : ~(k <= 2 * 0)
      BY <1>1
    <3>2. Straight = [k \in 1..Size |-> Node(k + 1)]
      BY <1>1, InputFacts
    <3> QED BY <2>1, <3>1, <3>2 DEF OneList
  <2> QED BY <1>1, <1>2, <1>5, <2>1, <2>2 DEF DeleteResult, OneList
<1>14. ReverseResult
  BY <1>2, <1>3 DEF ReverseResult, OneList
<1>15. MoveLastResult
  BY <1>2, <1>3 DEF MoveLastResult, OneList
<1>16. SwapResult
  BY <1>2, <1>3 DEF SwapResult, OneList
<1>17. RemoveResult
  <2>1. Straight \in [1..Size -> 0..Size]
    BY <1>1 DEF Straight
  <2> QED BY <1>2, <1>3, <2>1 DEF RemoveResult, OneList
<1>18. SegResult
  <2> SUFFICES ASSUME prog = "seg" PROVE SegResult
    BY DEF SegResult
  <2>1. OneList /\ p = First /\ q = First
    BY <1>3
  <2>2. data \in [1..Size -> Values] /\ \A x \in Values : Count(data, x) = Count(list1, x)
    BY <1>1, <2>1, InputFacts DEF OneList
  <2>3. 1 \in 1..(Size + 1) /\ Split(1, 1)
    BY <1>1 DEF Split
  <2>4. \E a, b \in 1..(Size + 1) :
         /\ p = Node(a) /\ q = Node(b) /\ Split(a, b)
         /\ pc = "run" \/ (pc = "done" /\ (b < a => a = Size + 1) /\ (a < b => b = Size + 1) /\ (a = b => Size = 0))
    BY <1>1, <1>2, <2>1, <2>3
  <2> QED BY <1>2, <2>1, <2>2, <2>4 DEF SegResult, OneList
<1>19. MergeResult
  <2>1. <<>> = Pairs(0)
    BY DEF Pairs
  <2> QED BY <1>1, <1>2, <1>4, <1>5, <2>1 DEF MergeResult
<1>20. PartitionResult
  <2>1. Picked(list1, Less)[0] = <<>> /\ Picked(list1, NotLess)[0] = <<>>
    BY <1>1, InputFacts, PickedIs
  <2>2. <<>> = <<>> \o <<>> /\ Len(<<>>) = 0
    OBVIOUS
  <2> SUFFICES ASSUME prog = "partition" PROVE PartitionResult
    BY DEF PartitionResult
  <2>3. OneList /\ p = Node(0 + 1) /\ q = First
    BY <1>1, <1>3
  <2>4. i = Len(Picked(list1, Less)[0]) /\ out = Picked(list1, Less)[0] \o Picked(list1, NotLess)[0]
    BY <1>2, <2>1, <2>2
  <2> QED BY <1>2, <1>5, <2>3, <2>4 DEF PartitionResult
<1>21. AddResult
  <2>1. ReadSoFar(list1, 0) \/ ~(acc = 0 /\ i = 1)
    BY DEF ReadSoFar, Positive
  <2> QED BY <1>1, <1>2, <1>4, <1>5, <2>1 DEF AddResult
<1>22. CopyResult
  <2>1. <<>> = [k \in 1..(1 - 1) |-> list1[k]]
    OBVIOUS
  <2> QED BY <1>1, <1>2, <2>1, Created DEF CopyResult
<1>23. BinaryResult
  <2> SUFFICES ASSUME prog = "binary" PROVE BinaryResult
    BY DEF BinaryResult
  <2>1. LongerList /\ p = 1 /\ q = 1
    BY Created
  <2>2. Bits(SubSeq(list1, 1, 0)) % UIntSize = 0
    <3>1. SubSeq(list1, 1, 0) = <<>>
      OBVIOUS
    <3>2. Bits(<<>>) = 0
      BY ValueEmpty, BitsIs
    <3>3. 0 % UIntSize = 0
      BY UIntAssumption
    <3> QED BY <3>1, <3>2, <3>3
  <2> QED BY <1>1, <1>2, <2>1, <2>2 DEF BinaryResult
<1>24. VisitResult
  BY <1>1, <1>2, Created DEF VisitResult
<1> QED
  BY <1>1, <1>6, <1>8, <1>9, <1>10, <1>11, <1>12, <1>13, <1>14, <1>15, <1>16, <1>17, <1>18, <1>19, <1>20,
     <1>21, <1>22, <1>23, <1>24 DEF ResultsInv

(* A step disturbs the invariant of its own program only. *)
LEMMA OnlyItsResult ==
  ASSUME ResultsInv, UNCHANGED input,
         prog = "getlength" => LengthResult', prog = "findmid" => MidResult',
         prog = "findnode" => NodeResult', prog = "getintersection" => IntersectionResult',
         prog = "compare" => CompareResult', prog = "ispalindrome" => PalindromeResult',
         prog = "deletenode" => DeleteResult', prog = "reverse" => ReverseResult',
         prog = "movelast" => MoveLastResult', prog = "swap_two" => SwapResult',
         prog = "remove_node" => RemoveResult', prog = "seg" => SegResult',
         prog = "mergelist" => MergeResult', prog = "partition" => PartitionResult',
         prog = "addlist" => AddResult', prog = "deepcopy" => CopyResult',
         prog = "binary" => BinaryResult', prog = "visited" => VisitResult'
  PROVE  ResultsInv'
<1>1. prog' = prog /\ Inputs'
  BY DEF ResultsInv, Inputs, input
<1>2. LengthResult' /\ MidResult' /\ NodeResult' /\ IntersectionResult' /\ CompareResult' /\ PalindromeResult'
  BY <1>1 DEF LengthResult, MidResult, NodeResult, IntersectionResult, CompareResult, PalindromeResult
<1>3. DeleteResult' /\ ReverseResult' /\ MoveLastResult' /\ SwapResult' /\ RemoveResult' /\ SegResult'
  BY <1>1 DEF DeleteResult, ReverseResult, MoveLastResult, SwapResult, RemoveResult, SegResult
<1>4. MergeResult' /\ PartitionResult' /\ AddResult' /\ CopyResult' /\ BinaryResult' /\ VisitResult'
  BY <1>1 DEF MergeResult, PartitionResult, AddResult, CopyResult, BinaryResult, VisitResult
<1> QED
  BY <1>1, <1>2, <1>3, <1>4 DEF ResultsInv

-----------------------------------------------------------------------------
(* Of a step that leaves the input alone. *)
LEMMA SameInput ==
  ASSUME UNCHANGED input
  PROVE  /\ list1' = list1 /\ list2' = list2 /\ arg' = arg /\ prog' = prog /\ loose' = loose
         /\ SomeDigit' = SomeDigit
         /\ Size' = Size /\ First' = First /\ Straight' = Straight /\ Pair' = Pair
         /\ Half' = Half /\ Shorter' = Shorter /\ Kept' = Kept /\ Less' = Less /\ NotLess' = NotLess
         /\ UNCHANGED heap => (OneList => OneList') /\ (BothLists => BothLists') /\ (LongerList => LongerList')
BY DEF input, heap, SomeDigit, Positive, Size, First, Straight, Pair, Half, Shorter, Kept, Less, NotLess, OneList, BothLists, LongerList

(* Where a step along a list leads. *)
LEMMA Steps ==
  ASSUME Inputs, NEW k \in Nat, k > 0
  PROVE  /\ OneList /\ k <= Size =>
              next[Node(k)] = Node(k + 1) /\ data[Node(k)] = list1[k]
         /\ BothLists /\ k <= Size => next[Node(k)] = Node(k + 1) /\ data[Node(k)] = list1[k]
         /\ BothLists /\ k <= Len(list2) => next[Node2(k)] = Node2(k + 1) /\ data[Node2(k)] = list2[k]
         /\ Node(k) = 0 <=> Size < k
         /\ Node2(k) = 0 <=> Len(list2) < k
         /\ Node(k) \in 0..Size /\ (k <= Size => Node(k) = k)
         /\ Node2(k) \in 0..(Size + Len(list2))
<1>1. Size \in Nat /\ Len(list2) \in Nat /\ list1 \in Seq(Int) /\ list2 \in Seq(Int) /\ DOMAIN list1 = 1..Size
  BY InputFacts
<1>2. ASSUME OneList, k <= Size
      PROVE  next[Node(k)] = Node(k + 1) /\ data[Node(k)] = list1[k]
  BY <1>1, <1>2 DEF OneList, Straight, Node
<1>3. ASSUME BothLists, k <= Size
      PROVE  next[Node(k)] = Node(k + 1) /\ data[Node(k)] = list1[k]
  <2>1. k \in 1..Size /\ k \in 1..(Size + Len(list2)) /\ Node(k) = k
    BY <1>1, <1>3 DEF Node
  <2>2. (list1 \o list2)[k] = list1[k]
    BY <1>1, <2>1 DEF Size
  <2>3. Pair[k] = Node(k + 1)
    BY <1>1, <1>3, <2>1 DEF Pair, Node
  <2> QED BY <1>3, <2>1, <2>2, <2>3 DEF BothLists
<1>4. ASSUME BothLists, k <= Len(list2)
      PROVE  next[Node2(k)] = Node2(k + 1) /\ data[Node2(k)] = list2[k]
  <2>1. Size + k \in 1..(Size + Len(list2)) /\ Node2(k) = Size + k /\ Size + k # Size
    BY <1>1, <1>4 DEF Node2
  <2>2. (list1 \o list2)[Size + k] = list2[k]
    BY <1>1, <1>4 DEF Size
  <2>3. Pair[Size + k] = Node2(k + 1)
    BY <1>1, <1>4, <2>1 DEF Pair, Node2
  <2> QED BY <1>4, <2>1, <2>2, <2>3 DEF BothLists
<1> QED
  BY <1>1, <1>2, <1>3, <1>4 DEF Node, Node2

(* A step of getlength keeps its invariant: acc counts the nodes behind p. *)
LEMMA GetLengthDoes ==
  ASSUME ResultsInv, GetLength
  PROVE  prog = "getlength" /\ UNCHANGED input /\ LengthResult'
<1>1. prog = "getlength" /\ pc = "run" /\ UNCHANGED <<input, heap, q, i>>
  BY DEF GetLength, At, Return
<1>2. Inputs /\ OneList /\ q = First /\ i = 0 /\ acc \in 0..Size /\ p = Node(acc + 1) /\ out = <<>>
  BY <1>1 DEF ResultsInv, LengthResult
<1>3. Size \in Nat
  BY <1>2, InputFacts
<1>4. CASE p # 0
  <2>1. acc + 1 <= Size /\ acc + 1 \in 0..Size
    BY <1>2, <1>3, <1>4 DEF Node
  <2>2. p' = Node(acc + 1 + 1)
    BY <1>2, <1>3, <1>4, <2>1, Steps DEF GetLength
  <2>3. acc' = acc + 1 /\ UNCHANGED <<out, pc>>
    BY <1>4 DEF GetLength
  <2> QED
    BY <1>1, <1>2, <2>1, <2>2, <2>3, SameInput DEF LengthResult, Node
<1>5. CASE p = 0
  <2>1. acc = Size
    BY <1>2, <1>3, <1>5 DEF Node
  <2>2. pc' = "done" /\ out' = <<acc>> /\ UNCHANGED <<p, acc>>
    BY <1>5 DEF GetLength, Return
  <2> QED
    BY <1>1, <1>2, <2>1, <2>2, SameInput DEF LengthResult, Node
<1> QED
  BY <1>4, <1>5

(* Two nodes and one node further. *)
LEMMA HalfwaySteps ==
  ASSUME Inputs, OneList, Halfway, q # 0, next[q] # 0, UNCHANGED <<input, heap>>,
         p' = next[p], q' = next[next[q]]
  PROVE  Halfway'
<1>1. PICK c \in 0..Size : 2 * c <= Size /\ p = Node(c + 1) /\ q = Node(2 * c + 1)
  BY DEF Halfway
<1>2. Size \in Nat
  BY InputFacts
<1>3. 2 * c + 1 <= Size /\ c + 1 <= Size
  BY <1>1, <1>2 DEF Node
<1>4. next[q] = Node(2 * c + 2) /\ next[p] = Node(c + 2)
  <2>1. 2 * c + 1 \in Nat /\ 2 * c + 1 > 0 /\ c + 1 \in Nat /\ c + 1 > 0
        /\ 2 * c + 1 + 1 = 2 * c + 2 /\ c + 1 + 1 = c + 2
    BY <1>1, <1>2
  <2>2. next[Node(2 * c + 1)] = Node(2 * c + 1 + 1) /\ next[Node(c + 1)] = Node(c + 1 + 1)
    BY <1>3, <2>1, Steps
  <2> QED BY <1>1, <2>1, <2>2
<1>5. 2 * c + 2 <= Size
  BY <1>1, <1>2, <1>4 DEF Node
<1>6. next[next[q]] = Node(2 * c + 3)
  <2>1. 2 * c + 2 \in Nat /\ 2 * c + 2 > 0 /\ 2 * c + 2 + 1 = 2 * c + 3
    BY <1>1, <1>2
  <2>2. next[Node(2 * c + 2)] = Node(2 * c + 2 + 1)
    BY <1>5, <2>1, Steps
  <2> QED BY <1>4, <2>1, <2>2
<1> DEFINE b == c + 1
<1>7. b \in 0..Size /\ 2 * b <= Size /\ 2 * b + 1 = 2 * c + 3 /\ b + 1 = c + 2
  BY <1>1, <1>2, <1>5
<1>8. p' = Node(b + 1) /\ q' = Node(2 * b + 1)
  BY <1>4, <1>6, <1>7
<1> HIDE DEF b
<1> QED
  BY <1>7, <1>8, SameInput DEF Halfway, Node

(* Two pointers, one twice as fast: at the end of the list the slow one is at its middle. *)
LEMMA HalfwayEnd ==
  ASSUME Inputs, OneList, Halfway, ~(q # 0 /\ next[q] # 0)
  PROVE  p = Node(Half + 1) /\ (list1 = <<>> <=> p = 0)
<1>1. PICK c \in 0..Size : 2 * c <= Size /\ p = Node(c + 1) /\ q = Node(2 * c + 1)
  BY DEF Halfway
<1>2. Size \in Nat /\ (list1 = <<>> <=> Size = 0)
  BY InputFacts
<1>3. 2 * c = Size \/ 2 * c + 1 = Size
  <2>1. CASE q = 0
    BY <1>1, <1>2, <2>1 DEF Node
  <2>2. CASE q # 0 /\ next[q] = 0
    <3>1. 2 * c + 1 <= Size
      BY <1>1, <1>2, <2>2 DEF Node
    <3>2. Node(2 * c + 2) = 0
      BY <1>1, <1>2, <2>2, <3>1, Steps
    <3> QED BY <1>2, <3>1, <3>2 DEF Node
  <2> QED BY <2>1, <2>2
<1>4. c = Half
  BY <1>1, <1>2, <1>3 DEF Half
<1> QED
  BY <1>1, <1>2, <1>3, <1>4 DEF Node

(* A step of findmid keeps its invariant: p is halfway to q. *)
LEMMA FindMidDoes ==
  ASSUME ResultsInv, FindMid
  PROVE  prog = "findmid" /\ UNCHANGED input /\ MidResult'
<1>1. prog = "findmid" /\ pc = "run" /\ UNCHANGED <<input, heap, i, acc>>
  BY DEF FindMid, At, Walk, Return, Crash, Go
<1>2. Inputs /\ OneList /\ i = 0 /\ acc = 0 /\ Halfway /\ out = <<>>
  BY <1>1 DEF ResultsInv, MidResult
<1>3. Size \in Nat /\ DOMAIN list1 = 1..Size /\ (list1 = <<>> <=> Size = 0)
  BY <1>2, InputFacts
<1>4. CASE q # 0 /\ next[q] # 0
  <2>1. p' = next[p] /\ q' = next[next[q]] /\ UNCHANGED <<out, pc>>
    BY <1>4 DEF FindMid, Walk
  <2>2. Halfway'
    BY <1>1, <1>2, <1>4, <2>1, HalfwaySteps
  <2> QED
    BY <1>1, <1>2, <2>1, <2>2, SameInput DEF MidResult
<1>5. CASE ~(q # 0 /\ next[q] # 0)
  <2>1. p = Node(Half + 1) /\ (list1 = <<>> <=> p = 0)
    BY <1>2, <1>5, HalfwayEnd
  <2>2. UNCHANGED <<p, q>>
    BY <1>5 DEF FindMid, Return, Crash, Go
  <2>3. Halfway'
    BY <1>1, <1>2, <2>2 DEF Halfway, Node, Size, input
  <2>4. CASE p # 0
    <3>1. pc' = "done" /\ out' = <<data[p]>>
      BY <1>5, <2>4 DEF FindMid, Return
    <3>2. Half \in Nat /\ Half + 1 <= Size
      BY <1>3, <2>1, <2>4 DEF Half, Node
    <3>3. data[p] = list1[Half + 1]
      BY <1>2, <2>1, <3>2, Steps
    <3> QED
      BY <1>1, <1>2, <2>1, <2>3, <2>4, <3>1, <3>3, SameInput DEF MidResult, Half
  <2>5. CASE p = 0
    <3>1. pc' = "crashed" /\ out' = out
      BY <1>5, <2>5 DEF FindMid, Crash, Go
    <3> QED
      BY <1>1, <1>2, <2>3, <3>1, SameInput DEF MidResult
  <2> QED BY <2>4, <2>5
<1> QED
  BY <1>4, <1>5

(* A step of findnode keeps its invariant: q stays arg nodes ahead of p. *)
LEMMA FindNodeDoes ==
  ASSUME ResultsInv, QuestionsInv, FindNode
  PROVE  prog = "findnode" /\ UNCHANGED input /\ NodeResult'
<1>1. prog = "findnode" /\ pc \in {"run", "both"} /\ UNCHANGED <<input, heap, acc>>
  BY DEF FindNode, At, Walk, Return, Crash, Go
<1>2. Inputs /\ OneList /\ p \in 0..Size /\ q \in 0..Size /\ i \in Nat /\ acc = 0 /\ out = <<>>
  BY <1>1 DEF ResultsInv, NodeResult
<1>3. Size \in Nat /\ DOMAIN list1 = 1..Size /\ (list1 = <<>> <=> Size = 0) /\ arg \in Nat /\ \A k \in 1..Size : Straight[k] \in 0..Size
  <2>1. \A k \in 1..Size : Node(k + 1) \in 0..Size
    BY <1>2, InputFacts DEF Node
  <2> QED BY <1>2, <2>1, InputFacts
<1>4. next = Straight
  BY <1>2 DEF OneList
<1>5. CASE pc = "run" /\ i < arg /\ q # 0
  <2>1. q' = next[q] /\ i' = i + 1 /\ UNCHANGED <<p, out, pc>>
    BY <1>5 DEF FindNode, At
  <2> QED
    BY <1>1, <1>2, <1>3, <1>4, <1>5, <2>1, SameInput DEF NodeResult
<1>6. CASE pc = "run" /\ ~(i < arg /\ q # 0)
  <2>1. pc' \in {"crashed", "both"} /\ UNCHANGED <<p, q, i, out>>
    BY <1>6 DEF FindNode, At, Crash, Go
  <2> QED
    BY <1>1, <1>2, <2>1, SameInput DEF NodeResult
<1>7. CASE pc = "both" /\ q # 0
  <2>1. p' = next[p] /\ q' = next[q] /\ UNCHANGED <<i, out, pc>>
    BY <1>7 DEF FindNode, At, Walk
  <2>2. p # 0
    BY <1>1, <1>3, <1>7 DEF QuestionsInv, FindNodeInv
  <2> QED
    BY <1>1, <1>2, <1>3, <1>4, <1>7, <2>1, <2>2, SameInput DEF NodeResult
<1>8. CASE pc = "both" /\ q = 0 /\ p # 0
  <2>1. pc' = "done" /\ out' = <<data[p]>> /\ UNCHANGED <<p, q, i>>
    BY <1>8 DEF FindNode, At, Return
  <2>2. p + arg <= Size + 1 /\ ~(p + arg <= Size)
    BY <1>1, <1>8, <1>3 DEF QuestionsInv, FindNodeInv
  <2>3. p = Size + 1 - arg /\ arg \in 1..Size
    BY <1>2, <1>3, <1>8, <2>2
  <2>4. data[p] = list1[p]
    BY <1>2 DEF OneList
  <2> QED
    BY <1>1, <1>2, <2>1, <2>3, <2>4, SameInput DEF NodeResult
<1>9. CASE pc = "both" /\ q = 0 /\ p = 0
  <2>1. pc' = "crashed" /\ UNCHANGED <<p, q, i, out>>
    BY <1>9 DEF FindNode, At, Crash, Go
  <2> QED
    BY <1>1, <1>2, <2>1, SameInput DEF NodeResult
<1> QED
  BY <1>1, <1>5, <1>6, <1>7, <1>8, <1>9

(* A step of getintersection keeps its invariant: out is where the nodes passed agree. *)
LEMMA GetIntersectionDoes ==
  ASSUME ResultsInv, GetIntersection
  PROVE  prog = "getintersection" /\ UNCHANGED input /\ IntersectionResult'
<1>1. prog = "getintersection" /\ pc = "run" /\ UNCHANGED <<input, heap, i, acc>>
  BY DEF GetIntersection, At, Walk, Return
<1>2. Inputs /\ BothLists /\ i = 0 /\ acc = 0
  BY <1>1 DEF ResultsInv, IntersectionResult
<1>3. PICK c \in 0..Shorter :
         p = Node(c + 1) /\ q = Node2(c + 1) /\ (\A k \in 1..c : list1[k] # list2[k]) /\ out = <<>>
  BY <1>1 DEF ResultsInv, IntersectionResult
<1>4. Size \in Nat /\ Len(list2) \in Nat /\ Shorter \in Nat
      /\ (c < Shorter <=> c < Size /\ c < Len(list2)) /\ c \in Nat /\ c + 1 \in Nat /\ c + 1 > 0
  BY <1>2, InputFacts DEF Shorter
<1>5. (p # 0 /\ q # 0) <=> c < Shorter
  BY <1>3, <1>4 DEF Node, Node2
<1>6. CASE ~(p # 0 /\ q # 0)
  <2>1. pc' = "done" /\ out' = <<-1>> /\ UNCHANGED <<p, q>>
    BY <1>6 DEF GetIntersection, Return, Undefined
  <2>2. c = Shorter
    BY <1>4, <1>5, <1>6
  <2> QED
    BY <1>1, <1>2, <1>3, <2>1, <2>2, SameInput DEF IntersectionResult, Node, Node2
<1>7. CASE p # 0 /\ q # 0
  <2>1. /\ data[p] = list1[c + 1] /\ data[q] = list2[c + 1]
        /\ next[p] = Node(c + 1 + 1) /\ next[q] = Node2(c + 1 + 1)
    <3>1. c + 1 <= Size /\ c + 1 <= Len(list2)
      BY <1>4, <1>5, <1>7
    <3>2. /\ next[Node(c + 1)] = Node(c + 1 + 1) /\ data[Node(c + 1)] = list1[c + 1]
          /\ next[Node2(c + 1)] = Node2(c + 1 + 1) /\ data[Node2(c + 1)] = list2[c + 1]
      BY <1>2, <1>4, <3>1, Steps
    <3> QED BY <1>3, <3>2
  <2>2. CASE data[p] = data[q]
    <3>1. pc' = "done" /\ out' = <<data[p]>> /\ UNCHANGED <<p, q>>
      BY <1>7, <2>2 DEF GetIntersection, Return
    <3> QED
      BY <1>1, <1>2, <1>3, <1>5, <1>7, <2>1, <2>2, <3>1, SameInput DEF IntersectionResult, Node, Node2
  <2>3. CASE data[p] # data[q]
    <3>1. p' = next[p] /\ q' = next[q] /\ UNCHANGED <<pc, out>>
      BY <1>7, <2>3 DEF GetIntersection, Walk
    <3>2. c + 1 \in 0..Shorter /\ \A k \in 1..(c + 1) : list1[k] # list2[k]
      <4>1. \A k \in 1..(c + 1) : k \in 1..c \/ k = c + 1
        BY <1>4
      <4> QED
        BY <1>3, <1>4, <1>5, <1>7, <2>1, <2>3, <4>1
    <3> QED
      BY <1>1, <1>2, <1>3, <2>1, <3>1, <3>2, SameInput DEF IntersectionResult, Node, Node2
  <2> QED BY <2>2, <2>3
<1> QED
  BY <1>6, <1>7

(* A step of compare keeps its invariant: the nodes passed agree. *)
LEMMA CompareDoes ==
  ASSUME ResultsInv, Compare
  PROVE  prog = "compare" /\ UNCHANGED input /\ CompareResult'
<1>1. prog = "compare" /\ pc = "run" /\ UNCHANGED <<input, heap, i, acc>>
  BY DEF Compare, At, Walk, Return
<1>2. Inputs /\ BothLists /\ i = 0 /\ acc = 0
  BY <1>1 DEF ResultsInv, CompareResult
<1>3. PICK c \in 0..Shorter :
         p = Node(c + 1) /\ q = Node2(c + 1) /\ (\A k \in 1..c : list1[k] = list2[k]) /\ out = <<>>
  BY <1>1 DEF ResultsInv, CompareResult
<1>4. Size \in Nat /\ Len(list2) \in Nat /\ Shorter \in Nat
      /\ (c < Shorter <=> c < Size /\ c < Len(list2)) /\ c \in Nat /\ c + 1 \in Nat /\ c + 1 > 0
  BY <1>2, InputFacts DEF Shorter
<1>5. (p # 0 /\ q # 0) <=> c < Shorter
  BY <1>3, <1>4 DEF Node, Node2
<1>6. CASE ~(p # 0 /\ q # 0)
  <2>1. pc' = "done" /\ out' = <<1>> /\ UNCHANGED <<p, q>>
    BY <1>6 DEF Compare, Return
  <2>2. c = Shorter
    BY <1>4, <1>5, <1>6
  <2> QED
    BY <1>1, <1>2, <1>3, <2>1, <2>2, SameInput DEF CompareResult, Node, Node2
<1>7. CASE p # 0 /\ q # 0
  <2>1. /\ data[p] = list1[c + 1] /\ data[q] = list2[c + 1]
        /\ next[p] = Node(c + 1 + 1) /\ next[q] = Node2(c + 1 + 1)
    <3>1. c + 1 <= Size /\ c + 1 <= Len(list2)
      BY <1>4, <1>5, <1>7
    <3>2. /\ next[Node(c + 1)] = Node(c + 1 + 1) /\ data[Node(c + 1)] = list1[c + 1]
          /\ next[Node2(c + 1)] = Node2(c + 1 + 1) /\ data[Node2(c + 1)] = list2[c + 1]
      BY <1>2, <1>4, <3>1, Steps
    <3> QED BY <1>3, <3>2
  <2>2. CASE data[p] # data[q]
    <3>1. pc' = "done" /\ out' = <<0>> /\ UNCHANGED <<p, q>>
      BY <1>7, <2>2 DEF Compare, Return
    <3> QED
      BY <1>1, <1>2, <1>3, <1>5, <1>7, <2>1, <2>2, <3>1, SameInput DEF CompareResult, Node, Node2
  <2>3. CASE data[p] = data[q]
    <3>1. p' = next[p] /\ q' = next[q] /\ UNCHANGED <<pc, out>>
      BY <1>7, <2>3 DEF Compare, Walk
    <3>2. c + 1 \in 0..Shorter /\ \A k \in 1..(c + 1) : list1[k] = list2[k]
      <4>1. \A k \in 1..(c + 1) : k \in 1..c \/ k = c + 1
        BY <1>4
      <4>2. list1[c + 1] = list2[c + 1]
        BY <2>1, <2>3
      <4>3. \A k \in 1..(c + 1) : list1[k] = list2[k]
        BY <1>3, <4>1, <4>2
      <4>4. c + 1 \in 0..Shorter
        BY <1>4, <1>5, <1>7
      <4> QED
        BY <4>3, <4>4
    <3> QED
      BY <1>1, <1>2, <1>3, <2>1, <3>1, <3>2, SameInput DEF CompareResult, Node, Node2
  <2> QED BY <2>2, <2>3
<1> QED
  BY <1>6, <1>7

(* An element in front, and the first taken away. *)
LEMMA ConsIs ==
  ASSUME NEW S, NEW d \in S, NEW u \in Seq(S)
  PROVE  <<d>> \o u = [k \in 1..(Len(u) + 1) |-> IF k = 1 THEN d ELSE u[k - 1]]
OBVIOUS

(* What is left of a sequence from a place on, without its first element. *)
LEMMA TailIs ==
  ASSUME NEW S, NEW u \in Seq(S), u # <<>>
  PROVE  /\ Tail(u) = [k \in 1..(Len(u) - 1) |-> u[k + 1]] /\ Head(u) = u[1] /\ Len(u) > 0
<1>1. Tail(u) \in Seq(S) /\ Len(Tail(u)) = Len(u) - 1 /\ Len(u) > 0 /\ Len(u) \in Nat /\ Head(u) = u[1]
      /\ \A k \in 1..(Len(u) - 1) : Tail(u)[k] = u[k + 1]
  BY HeadTailProperties
<1> DEFINE v == Tail(u)
<1>2. v = [k \in 1..Len(v) |-> v[k]]
  <2>1. \A s \in Seq(S) : s = [k \in 1..Len(s) |-> s[k]]
    OBVIOUS
  <2> QED BY <1>1, <2>1
<1> HIDE DEF v
<1>3. v = [k \in 1..(Len(u) - 1) |-> u[k + 1]]
  BY <1>1, <1>2 DEF v
<1> QED BY <1>1, <1>3 DEF v

(* A step of ispalindrome keeps its invariant: the stack is the first half, then what is left of it. *)
LEMMA IsPalindromeDoes ==
  ASSUME ResultsInv, IsPalindrome
  PROVE  prog = "ispalindrome" /\ UNCHANGED input /\ PalindromeResult'
<1>1. prog = "ispalindrome" /\ pc \in {"run", "copy", "compare"} /\ UNCHANGED <<input, heap, i, acc>>
  BY DEF IsPalindrome, At, Walk, Go, Return
<1>2. Inputs /\ OneList /\ i = 0 /\ acc = 0 /\ p \in 0..Size /\ q \in 0..Size
  BY <1>1 DEF ResultsInv, PalindromeResult
<1>3. Size \in Nat /\ list1 \in Seq(Values) /\ (\A k \in 1..Size : list1[k] \in Values) /\ First = Node(1)
  BY <1>2, InputFacts
<1>4. Half \in Nat /\ 2 * Half <= Size /\ Size <= 2 * Half + 1
  BY <1>3 DEF Half
<1>5. OneList' /\ i' = 0 /\ acc' = 0
  BY <1>1, <1>2, SameInput
<1>6. ASSUME Halfway PROVE p \in 0..Size /\ q \in 0..Size
  BY <1>3, <1>6 DEF Halfway, Node
<1>7. CASE pc = "run" /\ q # 0 /\ next[q] # 0
  <2>1. p' = next[p] /\ q' = next[next[q]] /\ UNCHANGED <<out, pc>>
    BY <1>7 DEF IsPalindrome, At, Walk
  <2>2. Halfway /\ out = <<>>
    BY <1>1, <1>7 DEF ResultsInv, PalindromeResult
  <2>3. Halfway'
    BY <1>1, <1>2, <1>7, <2>1, <2>2, HalfwaySteps
  <2>4. p' \in 0..Size /\ q' \in 0..Size
    <3>1. Size' = Size
      BY <1>1, SameInput
    <3> QED BY <1>3, <2>3, <3>1 DEF Halfway, Node
  <2> QED
    BY <1>1, <1>5, <1>7, <2>1, <2>2, <2>3, <2>4, SameInput DEF PalindromeResult
<1>8. CASE pc = "run" /\ ~(q # 0 /\ next[q] # 0)
  <2>1. pc' = "copy" /\ UNCHANGED <<p, q, out>>
    BY <1>8 DEF IsPalindrome, At, Go
  <2>2. Halfway /\ out = <<>>
    BY <1>1, <1>8 DEF ResultsInv, PalindromeResult
  <2>3. p = Node(Half + 1)
    BY <1>2, <1>8, <2>2, HalfwayEnd
  <2>4. Half \in Half..Size /\ out = [k \in 1..(Half - Half) |-> list1[Half + 1 - k]]
    BY <1>3, <1>4, <2>2
  <2> QED
    BY <1>1, <1>2, <1>5, <2>1, <2>3, <2>4, SameInput DEF PalindromeResult, Node
<1>9. CASE pc = "copy"
  <2>1. PICK c \in Half..Size : p = Node(c + 1) /\ out = [k \in 1..(c - Half) |-> list1[c + 1 - k]]
    BY <1>1, <1>9 DEF ResultsInv, PalindromeResult
  <2>2. c \in Nat /\ c + 1 \in Nat /\ c + 1 > 0 /\ c - Half \in Nat
    BY <1>3, <1>4
  <2>3. out \in Seq(Values) /\ Len(out) = c - Half /\ \A k \in 1..(c - Half) : out[k] = list1[c + 1 - k]
    <3>1. \A k \in 1..(c - Half) : list1[c + 1 - k] \in Values
      <4>1. \A k \in 1..(c - Half) : c + 1 - k \in 1..Size
        BY <1>3, <1>4
      <4> QED BY <1>3, <4>1
    <3> QED BY <2>1, <2>2, <3>1
  <2>4. CASE p # 0
    <3>1. out' = <<data[p]>> \o out /\ p' = next[p] /\ UNCHANGED <<q, pc>>
      BY <1>9, <2>4 DEF IsPalindrome, At
    <3>2. c + 1 <= Size /\ c + 1 \in Half..Size
      BY <1>3, <1>4, <2>1, <2>4 DEF Node
    <3>3. data[p] = list1[c + 1] /\ next[p] = Node(c + 1 + 1)
      BY <1>2, <2>1, <2>2, <3>2, Steps
    <3>4. list1[c + 1] \in Values
      BY <1>3, <2>2, <3>2
    <3> DEFINE b == c + 1
    <3>5. out' = [k \in 1..(b - Half) |-> list1[b + 1 - k]]
      <4>1. out' = [k \in 1..(Len(out) + 1) |-> IF k = 1 THEN list1[c + 1] ELSE out[k - 1]]
        BY <2>3, <3>1, <3>3, <3>4, ConsIs
      <4>2. Len(out) + 1 = b - Half /\ c - Half \in Nat
        BY <1>4, <2>2, <2>3
      <4>3. ASSUME NEW k \in 1..(b - Half)
            PROVE  (IF k = 1 THEN list1[c + 1] ELSE out[k - 1]) = list1[b + 1 - k]
        <5>1. CASE k = 1
          BY <2>2, <5>1
        <5>2. CASE k # 1
          <6>1. k - 1 \in 1..(c - Half) /\ c + 1 - (k - 1) = b + 1 - k
            BY <1>4, <2>2, <4>2, <5>2
          <6> QED BY <2>3, <5>2, <6>1
        <5> QED BY <5>1, <5>2
      <4> QED BY <4>1, <4>2, <4>3
    <3>6. p' \in 0..Size
      BY <1>3, <2>2, <3>1, <3>3 DEF Node
    <3>7. \E m \in Half..Size : p' = Node(m + 1) /\ out' = [k \in 1..(m - Half) |-> list1[m + 1 - k]]
      <4>1. b \in Half..Size
        BY <3>2
      <4>2. p' = Node(b + 1)
        BY <3>1, <3>3
      <4>3. out' = [k \in 1..(b - Half) |-> list1[b + 1 - k]]
        BY <3>5
      <4> HIDE DEF b
      <4> QED BY <4>1, <4>2, <4>3
    <3>8. pc' = "copy" /\ q' \in 0..Size
      BY <1>2, <1>9, <3>1
    <3> QED
      BY <1>1, <1>5, <3>6, <3>7, <3>8, SameInput DEF PalindromeResult, Node
  <2>5. CASE p = 0
    <3>1. p' = head /\ pc' = "compare" /\ UNCHANGED <<q, out>>
      BY <1>9, <2>5 DEF IsPalindrome, At
    <3>2. c = Size
      BY <1>3, <2>1, <2>2, <2>5 DEF Node
    <3>3. head = Node(0 + 1)
      BY <1>2, <1>3 DEF OneList
    <3>4. 0 \in 0..(Size - Half) /\ Size - Half - 0 = Size - Half /\ \A k \in 1..(Size - Half) : Size + 1 - 0 - k = Size + 1 - k
      BY <1>3, <1>4
    <3>5. out = [k \in 1..(Size - Half - 0) |-> list1[Size + 1 - 0 - k]]
      BY <2>1, <3>2, <3>4
    <3>6. p' \in 0..Size
      BY <1>3, <3>1, <3>3 DEF Node
    <3>7. \A k \in 1..0 : list1[k] = list1[Size + 1 - k]
      OBVIOUS
    <3> QED
      BY <1>1, <1>2, <1>5, <3>1, <3>3, <3>4, <3>5, <3>6, <3>7, SameInput DEF PalindromeResult, Node
  <2> QED BY <2>4, <2>5
<1>10. CASE pc = "compare"
  <2>1. PICK c \in 0..(Size - Half) :
          /\ p = Node(c + 1) /\ out = [k \in 1..(Size - Half - c) |-> list1[Size + 1 - c - k]]
          /\ \A k \in 1..c : list1[k] = list1[Size + 1 - k]
    BY <1>1, <1>10 DEF ResultsInv, PalindromeResult
  <2>2. c \in Nat /\ c + 1 \in Nat /\ c + 1 > 0 /\ Size - Half - c \in Nat
    BY <1>3, <1>4
  <2>3. out \in Seq(Values) /\ Len(out) = Size - Half - c /\ \A k \in 1..(Size - Half - c) : out[k] = list1[Size + 1 - c - k]
    <3>1. \A k \in 1..(Size - Half - c) : list1[Size + 1 - c - k] \in Values
      <4>1. \A k \in 1..(Size - Half - c) : Size + 1 - c - k \in 1..Size
        BY <1>3, <1>4
      <4> QED BY <1>3, <4>1
    <3> QED BY <2>1, <2>2, <3>1
  <2>4. CASE out = <<>>
    <3>1. pc' = "done" /\ out' = <<1>> /\ UNCHANGED <<p, q>>
      BY <1>10, <2>4 DEF IsPalindrome, At, Return
    <3>2. c = Size - Half
      BY <1>3, <1>4, <2>2, <2>3, <2>4
    <3>3. ASSUME NEW k \in 1..Size PROVE list1[k] = list1[Size + 1 - k]
      <4>1. CASE k <= c
        BY <2>1, <2>2, <4>1
      <4>2. CASE ~(k <= c)
        <5>1. Size + 1 - k \in 1..c /\ Size + 1 - (Size + 1 - k) = k
          BY <1>3, <1>4, <3>2, <4>2
        <5> QED BY <2>1, <5>1
      <4> QED BY <4>1, <4>2
    <3> QED
      BY <1>1, <1>2, <1>5, <3>1, <3>3, SameInput DEF PalindromeResult
  <2>5. CASE out # <<>>
    <3>1. Head(out) = out[1] /\ Len(out) > 0
      BY <2>3, <2>5, TailIs
    <3>2. c < Size - Half /\ c + 1 <= Size
      BY <1>3, <1>4, <2>3, <3>1
    <3>3. data[p] = list1[c + 1] /\ next[p] = Node(c + 1 + 1)
      BY <1>2, <2>1, <2>2, <3>2, Steps
    <3>4. Head(out) = list1[Size - c]
      <4>1. 1 \in 1..(Size - Half - c) /\ Size + 1 - c - 1 = Size - c
        BY <1>3, <1>4, <2>2, <3>2
      <4> QED BY <2>3, <3>1, <4>1
    <3>5. Size + 1 - (c + 1) = Size - c /\ c + 1 \in 1..Size /\ c + 1 \in 0..(Size - Half)
      BY <1>3, <1>4, <2>2, <3>2
    <3>6. CASE data[p] # Head(out)
      <4>1. pc' = "done" /\ out' = <<0>> /\ UNCHANGED <<p, q>>
        BY <1>10, <2>5, <3>6 DEF IsPalindrome, At, Return
      <4>2. \E k \in 1..Size : list1[k] # list1[Size + 1 - k]
        BY <3>3, <3>4, <3>5, <3>6
      <4> QED
        BY <1>1, <1>2, <1>5, <4>1, <4>2, SameInput DEF PalindromeResult
    <3>7. CASE data[p] = Head(out)
      <4>1. p' = next[p] /\ out' = Tail(out) /\ UNCHANGED <<q, pc>>
        BY <1>10, <2>5, <3>7 DEF IsPalindrome, At
      <4>2. \A k \in 1..(c + 1) : list1[k] = list1[Size + 1 - k]
        <5>1. list1[c + 1] = list1[Size + 1 - (c + 1)]
          BY <3>3, <3>4, <3>5, <3>7
        <5>2. \A k \in 1..(c + 1) : k \in 1..c \/ k = c + 1
          BY <2>2
        <5> QED BY <2>1, <5>1, <5>2
      <4>3. out' = [k \in 1..(Size - Half - (c + 1)) |-> list1[Size + 1 - (c + 1) - k]]
        <5>1. Tail(out) = [k \in 1..(Len(out) - 1) |-> out[k + 1]]
          BY <2>3, <2>5, TailIs
        <5>2. Len(out) - 1 = Size - Half - (c + 1)
          BY <1>3, <1>4, <2>2, <2>3
        <5>3. ASSUME NEW k \in 1..(Size - Half - (c + 1))
              PROVE  out[k + 1] = list1[Size + 1 - (c + 1) - k]
          <6>1. k + 1 \in 1..(Size - Half - c) /\ Size + 1 - c - (k + 1) = Size + 1 - (c + 1) - k
            BY <1>3, <1>4, <2>2
          <6> QED BY <2>3, <6>1
        <5> QED BY <4>1, <5>1, <5>2, <5>3
      <4>4. p' \in 0..Size
        BY <1>3, <2>2, <3>3, <4>1 DEF Node
      <4>5. \E m \in 0..(Size - Half) :
               /\ p' = Node(m + 1) /\ out' = [k \in 1..(Size - Half - m) |-> list1[Size + 1 - m - k]]
               /\ \A k \in 1..m : list1[k] = list1[Size + 1 - k]
        <5> DEFINE b == c + 1
        <5>1. b \in 0..(Size - Half) /\ p' = Node(b + 1)
          BY <3>3, <3>5, <4>1
        <5>2. out' = [k \in 1..(Size - Half - b) |-> list1[Size + 1 - b - k]]
          BY <4>3
        <5>3. \A k \in 1..b : list1[k] = list1[Size + 1 - k]
          BY <4>2
        <5> HIDE DEF b
        <5> QED BY <5>1, <5>2, <5>3
      <4>6. pc' = "compare"
        BY <1>10, <4>1
      <4>7. /\ Size' = Size /\ Half' = Half /\ list1' = list1 /\ \A k : Node(k)' = Node(k)
            /\ OneList' /\ i' = 0 /\ acc' = 0 /\ p' \in 0..Size' /\ q' \in 0..Size'
        BY <1>1, <1>2, <1>5, <4>1, <4>4, SameInput DEF Node
      <4>8. \E m \in 0..(Size' - Half') :
               /\ p' = Node(m + 1)' /\ out' = [k \in 1..(Size' - Half' - m) |-> list1'[Size' + 1 - m - k]]
               /\ \A k \in 1..m : list1'[k] = list1'[Size' + 1 - k]
        BY <4>5, <4>7
      <4> QED
        BY <1>1, <4>6, <4>7, <4>8 DEF PalindromeResult
    <3> QED BY <3>6, <3>7
  <2> QED BY <2>4, <2>5
<1> QED
  BY <1>1, <1>7, <1>8, <1>9, <1>10

(* A step of deletenode keeps its invariant: the value and link of the next node are copied. *)
LEMMA DeleteNodeDoes ==
  ASSUME ResultsInv, DeleteNode
  PROVE  prog = "deletenode" /\ UNCHANGED input /\ DeleteResult'
<1>1. prog = "deletenode" /\ pc = "run" /\ UNCHANGED <<input, data, head, freed, q, i, acc, out>>
  BY DEF DeleteNode, At, ReturnList, Go, heap
<1>2. Inputs /\ data = list1 /\ head = First /\ freed = {} /\ q = First /\ i = 0 /\ acc = 0 /\ out = <<>>
  BY <1>1 DEF ResultsInv, DeleteResult
<1>3. PICK c \in 0..Size :
         /\ 2 * c <= Size /\ p = Node(2 * c + 1)
         /\ next = [k \in 1..Size |-> Node(IF Odd(k) /\ k <= 2 * c THEN k + 2 ELSE k + 1)]
  BY <1>1 DEF ResultsInv, DeleteResult
<1>4. Size \in Nat /\ c \in Nat
  BY <1>2, InputFacts
<1>5. \A k \in 1..Size : next[k] = Node(IF Odd(k) /\ k <= 2 * c THEN k + 2 ELSE k + 1)
  BY <1>3
<1>6. CASE p # 0 /\ next[p] # 0
  <2>1. next' = [next EXCEPT ![p] = next[next[p]]] /\ p' = next'[p] /\ UNCHANGED pc
    BY <1>6 DEF DeleteNode
  <2> DEFINE b == c + 1
  <2>2. p = 2 * c + 1 /\ p \in 1..Size /\ ~(p <= 2 * c)
    BY <1>3, <1>4, <1>6 DEF Node
  <2>3. next[p] = Node(p + 1)
    BY <1>5, <2>2
  <2>4. p + 1 \in 1..Size /\ Node(p + 1) = p + 1 /\ ~(p + 1 <= 2 * c)
    BY <1>4, <1>6, <2>2, <2>3 DEF Node
  <2>5. next[next[p]] = Node(p + 1 + 1)
    BY <1>5, <2>3, <2>4
  <2>6. p + 1 + 1 = p + 2 /\ 2 * b + 1 = p + 2 /\ 2 * b <= Size /\ b \in 0..Size
    BY <1>4, <2>2, <2>4
  <2>7. Odd(p) /\ p <= 2 * b
    BY <1>4, <2>2 DEF Odd
  <2>8. ASSUME NEW k \in 1..Size, k # p
        PROVE  (Odd(k) /\ k <= 2 * c) <=> (Odd(k) /\ k <= 2 * b)
    <3>1. k = 2 * c + 2 => ~Odd(k)
      BY <1>4 DEF Odd
    <3> QED BY <1>4, <2>2, <2>8, <3>1
  <2> HIDE DEF b
  <2>9. next' = [k \in 1..Size |-> Node(IF Odd(k) /\ k <= 2 * b THEN k + 2 ELSE k + 1)]
    <3>1. next' = [k \in 1..Size |-> IF k = p THEN Node(p + 2) ELSE next[k]]
      BY <1>3, <2>1, <2>2, <2>5, <2>6
    <3>2. ASSUME NEW k \in 1..Size
          PROVE  (IF k = p THEN Node(p + 2) ELSE next[k]) = Node(IF Odd(k) /\ k <= 2 * b THEN k + 2 ELSE k + 1)
      <4>1. CASE k = p
        BY <2>7, <4>1
      <4>2. CASE k # p
        BY <1>5, <2>8, <4>2
      <4> QED BY <4>1, <4>2
    <3> QED BY <3>1, <3>2
  <2>10. p' = Node(2 * b + 1)
    BY <1>3, <2>1, <2>2, <2>5, <2>6
  <2>11. \E m \in 0..Size :
           /\ 2 * m <= Size /\ p' = Node(2 * m + 1)
           /\ next' = [k \in 1..Size |-> Node(IF Odd(k) /\ k <= 2 * m THEN k + 2 ELSE k + 1)]
    BY <2>6, <2>9, <2>10
  <2>12. pc' = "run"
    BY <1>1, <2>1
  <2> QED
    BY <1>1, <1>2, <2>11, <2>12, SameInput DEF DeleteResult, Node, Odd
<1>7. CASE ~(p # 0 /\ next[p] # 0)
  <2>1. pc' = "done" /\ UNCHANGED <<next, p>>
    BY <1>7 DEF DeleteNode, ReturnList, Go, heap
  <2>2. Size < 2 * c + 2
    <3>1. CASE p = 0
      BY <1>3, <1>4, <3>1 DEF Node
    <3>2. CASE p # 0 /\ next[p] = 0
      <4>1. p = 2 * c + 1 /\ p \in 1..Size /\ ~(p <= 2 * c)
        BY <1>3, <1>4, <3>2 DEF Node
      <4>2. next[p] = Node(p + 1)
        BY <1>5, <4>1
      <4> QED BY <1>4, <3>2, <4>1, <4>2 DEF Node
    <3> QED BY <1>7, <3>1, <3>2
  <2> QED
    BY <1>1, <1>2, <1>3, <2>1, <2>2, SameInput DEF DeleteResult, Node
<1> QED
  BY <1>6, <1>7

(* A step of reverse keeps its invariant: the links behind p point back, those ahead are as they were. *)
LEMMA ReverseDoes ==
  ASSUME ResultsInv, ReverseStart \/ ReverseLoop
  PROVE  prog = "reverse" /\ UNCHANGED input /\ ReverseResult'
<1>1. prog = "reverse" /\ pc \in {"start", "run"} /\ UNCHANGED <<input, data, freed, i, acc, out>>
  BY DEF ReverseStart, ReverseLoop, Second, At, Crash, Go, heap
<1>2. Inputs /\ data = list1 /\ freed = {} /\ i = 0 /\ acc = 0 /\ out = <<>>
  BY <1>1 DEF ResultsInv, ReverseResult
<1>3. Size \in Nat /\ First = Node(1) /\ (list1 = <<>> <=> Size = 0) /\ Straight = [k \in 1..Size |-> Node(k + 1)]
  BY <1>2, InputFacts
<1>4. CASE pc = "start"
  <2>1. OneList /\ p = First /\ q = First
    BY <1>1, <1>4 DEF ResultsInv, ReverseResult
  <2>2. At("reverse", "start") /\ Second("run")
    BY <1>4 DEF ReverseStart, ReverseLoop, At
  <2>3. CASE head = 0
    <3>1. pc' = "crashed" /\ UNCHANGED <<heap, p, q>>
      BY <2>2, <2>3 DEF Second, Crash, Go
    <3> QED
      BY <1>1, <1>2, <2>1, <3>1, SameInput DEF ReverseResult
  <2>4. CASE head # 0
    <3>1. q' = next[head] /\ pc' = "run" /\ UNCHANGED <<heap, p>>
      BY <2>2, <2>4 DEF Second
    <3>2. head = 1 /\ 1 \in 1..Size /\ p = 1
      BY <1>3, <2>1, <2>4 DEF OneList, Node
    <3>3. q' = Node(1 + 1)
      BY <1>3, <2>1, <3>1, <3>2 DEF OneList
    <3>4. next = [k \in 1..Size |-> IF 1 < k /\ k <= 1 THEN k - 1 ELSE Node(k + 1)]
      <4>1. \A k \in 1..Size : ~(1 < k /\ k <= 1)
        BY <1>3
      <4> QED BY <1>3, <2>1, <4>1 DEF OneList
    <3> QED
      BY <1>1, <1>2, <3>1, <3>2, <3>3, <3>4, SameInput DEF ReverseResult, heap, Node
  <2> QED BY <2>3, <2>4
<1>5. CASE pc = "run"
  <2>1. head = 1
    BY <1>1, <1>5 DEF ResultsInv, ReverseResult
  <2>2. PICK c \in 1..Size :
               /\ p = c /\ q = Node(c + 1)
               /\ next = [k \in 1..Size |-> IF 1 < k /\ k <= c THEN k - 1 ELSE Node(k + 1)]
    BY <1>1, <1>5 DEF ResultsInv, ReverseResult
  <2>3. At("reverse", "run") /\ ReverseLoop
    BY <1>5 DEF ReverseStart, ReverseLoop, At
  <2>4. CASE q # 0
    <3>1. next' = [next EXCEPT ![q] = p] /\ p' = q /\ q' = next[q] /\ UNCHANGED <<head, pc>>
      BY <2>3, <2>4 DEF ReverseLoop
    <3> DEFINE b == c + 1
    <3>2. q = b /\ b \in 1..Size /\ b - 1 = c /\ 1 < b
      BY <1>3, <2>2, <2>4 DEF Node
    <3>3. q' = Node(b + 1)
      BY <1>3, <2>2, <3>1, <3>2
    <3>4. \A k \in 1..Size : (1 < k /\ k <= b) <=> (k = b \/ (1 < k /\ k <= c))
      BY <1>3, <2>2
    <3> HIDE DEF b
    <3>5. next' = [k \in 1..Size |-> IF 1 < k /\ k <= b THEN k - 1 ELSE Node(k + 1)]
      <4>1. next' = [k \in 1..Size |-> IF k = b THEN c ELSE IF 1 < k /\ k <= c THEN k - 1 ELSE Node(k + 1)]
        BY <2>2, <3>1, <3>2
      <4> QED BY <3>2, <3>4, <4>1
    <3>6. \E m \in 1..Size :
               /\ p' = m /\ q' = Node(m + 1)
               /\ next' = [k \in 1..Size |-> IF 1 < k /\ k <= m THEN k - 1 ELSE Node(k + 1)]
      BY <3>1, <3>2, <3>3, <3>5
    <3>7. pc' = "run" /\ head' = 1
      BY <1>5, <2>1, <3>1
    <3> QED
      BY <1>1, <1>2, <3>6, <3>7, SameInput DEF ReverseResult, Node
  <2>5. CASE q = 0
    <3>1. next' = [next EXCEPT ![head] = 0] /\ head' = p /\ pc' = "done" /\ UNCHANGED <<p, q>>
      BY <2>3, <2>5 DEF ReverseLoop
    <3>2. c = Size
      BY <1>3, <2>2, <2>5 DEF Node
    <3>3. next' = [k \in 1..Size |-> k - 1]
      <4>1. next' = [k \in 1..Size |-> IF k = 1 THEN 0 ELSE next[k]]
        BY <2>1, <2>2, <3>1
      <4>2. \A k \in 1..Size : k # 1 => next[k] = k - 1
        BY <1>3, <2>2, <3>2
      <4> QED BY <4>1, <4>2
    <3>4. list1 # <<>>
      BY <1>3, <2>2
    <3> QED
      BY <1>1, <1>2, <2>2, <2>5, <3>1, <3>2, <3>3, <3>4, SameInput DEF ReverseResult
  <2> QED BY <2>4, <2>5
<1> QED
  BY <1>1, <1>4, <1>5

(* A step of movelast keeps its invariant: q walks to the end, then the last node goes first. *)
LEMMA MoveLastDoes ==
  ASSUME ResultsInv, MoveLast
  PROVE  prog = "movelast" /\ UNCHANGED input /\ MoveLastResult'
<1>1. prog = "movelast" /\ pc \in {"start", "run"} /\ UNCHANGED <<input, data, freed, q, i, acc, out>>
  BY DEF MoveLast, At, Crash, Go, ReturnList, Walk, heap
<1>2. Inputs /\ data = list1 /\ freed = {} /\ q = First /\ i = 0 /\ acc = 0 /\ out = <<>> /\ OneList
  BY <1>1 DEF ResultsInv, MoveLastResult
<1>3. Size \in Nat /\ First = Node(1)
  BY <1>2, InputFacts
<1>4. next = Straight /\ head = First /\ \A k \in 1..Size : Straight[k] = IF k = Size THEN 0 ELSE k + 1
  BY <1>2 DEF OneList, Straight
<1>5. CASE pc = "start"
  <2>1. p = First
    BY <1>1, <1>5 DEF ResultsInv, MoveLastResult
  <2>2. CASE head = 0
    <3>1. pc' = "crashed" /\ UNCHANGED <<heap, p>>
      BY <1>5, <2>2 DEF MoveLast, At, Crash, Go
    <3> QED
      BY <1>1, <1>2, <2>1, <3>1, SameInput DEF MoveLastResult
  <2>3. CASE head # 0 /\ next[head] = 0
    <3>1. pc' = "done" /\ UNCHANGED <<heap, p>>
      BY <1>5, <2>3 DEF MoveLast, At, ReturnList, Go
    <3>2. Size = 1 /\ head = 1 /\ p = 1
      BY <1>3, <1>4, <2>1, <2>3 DEF Node
    <3>3. next = [k \in 1..Size |-> IF k = Size THEN (IF Size = 1 THEN 0 ELSE 1)
                                       ELSE IF k = Size - 1 THEN 0 ELSE k + 1]
      BY <1>4, <3>2 DEF Straight
    <3> QED
      BY <1>1, <1>2, <3>1, <3>2, <3>3, SameInput DEF MoveLastResult, heap
  <2>4. CASE head # 0 /\ next[head] # 0
    <3>1. pc' = "run" /\ UNCHANGED <<heap, p>>
      BY <1>5, <2>4 DEF MoveLast, At, Go
    <3>2. p = 1 /\ 1 \in 1..(Size - 1)
      BY <1>3, <1>4, <2>1, <2>4 DEF Node
    <3> QED
      BY <1>1, <1>2, <3>1, <3>2, SameInput DEF MoveLastResult
  <2> QED BY <2>2, <2>3, <2>4
<1>6. CASE pc = "run"
  <2>1. p \in 1..(Size - 1)
    BY <1>1, <1>6 DEF ResultsInv, MoveLastResult
  <2>2. next[p] = p + 1 /\ p + 1 \in 1..Size /\ Size > 1 /\ head = 1
    BY <1>3, <1>4, <2>1 DEF Node
  <2>3. CASE next[next[p]] # 0
    <3>1. p' = next[p] /\ UNCHANGED <<heap, pc>>
      BY <1>6, <2>3 DEF MoveLast, At, Walk
    <3>2. p + 1 \in 1..(Size - 1)
      BY <1>3, <1>4, <2>2, <2>3
    <3> QED
      BY <1>1, <1>2, <1>6, <2>2, <3>1, <3>2, SameInput DEF MoveLastResult
  <2>4. CASE next[next[p]] = 0
    <3>1. head' = next[p] /\ next' = [next EXCEPT ![p] = 0, ![next[p]] = head] /\ pc' = "done" /\ UNCHANGED p
      BY <1>6, <2>4 DEF MoveLast, At
    <3>2. p + 1 = Size /\ p = Size - 1
      BY <1>3, <1>4, <2>1, <2>2, <2>4
    <3>3. next' = [k \in 1..Size |-> IF k = Size THEN 1 ELSE IF k = Size - 1 THEN 0 ELSE next[k]]
      BY <1>3, <1>4, <2>1, <2>2, <3>1, <3>2 DEF Straight
    <3>4. next' = [k \in 1..Size |-> IF k = Size THEN (IF Size = 1 THEN 0 ELSE 1)
                                       ELSE IF k = Size - 1 THEN 0 ELSE k + 1]
      BY <1>3, <1>4, <2>2, <3>3
    <3>5. p' \in 1..Size
      BY <1>3, <2>1, <3>1
    <3>6. pc' = "done" /\ head' = Size
      BY <2>2, <3>1, <3>2
    <3> QED
      BY <1>1, <1>2, <3>4, <3>5, <3>6, SameInput DEF MoveLastResult
  <2> QED BY <2>3, <2>4
<1> QED
  BY <1>1, <1>5, <1>6

(* A step of swap_two keeps its invariant: the values of the pairs behind p are exchanged. *)
LEMMA SwapTwoDoes ==
  ASSUME ResultsInv, SwapTwo
  PROVE  prog = "swap_two" /\ UNCHANGED input /\ SwapResult'
<1>1. prog = "swap_two" /\ pc \in {"start", "run"} /\ UNCHANGED <<input, next, head, freed, i, acc, out>>
  BY DEF SwapTwo, Second, At, Crash, Go, heap
<1>2. Inputs /\ next = Straight /\ head = First /\ freed = {} /\ i = 0 /\ acc = 0 /\ out = <<>>
  BY <1>1 DEF ResultsInv, SwapResult
<1>3. Size \in Nat /\ First = Node(1) /\ Straight = [k \in 1..Size |-> Node(k + 1)] /\ list1 \in Seq(Values) /\ DOMAIN list1 = 1..Size
  BY <1>2, InputFacts
<1>4. \A k \in 1..Size : next[k] = Node(k + 1)
  BY <1>2, <1>3
<1>5. next' = Straight' /\ head' = First' /\ freed' = {} /\ i' = 0 /\ acc' = 0 /\ out' = <<>> /\ Size' = Size
  BY <1>1, <1>2, SameInput
<1>6. \A k \in Nat : Node(k) \in 0..Size
  BY <1>3 DEF Node
<1>7. CASE pc = "start"
  <2>1. data = list1 /\ p = First /\ q = First
    BY <1>1, <1>7 DEF ResultsInv, SwapResult
  <2>2. data = Swapped(0)
    <3>1. \A k \in 1..Size : ~(k <= 2 * 0)
      BY <1>3
    <3>2. list1 = [k \in 1..Size |-> list1[k]]
      BY <1>3
    <3> QED BY <2>1, <3>1, <3>2 DEF Swapped
  <2>3. CASE head = 0
    <3>1. pc' = "crashed" /\ UNCHANGED <<data, p, q>>
      BY <1>7, <2>3 DEF SwapTwo, At, Second, Crash, Go, heap
    <3>2. p' \in 0..Size /\ q' \in 0..Size
      BY <1>3, <1>6, <2>1, <3>1
    <3>3. \E c \in 0..Size : 2 * c <= Size /\ data' = Swapped(c)
      BY <1>3, <2>2, <3>1
    <3> QED
      BY <1>1, <1>5, <3>1, <3>2, <3>3, SameInput DEF SwapResult, Swapped, Odd
  <2>4. CASE head # 0
    <3>1. q' = next[head] /\ pc' = "run" /\ UNCHANGED <<data, p>>
      BY <1>7, <2>4 DEF SwapTwo, At, Second, heap
    <3>2. head = 1 /\ 1 \in 1..Size /\ p = 1
      BY <1>2, <1>3, <2>1, <2>4 DEF Node
    <3>3. q' = Node(2 * 0 + 2)
      <4>1. 2 * 0 + 2 = 1 + 1
        OBVIOUS
      <4> QED BY <1>4, <3>1, <3>2, <4>1
    <3>4. p' \in 0..Size /\ q' \in 0..Size
      <4>1. 2 * 0 + 2 \in Nat /\ 1 \in 0..Size
        BY <1>3, <3>2
      <4>2. Node(2 * 0 + 2) \in 0..Size
        BY <1>6, <4>1
      <4> QED BY <3>1, <3>2, <3>3, <4>1, <4>2
    <3>5. \E c \in 0..Size : 2 * c <= Size /\ data' = Swapped(c) /\ p' = 2 * c + 1 /\ q' = Node(2 * c + 2) /\ 2 * c < Size
      BY <1>3, <2>2, <3>1, <3>2, <3>3
    <3> QED
      BY <1>1, <1>5, <3>1, <3>4, <3>5, SameInput DEF SwapResult, Swapped, Odd, Node
  <2> QED BY <2>3, <2>4
<1>8. CASE pc = "run"
  <2>1. PICK c \in 0..Size : 2 * c <= Size /\ data = Swapped(c) /\ p = 2 * c + 1 /\ q = Node(2 * c + 2) /\ 2 * c < Size
    BY <1>1, <1>8 DEF ResultsInv, SwapResult
  <2>2. c \in Nat /\ p \in 1..Size /\ q \in 0..Size
    BY <1>3, <1>6, <2>1
  <2>3. CASE q = 0
    <3>1. pc' = "crashed" /\ UNCHANGED <<data, p, q>>
      BY <1>8, <2>3 DEF SwapTwo, At, Crash, Go, heap
    <3>2. p' \in 0..Size /\ q' \in 0..Size
      BY <1>3, <2>2, <3>1
    <3>3. \E m \in 0..Size : 2 * m <= Size /\ data' = Swapped(m)
      BY <2>1, <3>1
    <3> QED
      BY <1>1, <1>5, <3>1, <3>2, <3>3, SameInput DEF SwapResult, Swapped, Odd
  <2>4. CASE q # 0
    <3>1. data' = [data EXCEPT ![p] = data[q], ![q] = data[p]]
      BY <1>8, <2>4 DEF SwapTwo, At
    <3> DEFINE b == c + 1
    <3>2. q = 2 * c + 2 /\ q \in 1..Size /\ q = p + 1 /\ 2 * b = q /\ b \in 0..Size
      BY <1>3, <2>1, <2>2, <2>4 DEF Node
    <3>3. Odd(p) /\ ~Odd(q) /\ p <= 2 * b /\ ~(p <= 2 * c) /\ ~(q <= 2 * c) /\ q - 1 = p
      BY <2>1, <2>2, <3>2 DEF Odd
    <3>4. data[p] = list1[p] /\ data[q] = list1[q]
      BY <2>1, <2>2, <3>2, <3>3 DEF Swapped
    <3>5. \A k \in 1..Size : k # p /\ k # q => (k <= 2 * c <=> k <= 2 * b)
      BY <2>1, <2>2, <3>2
    <3> HIDE DEF b
    <3>6. data' = Swapped(b)
      <4>1. data' = [k \in 1..Size |-> IF k = q THEN list1[p] ELSE IF k = p THEN list1[q] ELSE data[k]]
        BY <2>1, <2>2, <3>1, <3>2, <3>4 DEF Swapped
      <4>2. ASSUME NEW k \in 1..Size
            PROVE  (IF k = q THEN list1[p] ELSE IF k = p THEN list1[q] ELSE data[k])
                   = list1[IF k <= 2 * b THEN (IF Odd(k) THEN k + 1 ELSE k - 1) ELSE k]
        <5>1. CASE k = q
          BY <3>2, <3>3, <5>1
        <5>2. CASE k = p /\ k # q
          BY <3>2, <3>3, <5>2
        <5>3. CASE k # p /\ k # q
          BY <2>1, <3>5, <5>3 DEF Swapped
        <5> QED BY <5>1, <5>2, <5>3
      <4> QED BY <4>1, <4>2 DEF Swapped
    <3>7. next[q] = Node(q + 1)
      BY <1>4, <3>2
    <3>8. CASE next[q] = 0
      <4>1. pc' = "done" /\ UNCHANGED <<p, q>>
        BY <1>8, <2>4, <3>8 DEF SwapTwo, At
      <4>2. 2 * b = Size /\ 2 * b <= Size
        BY <1>3, <3>2, <3>7, <3>8 DEF Node
      <4>3. p' \in 0..Size /\ q' \in 0..Size
        BY <1>3, <2>2, <4>1
      <4>4. \E m \in 0..Size : 2 * m <= Size /\ data' = Swapped(m) /\ 2 * m = Size
        BY <3>2, <3>6, <4>2
      <4> QED
        BY <1>1, <1>5, <4>1, <4>3, <4>4, SameInput DEF SwapResult, Swapped, Odd
    <3>9. CASE next[q] # 0
      <4>1. p' = next[next[p]] /\ q' = next[next[q]] /\ UNCHANGED pc
        BY <1>8, <2>4, <3>9 DEF SwapTwo, At
      <4>2. next[q] = q + 1 /\ q + 1 \in 1..Size
        BY <1>3, <3>2, <3>7, <3>9 DEF Node
      <4>3. next[p] = q
        BY <1>4, <2>2, <3>2 DEF Node
      <4>4. q + 1 = 2 * b + 1 /\ q + 1 + 1 = 2 * b + 2 /\ 2 * b <= Size /\ 2 * b < Size
        BY <1>3, <3>2, <4>2
      <4>5. p' = 2 * b + 1 /\ q' = Node(2 * b + 2)
        <5>1. next[q + 1] = Node(q + 1 + 1)
          BY <1>4, <4>2
        <5> QED BY <4>1, <4>2, <4>3, <4>4, <5>1
      <4>6. p' \in 0..Size /\ q' \in 0..Size
        <5>1. 2 * b + 2 \in Nat /\ q + 1 \in 0..Size
          BY <1>3, <3>2, <4>2
        <5>2. Node(2 * b + 2) \in 0..Size
          BY <1>6, <5>1
        <5> QED BY <4>4, <4>5, <5>1, <5>2
      <4>7. \E m \in 0..Size : 2 * m <= Size /\ data' = Swapped(m) /\ p' = 2 * m + 1 /\ q' = Node(2 * m + 2) /\ 2 * m < Size
        BY <3>2, <3>6, <4>4, <4>5
      <4>8. pc' = "run"
        BY <1>8, <4>1
      <4> QED
        BY <1>1, <1>5, <4>6, <4>7, <4>8, SameInput DEF SwapResult, Swapped, Odd, Node
    <3> QED BY <3>8, <3>9
  <2> QED BY <2>3, <2>4
<1> QED
  BY <1>1, <1>7, <1>8

(* Lists whose elements are the same, but in other places. *)
LEMMA CountPermuted ==
  ASSUME NEW m \in Nat, NEW s, NEW t, DOMAIN s = 1..m, DOMAIN t = 1..m,
         NEW g \in Bijection(1..m, 1..m), \A k \in 1..m : s[k] = t[g[k]], NEW x
  PROVE  Count(s, x) = Count(t, x)
<1> DEFINE A == {k \in 1..m : s[k] = x}
           B == {k \in 1..m : t[k] = x}
           h == [k \in A |-> g[k]]
<1>1. g \in [1..m -> 1..m] /\ (\A j, k \in 1..m : g[j] = g[k] => j = k) /\ \A j \in 1..m : \E k \in 1..m : g[k] = j
  BY DEF Bijection, Injection, Surjection, IsInjective
<1>2. h \in Bijection(A, B)
  <2>1. h \in [A -> B]
    BY <1>1
  <2>2. \A j, k \in A : h[j] = h[k] => j = k
    BY <1>1
  <2>3. \A j \in B : \E k \in A : h[k] = j
    BY <1>1
  <2> QED BY <2>1, <2>2, <2>3 DEF Bijection, Injection, Surjection, IsInjective
<1>3. IsFiniteSet(A)
  <2>1. IsFiniteSet(1..m)
    BY FS_Interval
  <2>2. A \in SUBSET (1..m)
    OBVIOUS
  <2> QED BY <2>1, <2>2, FS_Subset
<1>4. Cardinality(B) = Cardinality(A)
  <2>1. ExistsBijection(A, B)
    BY <1>2 DEF ExistsBijection
  <2> HIDE DEF A, B
  <2> QED BY <1>3, <2>1, FS_Bijection
<1> QED BY <1>4 DEF Count

(* Which node stays, but for the first two. *)
LEMMA KeptIs ==
  ASSUME Inputs
  PROVE  /\ list1[1] # arg => \A k \in 1..Size : k \in Kept <=> list1[k] # arg
         /\ list1[1] = arg => /\ 1 \notin Kept /\ 2 \in Kept /\ \A k \in Kept : k >= 2
                              /\ \A k \in 3..Size : k \in Kept <=> list1[k] # arg
         /\ \A k \in Kept : k \in Nat /\ k > 0
<1>1. Size \in Nat
  BY InputFacts
<1> QED BY <1>1 DEF Kept

(* The first step of remove_node keeps its invariant, whichever test of the head it makes. *)
LEMMA RemoveStart ==
  ASSUME ResultsInv, RemoveNode, pc = "start"
  PROVE  prog = "remove_node" /\ UNCHANGED input /\ RemoveResult'
<1>1. prog = "remove_node" /\ UNCHANGED <<input, data, next, i, acc, out>>
  BY DEF RemoveNode, Second, At, Crash, Go, heap
<1>2. Inputs /\ data = list1 /\ next \in [1..Size -> 0..Size] /\ i = 0 /\ acc = 0 /\ out = <<>> /\ OneList /\ p = First /\ q = First
  <2>1. pc \notin {"run", "done", "crashed"}
    OBVIOUS
  <2> QED BY <1>1, <2>1 DEF ResultsInv, RemoveResult
<1>3. Size \in Nat /\ First = Node(1) /\ Straight = [k \in 1..Size |-> Node(k + 1)] /\ list1 \in Seq(Values) /\ DOMAIN list1 = 1..Size
      /\ (\A k \in 1..Size : list1[k] \in Values) /\ (list1 = <<>> <=> Size = 0)
  BY <1>2, InputFacts
<1>4. next = Straight /\ head = First /\ freed = {} /\ \A k \in 1..Size : next[k] = Node(k + 1)
  BY <1>2, <1>3 DEF OneList
<1>5. data' = list1' /\ next' \in [1..Size' -> 0..Size'] /\ i' = 0 /\ acc' = 0 /\ out' = <<>> /\ Size' = Size
  BY <1>1, <1>2, SameInput
<1> DEFINE P == Picked(list1, Kept)
<1>6. /\ P[0] = <<>>
      /\ \A k \in 1..Size : P[k] = IF k \in Kept THEN Append(P[k - 1], list1[k]) ELSE P[k - 1]
  <2>1. list1 \in Seq(Values) /\ Size = Len(list1)
    BY <1>3 DEF Size
  <2>2. /\ Picked(list1, Kept)[0] = <<>>
        /\ \A k \in 1..Len(list1) :
             Picked(list1, Kept)[k] = IF k \in Kept THEN Append(Picked(list1, Kept)[k - 1], list1[k]) ELSE Picked(list1, Kept)[k - 1]
    BY <2>1, PickedIs
  <2> QED BY <2>1, <2>2
<1> HIDE DEF P
<1>7. CASE head # 0 /\ data[head] = arg
  <2>1. freed' = {head} /\ head' = next[head] /\ p' = head'
        /\ (head' = 0 => pc' = "crashed" /\ q' = 0) /\ (head' # 0 => pc' = "run" /\ q' = next[head'])
    BY <1>7 DEF RemoveNode, At
  <2>2. head = 1 /\ 1 \in 1..Size /\ head' = Node(1 + 1) /\ list1[1] = arg
    BY <1>2, <1>3, <1>4, <1>7, <2>1 DEF Node
  <2>3. CASE head' = 0
    <3>1. Size = 1
      BY <1>3, <2>2, <2>3 DEF Node
    <3> QED
      BY <1>1, <1>4, <1>5, <2>1, <2>2, <2>3, <3>1, SameInput DEF RemoveResult
  <2>4. CASE head' # 0
    <3> DEFINE t == <<2>>
    <3>1. head' = 2 /\ p' = 2 /\ 2 \in 1..Size /\ q' = Node(2 + 1) /\ pc' = "run" /\ freed' = {1}
      BY <1>3, <1>4, <2>1, <2>2, <2>4 DEF Node
    <3>2. t \in Seq(1..Size) /\ t # <<>> /\ Len(t) = 1 /\ t[1] = 2
      BY <3>1
    <3> HIDE DEF t
    <3>3. 2 \in Kept /\ 1 \notin Kept
      BY <1>2, <2>2, KeptIs
    <3>4. P[2] = [j \in 1..Len(t) |-> list1[t[j]]]
      <4>0. 1 - 1 = 0 /\ 2 - 1 = 1
        OBVIOUS
      <4>1. P[1] = P[0] /\ P[2] = Append(P[1], list1[2])
        BY <1>6, <2>2, <3>1, <3>3, <4>0
      <4>2. P[2] = Append(<<>>, list1[2])
        BY <1>6, <4>1
      <4>3. Append(<<>>, list1[2]) = [j \in 1..1 |-> list1[2]]
        OBVIOUS
      <4> QED BY <3>2, <4>2, <4>3
    <3>5. /\ \A j \in 1..Len(t) : t[j] <= 2 /\ t[j] \in Kept
          /\ \A k \in 1..2 : k \in Kept => \E j \in 1..Len(t) : t[j] = k
          /\ \A j, k \in 1..Len(t) : j < k => t[j] < t[k]
          /\ \A j \in 1..(Len(t) - 1) : next[t[j]] = t[j + 1]
      BY <3>2, <3>3
    <3>6. next[2] = Node(2 + 1) /\ \A k \in (2 + 1)..Size : next[k] = Node(k + 1)
      <4>1. \A k \in (2 + 1)..Size : k \in 1..Size
        BY <1>3
      <4> QED BY <1>4, <3>1, <4>1
    <3>7. {1} = (1..2) \ Kept
      BY <3>3
    <3>8. KeptSoFar(2, t)'
      BY <1>1, <3>1, <3>2, <3>4, <3>5, <3>6, <3>7, SameInput DEF KeptSoFar, Node, P
    <3>9. \E c \in 1..Size' : \E u \in Seq(1..Size') : KeptSoFar(c, u)' /\ q' = Node(c + 1)' /\ pc' = "run"
      BY <1>5, <3>1, <3>2, <3>8, SameInput DEF Node
    <3> QED
      BY <1>1, <1>5, <3>9 DEF RemoveResult
  <2> QED BY <2>3, <2>4
<1>8. CASE ~(head # 0 /\ data[head] = arg)
  <2>1. Second("run")
    BY <1>8 DEF RemoveNode, At
  <2>2. CASE head = 0
    <3>1. pc' = "crashed" /\ UNCHANGED <<heap, p, q>>
      BY <2>1, <2>2 DEF Second, Crash, Go
    <3> QED
      BY <1>1, <1>2, <1>5, <3>1, SameInput DEF RemoveResult
  <2>3. CASE head # 0
    <3>1. q' = next[head] /\ pc' = "run" /\ UNCHANGED <<heap, p>>
      BY <2>1, <2>3 DEF Second
    <3>2. head = 1 /\ 1 \in 1..Size /\ p = 1 /\ list1[1] # arg
      BY <1>2, <1>3, <1>4, <1>8, <2>3 DEF Node
    <3> DEFINE t == <<1>>
    <3>3. t \in Seq(1..Size) /\ t # <<>> /\ Len(t) = 1 /\ t[1] = 1
      BY <3>2
    <3> HIDE DEF t
    <3>4. 1 \in Kept
      BY <1>2, <3>2, KeptIs
    <3>5. P[1] = [j \in 1..Len(t) |-> list1[t[j]]]
      <4>0. 1 - 1 = 0
        OBVIOUS
      <4>1. P[1] = Append(P[0], list1[1])
        BY <1>6, <3>2, <3>4, <4>0
      <4>2. P[1] = Append(<<>>, list1[1])
        BY <1>6, <4>1
      <4>3. Append(<<>>, list1[1]) = [j \in 1..1 |-> list1[1]]
        OBVIOUS
      <4> QED BY <3>3, <4>2, <4>3
    <3>6. /\ \A j \in 1..Len(t) : t[j] <= 1 /\ t[j] \in Kept
          /\ \A k \in 1..1 : k \in Kept => \E j \in 1..Len(t) : t[j] = k
          /\ \A j, k \in 1..Len(t) : j < k => t[j] < t[k]
          /\ \A j \in 1..(Len(t) - 1) : next[t[j]] = t[j + 1]
      BY <3>3, <3>4
    <3>7. next[1] = Node(1 + 1) /\ \A k \in (1 + 1)..Size : next[k] = Node(k + 1)
      <4>1. \A k \in (1 + 1)..Size : k \in 1..Size
        BY <1>3
      <4> QED BY <1>4, <3>2, <4>1
    <3>8. {} = (1..1) \ Kept
      BY <3>4
    <3>9. KeptSoFar(1, t)'
      BY <1>1, <1>4, <3>1, <3>2, <3>3, <3>5, <3>6, <3>7, <3>8, SameInput DEF KeptSoFar, Node, P, heap
    <3>10. q' = Node(1 + 1)'
      BY <1>1, <3>1, <3>2, <3>7, SameInput DEF Node
    <3>11. \E c \in 1..Size' : \E u \in Seq(1..Size') : KeptSoFar(c, u)' /\ q' = Node(c + 1)' /\ pc' = "run"
      BY <1>5, <3>1, <3>2, <3>3, <3>9, <3>10
    <3> QED
      BY <1>1, <1>5, <3>11 DEF RemoveResult
  <2> QED BY <2>2, <2>3
<1> QED
  BY <1>7, <1>8

(* Its loop: the node behind the trailing pointer is freed, or stays. *)
LEMMA RemoveLoop ==
  ASSUME ResultsInv, RemoveNode, pc = "run"
  PROVE  prog = "remove_node" /\ UNCHANGED input /\ RemoveResult'
<1>1. prog = "remove_node" /\ UNCHANGED <<input, data, head, i, acc, out>>
  BY DEF RemoveNode, Walk, At, Go, ReturnList, heap
<1>2. Inputs /\ data = list1 /\ next \in [1..Size -> 0..Size] /\ i = 0 /\ acc = 0 /\ out = <<>>
  BY <1>1 DEF ResultsInv, RemoveResult
<1>3. PICK c \in 1..Size : \E t \in Seq(1..Size) : KeptSoFar(c, t) /\ q = Node(c + 1)
  BY <1>1 DEF ResultsInv, RemoveResult
<1>4. PICK t \in Seq(1..Size) : KeptSoFar(c, t)
  BY <1>3
<1>5. q = Node(c + 1)
  BY <1>3
<1>6. Size \in Nat /\ list1 \in Seq(Values) /\ DOMAIN list1 = 1..Size /\ Size = Len(list1) /\ c \in Nat /\ c >= 1 /\ c <= Size
  BY <1>2, <1>3, InputFacts DEF Size
<1>7. data' = list1' /\ i' = 0 /\ acc' = 0 /\ out' = <<>> /\ Size' = Size /\ Kept' = Kept
      /\ list1' = list1 /\ head' = head
  BY <1>1, <1>2, SameInput
<1>8. /\ t # <<>> /\ t[1] = head /\ t[Len(t)] = p
      /\ \A j \in 1..Len(t) : t[j] <= c /\ t[j] \in Kept
      /\ \A k \in 1..c : k \in Kept => \E j \in 1..Len(t) : t[j] = k
      /\ \A j, k \in 1..Len(t) : j < k => t[j] < t[k]
      /\ \A j \in 1..(Len(t) - 1) : next[t[j]] = t[j + 1]
      /\ next[p] = Node(c + 1) /\ \A k \in (c + 1)..Size : next[k] = Node(k + 1)
      /\ Picked(list1, Kept)[c] = [j \in 1..Len(t) |-> list1[t[j]]]
      /\ freed = (1..c) \ Kept
  BY <1>4 DEF KeptSoFar
<1>9. Len(t) \in Nat /\ Len(t) >= 1 /\ Len(t) \in 1..Len(t) /\ 1 \in 1..Len(t) /\ (\A j \in 1..Len(t) : t[j] \in 1..Size)
      /\ p \in 1..Size /\ p <= c
  <2>1. Len(t) \in Nat /\ Len(t) >= 1
    BY <1>4, <1>8
  <2>2. Len(t) \in 1..Len(t) /\ 1 \in 1..Len(t)
    BY <2>1
  <2>3. \A j \in 1..Len(t) : t[j] \in 1..Size
    <3>1. t \in Seq(1..Size)
      BY <1>4
    <3>2. ASSUME NEW S, NEW s \in Seq(S) PROVE \A j \in 1..Len(s) : s[j] \in S
      OBVIOUS
    <3> QED BY <3>1, <3>2
  <2> QED BY <1>8, <2>1, <2>2, <2>3
<1>10. CASE q = 0
  <2>1. pc' = "done" /\ UNCHANGED <<next, freed, p, q>>
    <3>1. ReturnList
      BY <1>10 DEF RemoveNode, At
    <3> QED BY <3>1 DEF ReturnList, Go, heap
  <2>2. c = Size
    <3>1. Node(c + 1) = 0
      BY <1>5, <1>10
    <3>2. ~(c + 1 <= Size)
      BY <1>6, <3>1 DEF Node
    <3>3. ASSUME NEW a \in Nat, NEW b \in Nat, a <= b, ~(a + 1 <= b) PROVE a = b
      BY <3>3
    <3> QED BY <1>6, <3>2, <3>3, Zenon
  <2>3. KeptSoFar(c, t)' /\ q' = Node(c + 1)'
    BY <1>4, <1>5, <1>7, <2>1 DEF KeptSoFar, Node
  <2>4. \E k \in 1..Size' : \E u \in Seq(1..Size') : KeptSoFar(k, u)' /\ q' = Node(k + 1)' /\ k = Size'
    BY <1>3, <1>4, <1>7, <2>2, <2>3
  <2> QED
    BY <1>1, <1>2, <1>7, <2>1, <2>4 DEF RemoveResult
<1>11. CASE q # 0
  <2> DEFINE b == c + 1
  <2>1. q = b /\ b \in 1..Size /\ b - 1 = c /\ b > c /\ b \in Nat
    BY <1>3, <1>5, <1>6, <1>11 DEF Node
  <2>2. next[q] = Node(b + 1)
    <3>1. b \in (c + 1)..Size
      BY <2>1
    <3> QED BY <1>8, <2>1, <3>1
  <2>3. b \in Kept <=> list1[b] # arg
    <3>1. CASE list1[1] # arg
      BY <1>2, <2>1, <3>1, KeptIs
    <3>2. CASE list1[1] = arg
      <4>1. t[1] \in Kept /\ t[1] <= c
        BY <1>8, <1>9
      <4>2. t[1] >= 2
        BY <1>2, <3>2, <4>1, KeptIs
      <4>3. b \in 3..Size
        BY <1>6, <1>9, <2>1, <4>1, <4>2
      <4> QED BY <1>2, <3>2, <4>3, KeptIs
    <3> QED BY <3>1, <3>2
  <2>4. Picked(list1, Kept)[b] = IF b \in Kept THEN Append(Picked(list1, Kept)[c], list1[b]) ELSE Picked(list1, Kept)[c]
    <3>1. b \in 1..Len(list1) /\ list1 \in Seq(Values)
      BY <1>6, <2>1
    <3>2. Picked(list1, Kept)[b] = IF b \in Kept THEN Append(Picked(list1, Kept)[b - 1], list1[b]) ELSE Picked(list1, Kept)[b - 1]
      BY <3>1, PickedIs
    <3> QED BY <2>1, <3>2
  <2>5. \A k \in 1..b : k \in 1..c \/ k = b
    BY <1>6
  <2>6. \A k \in (b + 1)..Size : k \in (c + 1)..Size /\ k # p /\ k \in 1..Size
    BY <1>6, <1>9
  <2> HIDE DEF b
  <2>7. CASE data[q] = arg
    <3>1. next' = [next EXCEPT ![p] = next[q]] /\ freed' = freed \cup {q} /\ q' = next[q] /\ p' = p /\ pc' = "run"
      BY <1>11, <2>7 DEF RemoveNode, At
    <3>2. b \notin Kept
      BY <1>2, <2>1, <2>3, <2>7
    <3>3. next' \in [1..Size -> 0..Size]
      BY <1>2, <1>9, <2>1, <3>1
    <3>4. next'[p] = Node(b + 1) /\ \A k \in 1..Size : k # p => next'[k] = next[k]
      BY <1>2, <1>9, <2>2, <3>1
    <3>5. \A j \in 1..(Len(t) - 1) : next'[t[j]] = t[j + 1]
      <4> SUFFICES ASSUME NEW j \in 1..(Len(t) - 1) PROVE next'[t[j]] = t[j + 1]
        OBVIOUS
      <4>1. j \in 1..Len(t) /\ j < Len(t)
        BY <1>9
      <4>2. t[j] < p /\ t[j] \in 1..Size
        BY <1>8, <1>9, <4>1
      <4>3. t[j] # p
        BY <1>9, <4>2
      <4> QED BY <1>8, <3>4, <4>2, <4>3
    <3>6. \A k \in (b + 1)..Size : next'[k] = Node(k + 1)
      BY <1>8, <2>6, <3>4
    <3>7. freed' = (1..b) \ Kept
      <4>1. 1..b = (1..c) \cup {b}
        BY <1>6, <2>1, <2>5
      <4> QED BY <1>8, <2>1, <3>1, <3>2, <4>1
    <3>8. \A k \in 1..b : k \in Kept => \E j \in 1..Len(t) : t[j] = k
      BY <1>8, <2>5, <3>2
    <3>9. \A j \in 1..Len(t) : t[j] <= b /\ t[j] \in Kept
      BY <1>6, <1>8, <1>9, <2>1
    <3>10. Picked(list1, Kept)[b] = [j \in 1..Len(t) |-> list1[t[j]]]
      BY <1>8, <2>4, <3>2
    <3>11. KeptSoFar(b, t)'
      BY <1>7, <1>8, <3>1, <3>4, <3>5, <3>6, <3>7, <3>8, <3>9, <3>10 DEF KeptSoFar, Node
    <3>12. q' = Node(b + 1)'
      BY <1>7, <2>2, <3>1 DEF Node
    <3>13. \E k \in 1..Size' : \E u \in Seq(1..Size') : KeptSoFar(k, u)' /\ q' = Node(k + 1)'
      BY <1>7, <2>1, <3>11, <3>12
    <3> QED
      BY <1>1, <1>7, <3>1, <3>3, <3>13 DEF RemoveResult
  <2>8. CASE data[q] # arg
    <3>1. p' = next[p] /\ q' = next[q] /\ UNCHANGED <<next, freed, pc>>
      BY <1>11, <2>8 DEF RemoveNode, At, Walk, heap
    <3>2. b \in Kept /\ p' = b
      BY <1>2, <1>5, <1>8, <2>1, <2>3, <2>8, <3>1
    <3> DEFINE u == Append(t, b)
               m == Len(t) + 1
    <3>3. /\ u \in Seq(1..Size) /\ Len(u) = m /\ u # <<>> /\ u[m] = b
          /\ \A j \in 1..Len(t) : u[j] = t[j]
      BY <1>4, <2>1, AppendIs
    <3>4. m \in Nat /\ (\A j \in 1..m : j \in 1..Len(t) \/ j = m) /\ m - 1 = Len(t) /\ 1 \in 1..Len(t)
      BY <1>9
    <3>5. \A j \in 1..Len(t) : j < m /\ j \in 1..m
      BY <1>9
    <3> HIDE DEF u, m
    <3>6. u[1] = head /\ u[Len(u)] = p'
      BY <1>8, <3>2, <3>3, <3>4
    <3>7. \A j \in 1..Len(u) : u[j] <= b /\ u[j] \in Kept
      <4>1. ASSUME NEW j \in 1..Len(t) PROVE u[j] <= b /\ u[j] \in Kept
        <5>1. t[j] <= c /\ t[j] \in Kept /\ t[j] \in Nat /\ u[j] = t[j]
          BY <1>8, <1>9, <3>3
        <5> QED BY <1>6, <2>1, <5>1
      <4>2. u[m] <= b /\ u[m] \in Kept
        BY <2>1, <3>2, <3>3
      <4> QED BY <3>3, <3>4, <4>1, <4>2
    <3>8. \A k \in 1..b : k \in Kept => \E j \in 1..Len(u) : u[j] = k
      <4> SUFFICES ASSUME NEW k \in 1..b, k \in Kept PROVE \E j \in 1..Len(u) : u[j] = k
        OBVIOUS
      <4>1. CASE k = b
        BY <3>3, <3>4, <4>1
      <4>2. CASE k \in 1..c
        <5>1. PICK j \in 1..Len(t) : t[j] = k
          BY <1>8, <4>2
        <5> QED BY <3>3, <3>5, <5>1
      <4> QED BY <2>5, <4>1, <4>2
    <3>9. \A j, k \in 1..Len(u) : j < k => u[j] < u[k]
      <4> SUFFICES ASSUME NEW j \in 1..m, NEW k \in 1..m, j < k PROVE u[j] < u[k]
        BY <3>3
      <4>1. j \in 1..Len(t) /\ u[j] = t[j]
        BY <3>3, <3>4
      <4>2. CASE k = m
        BY <1>6, <1>8, <1>9, <2>1, <3>3, <4>1, <4>2
      <4>3. CASE k \in 1..Len(t)
        BY <1>8, <3>3, <4>1, <4>3
      <4> QED BY <3>4, <4>2, <4>3
    <3>10. \A j \in 1..(Len(u) - 1) : next[u[j]] = u[j + 1]
      <4> SUFFICES ASSUME NEW j \in 1..Len(t) PROVE next[u[j]] = u[j + 1]
        BY <3>3, <3>4
      <4>1. CASE j = Len(t)
        <5>1. u[j] = p /\ j + 1 = m
          BY <1>8, <3>3, <3>4, <4>1 DEF m
        <5> QED BY <1>5, <1>8, <2>1, <3>3, <5>1
      <4>2. CASE j # Len(t)
        <5>1. j \in 1..(Len(t) - 1) /\ j + 1 \in 1..Len(t)
          BY <1>9, <4>2
        <5> QED BY <1>8, <3>3, <5>1
      <4> QED BY <4>1, <4>2
    <3>11. next[b] = Node(b + 1) /\ \A k \in (b + 1)..Size : next[k] = Node(k + 1)
      BY <1>8, <2>1, <2>2, <2>6
    <3>12. Picked(list1, Kept)[b] = [j \in 1..Len(u) |-> list1[u[j]]]
      <4>1. Picked(list1, Kept)[b] = Append([j \in 1..Len(t) |-> list1[t[j]]], list1[b])
        BY <1>8, <2>4, <3>2
      <4>2. ASSUME NEW s, NEW l \in Nat, s = [j \in 1..l |-> list1[t[j]]]
            PROVE  /\ Append(s, list1[b]) = [j \in 1..(l + 1) |-> IF j = l + 1 THEN list1[b] ELSE list1[t[j]]]
        BY <4>2
      <4>3. Picked(list1, Kept)[b] = [j \in 1..m |-> IF j = m THEN list1[b] ELSE list1[t[j]]]
        BY <1>9, <4>1, <4>2 DEF m
      <4>4. \A j \in 1..m : list1[u[j]] = IF j = m THEN list1[b] ELSE list1[t[j]]
        BY <3>3, <3>4
      <4> QED BY <3>3, <4>3, <4>4
    <3>13. freed = (1..b) \ Kept
      <4>1. 1..b = (1..c) \cup {b}
        BY <1>6, <2>1, <2>5
      <4> QED BY <1>8, <3>2, <4>1
    <3>14. KeptSoFar(b, u)'
      BY <1>7, <3>1, <3>2, <3>3, <3>6, <3>7, <3>8, <3>9, <3>10, <3>11, <3>12, <3>13 DEF KeptSoFar, Node
    <3>15. q' = Node(b + 1)'
      BY <1>7, <2>2, <3>1 DEF Node
    <3>16. \E k \in 1..Size' : \E s \in Seq(1..Size') : KeptSoFar(k, s)' /\ q' = Node(k + 1)'
      BY <1>7, <2>1, <3>3, <3>14, <3>15
    <3> QED
      BY <1>1, <1>2, <1>7, <3>1, <3>16 DEF RemoveResult
  <2> QED BY <2>7, <2>8
<1> QED
  BY <1>10, <1>11

(* A step of remove_node keeps its invariant: the nodes with the value behind p are out of the list. *)
LEMMA RemoveNodeDoes ==
  ASSUME ResultsInv, RemoveNode
  PROVE  prog = "remove_node" /\ UNCHANGED input /\ RemoveResult'
<1>1. pc = "start" \/ pc = "run"
  BY DEF RemoveNode, At
<1> QED BY <1>1, RemoveStart, RemoveLoop

(* A step of the pointer to an even number, of the pointer to an odd one, of both. *)
LEMMA SegDoes ==
  ASSUME ResultsInv, Seg
  PROVE  prog = "seg" /\ UNCHANGED input /\ SegResult'
<1>1. prog = "seg" /\ pc = "run" /\ UNCHANGED <<input, next, head, freed, i, acc, out>>
  BY DEF Seg, Walk, At, ReturnList, Go, heap
<1>2. Inputs /\ next = Straight /\ head = First /\ freed = {} /\ i = 0 /\ acc = 0 /\ out = <<>>
      /\ data \in [1..Size -> Values] /\ (\A x \in Values : Count(data, x) = Count(list1, x))
  BY <1>1 DEF ResultsInv, SegResult
<1>3. PICK a \in 1..(Size + 1), b \in 1..(Size + 1) : p = Node(a) /\ q = Node(b) /\ Split(a, b)
  BY <1>1 DEF ResultsInv, SegResult
<1>4. Size \in Nat /\ Straight = [k \in 1..Size |-> Node(k + 1)] /\ Values \subseteq 0..9
  BY <1>2, InputFacts
<1>5. next' = Straight' /\ head' = First' /\ freed' = {} /\ i' = 0 /\ acc' = 0 /\ out' = <<>> /\ Size' = Size /\ list1' = list1
  BY <1>1, <1>2, SameInput
<1>0. a \in Nat /\ a >= 1 /\ a <= Size + 1 /\ b \in Nat /\ b >= 1 /\ b <= Size + 1 /\ Size \in Nat
  BY <1>4
<1>61. \A k \in 1..Size : next[k] = Node(k + 1) /\ data[k] \in 0..9 /\ data[k] \in Values
  BY <1>2, <1>4
<1>6. /\ \A k \in 1..Size : next[k] = Node(k + 1) /\ data[k] \in 0..9 /\ data[k] \in Values
      /\ a \in Nat /\ a >= 1 /\ a <= Size + 1 /\ b \in Nat /\ b >= 1 /\ b <= Size + 1
  BY <1>0, <1>61
<1>7. \A k \in 1..Size : Odd(data[k]) <=> data[k] % 2 # 0
  <2>1. \A v \in 0..9 : v % 2 = 1 <=> v % 2 # 0
    OBVIOUS
  <2> QED BY <1>6, <2>1 DEF Odd
<1>8. /\ p # 0 <=> a <= Size
      /\ q # 0 <=> b <= Size
      /\ a <= Size => p = a /\ a \in 1..Size /\ next[p] = Node(a + 1)
      /\ b <= Size => q = b /\ b \in 1..Size /\ next[q] = Node(b + 1)
  BY <1>3, <1>6 DEF Node
<1>9. ASSUME NEW k \in 1..(Size + 1), NEW m \in 1..(Size + 1), p' = Node(k), q' = Node(m), data' = data,
             Split(k, m), pc' = "run" \/ (pc' = "done" /\ (m < k => k = Size + 1) /\ (k < m => m = Size + 1) /\ (k = m => Size = 0))
      PROVE  SegResult'
  <2>1. Split(k, m)'
    BY <1>9 DEF Split
  <2>2. \E j, l \in 1..(Size' + 1) : p' = Node(j)' /\ q' = Node(l)' /\ Split(j, l)'
          /\ (pc' = "run" \/ (pc' = "done" /\ (l < j => j = Size' + 1) /\ (j < l => l = Size' + 1) /\ (j = l => Size' = 0)))
    BY <1>5, <1>9, <2>1 DEF Node
  <2> QED BY <1>1, <1>2, <1>5, <1>9, <2>2 DEF SegResult, Count
<1>10. CASE p # 0 /\ data[p] % 2 # 0
  <2>1. p' = next[p] /\ UNCHANGED <<data, q, pc>>
    BY <1>10 DEF Seg, At, Walk, heap
  <2>2. a \in 1..Size /\ Odd(data[a]) /\ p' = Node(a + 1) /\ a + 1 \in 1..(Size + 1)
    BY <1>4, <1>6, <1>7, <1>8, <1>10, <2>1
  <2> DEFINE m == a + 1
  <2>3. Split(m, b)
    <3>1. CASE a = 1 /\ b = 1
      <4>1. \A k \in b..(m - 1) : k = a
        BY <3>1
      <4>2. \A k \in 1..(b - 1) : FALSE
        BY <3>1
      <4> QED BY <1>6, <2>2, <3>1, <4>1, <4>2 DEF Split
    <3>2. CASE b < a
      <4>1. \A k \in b..(m - 1) : k \in b..(a - 1) \/ k = a
        BY <1>6
      <4>2. b < m
        BY <1>6, <3>2
      <4> QED BY <1>3, <1>6, <2>2, <3>2, <4>1, <4>2 DEF Split
    <3>3. ~(a < b)
      <4>1. a < b => a \in a..(b - 1)
        BY <1>6
      <4> QED BY <1>3, <1>6, <2>2, <4>1 DEF Split
    <3> QED BY <1>3, <1>6, <3>1, <3>2, <3>3 DEF Split
  <2> HIDE DEF m
  <2>4. m \in 1..(Size + 1) /\ p' = Node(m) /\ q' = Node(b) /\ data' = data /\ pc' = "run"
    BY <1>1, <1>3, <2>1, <2>2 DEF m
  <2> QED BY <1>1, <1>9, <2>3, <2>4
<1>11. CASE ~(p # 0 /\ data[p] % 2 # 0) /\ q # 0 /\ data[q] % 2 = 0
  <2>1. q' = next[q] /\ UNCHANGED <<data, p, pc>>
    BY <1>11 DEF Seg, At, Walk, heap
  <2>2. b \in 1..Size /\ ~Odd(data[b]) /\ q' = Node(b + 1) /\ b + 1 \in 1..(Size + 1)
    BY <1>4, <1>6, <1>7, <1>8, <1>11, <2>1
  <2> DEFINE m == b + 1
  <2>3. Split(a, m)
    <3>1. CASE a = 1 /\ b = 1
      <4>1. \A k \in a..(m - 1) : k = b
        BY <3>1
      <4>2. \A k \in 1..(a - 1) : FALSE
        BY <3>1
      <4> QED BY <1>6, <2>2, <3>1, <4>1, <4>2 DEF Split
    <3>2. CASE a < b
      <4>1. \A k \in a..(m - 1) : k \in a..(b - 1) \/ k = b
        BY <1>6
      <4>2. a < m
        BY <1>6, <3>2
      <4> QED BY <1>3, <1>6, <2>2, <3>2, <4>1, <4>2 DEF Split
    <3>3. ~(b < a)
      <4>1. b < a => b \in b..(a - 1)
        BY <1>6
      <4> QED BY <1>3, <1>6, <2>2, <4>1 DEF Split
    <3> QED BY <1>3, <1>6, <3>1, <3>2, <3>3 DEF Split
  <2> HIDE DEF m
  <2>4. m \in 1..(Size + 1) /\ p' = Node(a) /\ q' = Node(m) /\ data' = data /\ pc' = "run"
    BY <1>1, <1>3, <2>1, <2>2 DEF m
  <2> QED BY <1>1, <1>9, <2>3, <2>4
<1>12. CASE p # 0 /\ data[p] % 2 = 0 /\ q # 0 /\ data[q] % 2 # 0
  <2>1. data' = [data EXCEPT ![p] = data[q], ![q] = data[p]] /\ p' = next[p] /\ q' = next[q] /\ pc' = pc
    BY <1>12 DEF Seg, At
  <2>2. /\ a \in 1..Size /\ b \in 1..Size /\ p = a /\ q = b /\ ~Odd(data[a]) /\ Odd(data[b]) /\ a # b
        /\ p' = Node(a + 1) /\ q' = Node(b + 1) /\ a + 1 \in 1..(Size + 1) /\ b + 1 \in 1..(Size + 1)
    BY <1>4, <1>6, <1>7, <1>8, <1>12, <2>1
  <2> DEFINE g == [k \in 1..Size |-> IF k = a THEN b ELSE IF k = b THEN a ELSE k]
             l == a + 1
             m == b + 1
  <2>3. /\ data' \in [1..Size -> Values] /\ data'[a] = data[b] /\ data'[b] = data[a]
        /\ \A k \in 1..Size : k # a /\ k # b => data'[k] = data[k]
    BY <1>2, <1>6, <2>1, <2>2
  <2>4. \A x \in Values : Count(data', x) = Count(list1, x)
    <3>1. g \in Bijection(1..Size, 1..Size)
      <4>1. g \in [1..Size -> 1..Size]
        BY <2>2
      <4>2. \A j, k \in 1..Size : g[j] = g[k] => j = k
        BY <2>2
      <4>3. \A j \in 1..Size : \E k \in 1..Size : g[k] = j
        <5>1. g[a] = b /\ g[b] = a /\ \A k \in 1..Size : k # a /\ k # b => g[k] = k
          BY <2>2
        <5> QED BY <2>2, <5>1
      <4> QED BY <4>1, <4>2, <4>3 DEF Bijection, Injection, Surjection, IsInjective
    <3>2. \A k \in 1..Size : data'[k] = data[g[k]]
      BY <2>2, <2>3
    <3>3. DOMAIN data = 1..Size /\ DOMAIN data' = 1..Size
      BY <1>2, <2>3
    <3> HIDE DEF g
    <3> SUFFICES ASSUME NEW x \in Values PROVE Count(data', x) = Count(list1, x)
      OBVIOUS
    <3>4. ASSUME NEW u, DOMAIN u = 1..Size, \A k \in 1..Size : u[k] = data[g[k]]
          PROVE  Count(u, x) = Count(data, x)
      <4>1. Size \in Nat /\ DOMAIN data = 1..Size /\ g \in Bijection(1..Size, 1..Size)
        BY <1>4, <3>1, <3>3
      <4> QED BY ONLY <3>4, <4>1, CountPermuted
    <3>5. Count(data', x) = Count(data, x)
      BY <3>2, <3>3, <3>4
    <3> QED BY <1>2, <3>5
  <2>5. Split(l, m)'
    <3>1. CASE b < a
      <4>1. \A k \in 1..(m - 1) : k = b \/ (k \in 1..(b - 1) /\ k # a /\ k # b /\ k \in 1..Size)
        BY <1>0, <3>1
      <4>2. \A k \in m..(l - 1) : k = a \/ (k \in b..(a - 1) /\ k # a /\ k # b /\ k \in 1..Size)
        BY <1>0, <2>2, <3>1
      <4>3. m < l
        BY <1>6, <3>1
      <4>4. (\A k \in 1..(b - 1) : ~Odd(data[k])) /\ (\A k \in b..(a - 1) : Odd(data[k]))
        BY <1>3, <1>6, <3>1 DEF Split
      <4>5. \A k \in 1..(m - 1) : ~Odd(data'[k])
        BY <2>2, <2>3, <4>1, <4>4
      <4>6. \A k \in m..(l - 1) : Odd(data'[k])
        BY <2>2, <2>3, <4>2, <4>4
      <4> HIDE DEF l, m
      <4> QED BY <4>3, <4>5, <4>6 DEF Split, Odd
    <3>2. CASE a < b
      <4>1. \A k \in 1..(l - 1) : k = a \/ (k \in 1..(a - 1) /\ k # a /\ k # b /\ k \in 1..Size)
        BY <1>0, <3>2
      <4>2. \A k \in l..(m - 1) : k = b \/ (k \in a..(b - 1) /\ k # a /\ k # b /\ k \in 1..Size)
        BY <1>0, <2>2, <3>2
      <4>3. l < m
        BY <1>6, <3>2
      <4>4. (\A k \in 1..(a - 1) : Odd(data[k])) /\ (\A k \in a..(b - 1) : ~Odd(data[k]))
        BY <1>3, <1>6, <3>2 DEF Split
      <4>5. \A k \in 1..(l - 1) : Odd(data'[k])
        BY <2>2, <2>3, <4>1, <4>4
      <4>6. \A k \in l..(m - 1) : ~Odd(data'[k])
        BY <2>2, <2>3, <4>2, <4>4
      <4> HIDE DEF l, m
      <4> QED BY <4>3, <4>5, <4>6 DEF Split, Odd
    <3> QED BY <1>6, <2>2, <3>1, <3>2
  <2>6. l \in 1..(Size + 1) /\ m \in 1..(Size + 1) /\ p' = Node(l)' /\ q' = Node(m)' /\ pc' = "run"
    BY <1>1, <1>5, <2>1, <2>2 DEF Node
  <2> HIDE DEF l, m, g
  <2>7. \E j, k \in 1..(Size' + 1) : p' = Node(j)' /\ q' = Node(k)' /\ Split(j, k)' /\ pc' = "run"
    BY <1>5, <2>5, <2>6
  <2>8. (\A x \in Values : Count(data, x) = Count(list1, x))'
    BY <1>5, <2>4 DEF Count
  <2> QED BY <1>1, <1>5, <2>3, <2>7, <2>8 DEF SegResult
<1>13. CASE /\ ~(p # 0 /\ data[p] % 2 # 0)
            /\ ~(~(p # 0 /\ data[p] % 2 # 0) /\ q # 0 /\ data[q] % 2 = 0)
            /\ ~(p # 0 /\ data[p] % 2 = 0 /\ q # 0 /\ data[q] % 2 # 0)
  <2>1. pc' = "done" /\ UNCHANGED <<data, p, q>>
    BY <1>13 DEF Seg, At, ReturnList, Go, heap
  <2>2. /\ a <= Size => ~Odd(data[a])
        /\ b <= Size => Odd(data[b])
        /\ ~(a <= Size /\ b <= Size)
    BY <1>6, <1>7, <1>8, <1>13
  <2>3. b < a => a = Size + 1
    BY <1>4, <1>6, <2>2
  <2>4. a < b => b = Size + 1
    BY <1>4, <1>6, <2>2
  <2>5. a = b => Size = 0
    BY <1>3, <1>4, <1>6, <2>2 DEF Split
  <2>6. p' = Node(a) /\ q' = Node(b)
    BY <1>3, <2>1
  <2>7. Split(a, b) /\ data' = data
    BY <1>3, <2>1
  <2> QED BY <1>1, <1>9, <2>1, <2>3, <2>4, <2>5, <2>6, <2>7
<1> QED
  BY <1>10, <1>11, <1>12, <1>13

(* Two elements behind a list. *)
LEMMA TwoMore ==
  ASSUME NEW s \in Seq(Int), NEW x \in Int, NEW y \in Int, NEW w, w = s \o <<x, y>>
  PROVE  /\ w \in Seq(Int) /\ Len(w) = Len(s) + 2
         /\ w[Len(s) + 1] = x /\ w[Len(s) + 2] = y
         /\ \A k \in 1..Len(s) : w[k] = s[k]
OBVIOUS

(* A step of mergelist keeps its invariant: out is the pairs behind both pointers, the smaller number first. *)
LEMMA MergeListDoes ==
  ASSUME ResultsInv, MergeList
  PROVE  prog = "mergelist" /\ UNCHANGED input /\ MergeResult'
<1>1. prog = "mergelist" /\ pc = "run" /\ UNCHANGED <<input, heap, acc>>
  BY DEF MergeList, At, ReturnList, Crash, Go
<1>2. Inputs /\ BothLists /\ acc = 0 /\ i \in 0..Shorter /\ p = Node(i + 1) /\ q = Node2(i + 1) /\ out = Pairs(i)
  BY <1>1 DEF ResultsInv, MergeResult
<1>3. Size \in Nat /\ Len(list2) \in Nat /\ Size = Len(list1)
      /\ (\A k \in 1..Size : list1[k] \in Int) /\ (\A k \in 1..Len(list2) : list2[k] \in Int)
  BY <1>2, InputFacts DEF Size
<1>4. BothLists' /\ acc' = 0 /\ Size' = Size /\ Shorter' = Shorter /\ Len(list2') = Len(list2) /\ list1' = list1 /\ list2' = list2
  BY <1>1, <1>2, SameInput
<1>5. i \in Nat /\ i <= Size /\ i <= Len(list2) /\ i <= Shorter /\ Shorter \in Nat
  BY <1>2, <1>3 DEF Shorter
<1>6. CASE i = Len(list1) \/ (i < Len(list1) /\ q = 0)
  <2>1. UNCHANGED <<p, q, out, i>> /\ (pc' = "crashed" \/ (pc' = "done" /\ i = Size))
    BY <1>3, <1>6 DEF MergeList, At, ReturnList, Crash, Go
  <2> QED
    BY <1>1, <1>2, <1>4, <2>1 DEF MergeResult, Node, Node2, Pairs, Small, Large, Odd
<1>7. CASE ~(i = Len(list1) \/ (i < Len(list1) /\ q = 0))
  <2>1. i < Size /\ q # 0
    BY <1>3, <1>5, <1>7
  <2>2. /\ out' = out \o (IF data[p] < data[q] THEN <<data[p], data[q]>> ELSE <<data[q], data[p]>>)
        /\ p' = next[p] /\ q' = next[q] /\ i' = i + 1 /\ UNCHANGED pc
    BY <1>3, <1>7, <2>1 DEF MergeList, At
  <2> DEFINE b == i + 1
  <2>3. b \in Nat /\ b > 0 /\ b <= Size /\ b \in 1..Size /\ i' = b
    BY <1>5, <1>3, <2>1, <2>2
  <2>4. b <= Len(list2) /\ b \in 1..Len(list2)
    <3>1. q = Node2(b)
      BY <1>2
    <3> HIDE DEF b
    <3> QED BY <1>3, <2>1, <2>3, <3>1 DEF Node2
  <2>5. b \in 0..Shorter
    BY <1>3, <2>3, <2>4 DEF Shorter
  <2>6. p' = Node(b + 1) /\ data[p] = list1[b] /\ q' = Node2(b + 1) /\ data[q] = list2[b]
    <3>1. p = Node(b) /\ q = Node2(b)
      BY <1>2
    <3> HIDE DEF b
    <3> QED BY <1>2, <2>2, <2>3, <2>4, <3>1, Steps
  <2>7. out' = out \o <<Small(b), Large(b)>>
    BY <1>3, <2>2, <2>3, <2>4, <2>6 DEF Small, Large
  <2>8. out' = Pairs(b)
    <3>1. \A k \in 1..b : Small(k) \in Int /\ Large(k) \in Int
      <4>1. \A k \in 1..b : k \in 1..Size /\ k \in 1..Len(list2)
        BY <1>3, <2>3, <2>4
      <4> QED BY <1>3, <4>1 DEF Small, Large
    <3>2. \A k \in 1..(2 * i) : Odd(k) => (k + 1) \div 2 \in 1..b
      BY <1>5 DEF Odd
    <3>3. \A k \in 1..(2 * i) : ~Odd(k) => k \div 2 \in 1..b
      BY <1>5 DEF Odd
    <3>4. out \in Seq(Int) /\ Len(out) = 2 * i
      <4>1. \A k \in 1..(2 * i) : (IF Odd(k) THEN Small((k + 1) \div 2) ELSE Large(k \div 2)) \in Int
        BY <3>1, <3>2, <3>3
      <4>2. 2 * i \in Nat
        BY <1>5
      <4>3. ASSUME NEW m \in Nat, NEW s, s = [k \in 1..m |-> s[k]], \A k \in 1..m : s[k] \in Int
            PROVE  s \in Seq(Int) /\ Len(s) = m
        BY <4>3
      <4>4. out = [k \in 1..(2 * i) |-> out[k]] /\ \A k \in 1..(2 * i) : out[k] \in Int
        BY <1>2, <4>1 DEF Pairs
      <4> QED BY <4>2, <4>3, <4>4
    <3>5. /\ out' = [k \in 1..(2 * i + 2) |-> out'[k]]
          /\ out'[2 * i + 1] = Small(b) /\ out'[2 * i + 2] = Large(b)
          /\ \A k \in 1..(2 * i) : out'[k] = out[k]
      <4>1. out' = out \o <<Small(b), Large(b)>> /\ out \in Seq(Int)
        BY <2>7, <3>4
      <4>2. Small(b) \in Int /\ Large(b) \in Int
        BY <2>3, <3>1
      <4> HIDE DEF b
      <4>3. /\ out' \in Seq(Int) /\ Len(out') = Len(out) + 2
            /\ out'[Len(out) + 1] = Small(b) /\ out'[Len(out) + 2] = Large(b)
            /\ \A k \in 1..Len(out) : out'[k] = out[k]
        BY ONLY <4>1, <4>2, TwoMore
      <4>4. \A w \in Seq(Int) : w = [k \in 1..Len(w) |-> w[k]]
        OBVIOUS
      <4>5. out' = [k \in 1..Len(out') |-> out'[k]]
        BY <4>3, <4>4
      <4> QED BY <3>4, <4>3, <4>5
    <3>6. Odd(2 * i + 1) /\ ~Odd(2 * i + 2) /\ ((2 * i + 1) + 1) \div 2 = b /\ (2 * i + 2) \div 2 = b /\ 2 * b = 2 * i + 2
      BY <1>5 DEF Odd
    <3>7. ASSUME NEW k \in 1..(2 * b)
          PROVE  out'[k] = IF Odd(k) THEN Small((k + 1) \div 2) ELSE Large(k \div 2)
      <4>1. CASE k \in 1..(2 * i)
        BY <1>2, <3>5, <4>1 DEF Pairs
      <4>2. CASE k = 2 * i + 1
        BY <3>5, <3>6, <4>2
      <4>3. CASE k = 2 * i + 2
        BY <3>5, <3>6, <4>3
      <4>4. k \in 1..(2 * i) \/ k = 2 * i + 1 \/ k = 2 * i + 2
        BY <1>5
      <4> QED BY <4>1, <4>2, <4>3, <4>4
    <3> HIDE DEF b
    <3> QED BY <3>5, <3>6, <3>7 DEF Pairs
  <2> HIDE DEF b
  <2> QED
    BY <1>1, <1>4, <2>2, <2>3, <2>5, <2>6, <2>8 DEF MergeResult, Node, Node2, Pairs, Small, Large, Odd
<1> QED
  BY <1>6, <1>7

(* A step of deepcopy keeps its invariant: out is the copy of the nodes behind p. *)
LEMMA DeepCopyDoes ==
  ASSUME ResultsInv, DeepCopy
  PROVE  prog = "deepcopy" /\ UNCHANGED input /\ CopyResult'
<1>1. prog = "deepcopy" /\ pc = "run" /\ UNCHANGED <<input, heap, q, i, acc>>
  BY DEF DeepCopy, At, ReturnList, Go
<1>2. Inputs /\ LongerList /\ q = 1 /\ i = 0 /\ acc = 0 /\ p \in 1..(Size + 1) /\ out = [k \in 1..(p - 1) |-> list1[k]]
  BY <1>1 DEF ResultsInv, CopyResult, EndOfPrint
<1>3. Size \in Nat /\ list1 \in Seq(Int) /\ Size = Len(list1) /\ arg \in Nat
  BY <1>2, InputFacts DEF Size
<1>4. LongerList' /\ q' = 1 /\ i' = 0 /\ acc' = 0 /\ Size' = Size /\ list1' = list1
  BY <1>1, <1>2, SameInput
<1>5. next[p] = IF p = Size + 1 THEN 0 ELSE p + 1
  BY <1>2 DEF LongerList
<1>6. CASE next[p] = 0
  <2>1. pc' = EndOfPrint /\ out' = Append(out, arg) /\ p' = p
    BY <1>6 DEF DeepCopy, At
  <2>2. p = Size + 1 /\ p - 1 = Size
    BY <1>2, <1>3, <1>5, <1>6
  <2>3. out = list1
    <3>1. list1 = [k \in 1..Len(list1) |-> list1[k]]
      BY <1>3
    <3> QED BY <1>2, <1>3, <2>2, <3>1
  <2>4. pc' = EndOfPrint' /\ arg' = arg
    BY <1>1, <2>1, SameInput DEF EndOfPrint
  <2> QED
    BY <1>1, <1>2, <1>4, <2>1, <2>2, <2>3, <2>4 DEF CopyResult
<1>7. CASE next[p] # 0
  <2>1. out' = Append(out, data[p]) /\ p' = next[p] /\ pc' = pc
    BY <1>7 DEF DeepCopy, At
  <2>2. p \in 1..Size /\ p' = p + 1 /\ p' - 1 = p
    BY <1>2, <1>3, <1>5, <1>7, <2>1
  <2>3. data[p] = list1[p]
    BY <1>2, <1>3, <2>2 DEF LongerList
  <2>4. ASSUME NEW c \in 1..Size, NEW s, s = [k \in 1..(c - 1) |-> list1[k]]
        PROVE  Append(s, list1[c]) = [k \in 1..c |-> list1[k]]
    BY <1>3, <2>4
  <2>5. out' = [k \in 1..(p' - 1) |-> list1[k]]
    BY <1>2, <2>1, <2>2, <2>3, <2>4
  <2>6. p' \in 1..(Size + 1)
    BY <1>3, <2>2
  <2> QED
    BY <1>1, <1>4, <2>1, <2>5, <2>6 DEF CopyResult
<1> QED
  BY <1>6, <1>7

(* A step of the visit keeps its invariant: from p on no node is marked, but perhaps the last. *)
LEMMA VisitDoes ==
  ASSUME ResultsInv, Visit
  PROVE  prog = "visited" /\ UNCHANGED input /\ VisitResult'
<1>1. prog = "visited" /\ pc = "run" /\ UNCHANGED <<input, head, freed, q, i, acc, out>>
  BY DEF Visit, At, Walk, heap
<1>2. Inputs /\ VisitResult
  BY <1>1 DEF ResultsInv
<1>3. Size \in Nat /\ Size' = Size
  BY <1>1, <1>2, InputFacts, SameInput
<1>4. /\ head = 1 /\ freed = {} /\ q = 1 /\ i = 0 /\ acc = 0 /\ out = <<>>
      /\ p \in 1..(Size + 1) /\ data \in [1..(Size + 1) -> Nat] /\ \A k \in p..Size : data[k] = 0
      /\ next = [k \in 1..(Size + 1) |-> IF k <= Size THEN k + 1 ELSE Size + 1]
  BY <1>1, <1>2 DEF VisitResult
<1>5. CASE data[p] = 1
  <2>1. next' = [next EXCEPT ![p] = 0] /\ pc' = "done" /\ UNCHANGED <<data, p>>
    BY <1>5 DEF Visit, At
  <2>2. p = Size + 1
    BY <1>3, <1>4, <1>5
  <2>3. next' = [k \in 1..(Size + 1) |-> IF k <= Size THEN k + 1 ELSE 0]
    <3>1. next' = [k \in 1..(Size + 1) |-> IF k = p THEN 0 ELSE next[k]]
      BY <1>4, <2>1
    <3>2. \A k \in 1..(Size + 1) : k = p <=> ~(k <= Size)
      BY <1>3, <2>2
    <3>3. \A k \in 1..(Size + 1) : next[k] = IF k <= Size THEN k + 1 ELSE Size + 1
      BY <1>4
    <3> QED BY <3>1, <3>2, <3>3
  <2> QED
    BY <1>1, <1>3, <1>4, <2>1, <2>3 DEF VisitResult
<1>6. CASE data[p] # 1
  <2>1. data' = [data EXCEPT ![p] = 1] /\ p' = next[p] /\ UNCHANGED <<next, pc>>
    BY <1>6 DEF Visit, At
  <2>2. p' = (IF p <= Size THEN p + 1 ELSE Size + 1) /\ p' \in 1..(Size + 1) /\ data' \in [1..(Size + 1) -> Nat]
    BY <1>3, <1>4, <2>1
  <2>3. \A k \in p'..Size : data'[k] = 0
    <3> SUFFICES ASSUME NEW k \in p'..Size PROVE data'[k] = 0
      OBVIOUS
    <3>1. k \in p..Size /\ k # p /\ k \in 1..(Size + 1)
      BY <1>3, <1>4, <2>2
    <3> QED BY <1>4, <2>1, <3>1
  <2> QED
    BY <1>1, <1>3, <1>4, <2>1, <2>2, <2>3 DEF VisitResult
<1> QED
  BY <1>5, <1>6

(* An element between two lists. *)
LEMMA BetweenLists ==
  ASSUME NEW S, NEW s \in Seq(S), NEW t \in Seq(S), NEW x \in S
  PROVE  InsertAt(s \o t, Len(s) + 1, x) = Append(s, x) \o t
<1>1. s \o t \in Seq(S) /\ Len(s \o t) = Len(s) + Len(t) /\ Len(s) \in Nat /\ Len(t) \in Nat
      /\ (\A k \in 1..Len(s) : (s \o t)[k] = s[k]) /\ (\A k \in 1..Len(t) : (s \o t)[Len(s) + k] = t[k])
  OBVIOUS
<1>2. SubSeq(s \o t, 1, Len(s)) = s
  <2>1. SubSeq(s \o t, 1, Len(s)) = [k \in 1..Len(s) |-> (s \o t)[k]]
    BY <1>1
  <2>2. s = [k \in 1..Len(s) |-> s[k]]
    OBVIOUS
  <2> QED BY <1>1, <2>1, <2>2
<1>3. SubSeq(s \o t, Len(s) + 1, Len(s \o t)) = t
  <2> DEFINE w == s \o t
             l == Len(s)
             m == Len(t)
  <2>1. w \in Seq(S) /\ Len(w) = l + m /\ l \in Nat /\ m \in Nat /\ \A k \in 1..m : w[l + k] = t[k]
    BY <1>1
  <2>2. t = [k \in 1..m |-> t[k]]
    OBVIOUS
  <2> HIDE DEF w, l, m
  <2> DEFINE v == SubSeq(w, l + 1, l + m)
  <2>3. v \in Seq(S) /\ Len(v) = m /\ \A k \in 1..m : v[k] = w[l + k]
    BY <2>1
  <2>4. \A z \in Seq(S) : z = [k \in 1..Len(z) |-> z[k]]
    OBVIOUS
  <2>5. v = [k \in 1..m |-> v[k]]
    BY <2>3, <2>4
  <2> HIDE DEF v
  <2>6. v = t
    BY <2>1, <2>2, <2>3, <2>5
  <2> QED BY <2>1, <2>6 DEF v, w, l, m
<1>4. InsertAt(s \o t, Len(s) + 1, x) = (s \o <<x>>) \o t
  <2>1. Len(s) + 1 - 1 = Len(s)
    BY <1>1
  <2> DEFINE w == s \o t
             l == Len(s) + 1
  <2>2. SubSeq(w, 1, l - 1) = s /\ SubSeq(w, l, Len(w)) = t
    BY <1>2, <1>3, <2>1
  <2> HIDE DEF w, l
  <2>3. InsertAt(w, l, x) = (s \o <<x>>) \o t
    BY <2>2 DEF InsertAt
  <2> QED BY <2>3 DEF w, l
<1>5. s \o <<x>> = Append(s, x)
  OBVIOUS
<1> QED BY <1>4, <1>5

(* A step of partition keeps its invariant: out is the smaller numbers behind p, and then the others. *)
LEMMA PartitionDoes ==
  ASSUME ResultsInv, Partition
  PROVE  prog = "partition" /\ UNCHANGED input /\ PartitionResult'
<1>1. prog = "partition" /\ pc = "run" /\ UNCHANGED <<input, heap, q, acc>>
  BY DEF Partition, At, ReturnList, Go
<1>2. Inputs /\ OneList /\ q = First /\ acc = 0
  BY <1>1 DEF ResultsInv, PartitionResult
<1> DEFINE low == Picked(list1, Less)
           high == Picked(list1, NotLess)
<1>3. PICK c \in 0..Size : p = Node(c + 1) /\ i = Len(low[c]) /\ out = low[c] \o high[c]
  BY <1>1 DEF ResultsInv, PartitionResult
<1>4. Size \in Nat /\ list1 \in Seq(Values) /\ Size = Len(list1) /\ arg \in Nat /\ (\A k \in 1..Size : list1[k] \in Values /\ list1[k] \in Int)
      /\ c \in Nat
  <2>1. Inputs /\ c \in 0..Size
    BY <1>2, <1>3
  <2> QED BY <2>1, InputFacts DEF Size
<1>5. OneList' /\ q' = First' /\ acc' = 0 /\ Size' = Size /\ list1' = list1 /\ Less' = Less /\ NotLess' = NotLess
  BY <1>1, <1>2, SameInput
<1>6. /\ low \in [0..Size -> Seq(Values)] /\ high \in [0..Size -> Seq(Values)]
      /\ \A k \in 1..Size : low[k] = IF k \in Less THEN Append(low[k - 1], list1[k]) ELSE low[k - 1]
      /\ \A k \in 1..Size : high[k] = IF k \in NotLess THEN Append(high[k - 1], list1[k]) ELSE high[k - 1]
  <2>1. list1 \in Seq(Values)
    BY <1>4
  <2> HIDE DEF low, high
  <2>2. /\ low \in [0..Len(list1) -> Seq(Values)]
        /\ \A k \in 1..Len(list1) : low[k] = IF k \in Less THEN Append(low[k - 1], list1[k]) ELSE low[k - 1]
    BY <2>1, PickedIs DEF low
  <2>3. /\ high \in [0..Len(list1) -> Seq(Values)]
        /\ \A k \in 1..Len(list1) : high[k] = IF k \in NotLess THEN Append(high[k - 1], list1[k]) ELSE high[k - 1]
    BY <2>1, PickedIs DEF high
  <2> QED BY <1>4, <2>2, <2>3
<1>7. low' = low /\ high' = high
  BY <1>5 DEF Picked
<1> HIDE DEF low, high
<1>8. ASSUME NEW b \in 0..Size', p' = Node(b + 1)', i' = Len(low[b]), out' = low[b] \o high[b],
             pc' = "run" \/ (pc' = "done" /\ b = Size')
      PROVE  PartitionResult'
  <2>1. /\ i' = Len(Picked(list1, Less)[b])' /\ out' = (Picked(list1, Less)[b] \o Picked(list1, NotLess)[b])'
    BY <1>7, <1>8 DEF low, high
  <2> QED BY <1>5, <1>8, <2>1 DEF PartitionResult
<1>9. CASE p = 0
  <2>1. pc' = "done" /\ UNCHANGED <<p, i, out>>
    BY <1>9 DEF Partition, At, ReturnList, Go
  <2>2. c = Size
    <3>1. ~(c + 1 <= Size)
      BY <1>3, <1>4, <1>9 DEF Node
    <3>2. c <= Size /\ c \in Nat /\ Size \in Nat
      BY <1>4
    <3> QED BY <3>1, <3>2
  <2>3. p' = Node(c + 1)' /\ c \in 0..Size'
    BY <1>3, <1>5, <2>1 DEF Node
  <2> QED
    BY <1>1, <1>3, <1>5, <1>8, <2>1, <2>2, <2>3
<1>10. CASE p # 0
  <2>1. /\ \/ data[p] >= arg /\ out' = Append(out, data[p]) /\ UNCHANGED i
           \/ data[p] < arg /\ out' = InsertAt(out, i + 1, data[p]) /\ i' = i + 1
        /\ p' = next[p] /\ pc' = pc
    BY <1>10 DEF Partition, At
  <2> DEFINE b == c + 1
  <2>2. b \in 1..Size /\ b - 1 = c /\ b \in Nat /\ b > 0
    <3>1. c + 1 <= Size
      BY <1>3, <1>4, <1>10 DEF Node
    <3> QED BY <1>4, <3>1
  <2>3. p' = Node(b + 1) /\ data[p] = list1[b]
    <3>1. p = Node(b)
      BY <1>3
    <3> HIDE DEF b
    <3>2. b <= Size
      BY <2>2
    <3> QED BY <1>2, <2>1, <2>2, <3>1, <3>2, Steps
  <2>4. list1[b] \in Int /\ list1[b] \in Values /\ (b \in Less <=> list1[b] < arg) /\ (b \in NotLess <=> list1[b] >= arg)
    BY <1>4, <2>2 DEF Less, NotLess
  <2> HIDE DEF b
  <2>5. low[c] \in Seq(Values) /\ high[c] \in Seq(Values) /\ Len(low[c]) \in Nat
    BY <1>6
  <2>51. low[b] = (IF b \in Less THEN Append(low[c], list1[b]) ELSE low[c])
         /\ high[b] = (IF b \in NotLess THEN Append(high[c], list1[b]) ELSE high[c])
    <3>1. low[b] = (IF b \in Less THEN Append(low[b - 1], list1[b]) ELSE low[b - 1])
          /\ high[b] = (IF b \in NotLess THEN Append(high[b - 1], list1[b]) ELSE high[b - 1])
      BY <1>6, <2>2
    <3> QED BY <2>2, <3>1
  <2>52. \A u, v \in Seq(Values), x \in Values :
           /\ InsertAt(u \o v, Len(u) + 1, x) = Append(u, x) \o v
           /\ Append(u \o v, x) = u \o Append(v, x)
    <3> SUFFICES ASSUME NEW u \in Seq(Values), NEW v \in Seq(Values), NEW x \in Values
                 PROVE  /\ InsertAt(u \o v, Len(u) + 1, x) = Append(u, x) \o v
                        /\ Append(u \o v, x) = u \o Append(v, x)
      OBVIOUS
    <3>1. InsertAt(u \o v, Len(u) + 1, x) = Append(u, x) \o v
      BY BetweenLists
    <3>2. Append(u \o v, x) = u \o Append(v, x)
      OBVIOUS
    <3> QED BY <3>1, <3>2
  <2>6. p' = Node(b + 1)' /\ b \in 0..Size' /\ pc' = "run"
    BY <1>1, <1>4, <1>5, <2>1, <2>2, <2>3 DEF Node
  <2>7. CASE data[p] >= arg
    <3>1. out' = Append(out, list1[b]) /\ i' = i
      BY <1>4, <2>1, <2>3, <2>4, <2>7
    <3>2. low[b] = low[c] /\ high[b] = Append(high[c], list1[b])
      BY <1>4, <2>3, <2>4, <2>51, <2>7
    <3>3. Append(low[c] \o high[c], list1[b]) = low[c] \o Append(high[c], list1[b])
      BY <2>4, <2>5, <2>52
    <3>4. out' = low[b] \o high[b] /\ i' = Len(low[b])
      BY <1>3, <3>1, <3>2, <3>3
    <3> QED BY <1>1, <1>8, <2>6, <3>4
  <2>8. CASE data[p] < arg
    <3>1. out' = InsertAt(out, i + 1, list1[b]) /\ i' = i + 1
      BY <1>4, <2>1, <2>3, <2>4, <2>8
    <3>2. low[b] = Append(low[c], list1[b]) /\ high[b] = high[c]
      BY <1>4, <2>3, <2>4, <2>51, <2>8
    <3>3. InsertAt(low[c] \o high[c], Len(low[c]) + 1, list1[b]) = Append(low[c], list1[b]) \o high[c]
      BY <2>4, <2>5, <2>52
    <3>4. Len(low[b]) = Len(low[c]) + 1
      BY <2>4, <2>5, <3>2
    <3>5. out' = low[b] \o high[b] /\ i' = Len(low[b])
      BY <1>3, <3>1, <3>2, <3>3, <3>4
    <3> QED BY <1>1, <1>8, <2>6, <3>5
  <2> QED BY <1>4, <2>3, <2>4, <2>7, <2>8
<1> QED
  BY <1>9, <1>10

(* Numbers of up to two digits. *)
LEMMA ShortNumber ==
  ASSUME NEW s \in Seq(Int)
  PROVE  /\ Number(s) \in Int
         /\ Len(s) = 0 => Number(s) = 0
         /\ Len(s) = 1 => Number(s) = s[1]
         /\ Len(s) = 2 => Number(s) = 10 * s[1] + s[2]
<1>0. 10 \in Int
  OBVIOUS
<1>1. PICK f \in [0..Len(s) -> Int] :
        f[0] = 0 /\ f[Len(s)] = Value(10, s) /\ \A k \in 1..Len(s) : f[k] = 10 * f[k - 1] + s[k]
  BY <1>0, ValueIs
<1>2. Number(s) = f[Len(s)] /\ Len(s) \in Nat /\ \A k \in 1..Len(s) : s[k] \in Int
  BY <1>1, NumberIs
<1>3. Number(s) \in Int
  BY <1>1, <1>2
<1>4. Len(s) >= 1 => f[1] = s[1]
  <2>1. Len(s) >= 1 => 1 \in 1..Len(s) /\ 1 - 1 = 0
    BY <1>2
  <2>2. Len(s) >= 1 => f[1] = 10 * 0 + s[1]
    BY <1>1, <2>1
  <2> QED BY <1>2, <2>1, <2>2
<1>5. Len(s) = 2 => f[2] = 10 * s[1] + s[2]
  <2>1. Len(s) = 2 => 2 \in 1..Len(s) /\ 2 - 1 = 1
    BY <1>2
  <2> QED BY <1>1, <1>4, <2>1
<1>6. Len(s) = 0 => Number(s) = 0
  BY <1>1, <1>2
<1>7. Len(s) = 1 => Number(s) = s[1]
  BY <1>2, <1>4
<1>8. Len(s) = 2 => Number(s) = 10 * s[1] + s[2]
  BY <1>2, <1>5
<1> QED BY <1>3, <1>6, <1>7, <1>8

(* Constants. *)
LEMMA SameNumbers ==
  /\ \A k : Pow(10, k)' = Pow(10, k)
  /\ Number(out)' = Number(out') /\ Number(list1)' = Number(list1') /\ Number(list2)' = Number(list2')
<1>1. \A k : Pow(10, k)' = Pow(10, k)
  BY DEF Pow, Numbers!Power
<1>2. Number(out)' = Number(out') /\ Number(list1)' = Number(list1') /\ Number(list2)' = Number(list2')
  BY DEF Number, FoldLeft, MapThenFoldSet
<1> QED BY <1>1, <1>2

(* A product with a positive factor. *)
LEMMA Product ==
  ASSUME NEW x \in Nat, NEW y \in Nat, y > 0
  PROVE  x * y \in Nat /\ y * 10 \in Nat /\ y * 10 > 0 /\ (x * y > 0 <=> x > 0)
<1>1. y * 10 \in Nat /\ y * 10 > 0
  OBVIOUS
<1>2. x > 0 => x * y > 0
  OBVIOUS
<1>3. x = 0 => x * y = 0
  OBVIOUS
<1>4. x * y \in Nat
  OBVIOUS
<1> QED BY <1>1, <1>2, <1>3, <1>4

(* One digit more is read. *)
LEMMA ReadNext ==
  ASSUME NEW s \in Seq(Nat), NEW c \in Nat, c < Len(s), ReadSoFar(s, c),
         acc' = acc * i + s[c + 1], i' = i * 10
  PROVE  /\ acc' \in Nat /\ i' \in Nat /\ i' > 0
         /\ acc' > 0 <=> Positive(s, c + 1)
         /\ c + 1 = 1 => acc' = s[1] /\ i' = 10
         /\ c + 1 = 2 => acc' = 10 * s[1] + s[2]
<1>1. c + 1 \in 1..Len(s) /\ s[c + 1] \in Nat /\ acc \in Nat /\ i \in Nat /\ i > 0
  BY DEF ReadSoFar
<1>3. acc * i \in Nat /\ i * 10 \in Nat /\ i * 10 > 0 /\ (acc * i > 0 <=> acc > 0)
  BY <1>1, Product
<1>4. /\ acc' \in Nat /\ i' \in Nat /\ i' > 0
      /\ acc' > 0 <=> Positive(s, c + 1)
  <2>1. acc' > 0 <=> acc > 0 \/ s[c + 1] > 0
    BY <1>1, <1>3
  <2>2. \A k \in 1..(c + 1) : k \in 1..c \/ k = c + 1
    OBVIOUS
  <2>3. (c + 1) \in 1..(c + 1) /\ \A k \in 1..c : k \in 1..(c + 1)
    OBVIOUS
  <2>4. Positive(s, c + 1) <=> Positive(s, c) \/ s[c + 1] > 0
    BY <2>2, <2>3 DEF Positive
  <2>5. acc > 0 <=> Positive(s, c)
    BY DEF ReadSoFar
  <2> QED BY <1>1, <1>3, <2>1, <2>4, <2>5
<1>5. CASE c = 0
  <2>1. acc = 0 /\ i = 1 /\ s[1] \in Nat /\ acc' = 0 * 1 + s[1] /\ i' = 1 * 10
    BY <1>1, <1>5 DEF ReadSoFar
  <2> QED BY <1>4, <1>5, <2>1
<1>6. CASE c = 1
  <2>1. acc = s[1] /\ i = 10 /\ acc' = s[1] * 10 + s[2] /\ s[1] \in Nat /\ s[2] \in Nat
    BY <1>1, <1>6 DEF ReadSoFar
  <2> QED BY <1>4, <1>6, <2>1
<1>7. CASE c # 0 /\ c # 1
  BY <1>4, <1>7
<1> QED BY <1>5, <1>6, <1>7

(* The whole number is read. *)
LEMMA ReadAll ==
  ASSUME NEW s \in Seq(Nat), ReadSoFar(s, Len(s)), Len(s) <= 2
  PROVE  acc = Number(s)
<1>1. s \in Seq(Int) /\ (Len(s) = 0 \/ Len(s) = 1 \/ Len(s) = 2)
  <2>1. s \in Seq(Int)
    OBVIOUS
  <2>2. Len(s) \in Nat
    OBVIOUS
  <2>3. ASSUME NEW l \in Nat, l <= 2 PROVE l = 0 \/ l = 1 \/ l = 2
    BY <2>3
  <2> QED BY <2>1, <2>2, <2>3
<1>2. CASE Len(s) = 0
  BY <1>1, <1>2, ShortNumber DEF ReadSoFar
<1>3. CASE Len(s) = 1
  BY <1>1, <1>3, ShortNumber DEF ReadSoFar
<1>4. CASE Len(s) = 2
  BY <1>1, <1>4, ShortNumber DEF ReadSoFar
<1> QED BY <1>1, <1>2, <1>3, <1>4

(* A step of addlist keeps its invariant: acc is the number that the digits passed stand for. *)
LEMMA AddListDoes ==
  ASSUME ResultsInv, AddList
  PROVE  prog = "addlist" /\ UNCHANGED input /\ AddResult'
<1>1. prog = "addlist" /\ pc \in {"run", "second"} /\ UNCHANGED <<input, heap, q>>
  BY DEF AddList, At
<1>2. Inputs /\ BothLists /\ q = Node2(1) /\ AddResult
  BY <1>1 DEF ResultsInv, AddResult
<1>3. Size \in Nat /\ Len(list2) \in Nat /\ Size = Len(list1) /\ list1 \in Seq(Nat) /\ list2 \in Seq(Nat)
  <2>1. list1 \in Seq(Values) /\ list2 \in Seq(Values) /\ Values \subseteq Nat /\ Size \in Nat /\ Len(list2) \in Nat
    <3>1. list1 \in Seq(Values) /\ list2 \in Seq(Values) /\ Size \in Nat /\ Len(list2) \in Nat
      BY <1>2, InputFacts
    <3>2. Values \subseteq Nat
      BY ValuesAssumption
    <3> QED BY <3>1, <3>2
  <2>2. \A S, T : S \subseteq T => Seq(S) \subseteq Seq(T)
    OBVIOUS
  <2> QED BY <2>1, <2>2 DEF Size
<1>4. /\ BothLists' /\ Size' = Size /\ list1' = list1 /\ list2' = list2 /\ prog' = prog
      /\ q' = Node2(1)'
  BY <1>1, <1>2, SameInput DEF Node2
<1>5. CASE pc = "run" /\ p # 0
  <2>1. acc' = acc * i + data[p] /\ i' = i * 10 /\ p' = next[p] /\ UNCHANGED <<out, pc>>
    BY <1>5 DEF AddList, At
  <2>2. PICK c \in 0..Size : p = Node(c + 1) /\ ReadSoFar(list1, c)
    BY <1>1, <1>2, <1>5 DEF AddResult
  <2>3. out = <<>>
    BY <1>1, <1>2, <1>5 DEF AddResult
  <2> DEFINE b == c + 1
  <2>4. c \in Nat /\ b \in 0..Size /\ b \in Nat /\ b > 0 /\ c < Size /\ b # 0
    <3>1. c + 1 <= Size
      BY <1>3, <1>5, <2>2 DEF Node
    <3> QED BY <1>3, <3>1
  <2>5. p' = Node(b + 1) /\ data[p] = list1[b]
    <3>1. p = Node(b)
      BY <2>2
    <3> HIDE DEF b
    <3>2. b <= Size
      BY <2>4
    <3> QED BY <1>2, <2>1, <2>4, <3>1, <3>2, Steps
  <2>6. /\ acc' \in Nat /\ i' \in Nat /\ i' > 0 /\ (acc' > 0 <=> Positive(list1, b))
        /\ b = 1 => acc' = list1[1] /\ i' = 10
        /\ b = 2 => acc' = 10 * list1[1] + list1[2]
    BY <1>3, <2>1, <2>2, <2>4, <2>5, ReadNext
  <2> HIDE DEF b
  <2>7. ReadSoFar(list1, b)'
    BY <1>4, <2>4, <2>6 DEF ReadSoFar, Positive
  <2>8. p' = Node(b + 1)'
    BY <1>4, <2>5 DEF Node
  <2>9. \E k \in 0..Size' : p' = Node(k + 1)' /\ ReadSoFar(list1, k)'
    BY <1>4, <2>4, <2>7, <2>8
  <2> QED
    BY <1>1, <1>4, <1>5, <2>1, <2>3, <2>9 DEF AddResult
<1>6. CASE pc = "run" /\ p = 0
  <2>1. out' = <<acc>> /\ acc' = 0 /\ i' = 1 /\ p' = q /\ pc' = "second"
    BY <1>6 DEF AddList, At
  <2>2. PICK c \in 0..Size : p = Node(c + 1) /\ ReadSoFar(list1, c)
    BY <1>1, <1>2, <1>6 DEF AddResult
  <2>3. c = Size
    <3>1. ~(c + 1 <= Size) /\ c \in Nat /\ c <= Size
      BY <1>3, <1>6, <2>2 DEF Node
    <3> QED BY <1>3, <3>1
  <2>4. ReadSoFar(list1, Len(list1)) /\ acc \in Nat
    BY <1>3, <2>2, <2>3 DEF ReadSoFar
  <2>5. Size <= 2 => acc = Number(list1)
    BY <1>3, <2>4, ReadAll
  <2>6. out' \in Seq(Nat) /\ Len(out') = 1 /\ out'[1] = acc
    BY <2>1, <2>4
  <2>7. p' = Node2(0 + 1)' /\ ReadSoFar(list2, 0)'
    BY <1>2, <1>4, <2>1 DEF ReadSoFar, Positive, Node2
  <2>9. (out'[1] > 0 <=> Positive(list1, Size)) /\ Positive(list1, Size)' = Positive(list1, Size)
    BY <1>4, <2>2, <2>3, <2>6 DEF ReadSoFar, Positive
  <2>8. \E k \in 0..Len(list2') : p' = Node2(k + 1)' /\ ReadSoFar(list2, k)'
    BY <1>3, <1>4, <2>7
  <2> QED
    BY <1>1, <1>4, <2>1, <2>5, <2>6, <2>8, <2>9, SameNumbers DEF AddResult
<1>7. CASE pc = "second"
  <2>1. /\ out \in Seq(Nat) /\ Len(out) = 1 /\ (Size <= 2 => out[1] = Number(list1))
        /\ out[1] > 0 <=> Positive(list1, Size)
        /\ \E k \in 0..Len(list2) : p = Node2(k + 1) /\ ReadSoFar(list2, k)
    BY <1>1, <1>2, <1>7 DEF AddResult
  <2>2. PICK c \in 0..Len(list2) : p = Node2(c + 1) /\ ReadSoFar(list2, c)
    BY <2>1
  <2>3. CASE p # 0
    <3>1. acc' = acc * i + data[p] /\ i' = i * 10 /\ p' = next[p] /\ UNCHANGED <<out, pc>>
      BY <1>7, <2>3 DEF AddList, At
    <3> DEFINE b == c + 1
    <3>2. c \in Nat /\ b \in 0..Len(list2) /\ b \in Nat /\ b > 0 /\ c < Len(list2) /\ b # 0
      <4>1. c + 1 <= Len(list2)
        BY <1>3, <2>2, <2>3 DEF Node2
      <4> QED BY <1>3, <4>1
    <3>3. p' = Node2(b + 1) /\ data[p] = list2[b]
      <4>1. p = Node2(b)
        BY <2>2
      <4> HIDE DEF b
      <4>2. b <= Len(list2)
        BY <3>2
      <4> QED BY <1>2, <3>1, <3>2, <4>1, <4>2, Steps
    <3>4. /\ acc' \in Nat /\ i' \in Nat /\ i' > 0 /\ (acc' > 0 <=> Positive(list2, b))
          /\ b = 1 => acc' = list2[1] /\ i' = 10
          /\ b = 2 => acc' = 10 * list2[1] + list2[2]
      BY <1>3, <2>2, <3>1, <3>2, <3>3, ReadNext
    <3> HIDE DEF b
    <3>5. ReadSoFar(list2, b)'
      BY <1>4, <3>2, <3>4 DEF ReadSoFar, Positive
    <3>6. p' = Node2(b + 1)'
      BY <1>4, <3>3 DEF Node2
    <3>7. \E k \in 0..Len(list2') : p' = Node2(k + 1)' /\ ReadSoFar(list2, k)'
      BY <1>4, <3>2, <3>5, <3>6
    <3>8. Positive(list1, Size)' = Positive(list1, Size)
      BY <1>4 DEF Positive
    <3> QED
      BY <1>1, <1>4, <1>7, <2>1, <3>1, <3>7, <3>8, SameNumbers DEF AddResult
  <2>4. CASE p = 0
    <3>1. acc' = out[1] + acc /\ out' = <<>> /\ pc' = "digits" /\ p' = p /\ i' = i
      BY <1>7, <2>4 DEF AddList, At
    <3>2. c = Len(list2)
      <4>1. ~(c + 1 <= Len(list2)) /\ c \in Nat /\ c <= Len(list2)
        BY <1>3, <2>2, <2>4 DEF Node2
      <4> QED BY <1>3, <4>1
    <3>3. ReadSoFar(list2, Len(list2)) /\ acc \in Nat /\ i \in Nat /\ out[1] \in Nat
      <4>1. out[1] \in Nat
        <5>1. 1 \in 1..Len(out) /\ out \in Seq(Nat)
          BY <2>1
        <5> QED BY <5>1
      <4> QED BY <2>2, <3>2, <4>1 DEF ReadSoFar
    <3>4. Len(list2) <= 2 => acc = Number(list2)
      BY <1>3, <3>3, ReadAll
    <3>5. acc' \in Nat /\ out' \in Seq(0..9) /\ Len(out') = 0
      BY <3>1, <3>3
    <3>6. Number(out') = 0 /\ Pow(10, 0) = 1
      <4>1. out' \in Seq(Int)
        BY <3>1
      <4>2. 10 \in Nat /\ 10 > 0 /\ 0 \in Nat
        OBVIOUS
      <4>3. Pow(10, 0) = 1
        BY <4>2, PowerOf
      <4> QED BY <3>5, <4>1, <4>3, ShortNumber
    <3>7. Size <= 2 /\ Len(list2) <= 2 => acc' * Pow(10, Len(out')) + Number(out') = Number(list1) + Number(list2)
      BY <2>1, <3>1, <3>3, <3>4, <3>5, <3>6
    <3>8. acc' > 0 \/ out' # <<>> <=> SomeDigit'
      <4>1. acc > 0 <=> Positive(list2, Len(list2))
        BY <3>3 DEF ReadSoFar
      <4>2. acc' > 0 <=> out[1] > 0 \/ acc > 0
        BY <3>1, <3>3
      <4>3. SomeDigit' = SomeDigit
        BY <1>1, SameInput
      <4> QED BY <2>1, <3>1, <4>1, <4>2, <4>3 DEF SomeDigit
    <3> QED
      BY <1>1, <1>4, <2>4, <3>1, <3>3, <3>5, <3>7, <3>8, SameNumbers DEF AddResult
  <2> QED BY <2>3, <2>4
<1> QED
  BY <1>1, <1>5, <1>6, <1>7

(* A digit more in front. *)
LEMMA DigitInFront == \A s \in Seq(0..9) : \A d \in 0..9 : <<d>> \o s \in Seq(0..9)
OBVIOUS

(* A step of finlist keeps its invariant: the digits made so far and what is left make the sum. *)
LEMMA FinListDoes ==
  ASSUME ResultsInv, FinList
  PROVE  prog = "addlist" /\ UNCHANGED input /\ AddResult'
<1>1. prog = "addlist" /\ pc = "digits" /\ UNCHANGED <<input, heap, p, q, i>>
  BY DEF FinList, At, ReturnList, Go
<1>2. Inputs /\ BothLists /\ q = Node2(1) /\ AddResult
  BY <1>1 DEF ResultsInv, AddResult
<1>3. /\ p = 0 /\ acc \in Nat /\ i \in Nat /\ out \in Seq(0..9)
      /\ acc > 0 \/ out # <<>> <=> SomeDigit
      /\ Size <= 2 /\ Len(list2) <= 2 => acc * Pow(10, Len(out)) + Number(out) = Number(list1) + Number(list2)
  BY <1>1, <1>2 DEF AddResult
<1>4. /\ BothLists' /\ Size' = Size /\ list1' = list1 /\ list2' = list2 /\ prog' = prog /\ q' = Node2(1)'
      /\ SomeDigit' = SomeDigit /\ loose' = loose
  BY <1>1, <1>2, SameInput DEF Node2
<1>5. CASE acc = 0
  <2>1. UNCHANGED <<acc, out>> /\ ~(acc > 0)
    BY <1>5 DEF FinList, At, ReturnList, Go
  <2>2. CASE out = <<>>
    <3>1. pc' = "done" /\ ~SomeDigit
      BY <1>3, <1>5, <2>1, <2>2 DEF FinList, At, ReturnList, Go
    <3> QED
      BY <1>1, <1>3, <1>4, <1>5, <2>1, <3>1, SameNumbers DEF AddResult
  <2>3. CASE out # <<>>
    <3>1. pc' = (IF loose = 0 THEN "done" ELSE "crashed") /\ SomeDigit
      BY <1>3, <1>5, <2>1, <2>3 DEF FinList, At, Go, EndOfPrint
    <3> QED
      BY <1>1, <1>3, <1>4, <1>5, <2>1, <3>1, SameNumbers DEF AddResult
  <2> QED BY <2>2, <2>3
<1>6. CASE acc # 0
  <2> DEFINE d == acc % 10
             h == acc \div 10
             w == Pow(10, Len(out))
  <2>1. out' = <<d>> \o out /\ acc' = h /\ pc' = pc /\ SomeDigit
    <3>1. acc > 0
      BY <1>3, <1>6
    <3> QED BY <1>3, <3>1 DEF FinList, At
  <2>2. d \in 0..9 /\ h \in Nat /\ acc = 10 * h + d
    <3>1. acc \in Nat
      BY <1>3
    <3> QED BY <3>1, DivisionIs
  <2> HIDE DEF d, h
  <2>3. out \in Seq(Int) /\ Len(out) \in Nat /\ out' \in Seq(0..9)
    <3>1. out \in Seq(0..9)
      BY <1>3
    <3>2. out' \in Seq(0..9)
      BY <2>1, <2>2, <3>1, DigitInFront, Zenon
    <3> QED BY <3>1, <3>2, DigitLists
  <2>4. Len(out') = Len(out) + 1 /\ Number(out') = d * w + Number(out) /\ Number(out) \in Int
    BY <2>1, <2>2, <2>3, ConsDigit, NumberIs
  <2>5. w \in Nat /\ Pow(10, Len(out) + 1) = 10 * w
    <3>1. 10 \in Nat /\ 10 > 0
      OBVIOUS
    <3> QED BY <2>3, <3>1, PowerOf
  <2> HIDE DEF w
  <2>6. (10 * h + d) * w = h * (10 * w) + d * w
    BY <2>2, <2>5
  <2>7. acc * w + Number(out) = acc' * Pow(10, Len(out')) + Number(out')
    <3>1. d * w \in Int /\ h * (10 * w) \in Int
      BY <2>2, <2>5
    <3>2. acc' * Pow(10, Len(out')) = h * (10 * w)
      BY <2>1, <2>4, <2>5
    <3>3. acc * w = h * (10 * w) + d * w
      BY <2>2, <2>6
    <3> HIDE DEF d, h, w
    <3> QED BY <2>4, <3>1, <3>2, <3>3
  <2>8. Size <= 2 /\ Len(list2) <= 2 => acc' * Pow(10, Len(out')) + Number(out') = Number(list1) + Number(list2)
    BY <1>3, <2>7 DEF w
  <2>9. acc' \in Nat /\ out' # <<>>
    <3>1. Len(out') # 0
      BY <2>3, <2>4
    <3> QED BY <2>1, <2>2, <3>1
  <2> QED
    BY <1>1, <1>3, <1>4, <2>1, <2>3, <2>8, <2>9, SameNumbers DEF AddResult
<1> QED
  BY <1>5, <1>6

(* The | of two numbers, bit by bit. *)
LEMMA OrIs ==
  /\ \A a, b \in Nat : /\ Or(a, b) \in Nat
                       /\ Or(a, b) = 2 * Or(a \div 2, b \div 2) + (IF a % 2 = 1 \/ b % 2 = 1 THEN 1 ELSE 0)
  /\ Or(0, 0) = 0
<1> DEFINE X == Nat \X Nat
           Bit(x) == IF x[1] % 2 = 1 \/ x[2] % 2 = 1 THEN 1 ELSE 0
           Halved(x) == <<x[1] \div 2, x[2] \div 2>>
           Eq(f, x) == IF x = <<0, 0>> THEN 0 ELSE 2 * f[Halved(x)] + Bit(x)
           D == CHOOSE f : f = [x \in X |-> Eq(f, x)]
           rank == [x \in X |-> x[1] + x[2]]
           pred == [x \in X |-> Halved(x)]
           step == [z \in X \X Nat |-> 2 * z[2] + Bit(z[1])]
           Z == {<<0, 0>>}
<1>0. ASSUME NEW x \in X
      PROVE  /\ Halved(x) \in X /\ Bit(x) \in Nat /\ x[1] \in Nat /\ x[2] \in Nat /\ x = <<x[1], x[2]>>
             /\ x # <<0, 0>> => rank[Halved(x)] < rank[x]
  <2>1. x[1] \in Nat /\ x[2] \in Nat /\ x = <<x[1], x[2]>>
    OBVIOUS
  <2>2. \A c \in Nat : c \div 2 \in Nat /\ c \div 2 <= c /\ (c # 0 => c \div 2 < c)
    OBVIOUS
  <2>3. Halved(x) \in X /\ Bit(x) \in Nat
    BY <2>1, <2>2
  <2>4. rank[Halved(x)] = x[1] \div 2 + x[2] \div 2 /\ rank[x] = x[1] + x[2]
    BY <2>3
  <2>5. x # <<0, 0>> => x[1] # 0 \/ x[2] # 0
    BY <2>1
  <2> QED BY <2>1, <2>2, <2>3, <2>4, <2>5
<1>1. Descends(X, Z, pred, rank)
  <2>1. rank \in [X -> Nat] /\ pred \in [X -> X] /\ Z \in SUBSET X
    BY <1>0
  <2>2. \A x \in X \ Z : rank[pred[x]] < rank[x]
    BY <1>0
  <2> HIDE DEF rank, pred, X, Z
  <2> QED BY <2>1, <2>2 DEF Descends
<1>2. step \in [X \X Nat -> Nat] /\ 0 \in Nat
  <2>1. ASSUME NEW z \in X \X Nat PROVE 2 * z[2] + Bit(z[1]) \in Nat
    <3>1. z[1] \in X /\ z[2] \in Nat
      OBVIOUS
    <3>2. Bit(z[1]) \in Nat
      BY <1>0, <3>1
    <3> HIDE DEF Bit, X
    <3> QED BY <3>1, <3>2
  <2> QED BY <2>1
<1>3. \E f \in [X -> Nat] : Recursive(f, X, Z, pred, 0, step)
  <2> HIDE DEF rank, pred, step, Z, X
  <2> QED BY <1>1, <1>2, Recursion
<1>4. PICK f \in [X -> Nat] : Recursive(f, X, Z, pred, 0, step)
  BY <1>3
<1>5. ASSUME NEW x \in X PROVE f[x] = Eq(f, x)
  <2>1. Halved(x) \in X /\ f[Halved(x)] \in Nat /\ pred[x] = Halved(x)
    BY <1>0
  <2>2. f[x] = IF x \in Z THEN 0 ELSE step[<<x, f[pred[x]]>>]
    BY <1>4 DEF Recursive
  <2>3. step[<<x, f[Halved(x)]>>] = 2 * f[Halved(x)] + Bit(x)
    <3> DEFINE v == f[Halved(x)]
    <3>1. v \in Nat /\ <<x, v>> \in X \X Nat
      BY <2>1
    <3> HIDE DEF v, X, Bit
    <3>2. step[<<x, v>>] = 2 * v + Bit(x)
      BY <3>1
    <3> QED BY <3>2 DEF v
  <2> HIDE DEF step, Bit, Halved, X, pred
  <2> QED BY <2>1, <2>2, <2>3
<1>6. f = [x \in X |-> Eq(f, x)]
  <2> HIDE DEF Eq, X
  <2> QED BY <1>5
<1>7. D = [x \in X |-> Eq(D, x)]
  <2> HIDE DEF Eq, X
  <2> QED BY <1>6
<1>8. \A a, b \in Nat : Or(a, b) = D[<<a, b>>]
  BY DEF Or
<1> HIDE DEF D
<1> DEFINE W == {c \in Nat : \A x \in X : rank[x] = c => D[x] \in Nat}
<1>9. ASSUME NEW c \in Nat, \A m \in Nat : m < c => m \in W
      PROVE  c \in W
  <2> SUFFICES ASSUME NEW x \in X, rank[x] = c PROVE D[x] \in Nat
    OBVIOUS
  <2>1. CASE x = <<0, 0>>
    BY <1>7, <2>1
  <2>2. CASE x # <<0, 0>>
    <3>1. Halved(x) \in X /\ Bit(x) \in Nat /\ rank[Halved(x)] \in Nat /\ rank[Halved(x)] < c
      <4>1. Halved(x) \in X /\ Bit(x) \in Nat /\ rank[Halved(x)] < c
        BY <1>0, <2>2
      <4>2. rank \in [X -> Nat]
        BY <1>0
      <4> HIDE DEF rank, Halved, X
      <4> QED BY <4>1, <4>2
    <3>2. D[Halved(x)] \in Nat
      BY <1>9, <3>1
    <3>3. D[x] = 2 * D[Halved(x)] + Bit(x)
      BY <1>7, <2>2
    <3> HIDE DEF Halved, Bit
    <3> QED BY <3>1, <3>2, <3>3
  <2> QED BY <2>1, <2>2
<1> HIDE DEF W
<1>10. W = Nat
  <2>1. W \in SUBSET Nat
    BY DEF W
  <2> QED BY <2>1, <1>9, Induction
<1>11. \A x \in X : D[x] \in Nat
  <2>1. \A x \in X : rank[x] \in Nat
    BY <1>0
  <2> QED BY <1>10, <2>1 DEF W
<1>12. ASSUME NEW a \in Nat, NEW b \in Nat
       PROVE  /\ D[<<a, b>>] \in Nat
              /\ D[<<a, b>>] = 2 * D[<<a \div 2, b \div 2>>] + (IF a % 2 = 1 \/ b % 2 = 1 THEN 1 ELSE 0)
  <2>1. <<a, b>> \in X /\ D[<<a, b>>] = Eq(D, <<a, b>>)
    BY <1>7
  <2>2. CASE a = 0 /\ b = 0
    <3>1. 0 \div 2 = 0 /\ 0 % 2 = 0 /\ D[<<0, 0>>] = 0
      BY <2>1, <2>2
    <3> QED BY <2>2, <3>1
  <2>3. CASE ~(a = 0 /\ b = 0)
    <3>1. <<a, b>> # <<0, 0>>
      BY <2>3
    <3> QED BY <1>11, <2>1, <3>1
  <2> QED BY <1>11, <2>1, <2>2, <2>3
<1>13. D[<<0, 0>>] = 0
  <2>1. <<0, 0>> \in X
    OBVIOUS
  <2> QED BY <1>7, <2>1
<1>14. \A c \in Nat : c \div 2 \in Nat
  OBVIOUS
<1> HIDE DEF X, Eq, Bit, Halved, rank, pred, step, Z
<1>15. ASSUME NEW a \in Nat, NEW b \in Nat
       PROVE  /\ Or(a, b) \in Nat
              /\ Or(a, b) = 2 * Or(a \div 2, b \div 2) + (IF a % 2 = 1 \/ b % 2 = 1 THEN 1 ELSE 0)
  <2>1. Or(a, b) = D[<<a, b>>] /\ Or(a \div 2, b \div 2) = D[<<a \div 2, b \div 2>>]
    BY <1>8, <1>14
  <2> QED BY <1>12, <2>1
<1>16. Or(0, 0) = 0
  <2>1. 0 \in Nat
    OBVIOUS
  <2> QED BY <1>8, <1>13, <2>1
<1> QED BY <1>15, <1>16

(* A bit goes below an even number, and falls out where it is halved. *)
LEMMA OrBit ==
  /\ \A c \in Nat : Or(c, 0) = c
  /\ \A c \in Nat, b \in {0, 1} : c % 2 = 0 => Or(c, b) = c + b
  /\ \A c, d \in Nat : Or(c, d) \div 2 = Or(c \div 2, d \div 2)
<1>0. 0 \div 2 = 0 /\ 0 % 2 = 0 /\ 1 \div 2 = 0 /\ 1 % 2 = 1
  OBVIOUS
<1> DEFINE W == {c \in Nat : Or(c, 0) = c}
<1>1. ASSUME NEW c \in Nat, \A m \in Nat : m < c => m \in W
      PROVE  c \in W
  <2>1. CASE c = 0
    BY <2>1, OrIs
  <2>2. CASE c # 0
    <3>1. c \div 2 \in Nat /\ c \div 2 < c /\ c = 2 * (c \div 2) + (c % 2) /\ (c % 2 = 0 \/ c % 2 = 1)
      <4>1. c \div 2 \in Nat /\ c = 2 * (c \div 2) + (c % 2)
        OBVIOUS
      <4>2. c % 2 = 0 \/ c % 2 = 1
        OBVIOUS
      <4>3. c \div 2 < c
        BY <2>2
      <4> QED BY <4>1, <4>2, <4>3
    <3>2. Or(c \div 2, 0) = c \div 2
      BY <1>1, <3>1
    <3>3. Or(c, 0) = 2 * Or(c \div 2, 0 \div 2) + (IF c % 2 = 1 \/ 0 % 2 = 1 THEN 1 ELSE 0)
      BY OrIs
    <3> QED BY <1>0, <3>1, <3>2, <3>3
  <2> QED BY <2>1, <2>2
<1> HIDE DEF W
<1>2. W = Nat
  <2>1. W \in SUBSET Nat
    BY DEF W
  <2> QED BY <2>1, <1>1, Induction
<1>3. \A c \in Nat : Or(c, 0) = c
  BY <1>2 DEF W
<1>4. ASSUME NEW c \in Nat, NEW b \in {0, 1}, c % 2 = 0 PROVE Or(c, b) = c + b
  <2>1. c = 2 * (c \div 2) /\ c \div 2 \in Nat /\ b \in Nat /\ b \div 2 = 0 /\ (b % 2 = 1 <=> b = 1)
    BY <1>4
  <2>2. Or(c, b) = 2 * Or(c \div 2, b \div 2) + (IF c % 2 = 1 \/ b % 2 = 1 THEN 1 ELSE 0)
    BY <2>1, OrIs
  <2>3. Or(c \div 2, 0) = c \div 2
    BY <1>3, <2>1
  <2> QED BY <1>4, <2>1, <2>2, <2>3
<1>5. ASSUME NEW c \in Nat, NEW d \in Nat PROVE Or(c, d) \div 2 = Or(c \div 2, d \div 2)
  <2>1. c \div 2 \in Nat /\ d \div 2 \in Nat
    OBVIOUS
  <2>2. Or(c \div 2, d \div 2) \in Nat
    BY <2>1, OrIs
  <2>3. Or(c, d) = 2 * Or(c \div 2, d \div 2) + (IF c % 2 = 1 \/ d % 2 = 1 THEN 1 ELSE 0)
    BY OrIs
  <2>4. ASSUME NEW x \in Nat, NEW y \in {0, 1} PROVE (2 * x + y) \div 2 = x
    OBVIOUS
  <2> QED BY <2>2, <2>3, <2>4
<1> QED BY <1>3, <1>4, <1>5

(* Doubling a number of which only the remainder is kept. *)
LEMMA DoubleModulo ==
  ASSUME NEW m \in Int, NEW b \in {0, 1}
  PROVE  /\ m % UIntSize \in Nat /\ (2 * (m % UIntSize)) % UIntSize \in Nat
         /\ ((2 * (m % UIntSize)) % UIntSize) % 2 = 0
         /\ ((2 * (m % UIntSize)) % UIntSize) + b = (2 * m + b) % UIntSize
<1> DEFINE u == UIntSize
           h == UIntSize \div 2
           s == m % u
           k == m \div u
           t == (2 * s) % u
           j == (2 * s) \div u
<1>1. u \in Nat /\ u > 0 /\ h \in Nat /\ u = 2 * h
  BY UIntAssumption
<1> HIDE DEF u, h
<1>2. ASSUME NEW x \in Int
      PROVE  x = (x \div u) * u + (x % u) /\ x % u \in 0..(u - 1) /\ x \div u \in Int
  BY <1>1
<1>3. m = k * u + s /\ s \in 0..(u - 1) /\ k \in Int
  BY <1>2
<1>4. 2 * s = j * u + t /\ t \in 0..(u - 1) /\ j \in Int
  BY <1>2, <1>3
<1> HIDE DEF s, k, t, j
<1>5. t = 2 * (s - j * h)
  <2>1. j * u = 2 * (j * h) /\ j * h \in Int
    BY <1>1, <1>4
  <2> QED BY <1>1, <1>3, <1>4, <2>1
<1>6. t % 2 = 0 /\ t + b \in 0..(u - 1)
  <2>1. s - j * h \in Int
    BY <1>1, <1>3, <1>4
  <2>2. t % 2 = 0
    BY <1>4, <1>5, <2>1
  <2>3. t \in Nat /\ t < 2 * h /\ b <= 1 /\ b >= 0
    BY <1>1, <1>4
  <2> QED BY <1>1, <1>4, <2>2, <2>3
<1>7. 2 * m + b = (2 * k + j) * u + (t + b)
  <2>1. (2 * k + j) * u = 2 * (k * u) + j * u /\ k * u \in Int /\ j * u \in Int
    BY <1>1, <1>3, <1>4
  <2> QED BY <1>3, <1>4, <2>1
<1>8. (2 * m + b) % u = t + b
  <2> DEFINE x == 2 * m + b
  <2>1. x \in Int
    OBVIOUS
  <2> HIDE DEF x
  <2>2. x = (x \div u) * u + (x % u) /\ x % u \in 0..(u - 1) /\ x \div u \in Int
    BY <1>2, <2>1
  <2>3. x = (2 * k + j) * u + (t + b) /\ 2 * k + j \in Int
    BY <1>3, <1>4, <1>7 DEF x
  <2>4. x % u = t + b
    <3> DEFINE v == x \div u
               r == x % u
               z == 2 * k + j
               y == t + b
    <3>1. v \in Int /\ r \in 0..(u - 1) /\ z \in Int /\ y \in 0..(u - 1) /\ v * u + r = z * u + y
      BY <1>6, <2>2, <2>3
    <3> HIDE DEF v, r, z, y
    <3>2. (v - z) * u = y - r /\ v - z \in Int
      BY <1>1, <3>1
    <3>3. v - z = 0
      BY <1>1, <3>1, <3>2, Multiples
    <3>4. r = y
      BY <1>1, <3>1, <3>2, <3>3
    <3> QED BY <3>4 DEF r, y
  <2> QED BY <2>4 DEF x
<1>9. s = m % UIntSize /\ t = (2 * (m % UIntSize)) % UIntSize
  BY DEF s, t, u
<1> QED BY <1>3, <1>4, <1>6, <1>8, <1>9 DEF u

(* All elements of a list. *)
LEMMA PrefixAll ==
  ASSUME NEW s \in Seq(Int)
  PROVE  SubSeq(s, 1, Len(s)) = s
<1>1. SubSeq(s, 1, Len(s)) = [k \in 1..Len(s) |-> s[k]]
  OBVIOUS
<1>2. s = [k \in 1..Len(s) |-> s[k]]
  OBVIOUS
<1> QED BY <1>1, <1>2

(* Its first c + 1 elements. *)
LEMMA PrefixNext ==
  ASSUME NEW s \in Seq(Int), NEW c \in 0..(Len(s) - 1)
  PROVE  SubSeq(s, 1, c) \in Seq(Int) /\ SubSeq(s, 1, c + 1) = Append(SubSeq(s, 1, c), s[c + 1])
<1> DEFINE u == SubSeq(s, 1, c)
             v == SubSeq(s, 1, c + 1)
             b == c + 1
<1>1. Len(s) \in Nat /\ c \in Nat /\ b \in Nat /\ b \in 1..Len(s) /\ \A k \in 1..b : k \in 1..c \/ k = b
  OBVIOUS
<1>2. u \in Seq(Int) /\ Len(u) = c /\ \A k \in 1..c : u[k] = s[k]
  BY <1>1
<1>3. v \in Seq(Int) /\ Len(v) = b /\ \A k \in 1..b : v[k] = s[k]
  BY <1>1
<1>4. s[b] \in Int
  BY <1>1
<1> HIDE DEF u, v
<1> DEFINE w == Append(u, s[b])
<1>5. w \in Seq(Int) /\ Len(w) = c + 1 /\ w[c + 1] = s[b] /\ \A k \in 1..c : w[k] = u[k]
  BY <1>2, <1>4
<1> HIDE DEF w
<1>6. \A z \in Seq(Int) : z = [k \in 1..Len(z) |-> z[k]]
  OBVIOUS
<1>7. \A k \in 1..b : v[k] = w[k]
  BY <1>1, <1>2, <1>3, <1>5
<1>8. v = [k \in 1..b |-> v[k]] /\ w = [k \in 1..b |-> w[k]]
  BY <1>3, <1>5, <1>6
<1>9. v = w
  BY <1>7, <1>8
<1> QED BY <1>2, <1>9 DEF u, v, w

(* A step of the conversion keeps its invariant: acc is the value of the bits behind p. *)
LEMMA ConvertBinaryDoes ==
  ASSUME ResultsInv, ConvertBinary
  PROVE  prog = "binary" /\ UNCHANGED input /\ BinaryResult'
<1>1. prog = "binary" /\ pc = "run" /\ UNCHANGED <<input, heap, q, i>>
  BY DEF ConvertBinary, At, Return
<1>2. Inputs /\ LongerList /\ q = 1 /\ i = 0 /\ list1 \in Seq({0, 1}) /\ out = <<>>
  BY <1>1 DEF ResultsInv, BinaryResult, Inputs
<1>3. PICK c \in 0..(Size + 1) :
         /\ p = (IF c <= Size THEN c + 1 ELSE 0)
         /\ acc = IF c <= Size THEN Bits(SubSeq(list1, 1, c)) % UIntSize
                  ELSE Or((2 * (Bits(list1) % UIntSize)) % UIntSize, arg)
  BY <1>1 DEF ResultsInv, BinaryResult
<1>4. Size \in Nat /\ Size = Len(list1) /\ arg \in Nat /\ list1 \in Seq(Int) /\ c \in Nat /\ c <= Size + 1
  <2>1. Size \in Nat /\ arg \in Nat /\ list1 \in Seq(Int)
    BY <1>2, InputFacts
  <2> QED BY <1>3, <2>1 DEF Size
<1>41. list1 \in Seq(Int)
  BY <1>4
<1>42. /\ SubSeq(list1, 1, Len(list1)) = list1
       /\ \A b \in 0..(Len(list1) - 1) : /\ SubSeq(list1, 1, b) \in Seq(Int)
                                         /\ SubSeq(list1, 1, b + 1) = Append(SubSeq(list1, 1, b), list1[b + 1])
  BY <1>41, PrefixAll, PrefixNext
<1>5. LongerList' /\ q' = 1 /\ i' = 0 /\ Size' = Size /\ list1' = list1 /\ arg' = arg /\ prog' = prog
  BY <1>1, <1>2, SameInput
<1>6. \A b : /\ Bits(SubSeq(list1, 1, b))' = Bits(SubSeq(list1', 1, b)) /\ Bits(list1)' = Bits(list1')
             /\ \A z : Or((2 * (Bits(list1) % UIntSize)) % UIntSize, arg)' = Or((2 * (Bits(list1') % UIntSize)) % UIntSize, arg')
  BY DEF Bits, FoldLeft, MapThenFoldSet, Or
<1> DEFINE Value2(b) == IF b <= Size THEN Bits(SubSeq(list1, 1, b)) % UIntSize
                        ELSE Or((2 * (Bits(list1) % UIntSize)) % UIntSize, arg)
<1>7. ASSUME NEW b \in 0..(Size + 1),
             p' = (IF b <= Size THEN b + 1 ELSE 0), acc' = Value2(b),
             (pc' = "run" /\ out' = <<>>) \/ (pc' = "done" /\ b = Size + 1 /\ out' = <<acc' \div 2>>)
      PROVE  BinaryResult'
  <2>1. acc' = (IF b <= Size' THEN Bits(SubSeq(list1, 1, b))' % UIntSize
                ELSE Or((2 * (Bits(list1) % UIntSize)) % UIntSize, arg)')
    BY <1>5, <1>6, <1>7
  <2> QED BY <1>5, <1>7, <2>1 DEF BinaryResult
<1> HIDE DEF Value2
<1>8. CASE p = 0
  <2>1. pc' = "done" /\ out' = <<acc \div 2>> /\ UNCHANGED <<p, acc>>
    BY <1>8 DEF ConvertBinary, At, Return
  <2>2. c = Size + 1
    <3>1. ~(c <= Size)
      BY <1>3, <1>4, <1>8
    <3>2. ASSUME NEW x \in Nat, NEW y \in Nat, x <= y + 1, ~(x <= y) PROVE x = y + 1
      BY <3>2
    <3> QED BY <1>4, <3>1, <3>2
  <2>3. acc' = Value2(c) /\ p' = (IF c <= Size THEN c + 1 ELSE 0) /\ out' = <<acc' \div 2>>
    BY <1>3, <2>1 DEF Value2
  <2>4. BinaryResult'
    BY <1>3, <1>7, <2>1, <2>2, <2>3
  <2> QED BY <1>1, <2>4
<1>9. CASE p # 0
  <2>1. acc' = Or((2 * acc) % UIntSize, data[p]) /\ p' = next[p] /\ UNCHANGED <<out, pc>>
    BY <1>9 DEF ConvertBinary, At
  <2>2. c <= Size /\ p = c + 1 /\ acc = Bits(SubSeq(list1, 1, c)) % UIntSize /\ p \in 1..(Size + 1)
    BY <1>3, <1>4, <1>9
  <2>3. p' = IF p <= Size THEN p + 1 ELSE 0
    BY <1>2, <1>4, <2>1, <2>2 DEF LongerList
  <2>4. CASE c < Size
    <3>1. p \in 1..Size /\ c \in 0..(Len(list1) - 1)
      BY <1>4, <2>2, <2>4
    <3>2. data[p] = list1[p] /\ list1[p] \in {0, 1} /\ list1[p] \in Int
      BY <1>2, <1>4, <3>1 DEF LongerList
    <3> DEFINE s == SubSeq(list1, 1, c)
               m == Bits(s)
               d == list1[p]
    <3>3. s \in Seq(Int) /\ SubSeq(list1, 1, p) = Append(s, d)
      BY <1>42, <2>2, <3>1
    <3>4. m \in Int /\ Bits(Append(s, d)) = 2 * m + d
      <4> HIDE DEF s, d
      <4>1. 2 \in Int /\ d \in Int
        BY <3>2 DEF d
      <4> QED BY <3>3, <4>1, BitsIs, ValueAppend
    <3> HIDE DEF s, m, d
    <3>5. acc = m % UIntSize /\ d \in {0, 1}
      BY <2>2, <3>2 DEF s, m, d
    <3>6. Or((2 * acc) % UIntSize, d) = (2 * m + d) % UIntSize
      <4>1. /\ (2 * acc) % UIntSize \in Nat /\ ((2 * acc) % UIntSize) % 2 = 0
            /\ ((2 * acc) % UIntSize) + d = (2 * m + d) % UIntSize
        BY <3>4, <3>5, DoubleModulo
      <4> QED BY <3>5, <4>1, OrBit
    <3>7. acc' = Bits(SubSeq(list1, 1, p)) % UIntSize
      BY <2>1, <3>2, <3>3, <3>4, <3>6 DEF d
    <3>8. p <= Size /\ p \in 0..(Size + 1)
      BY <1>4, <3>1
    <3> DEFINE l == c + 1
    <3>9. l \in 0..(Size + 1) /\ l <= Size /\ p' = l + 1 /\ acc' = Bits(SubSeq(list1, 1, l)) % UIntSize
          /\ pc' = "run" /\ out' = <<>>
      BY <1>1, <1>2, <2>1, <2>2, <2>3, <3>7, <3>8
    <3> HIDE DEF l
    <3>10. /\ l \in 0..(Size + 1)
           /\ p' = (IF l <= Size THEN l + 1 ELSE 0)
           /\ acc' = Value2(l)
           /\ pc' = "run" /\ out' = <<>>
      BY <3>9 DEF Value2
    <3>11. BinaryResult'
      BY <1>7, <3>10
    <3> QED BY <1>1, <3>11
  <2>5. CASE c = Size
    <3>1. p = Size + 1 /\ data[p] = arg
      BY <1>2, <1>4, <2>2, <2>5 DEF LongerList
    <3>2. SubSeq(list1, 1, c) = list1
      BY <1>4, <1>42, <2>5
    <3>3. acc' = Or((2 * (Bits(list1) % UIntSize)) % UIntSize, arg)
      BY <2>1, <2>2, <3>1, <3>2
    <3>4. ~(p <= Size) /\ p \in 0..(Size + 1)
      BY <1>4, <3>1
    <3> DEFINE l == c + 1
    <3>5. l \in 0..(Size + 1) /\ ~(l <= Size) /\ p' = 0 /\ pc' = "run" /\ out' = <<>>
      BY <1>1, <1>2, <2>1, <2>2, <2>3, <3>4
    <3> HIDE DEF l
    <3>10. /\ l \in 0..(Size + 1)
           /\ p' = (IF l <= Size THEN l + 1 ELSE 0)
           /\ acc' = Value2(l)
           /\ pc' = "run" /\ out' = <<>>
      BY <3>3, <3>5 DEF Value2
    <3>11. BinaryResult'
      BY <1>7, <3>10
    <3> QED BY <1>1, <3>11
  <2>6. c < Size \/ c = Size
    <3>1. ASSUME NEW x \in Nat, NEW y \in Nat, x <= y PROVE x < y \/ x = y
      BY <3>1
    <3> QED BY <1>4, <2>2, <3>1
  <2> QED BY <2>4, <2>5, <2>6
<1> QED
  BY <1>8, <1>9

-----------------------------------------------------------------------------
(* A step that changes nothing keeps the invariants. *)
LEMMA ResultsUnchanged ==
  ASSUME ResultsInv, UNCHANGED vars
  PROVE  ResultsInv'
<1>1. UNCHANGED input /\ UNCHANGED <<data, next, head, freed, p, q, i, acc, out, pc>>
  BY DEF vars, heap
<1>2. LengthResult' /\ MidResult' /\ NodeResult' /\ IntersectionResult' /\ CompareResult' /\ PalindromeResult'
  <2>1. LengthResult'
    BY <1>1, SameInput DEF ResultsInv, LengthResult, OneList, Node, heap
  <2>2. MidResult'
    BY <1>1, SameInput DEF ResultsInv, MidResult, OneList, Halfway, Node, heap
  <2>3. NodeResult'
    BY <1>1, SameInput DEF ResultsInv, NodeResult, OneList, heap
  <2>4. IntersectionResult'
    BY <1>1, SameInput DEF ResultsInv, IntersectionResult, BothLists, Node, Node2, heap
  <2>5. CompareResult'
    BY <1>1, SameInput DEF ResultsInv, CompareResult, BothLists, Node, Node2, heap
  <2>6. PalindromeResult'
    BY <1>1, SameInput DEF ResultsInv, PalindromeResult, OneList, Halfway, Node, heap
  <2> QED BY <2>1, <2>2, <2>3, <2>4, <2>5, <2>6
<1>3. DeleteResult' /\ ReverseResult' /\ MoveLastResult' /\ SwapResult'
  BY <1>1, SameInput DEF ResultsInv, DeleteResult, ReverseResult, MoveLastResult, SwapResult,
     OneList, Node, Swapped, Odd, heap
<1>4. RemoveResult'
  <2>1. \A c, t : KeptSoFar(c, t)' = KeptSoFar(c, t) /\ Node(c)' = Node(c)
    BY <1>1, SameInput DEF KeptSoFar, Node, Picked
  <2> QED BY <1>1, <2>1, SameInput DEF ResultsInv, RemoveResult, OneList, heap
<1>5. SegResult' /\ MergeResult' /\ PartitionResult'
  <2>1. \A c : Node(c)' = Node(c) /\ Node2(c)' = Node2(c) /\ Picked(list1, Less)[c]' = Picked(list1, Less)[c]
             /\ Picked(list1, NotLess)[c]' = Picked(list1, NotLess)[c]
    BY <1>1, SameInput DEF Node, Node2, Picked
  <2>2. \A c : Pairs(c)' = Pairs(c)
    BY <1>1, SameInput DEF Pairs, Small, Large, Odd
  <2>3. \A a, b : Split(a, b)' = Split(a, b)
    BY <1>1 DEF Split, Odd
  <2>4. \A x : Count(data, x)' = Count(data, x) /\ Count(list1, x)' = Count(list1, x)
    BY <1>1, SameInput DEF Count
  <2>5. SegResult'
    BY <1>1, <2>1, <2>3, <2>4, SameInput DEF ResultsInv, SegResult
  <2>6. MergeResult'
    BY <1>1, <2>1, <2>2, SameInput DEF ResultsInv, MergeResult, BothLists, heap
  <2>7. PartitionResult'
    BY <1>1, <2>1, SameInput DEF ResultsInv, PartitionResult, OneList, heap
  <2> QED BY <2>5, <2>6, <2>7
<1>6. AddResult'
  BY <1>1, SameInput, SameNumbers DEF ResultsInv, AddResult, ReadSoFar, Positive, BothLists, Node, Node2, heap
<1>7. CopyResult' /\ VisitResult'
  BY <1>1, SameInput DEF ResultsInv, CopyResult, VisitResult, EndOfPrint, LongerList, heap
<1>8. BinaryResult'
  <2>1. \A b : (Bits(SubSeq(list1, 1, b)) % UIntSize)' = Bits(SubSeq(list1, 1, b)) % UIntSize
    BY <1>1, SameInput DEF Bits, FoldLeft, MapThenFoldSet
  <2>2. Or((2 * (Bits(list1) % UIntSize)) % UIntSize, arg)' = Or((2 * (Bits(list1) % UIntSize)) % UIntSize, arg)
    BY <1>1, SameInput DEF Bits, FoldLeft, MapThenFoldSet, Or
  <2> QED BY <1>1, <2>1, <2>2, SameInput DEF ResultsInv, BinaryResult, LongerList, heap
<1> QED
  BY <1>1, <1>2, <1>3, <1>4, <1>5, <1>6, <1>7, <1>8, OnlyItsResult

(* The invariant is inductive, together with that of the pointers. *)
LEMMA ResultsStep ==
  ASSUME ResultsInv, QuestionsInv, [Next]_vars
  PROVE  ResultsInv'
<1>1. CASE GetLength
  BY <1>1, GetLengthDoes, OnlyItsResult
<1>2. CASE FindMid
  BY <1>2, FindMidDoes, OnlyItsResult
<1>3. CASE FindNode
  BY <1>3, FindNodeDoes, OnlyItsResult
<1>4. CASE GetIntersection
  BY <1>4, GetIntersectionDoes, OnlyItsResult
<1>5. CASE Compare
  BY <1>5, CompareDoes, OnlyItsResult
<1>6. CASE IsPalindrome
  BY <1>6, IsPalindromeDoes, OnlyItsResult
<1>7. CASE DeleteNode
  BY <1>7, DeleteNodeDoes, OnlyItsResult
<1>8. CASE ReverseStart \/ ReverseLoop
  BY <1>8, ReverseDoes, OnlyItsResult
<1>9. CASE MoveLast
  BY <1>9, MoveLastDoes, OnlyItsResult
<1>10. CASE SwapTwo
  BY <1>10, SwapTwoDoes, OnlyItsResult
<1>11. CASE RemoveNode
  BY <1>11, RemoveNodeDoes, OnlyItsResult
<1>12. CASE Seg
  BY <1>12, SegDoes, OnlyItsResult
<1>13. CASE MergeList
  BY <1>13, MergeListDoes, OnlyItsResult
<1>14. CASE Partition
  BY <1>14, PartitionDoes, OnlyItsResult
<1>15. CASE AddList
  BY <1>15, AddListDoes, OnlyItsResult
<1>16. CASE FinList
  BY <1>16, FinListDoes, OnlyItsResult
<1>17. CASE DeepCopy
  BY <1>17, DeepCopyDoes, OnlyItsResult
<1>18. CASE ConvertBinary
  BY <1>18, ConvertBinaryDoes, OnlyItsResult
<1>19. CASE Visit
  BY <1>19, VisitDoes, OnlyItsResult
<1>20. CASE UNCHANGED vars
  BY <1>20, ResultsUnchanged
<1> QED
  BY <1>1, <1>2, <1>3, <1>4, <1>5, <1>6, <1>7, <1>8, <1>9, <1>10, <1>11, <1>12, <1>13, <1>14, <1>15, <1>16,
     <1>17, <1>18, <1>19, <1>20 DEF Next

-----------------------------------------------------------------------------
(* The shape of the heap, and the values that a program reaches. *)
Sound ==
  /\ Len(data) = Size + Len(list2) + (IF prog \in ExtraNode THEN 1 ELSE 0)
  /\ DOMAIN data = 1..Len(data) /\ Heap
  /\ freed \subseteq 1..Len(data) /\ head \in 0..Len(data) /\ p \in 0..Len(data) /\ q \in 0..Len(data)
  /\ i \in Nat /\ acc \in Nat /\ out \in Seq(Int)
  /\ pc \in {"start", "run", "both", "copy", "compare", "second", "digits", "done", "crashed"}

(* What is sound has its type. *)
LEMMA SoundTypes == Inputs /\ Sound => TypeOK
<1> SUFFICES ASSUME Inputs, Sound PROVE TypeOK
  OBVIOUS
<1>1. prog \in Programs /\ list1 \in Lists /\ list2 \in Lists /\ arg \in Args \cup {0} /\ loose \in {0, Wild}
  BY DEF Inputs
<1>2. DOMAIN next = DOMAIN data /\ \A k \in DOMAIN next : next[k] \in 0..Len(data)
  BY DEF Sound, Heap
<1>3. {head, p, q} \cup {next[k] : k \in DOMAIN next} \subseteq 0..Len(data)
  BY <1>2 DEF Sound
<1> QED BY <1>1, <1>2, <1>3 DEF Sound, TypeOK, Size

(* A list and its length, from its elements. *)
LEMMA ListOf ==
  ASSUME NEW S, NEW c \in Nat, NEW s \in [1..c -> S]
  PROVE  s \in Seq(S) /\ Len(s) = c /\ DOMAIN s = 1..c
OBVIOUS

(* With one list, every link goes to a node or to NULL. *)
LEMMA OneHeap ==
  ASSUME Inputs, prog \notin TwoLists \cup ExtraNode
  PROVE  /\ Size \in Nat /\ Len(list2) = 0 /\ First \in 0..Size
         /\ data = list1 => Len(data) = Size + Len(list2) + (IF prog \in ExtraNode THEN 1 ELSE 0)
                            /\ DOMAIN data = 1..Len(data) /\ Len(data) = Size
         /\ \A k \in Nat : Node(k) \in 0..Size
         /\ Straight \in [1..Size -> 0..Size]
<1>1. Size \in Nat /\ list2 = <<>> /\ DOMAIN list1 = 1..Size /\ Straight = [k \in 1..Size |-> Node(k + 1)] /\ First = Node(1)
  BY InputFacts DEF Inputs
<1>2. \A k \in Nat : Node(k) \in 0..Size
  BY <1>1 DEF Node
<1>3. Straight \in [1..Size -> 0..Size] /\ First \in 0..Size
  <2>1. \A k \in 1..Size : k + 1 \in Nat
    BY <1>1
  <2> QED BY <1>1, <1>2, <2>1
<1>4. Len(list2) = 0
  BY <1>1
<1> QED BY <1>1, <1>2, <1>3, <1>4 DEF Size

(* Then the heap has as many nodes as the list. *)
LEMMA OneSize ==
  ASSUME Inputs, Sound, prog \notin TwoLists \cup ExtraNode
  PROVE  Len(data) = Size /\ DOMAIN data = 1..Size
<1>1. Size \in Nat /\ Len(list2) = 0
  BY OneHeap
<1>2. Len(data) = Size + Len(list2) + 0
  BY DEF Sound
<1>3. Len(data) = Size
  <2> HIDE DEF Size
  <2> QED BY <1>1, <1>2
<1>4. DOMAIN data = 1..Len(data)
  BY DEF Sound
<1> QED BY <1>3, <1>4

(* The same with two lists. *)
LEMMA BothHeap ==
  ASSUME Inputs, prog \in TwoLists, BothLists
  PROVE  /\ Size \in Nat /\ Len(list2) \in Nat
         /\ Len(data) = Size + Len(list2) /\ DOMAIN data = 1..Len(data) /\ Heap /\ prog \notin ExtraNode
         /\ freed = {} /\ head \in 0..Size /\ \A k \in Nat : Node(k) \in 0..Len(data) /\ Node2(k) \in 0..Len(data)
<1>1. /\ Size \in Nat /\ Len(list2) \in Nat /\ list1 \in Seq(Int) /\ list2 \in Seq(Int) /\ First = Node(1)
      /\ Size = Len(list1)
  BY InputFacts DEF Size
<1>2. Len(data) = Size + Len(list2) /\ DOMAIN data = 1..Len(data)
  BY <1>1 DEF BothLists
<1>3. Heap
  BY <1>1, <1>2 DEF BothLists, Pair, Heap
<1>4. \A k \in Nat : Node(k) \in 0..Size /\ Node(k) \in 0..Len(data) /\ Node2(k) \in 0..Len(data)
  BY <1>1, <1>2 DEF Node, Node2
<1>5. prog \notin ExtraNode
  BY DEF TwoLists, ExtraNode
<1> QED BY <1>1, <1>2, <1>3, <1>4, <1>5 DEF BothLists

(* The same with a node more. *)
LEMMA LongerHeap ==
  ASSUME Inputs, prog \in ExtraNode,
         next \in [1..(Size + 1) -> 0..(Size + 1)], Len(data) = Size + 1, DOMAIN data = 1..(Size + 1)
  PROVE  /\ Size \in Nat /\ Len(list2) = 0 /\ Heap /\ DOMAIN data = 1..Len(data)
         /\ Len(data) = Size + Len(list2) + (IF prog \in ExtraNode THEN 1 ELSE 0)
<1>1. Size \in Nat
  BY InputFacts
<1>2. list2 = <<>>
  BY DEF Inputs, TwoLists, ExtraNode
<1>3. Len(list2) = 0
  BY <1>2
<1> QED BY <1>1, <1>3 DEF Heap

(* The same for the programs that add a node to the list. *)
LEMMA LongerListHeap ==
  ASSUME Inputs, LongerList
  PROVE  /\ next \in [1..(Size + 1) -> 0..(Size + 1)] /\ Len(data) = Size + 1 /\ DOMAIN data = 1..(Size + 1)
         /\ head = 1 /\ freed = {} /\ \A k \in 1..Size : next[k] = k + 1
<1>1. Size \in Nat /\ list1 \in Seq(Int) /\ arg \in Int /\ Size = Len(list1)
  BY InputFacts DEF Size
<1>2. Len(data) = Size + 1 /\ DOMAIN data = 1..(Size + 1)
  BY <1>1 DEF LongerList
<1> QED BY <1>1, <1>2 DEF LongerList

Labels == {"start", "run", "both", "copy", "compare", "second", "digits", "done", "crashed"}

(* The first and the last of some elements. *)
LEMMA Ends ==
  ASSUME NEW S, NEW s \in Seq(S), s # <<>>
  PROVE  /\ Len(s) \in Nat /\ Len(s) >= 1 /\ s[1] \in S /\ s[Len(s)] \in S
         /\ \A k \in 1..Len(s) : s[k] \in S
OBVIOUS

(* One list and its nodes. *)
LEMMA SoundOne ==
  ASSUME Inputs, prog \notin TwoLists \cup ExtraNode,
         data = list1 \/ data \in [1..Size -> Values],
         next \in [1..Size -> 0..Size], freed \subseteq 1..Size,
         head \in 0..Size, p \in 0..Size, q \in 0..Size,
         i \in Nat, acc \in Nat, out \in Seq(Int), pc \in Labels
  PROVE  Sound /\ Size \in Nat /\ Len(list2) = 0 /\ Len(data) = Size
<1>1. Size \in Nat /\ Len(list2) = 0
  BY OneHeap
<1>2. Len(data) = Size /\ DOMAIN data = 1..Size
  <2>1. CASE data = list1
    BY <2>1, OneHeap, InputFacts DEF Size
  <2>2. CASE data \in [1..Size -> Values]
    BY <1>1, <2>2, ListOf
  <2> QED BY <2>1, <2>2
<1> QED BY <1>1, <1>2 DEF Sound, Heap, Labels

(* A result is a sequence of numbers. *)
LEMMA Results ==
  /\ <<>> \in Seq(Int)
  /\ \A k \in Int : <<k>> \in Seq(Int)
OBVIOUS

(* Where the programs that only walk are sound. *)
LEMMA SoundWalks ==
  ASSUME ResultsInv, prog \in {"getlength", "findmid", "findnode", "partition"}
  PROVE  Sound
<1>1. Inputs /\ prog \notin TwoLists \cup ExtraNode
  BY DEF ResultsInv, TwoLists, ExtraNode
<1>2. /\ Size \in Nat /\ First \in 0..Size /\ (\A k \in Nat : Node(k) \in 0..Size)
      /\ Straight \in [1..Size -> 0..Size]
  BY <1>1, OneHeap
<1>3. list1 \in Seq(Int) /\ (list1 = <<>> <=> Size = 0)
  BY <1>1, InputFacts
<1>4. CASE prog = "getlength"
  <2>1. OneList /\ q = First /\ i = 0 /\ acc \in 0..Size /\ p = Node(acc + 1) /\ pc \in {"run", "done"} /\ out \in {<<>>, <<Size>>}
    BY <1>4 DEF ResultsInv, LengthResult
  <2>2. acc \in Nat /\ acc + 1 \in Nat /\ out \in Seq(Int)
    <3>1. acc \in Nat /\ acc + 1 \in Nat /\ Size \in Int
      BY <1>2, <2>1
    <3>2. <<Size>> \in Seq(Int)
      BY <3>1, Results
    <3> QED BY <2>1, <3>1, <3>2, Results
  <2>3. p \in 0..Size
    BY <1>2, <2>1, <2>2
  <2> QED BY <1>1, <1>2, <2>1, <2>2, <2>3, SoundOne DEF OneList, Labels
<1>5. CASE prog = "findmid"
  <2>1. OneList /\ i = 0 /\ acc = 0 /\ Halfway /\ pc \in {"run", "crashed", "done"}
        /\ (out = <<>> \/ (list1 # <<>> /\ out = <<list1[Size \div 2 + 1]>>))
    BY <1>5 DEF ResultsInv, MidResult
  <2>2. p \in 0..Size /\ q \in 0..Size
    <3>1. PICK c \in 0..Size : p = Node(c + 1) /\ q = Node(2 * c + 1)
      BY <2>1 DEF Halfway
    <3>2. c + 1 \in Nat /\ 2 * c + 1 \in Nat
      BY <1>2
    <3> QED BY <1>2, <3>1, <3>2
  <2>3. out \in Seq(Int)
    <3>1. list1 # <<>> => Size \div 2 + 1 \in 1..Len(list1)
      <4>1. \A m \in Nat : m # 0 => m \div 2 + 1 \in 1..m
        OBVIOUS
      <4>2. Size = Len(list1)
        BY DEF Size
      <4> QED BY <1>2, <1>3, <4>1, <4>2
    <3>2. list1 # <<>> => list1[Size \div 2 + 1] \in Int
      BY <1>3, <3>1
    <3> QED BY <2>1, <3>2, Results
  <2> QED BY <1>1, <1>2, <2>1, <2>2, <2>3, SoundOne DEF OneList, Labels
<1>6. CASE prog = "findnode"
  <2>1. OneList /\ p \in 0..Size /\ q \in 0..Size /\ i \in Nat /\ acc = 0 /\ pc \in {"run", "both", "crashed", "done"}
        /\ (out = <<>> \/ (arg \in 1..Size /\ out = <<list1[Size + 1 - arg]>>))
    BY <1>6 DEF ResultsInv, NodeResult
  <2>2. out \in Seq(Int)
    <3>1. arg \in 1..Size => Size + 1 - arg \in 1..Len(list1)
      BY <1>2 DEF Size
    <3>2. arg \in 1..Size => list1[Size + 1 - arg] \in Int
      BY <1>3, <3>1
    <3> QED BY <2>1, <3>2, Results
  <2> QED BY <1>1, <1>2, <2>1, <2>2, SoundOne DEF OneList, Labels
<1>7. CASE prog = "partition"
  <2>1. OneList /\ q = First /\ acc = 0
    BY <1>7 DEF ResultsInv, PartitionResult
  <2>2. PICK c \in 0..Size : p = Node(c + 1) /\ i = Len(Picked(list1, Less)[c])
                /\ out = Picked(list1, Less)[c] \o Picked(list1, NotLess)[c] /\ pc \in {"run", "done"}
    BY <1>7 DEF ResultsInv, PartitionResult
  <2>3. c + 1 \in Nat /\ c \in 0..Len(list1)
    BY <1>2 DEF Size
  <2>4. Picked(list1, Less)[c] \in Seq(Int) /\ Picked(list1, NotLess)[c] \in Seq(Int)
    BY <1>3, <2>3, PickedIs
  <2>5. i \in Nat /\ out \in Seq(Int)
    BY <2>2, <2>4
  <2>6. p \in 0..Size
    BY <1>2, <2>2, <2>3
  <2> QED BY <1>1, <1>2, <2>1, <2>2, <2>5, <2>6, SoundOne DEF OneList, Labels
<1> QED BY <1>4, <1>5, <1>6, <1>7

(* Where the programs that change the list are sound. *)
LEMMA SoundChanges ==
  ASSUME ResultsInv, prog \in {"deletenode", "reverse", "movelast", "swap_two", "remove_node", "seg"}
  PROVE  Sound /\ i \in Nat /\ acc \in Nat /\ out \in Seq(Int)
<1>1. Inputs /\ prog \notin TwoLists \cup ExtraNode
  BY DEF ResultsInv, TwoLists, ExtraNode
<1>2. /\ Size \in Nat /\ First \in 0..Size /\ (\A k \in Nat : Node(k) \in 0..Size)
      /\ Straight \in [1..Size -> 0..Size]
  BY <1>1, OneHeap
<1>3. list1 \in Seq(Int) /\ (list1 = <<>> <=> Size = 0) /\ list1 \in [1..Size -> Values] /\ First = Node(1)
  BY <1>1, InputFacts DEF Size
<1>4. i = 0 /\ acc = 0 /\ out = <<>>
  BY DEF ResultsInv, DeleteResult, ReverseResult, MoveLastResult, SwapResult, RemoveResult, SegResult
<1>5. i \in Nat /\ acc \in Nat /\ out \in Seq(Int)
  BY <1>4, Results
<1> SUFFICES Sound
  BY <1>5
<1>6. CASE prog = "deletenode"
  <2>1. data = list1 /\ head = First /\ freed = {} /\ q = First
    BY <1>6 DEF ResultsInv, DeleteResult
  <2>2. PICK c \in 0..Size : p = Node(2 * c + 1) /\ pc \in {"run", "done"}
         /\ next = [k \in 1..Size |-> Node(IF Odd(k) /\ k <= 2 * c THEN k + 2 ELSE k + 1)]
    BY <1>6 DEF ResultsInv, DeleteResult
  <2>3. 2 * c + 1 \in Nat /\ \A k \in 1..Size : k + 1 \in Nat /\ k + 2 \in Nat
    BY <1>2
  <2>4. p \in 0..Size /\ next \in [1..Size -> 0..Size]
    BY <1>2, <2>2, <2>3
  <2> QED BY <1>1, <1>2, <1>5, <2>1, <2>2, <2>4, SoundOne DEF Labels
<1>7. CASE prog = "reverse"
  <2>1. data = list1 /\ freed = {} /\ pc \in Labels
    BY <1>7 DEF ResultsInv, ReverseResult, Labels
  <2>2. head \in 0..Size /\ p \in 0..Size /\ q \in 0..Size /\ next \in [1..Size -> 0..Size]
    <3>1. CASE OneList /\ p = First /\ q = First
      BY <1>2, <3>1 DEF OneList
    <3>2. CASE /\ head = 1
               /\ \E c \in 1..Size :
                    /\ p = c /\ q = Node(c + 1)
                    /\ next = [k \in 1..Size |-> IF 1 < k /\ k <= c THEN k - 1 ELSE Node(k + 1)]
      <4>1. PICK c \in 1..Size : p = c /\ q = Node(c + 1)
               /\ next = [k \in 1..Size |-> IF 1 < k /\ k <= c THEN k - 1 ELSE Node(k + 1)]
        BY <3>2
      <4>2. c + 1 \in Nat /\ 1 \in 0..Size /\ \A k \in 1..Size : k + 1 \in Nat /\ k - 1 \in 0..Size
        BY <1>2
      <4>3. ASSUME NEW k \in 1..Size PROVE next[k] \in 0..Size
        <5>1. next[k] = IF 1 < k /\ k <= c THEN k - 1 ELSE Node(k + 1)
          BY <4>1
        <5>2. Node(k + 1) \in 0..Size /\ k - 1 \in 0..Size
          BY <1>2, <4>2
        <5> QED BY <5>1, <5>2
      <4>4. next \in [1..Size -> 0..Size]
        BY <4>1, <4>3
      <4>5. q \in 0..Size
        BY <1>2, <4>1, <4>2
      <4>6. p \in 0..Size
        BY <1>2, <4>1
      <4> QED BY <3>2, <4>2, <4>4, <4>5, <4>6
    <3>3. CASE list1 # <<>> /\ head = Size /\ p = Size /\ q = 0 /\ next = [k \in 1..Size |-> k - 1]
      BY <1>2, <1>3, <3>3
    <3> QED BY <1>7, <3>1, <3>2, <3>3 DEF ResultsInv, ReverseResult
  <2> QED BY <1>1, <1>2, <1>5, <2>1, <2>2, SoundOne
<1>8. CASE prog = "movelast"
  <2>1. data = list1 /\ freed = {} /\ q = First /\ pc \in Labels
    BY <1>8 DEF ResultsInv, MoveLastResult, Labels
  <2>2. head \in 0..Size /\ p \in 0..Size /\ next \in [1..Size -> 0..Size]
    <3>1. CASE OneList /\ (p = First \/ p \in 1..(Size - 1))
      <4>1. First \in 0..Size /\ \A k \in 1..(Size - 1) : k \in 0..Size
        BY <1>2
      <4>2. p \in 0..Size
        BY <3>1, <4>1
      <4> QED BY <1>2, <3>1, <4>2 DEF OneList
    <3>3. CASE p \in 1..Size /\ head = Size
          /\ next = [k \in 1..Size |-> IF k = Size THEN (IF Size = 1 THEN 0 ELSE 1)
                                       ELSE IF k = Size - 1 THEN 0 ELSE k + 1]
      BY <1>2, <1>3, <3>3
    <3> QED BY <1>8, <3>1, <3>3 DEF ResultsInv, MoveLastResult
  <2> QED BY <1>1, <1>2, <1>5, <2>1, <2>2, SoundOne
<1>9. CASE prog = "swap_two"
  <2>1. next = Straight /\ head = First /\ freed = {} /\ pc \in Labels
    BY <1>9 DEF ResultsInv, SwapResult, Labels
  <2>2. p \in 0..Size /\ q \in 0..Size /\ (data = list1 \/ \E c \in 0..Size : 2 * c <= Size /\ data = Swapped(c) /\ (pc = "run" => 2 * c < Size /\ q = Node(2 * c + 2)) /\ (pc = "done" => 2 * c = Size))
    BY <1>2, <1>9 DEF ResultsInv, SwapResult
  <2>3. CASE data = list1
    BY <1>1, <1>2, <1>5, <2>1, <2>2, <2>3, SoundOne
  <2>4. CASE data # list1
    <3>1. \E c \in 0..Size : data = Swapped(c)
      BY <2>2, <2>4
    <3>2. Len(data) = Size /\ DOMAIN data = 1..Size
      BY <1>2, <3>1 DEF Swapped
    <3>3. Len(list2) = 0
      BY <1>1, OneHeap
    <3>4. Heap /\ head \in 0..Size
      BY <1>1, <2>1, <3>2, OneHeap DEF Heap
    <3> QED BY <1>1, <1>2, <1>5, <2>1, <2>2, <3>2, <3>3, <3>4 DEF Sound, Labels
  <2> QED BY <2>3, <2>4
<1>10. CASE prog = "remove_node"
  <2>1. data = list1 /\ next \in [1..Size -> 0..Size] /\ pc \in Labels
    BY <1>10 DEF ResultsInv, RemoveResult, Labels
  <2>2. freed \subseteq 1..Size /\ head \in 0..Size /\ p \in 0..Size /\ q \in 0..Size
    <3>1. CASE OneList /\ p = First /\ q = First
      BY <1>2, <3>1 DEF OneList
    <3>2. CASE Size = 1 /\ freed = {1} /\ head = 0 /\ p = 0 /\ q = 0
      BY <3>2
    <3>3. CASE \E c \in 1..Size : \E t \in Seq(1..Size) : KeptSoFar(c, t) /\ q = Node(c + 1)
      <4>1. PICK c \in 1..Size, t \in Seq(1..Size) : KeptSoFar(c, t) /\ q = Node(c + 1)
        BY <3>3
      <4>2. c + 1 \in Nat /\ c \in Nat /\ c <= Size
        BY <1>2
      <4>3. t # <<>> /\ head = t[1] /\ p = t[Len(t)] /\ freed = (1..c) \ Kept
        BY <4>1 DEF KeptSoFar
      <4>4. t[1] \in 1..Size /\ t[Len(t)] \in 1..Size
        BY <4>3, Ends
      <4>5. freed \subseteq 1..Size
        BY <1>2, <4>2, <4>3
      <4>6. q \in 0..Size
        BY <1>2, <4>1, <4>2
      <4>7. \A k \in 1..Size : k \in 0..Size
        BY <1>2
      <4> QED BY <4>3, <4>4, <4>5, <4>6, <4>7
    <3> QED BY <1>10, <3>1, <3>2, <3>3 DEF ResultsInv, RemoveResult
  <2> QED BY <1>1, <1>2, <1>5, <2>1, <2>2, SoundOne
<1>11. CASE prog = "seg"
  <2>1. next = Straight /\ head = First /\ freed = {} /\ data \in [1..Size -> Values]
    BY <1>11 DEF ResultsInv, SegResult
  <2>2. PICK a, b \in 1..(Size + 1) : p = Node(a) /\ q = Node(b) /\ pc \in {"run", "done"}
    BY <1>11 DEF ResultsInv, SegResult
  <2>3. p \in 0..Size /\ q \in 0..Size
    <3>1. a \in Nat /\ b \in Nat
      BY <1>2
    <3> QED BY <1>2, <2>2, <3>1
  <2> QED BY <1>1, <1>2, <1>5, <2>1, <2>2, <2>3, SoundOne DEF Labels
<1> QED BY <1>6, <1>7, <1>8, <1>9, <1>10, <1>11

(* Where ispalindrome is sound. *)
LEMMA SoundPalindrome ==
  ASSUME ResultsInv, prog = "ispalindrome"
  PROVE  Sound
<1>1. Inputs /\ prog \notin TwoLists \cup ExtraNode
  BY DEF ResultsInv, TwoLists, ExtraNode
<1>2. Size \in Nat /\ First \in 0..Size /\ Straight \in [1..Size -> 0..Size]
  BY <1>1, OneHeap
<1>3. list1 \in Seq(Int) /\ Size = Len(list1)
  BY <1>1, InputFacts DEF Size
<1>4. OneList /\ i = 0 /\ acc = 0 /\ p \in 0..Size /\ q \in 0..Size /\ pc \in {"run", "copy", "compare", "done"}
  BY DEF ResultsInv, PalindromeResult
<1>5. out \in Seq(Int)
  <2>0. Half \in Nat /\ Half <= Size
    BY <1>2 DEF Half
  <2>1. ASSUME NEW c \in Half..Size, out = [k \in 1..(c - Half) |-> list1[c + 1 - k]] PROVE out \in Seq(Int)
    <3>1. \A k \in 1..(c - Half) : c + 1 - k \in 1..Size
      BY <1>2, <2>0
    <3>2. \A k \in 1..(c - Half) : list1[c + 1 - k] \in Int
      BY <1>3, <3>1
    <3>3. c - Half \in Nat /\ out \in [1..(c - Half) -> Int]
      BY <1>2, <2>0, <2>1, <3>2
    <3> QED BY <3>3, ListOf
  <2>2. ASSUME NEW c \in 0..(Size - Half), out = [k \in 1..(Size - Half - c) |-> list1[Size + 1 - c - k]] PROVE out \in Seq(Int)
    <3>1. \A k \in 1..(Size - Half - c) : Size + 1 - c - k \in 1..Size
      BY <1>2, <2>0
    <3>2. \A k \in 1..(Size - Half - c) : list1[Size + 1 - c - k] \in Int
      BY <1>3, <3>1
    <3>3. Size - Half - c \in Nat /\ out \in [1..(Size - Half - c) -> Int]
      BY <1>2, <2>0, <2>2, <3>2
    <3> QED BY <3>3, ListOf
  <2>3. \/ out = <<>> \/ out = <<1>> \/ out = <<0>>
        \/ \E c \in Half..Size : out = [k \in 1..(c - Half) |-> list1[c + 1 - k]]
        \/ \E c \in 0..(Size - Half) : out = [k \in 1..(Size - Half - c) |-> list1[Size + 1 - c - k]]
    BY DEF ResultsInv, PalindromeResult
  <2>4. <<1>> \in Seq(Int) /\ <<0>> \in Seq(Int) /\ <<>> \in Seq(Int)
    OBVIOUS
  <2> QED BY <2>1, <2>2, <2>3, <2>4
<1> QED BY <1>1, <1>2, <1>4, <1>5, SoundOne DEF OneList, Labels

(* Where the programs on two lists are sound. *)
LEMMA SoundBoth ==
  ASSUME ResultsInv, prog \in TwoLists
  PROVE  Sound
<1>1. Inputs /\ BothLists
  BY DEF ResultsInv, IntersectionResult, CompareResult, MergeResult, AddResult, TwoLists
<1>2. /\ Size \in Nat /\ Len(list2) \in Nat
      /\ Len(data) = Size + Len(list2) /\ DOMAIN data = 1..Len(data) /\ Heap /\ prog \notin ExtraNode
      /\ freed = {} /\ head \in 0..Size /\ \A k \in Nat : Node(k) \in 0..Len(data) /\ Node2(k) \in 0..Len(data)
  BY <1>1, BothHeap
<1>3. list1 \in Seq(Int) /\ list2 \in Seq(Int) /\ Size = Len(list1)
  BY <1>1, InputFacts DEF Size
<1>4. /\ p \in 0..Len(data) /\ q \in 0..Len(data) /\ i \in Nat /\ acc \in Nat /\ out \in Seq(Int) /\ pc \in Labels
  <2>0. Shorter \in Nat /\ Shorter <= Size /\ Shorter <= Len(list2)
    <3>1. Size \in Nat /\ Len(list2) \in Nat
      BY <1>2
    <3> QED BY <3>1 DEF Shorter
  <2>1. CASE prog = "getintersection"
    <3>1. PICK c \in 0..Shorter : p = Node(c + 1) /\ q = Node2(c + 1) /\ pc \in {"run", "done"}
             /\ (out = <<>> \/ out = <<-1>> \/ (c < Shorter /\ out = <<list1[c + 1]>>))
      BY <2>1 DEF ResultsInv, IntersectionResult
    <3>2. c + 1 \in Nat /\ (c < Shorter => c + 1 \in 1..Len(list1))
      BY <1>2, <1>3, <2>0
    <3>3. c < Shorter => list1[c + 1] \in Int
      BY <1>3, <3>2
    <3>4. out \in Seq(Int)
      <4>1. <<-1>> \in Seq(Int)
        OBVIOUS
      <4>2. c < Shorter => <<list1[c + 1]>> \in Seq(Int)
        BY <3>3, Results
      <4> QED BY <3>1, <4>1, <4>2, Results
    <3>5. i = 0 /\ acc = 0
      BY <2>1 DEF ResultsInv, IntersectionResult
    <3> QED BY <1>2, <3>1, <3>2, <3>4, <3>5 DEF Labels
  <2>2. CASE prog = "compare"
    <3>1. PICK c \in 0..Shorter : p = Node(c + 1) /\ q = Node2(c + 1) /\ pc \in {"run", "done"}
             /\ (out = <<>> \/ out = <<1>> \/ out = <<0>>)
      BY <2>2 DEF ResultsInv, CompareResult
    <3>2. c + 1 \in Nat
      BY <2>0
    <3>4. out \in Seq(Int)
      <4>1. <<1>> \in Seq(Int) /\ <<0>> \in Seq(Int)
        OBVIOUS
      <4> QED BY <3>1, <4>1, Results
    <3>5. i = 0 /\ acc = 0
      BY <2>2 DEF ResultsInv, CompareResult
    <3> QED BY <1>2, <3>1, <3>2, <3>4, <3>5 DEF Labels
  <2>3. CASE prog = "mergelist"
    <3>1. i \in 0..Shorter /\ p = Node(i + 1) /\ q = Node2(i + 1) /\ out = Pairs(i) /\ acc = 0 /\ pc \in {"run", "crashed", "done"}
      BY <2>3 DEF ResultsInv, MergeResult
    <3>2. i + 1 \in Nat /\ i \in Nat /\ i <= Size /\ i <= Len(list2) /\ 2 * i \in Nat
      <4>1. \A c \in 0..Shorter : c + 1 \in Nat /\ c \in Nat /\ c <= Shorter /\ 2 * c \in Nat
        BY <2>0
      <4>2. i \in Nat /\ i <= Shorter /\ i + 1 \in Nat /\ 2 * i \in Nat
        BY <3>1, <4>1
      <4>3. Size \in Nat /\ Len(list2) \in Nat
        BY <1>2
      <4> QED BY <2>0, <4>2, <4>3
    <3>3. Pairs(i) \in [1..(2 * i) -> Int]
      <4>1. \A k \in 1..i : list1[k] \in Int /\ list2[k] \in Int
        BY <1>3, <3>2
      <4>2. \A k \in 1..i : Small(k) \in Int /\ Large(k) \in Int
        BY <4>1 DEF Small, Large
      <4>3. \A k \in 1..(2 * i) : IF Odd(k) THEN (k + 1) \div 2 \in 1..i ELSE k \div 2 \in 1..i
        BY <3>2 DEF Odd
      <4> QED BY <4>2, <4>3 DEF Pairs
    <3>4. out \in Seq(Int)
      BY <3>1, <3>2, <3>3, ListOf
    <3> QED BY <1>2, <3>1, <3>2, <3>4 DEF Labels
  <2>4. CASE prog = "addlist"
    <3>1. q = Node2(1) /\ q \in 0..Len(data)
      BY <1>2, <2>4 DEF ResultsInv, AddResult
    <3>2. \A c \in 0..Size : Node(c + 1) \in 0..Len(data)
      <4>1. \A c \in 0..Size : c + 1 \in Nat
        BY <1>2
      <4> QED BY <1>2, <4>1
    <3>3. \A c \in 0..Len(list2) : Node2(c + 1) \in 0..Len(data)
      <4>1. \A c \in 0..Len(list2) : c + 1 \in Nat
        BY <1>2
      <4> QED BY <1>2, <4>1
    <3>4. p \in 0..Len(data) /\ i \in Nat /\ acc \in Nat /\ pc \in {"run", "second", "digits", "done", "crashed"}
          /\ (out = <<>> \/ out \in Seq(Nat) \/ out \in Seq(0..9))
      <4>1. AddResult
        BY DEF ResultsInv
      <4>2. CASE pc = "run" /\ out = <<>> /\ \E c \in 0..Size : p = Node(c + 1) /\ ReadSoFar(list1, c)
        BY <3>2, <4>2 DEF ReadSoFar
      <4>3. CASE pc = "second" /\ out \in Seq(Nat) /\ \E c \in 0..Len(list2) : p = Node2(c + 1) /\ ReadSoFar(list2, c)
        BY <3>3, <4>3 DEF ReadSoFar
      <4>4. CASE pc \in {"digits", "done", "crashed"} /\ p = 0 /\ acc \in Nat /\ i \in Nat /\ out \in Seq(0..9)
        <5>1. 0 \in 0..Len(data)
          BY <1>2
        <5> QED BY <4>4, <5>1
      <4> QED BY <2>4, <4>1, <4>2, <4>3, <4>4 DEF AddResult
    <3>5. out \in Seq(Int)
      <4>1. \A s \in Seq(Nat) : s \in Seq(Int)
        OBVIOUS
      <4>2. \A s \in Seq(0..9) : s \in Seq(Int)
        BY DigitLists
      <4> QED BY <3>4, <4>1, <4>2, Results
    <3> QED BY <3>1, <3>4, <3>5 DEF Labels
  <2> QED BY <2>1, <2>2, <2>3, <2>4 DEF TwoLists
<1>5. Len(data) = Size + Len(list2) + 0
  BY <1>2
<1>6. head \in 0..Len(data)
  BY <1>2
<1> QED BY <1>2, <1>4, <1>5, <1>6 DEF Sound, Labels

(* The bits read so far are a number. *)
LEMMA BinaryNat ==
  ASSUME Inputs, BinaryResult, prog = "binary"
  PROVE  acc \in Nat
<1>1. \A x \in Int : x % UIntSize \in Nat
  BY UIntAssumption
<1>2. ASSUME NEW c \in 0..Size PROVE Bits(SubSeq(list1, 1, c)) % UIntSize \in Nat
  <2>1. SubSeq(list1, 1, c) \in Seq(Int)
    <3>1. list1 \in Seq(Int) /\ Size = Len(list1)
      BY InputFacts DEF Size
    <3> QED BY <3>1
  <2>2. Bits(SubSeq(list1, 1, c)) \in Int
    <3>1. 2 \in Int
      OBVIOUS
    <3> QED BY <2>1, <3>1, ValueAppend, BitsIs
  <2> QED BY <1>1, <2>2
<1>3. Or((2 * (Bits(list1) % UIntSize)) % UIntSize, arg) \in Nat
  <2>1. list1 \in Seq(Int) /\ arg \in Nat
    BY InputFacts
  <2>2. Bits(list1) \in Int
    <3>1. 2 \in Int
      OBVIOUS
    <3> QED BY <2>1, <3>1, ValueAppend, BitsIs
  <2>3. 2 * (Bits(list1) % UIntSize) \in Int
    BY <1>1, <2>2
  <2> QED BY <1>1, <2>1, <2>3, OrIs
<1> QED BY <1>2, <1>3 DEF BinaryResult

(* Where the programs with a node more are sound. *)
LEMMA SoundLonger ==
  ASSUME ResultsInv, prog \in ExtraNode
  PROVE  Sound
<1>1. Inputs
  BY DEF ResultsInv
<1>2. Size \in Nat /\ arg \in Nat /\ list1 \in Seq(Int) /\ Size = Len(list1)
  BY <1>1, InputFacts DEF Size
<1>3. /\ next \in [1..(Size + 1) -> 0..(Size + 1)] /\ Len(data) = Size + 1 /\ DOMAIN data = 1..(Size + 1)
      /\ head = 1 /\ freed = {}
  <2>1. CASE prog \in {"deepcopy", "binary"}
    <3>1. LongerList
      BY <2>1 DEF ResultsInv, CopyResult, BinaryResult
    <3> QED BY <1>1, <3>1, LongerListHeap
  <2>2. CASE prog = "visited"
    <3>1. head = 1 /\ freed = {} /\ data \in [1..(Size + 1) -> Nat]
          /\ next = [k \in 1..(Size + 1) |->
                 IF k <= Size THEN k + 1 ELSE IF pc = "done" THEN 0 ELSE Size + 1]
      BY <2>2 DEF ResultsInv, VisitResult
    <3>2. Len(data) = Size + 1 /\ DOMAIN data = 1..(Size + 1)
      <4>1. Size + 1 \in Nat
        BY <1>2
      <4> QED BY <3>1, <4>1, ListOf
    <3> QED BY <1>2, <3>1, <3>2
  <2> QED BY <2>1, <2>2 DEF ExtraNode
<1>4. /\ Len(list2) = 0 /\ Heap /\ DOMAIN data = 1..Len(data)
      /\ Len(data) = Size + Len(list2) + (IF prog \in ExtraNode THEN 1 ELSE 0)
  BY <1>1, <1>3, LongerHeap
<1>5. /\ p \in 0..(Size + 1) /\ q \in 0..(Size + 1) /\ i \in Nat /\ acc \in Nat /\ out \in Seq(Int) /\ pc \in Labels
  <2>1. CASE prog = "deepcopy"
    <3>1. /\ q = 1 /\ i = 0 /\ acc = 0 /\ p \in 1..(Size + 1) /\ pc \in {"run", "done", "crashed"}
          /\ out = [k \in 1..(p - 1) |-> list1[k]] \/ out = Append(list1, arg)
      BY <2>1 DEF ResultsInv, CopyResult, EndOfPrint
    <3>2. p - 1 \in Nat /\ p - 1 <= Size /\ 1 \in 0..(Size + 1) /\ p \in 0..(Size + 1)
      BY <1>2, <3>1
    <3>3. [k \in 1..(p - 1) |-> list1[k]] \in [1..(p - 1) -> Int]
      BY <1>2, <3>2
    <3>4. [k \in 1..(p - 1) |-> list1[k]] \in Seq(Int)
      BY <3>2, <3>3, ListOf
    <3>5. Append(list1, arg) \in Seq(Int)
      BY <1>2
    <3> QED BY <3>1, <3>2, <3>4, <3>5 DEF Labels
  <2>2. CASE prog = "visited"
    <3>1. q = 1 /\ i = 0 /\ acc = 0 /\ p \in 1..(Size + 1) /\ out = <<>> /\ pc \in {"run", "done"}
      BY <2>2 DEF ResultsInv, VisitResult
    <3> QED BY <1>2, <3>1, Results DEF Labels
  <2>3. CASE prog = "binary"
    <3>1. acc \in Nat /\ q = 1 /\ i = 0
      BY <2>3, BinaryNat DEF ResultsInv, BinaryResult
    <3>2. pc \in {"run", "done"} /\ (out = <<>> \/ out = <<acc \div 2>>)
      BY <2>3 DEF ResultsInv, BinaryResult
    <3>3. PICK c \in 0..(Size + 1) : p = IF c <= Size THEN c + 1 ELSE 0
      BY <2>3 DEF ResultsInv, BinaryResult
    <3>4. p \in 0..(Size + 1) /\ acc \div 2 \in Int /\ 1 \in 0..(Size + 1)
      BY <1>2, <3>1, <3>3
    <3> QED BY <3>1, <3>2, <3>4, Results DEF Labels
  <2> QED BY <2>1, <2>2, <2>3 DEF ExtraNode
<1> QED BY <1>2, <1>3, <1>4, <1>5 DEF Sound, Labels

-----------------------------------------------------------------------------
(* The nodes of a stretch that is linked one by one are in reach of its first. *)
LEMMA StraightPath ==
  ASSUME Heap, NEW x \in 1..Len(data), NEW m \in x..Len(data), \A k \in x..(m - 1) : next[k] = k + 1
  PROVE  x..m \subseteq Reach(x)
<1> DEFINE w == m - x
           b == w + 1
           t == [j \in 1..b |-> (x - 1) + j]
<1>1. /\ Len(data) \in Nat /\ x \in Nat /\ m \in Nat /\ w \in Nat /\ b \in Nat /\ b >= 1 /\ b <= Len(data)
      /\ x \in 0..Len(data) /\ b <= Len(data) + 1 /\ (x - 1) + 1 = x
      /\ \A j \in 1..b : (x - 1) + j \in 1..Len(data)
      /\ \A j \in 1..(b - 1) : (x - 1) + j \in x..(m - 1) /\ j \in 1..b /\ j + 1 \in 1..b
                               /\ (x - 1) + (j + 1) = ((x - 1) + j) + 1
      /\ \A k \in x..m : k - (x - 1) \in 1..b /\ (x - 1) + (k - (x - 1)) = k
  BY DEF Heap
<1>2. t \in [1..b -> 1..Len(data)]
  BY <1>1
<1>3. t \in Seq(1..Len(data)) /\ Len(t) = b /\ t # <<>> /\ t[1] = x
  <2>1. t \in Seq(1..Len(data)) /\ Len(t) = b
    <3> HIDE DEF t, b
    <3> QED BY <1>1, <1>2, ListOf
  <2>2. 1 \in 1..b
    BY <1>1
  <2> HIDE DEF b
  <2>3. t[1] = x
    BY <1>1, <2>2
  <2>4. t # <<>>
    <3> HIDE DEF t
    <3> QED BY <1>1, <2>1
  <2> QED BY <2>1, <2>3, <2>4
<1>4. ASSUME NEW j \in 1..(b - 1) PROVE next[t[j]] = t[j + 1]
  <2> HIDE DEF b
  <2>1. t[j] = (x - 1) + j /\ t[j + 1] = (x - 1) + (j + 1)
    BY <1>1
  <2>2. next[t[j]] = t[j] + 1
    BY <1>1, <2>1
  <2> QED BY <1>1, <2>1, <2>2
<1>5. Path(x, t)
  <2> HIDE DEF t, b
  <2> QED BY <1>3, <1>4 DEF Path
<1>6. \A j \in 1..b : t[j] \in Reach(x)
  <2> HIDE DEF t, b
  <2> QED BY <1>1, <1>3, <1>5, PathReach
<1>7. ASSUME NEW k \in x..m PROVE k \in Reach(x)
  <2> DEFINE j == k - (x - 1)
  <2> HIDE DEF b
  <2>1. j \in 1..b /\ (x - 1) + j = k
    BY <1>1
  <2> HIDE DEF j
  <2>2. t[j] = k
    BY <2>1
  <2> HIDE DEF t
  <2> QED BY <1>6, <2>1, <2>2
<1> QED BY <1>7

(* Everything in reach of the two lists is not lost. *)
LEMMA Lossless ==
  ASSUME freed = {}, DOMAIN data \subseteq Reach(head) \cup Reach(Head2)
  PROVE  NothingLost
BY DEF NothingLost

(* While a function runs its pointers hold nodes, too. *)
LEMMA LosslessRun ==
  ASSUME freed = {}, pc # "done", DOMAIN data \subseteq Reach(head) \cup Reach(p) \cup Reach(q)
  PROVE  NothingLost
BY DEF NothingLost

(* A program on one list has no second one. *)
LEMMA NoSecond ==
  ASSUME Inputs, Heap, prog \notin TwoLists
  PROVE  Head2 = 0 /\ Reach(Head2) = {}
<1>1. Head2 = 0
  BY DEF Head2, Inputs
<1> QED BY <1>1, NodesOfNull

(* One straight list. *)
LEMMA OneLossless ==
  ASSUME Inputs, Sound, prog \notin TwoLists \cup ExtraNode, next = Straight, head = First, freed = {}
  PROVE  NothingLost
<1>1. Size \in Nat /\ Len(list2) = 0 /\ Heap /\ Len(data) = Size + Len(list2) + 0 /\ DOMAIN data = 1..Len(data)
  BY OneHeap DEF Sound
<1>2. Len(data) = Size /\ DOMAIN data = 1..Size
  <2> HIDE DEF Size
  <2> QED BY <1>1
<1>3. \A k \in 1..(Size - 1) : next[k] = k + 1
  BY <1>1 DEF Straight
<1>4. Size # 0 => head = 1 /\ 1 \in 1..Len(data) /\ Size \in 1..Len(data)
  BY <1>1, <1>2, InputFacts DEF Node
<1>5. Size # 0 => 1..Size \subseteq Reach(head)
  BY <1>1, <1>2, <1>3, <1>4, StraightPath
<1>6. Size = 0 => 1..Size = {}
  OBVIOUS
<1> QED BY <1>2, <1>5, <1>6, Lossless

(* Two straight lists. *)
LEMMA BothLossless ==
  ASSUME Inputs, prog \in TwoLists, BothLists
  PROVE  NothingLost
<1> DEFINE w == Len(list2)
           h == Size + 1
           l == Size + w
<1>1. /\ Size \in Nat /\ w \in Nat /\ Len(data) = Size + w /\ DOMAIN data = 1..Len(data) /\ Heap /\ freed = {}
      /\ Len(list1) = Size
  BY BothHeap DEF Size
<1>2. First = Node(1) /\ (list2 = <<>> <=> w = 0)
  BY InputFacts
<1>3. head = First /\ next = Pair
  BY DEF BothLists
<1> HIDE DEF Size, w
<1>4. ASSUME Size # 0 PROVE 1..Size \subseteq Reach(head)
  <2>1. head = 1 /\ 1 \in 1..Len(data) /\ Size \in 1..Len(data)
    BY <1>1, <1>2, <1>3, <1>4 DEF Node
  <2>2. \A k \in 1..(Size - 1) : next[k] = k + 1
    BY <1>1, <1>3 DEF Pair, w
  <2> QED BY <1>1, <2>1, <2>2, StraightPath
<1>5. ASSUME w # 0 PROVE h..l \subseteq Reach(Head2)
  <2>1. Head2 = h
    BY <1>1, <1>2, <1>5 DEF Head2
  <2>2. h \in 1..Len(data) /\ l \in h..Len(data)
    BY <1>1, <1>5
  <2>3. \A k \in h..(l - 1) : next[k] = k + 1
    BY <1>1, <1>3 DEF Pair, w
  <2> HIDE DEF h, l
  <2> QED BY <1>1, <2>1, <2>2, <2>3, StraightPath
<1>6. ASSUME NEW k \in DOMAIN data PROVE k \in Reach(head) \cup Reach(Head2)
  <2>1. (k \in 1..Size /\ Size # 0) \/ (k \in h..l /\ w # 0)
    BY <1>1
  <2> HIDE DEF h, l
  <2> QED BY <1>4, <1>5, <2>1
<1> QED BY <1>1, <1>6, Lossless

(* A straight list with a node more; what the last one is linked to does not matter. *)
LEMMA LongerLossless ==
  ASSUME Inputs, Sound, prog \in ExtraNode, head = 1, freed = {}, \A k \in 1..Size : next[k] = k + 1
  PROVE  NothingLost
<1>1. Size \in Nat
  BY InputFacts
<1>2. list2 = <<>>
  BY DEF Inputs, TwoLists, ExtraNode
<1>3. Len(list2) = 0
  BY <1>2
<1>4. Len(data) = Size + 1 /\ DOMAIN data = 1..(Size + 1) /\ Heap
  <2>1. Len(data) = Size + Len(list2) + 1 /\ DOMAIN data = 1..Len(data) /\ Heap
    BY DEF Sound
  <2> HIDE DEF Size
  <2> QED BY <1>1, <1>3, <2>1
<1> DEFINE m == Size + 1
<1>5. 1 \in 1..Len(data) /\ m \in 1..Len(data) /\ m - 1 = Size
  BY <1>1, <1>4
<1>6. \A k \in 1..(m - 1) : next[k] = k + 1
  BY <1>5
<1>7. 1..m \subseteq Reach(head)
  <2> HIDE DEF m
  <2> QED BY <1>4, <1>5, <1>6, StraightPath
<1> QED BY <1>4, <1>7, Lossless

(* The programs that change no link, or only that of the last node. *)
LEMMA LinksStay ==
  ASSUME ResultsInv, Sound, prog \notin {"deletenode", "reverse", "movelast", "remove_node"}
  PROVE  NothingLost
<1>1. Inputs
  BY DEF ResultsInv
<1>2. CASE prog \in TwoLists
  <2>1. BothLists
    BY <1>2 DEF ResultsInv, IntersectionResult, CompareResult, MergeResult, AddResult, TwoLists
  <2> QED BY <1>1, <1>2, <2>1, BothLossless
<1>3. CASE prog \in ExtraNode
  <2>1. CASE prog \in {"deepcopy", "binary"}
    <3>1. LongerList
      BY <2>1 DEF ResultsInv, CopyResult, BinaryResult
    <3>2. head = 1 /\ freed = {} /\ \A k \in 1..Size : next[k] = k + 1
      BY <1>1, <3>1, LongerListHeap
    <3> QED BY <1>1, <1>3, <3>2, LongerLossless
  <2>2. CASE prog = "visited"
    <3>1. head = 1 /\ freed = {} /\ next = [k \in 1..(Size + 1) |->
                 IF k <= Size THEN k + 1 ELSE IF pc = "done" THEN 0 ELSE Size + 1]
      BY <2>2 DEF ResultsInv, VisitResult
    <3>2. Size \in Nat
      BY <1>1, InputFacts
    <3>3. \A k \in 1..Size : next[k] = k + 1
      BY <3>1, <3>2
    <3> QED BY <1>1, <1>3, <3>1, <3>3, LongerLossless
  <2> QED BY <1>3, <2>1, <2>2 DEF ExtraNode
<1>4. CASE prog \notin TwoLists \cup ExtraNode
  <2>1. prog \in {"getlength", "findmid", "findnode", "ispalindrome", "swap_two", "seg", "partition"}
    BY <1>1, <1>4 DEF Inputs, Programs, TwoLists, WithArg, ExtraNode
  <2>2. next = Straight /\ head = First /\ freed = {}
    BY <2>1 DEF ResultsInv, LengthResult, MidResult, NodeResult, PalindromeResult, SwapResult, SegResult,
       PartitionResult, OneList
  <2> QED BY <1>1, <1>4, <2>2, OneLossless
<1> QED BY <1>2, <1>3, <1>4

(* A list and its elements, from the path of its nodes. *)
LEMMA ListIs ==
  ASSUME Heap, NEW x \in 0..Len(data), NEW t, Path(x, t), Len(t) <= Len(data) + 1, next[t[Len(t)]] = 0
  PROVE  NodesFrom(x) = t /\ List(x) = [j \in 1..Len(t) |-> data[t[j]]]
<1>1. NodesFrom(x) = t
  BY PathEnds
<1>2. DOMAIN t = 1..Len(t)
  BY DEF Path
<1> QED BY <1>1, <1>2 DEF List

(* The list behind NULL is empty. *)
LEMMA ListOfNull == ASSUME Heap PROVE DOMAIN List(0) = 1..0 /\ List(0) = <<>>
<1>1. NodesFrom(0) = <<>> /\ DOMAIN <<>> = 1..0
  BY NodesOfNull
<1>2. List(0) = [k \in 1..0 |-> data[NodesFrom(0)[k]]]
  BY <1>1 DEF List
<1> QED BY <1>2

(* deletenode: the odd nodes behind the pointer are the path to it. *)
LEMMA DeleteMeans ==
  ASSUME ResultsInv, Sound, prog = "deletenode"
  PROVE  /\ NothingLost
         /\ pc = "done" => List(head) = [k \in 1..((Size + 1) \div 2) |-> list1[2 * k - 1]]
<1>1. Inputs /\ prog \notin TwoLists \cup ExtraNode /\ prog \notin TwoLists
  BY DEF ResultsInv, TwoLists, ExtraNode
<1>2. Size \in Nat /\ Len(list2) = 0 /\ Heap /\ Len(data) = Size + Len(list2) + 0 /\ DOMAIN data = 1..Len(data)
  BY <1>1, OneHeap DEF Sound
<1>3. Len(data) = Size /\ DOMAIN data = 1..Size
  BY <1>1, OneSize
<1>4. data = list1 /\ head = First /\ freed = {} /\ First = Node(1)
  BY <1>1, InputFacts DEF ResultsInv, DeleteResult
<1>5. PICK c \in 0..Size :
         /\ 2 * c <= Size /\ p = Node(2 * c + 1)
         /\ next = [k \in 1..Size |-> Node(IF Odd(k) /\ k <= 2 * c THEN k + 2 ELSE k + 1)]
         /\ pc = "run" \/ (pc = "done" /\ Size < 2 * c + 2)
  BY DEF ResultsInv, DeleteResult
<1> HIDE DEF Size
<1>6. Head2 = 0 /\ Reach(Head2) = {}
  BY <1>1, <1>2, NoSecond
<1>7. CASE Size = 0
  <2>1. head = 0
    BY <1>4, <1>7 DEF Node
  <2>2. NothingLost
    BY <1>3, <1>4, <1>7, Lossless
  <2>3. List(head) = [k \in 1..((Size + 1) \div 2) |-> list1[2 * k - 1]]
    <3>1. (Size + 1) \div 2 = 0
      BY <1>7
    <3>2. List(0) = <<>> /\ DOMAIN List(0) = 1..0
      BY <1>2, ListOfNull
    <3>3. [k \in 1..0 |-> list1[2 * k - 1]] = <<>>
      OBVIOUS
    <3> QED BY <2>1, <3>1, <3>2, <3>3
  <2> QED BY <2>2, <2>3
<1>8. CASE Size # 0
  <2> DEFINE b == IF 2 * c + 1 <= Size THEN c + 1 ELSE c
             t == [j \in 1..b |-> 2 * j - 1]
  <2>1. /\ c \in Nat /\ b \in Nat /\ b >= 1 /\ b <= Size + 1 /\ 1 \in 0..Size
        /\ \A j \in 1..b : 2 * j - 1 \in 1..Size
        /\ \A j \in 1..(b - 1) : /\ j \in 1..b /\ j + 1 \in 1..b /\ 2 * j - 1 \in 1..Size
                                 /\ Odd(2 * j - 1) /\ 2 * j - 1 <= 2 * c
                                 /\ (2 * j - 1) + 2 = 2 * (j + 1) - 1 /\ 2 * (j + 1) - 1 <= Size
        /\ \A k \in 1..Size : k <= 2 * c /\ Odd(k) => (k + 1) \div 2 \in 1..b /\ 2 * ((k + 1) \div 2) - 1 = k
    <3>1. /\ c \in Nat /\ b \in Nat /\ b >= 1 /\ b <= c + 1 /\ 2 * b <= Size + 1 /\ 1 \in 0..Size /\ b <= Size + 1
          /\ 2 * c <= 2 * b /\ (2 * c + 1 <= Size => b = c + 1)
      BY <1>2, <1>5, <1>8
    <3> HIDE DEF b
    <3>2. \A j \in 1..b : 2 * j - 1 \in 1..Size
      BY <1>2, <3>1
    <3>3. \A j \in Nat : Odd(2 * j - 1) /\ (2 * j - 1) + 2 = 2 * (j + 1) - 1
      BY DEF Odd
    <3>4. \A j \in 1..(b - 1) : /\ j \in Nat /\ j \in 1..b /\ j + 1 \in 1..b /\ j <= c /\ 2 * j - 1 <= 2 * c
      BY <3>1
    <3>5. \A k \in 1..Size : k <= 2 * c /\ Odd(k) => (k + 1) \div 2 \in 1..b /\ 2 * ((k + 1) \div 2) - 1 = k
      BY <1>2, <3>1 DEF Odd
    <3>6. \A j \in 1..(b - 1) : 2 * j - 1 \in 1..Size /\ 2 * (j + 1) - 1 <= Size
      <4> TAKE j \in 1..(b - 1)
      <4>1. j \in 1..b /\ j + 1 \in 1..b
        BY <3>4
      <4> QED BY <1>2, <3>2, <4>1
    <3> QED BY <3>1, <3>2, <3>3, <3>4, <3>5, <3>6
  <2>2. t \in [1..b -> 1..Size]
    BY <2>1
  <2>3. t \in Seq(1..Size) /\ Len(t) = b
    <3> HIDE DEF t, b
    <3> QED BY <2>1, <2>2, ListOf
  <2>4. t # <<>> /\ t[1] = 1
    <3>1. 1 \in 1..b
      BY <2>1
    <3> HIDE DEF b
    <3>2. t[1] = 1
      BY <3>1
    <3> HIDE DEF t
    <3> QED BY <2>1, <2>3, <3>2
  <2>5. ASSUME NEW j \in 1..(b - 1) PROVE next[t[j]] = t[j + 1]
    <3> HIDE DEF b
    <3>1. t[j] = 2 * j - 1 /\ t[j + 1] = 2 * (j + 1) - 1
      BY <2>1
    <3>2. next[2 * j - 1] = Node((2 * j - 1) + 2)
      BY <1>5, <2>1
    <3>3. Node((2 * j - 1) + 2) = 2 * (j + 1) - 1
      BY <2>1 DEF Node
    <3> QED BY <3>1, <3>2, <3>3
  <2>6. head = 1
    BY <1>2, <1>4, <1>8 DEF Node
  <2>7. Path(1, t)
    <3> HIDE DEF t, b
    <3> QED BY <1>3, <2>3, <2>4, <2>5 DEF Path
  <2>8. \A j \in 1..b : t[j] \in Reach(head)
    <3> HIDE DEF t, b
    <3> QED BY <1>2, <1>3, <2>1, <2>3, <2>6, <2>7, PathReach
  <2>9. ASSUME NEW k \in 1..Size, k <= 2 * c, Odd(k) PROVE k \in Reach(head)
    <3> DEFINE j == (k + 1) \div 2
    <3>1. j \in 1..b /\ 2 * j - 1 = k
      BY <2>1, <2>9
    <3> HIDE DEF b, j
    <3>2. t[j] = k
      BY <3>1
    <3> HIDE DEF t
    <3> QED BY <2>8, <3>1, <3>2
  <2>10. ASSUME 2 * c + 1 <= Size PROVE 2 * c + 1 \in Reach(head) /\ (2 * c + 1)..Size \subseteq Reach(p)
    <3> DEFINE x == 2 * c + 1
    <3>1. x \in 1..Size /\ x \in Nat
      BY <2>1, <2>10
    <3>2. p = x
      BY <1>5, <2>10 DEF Node
    <3>3. \A k \in x..(Size - 1) : next[k] = k + 1
      <4> TAKE k \in x..(Size - 1)
      <4>1. k \in 1..Size /\ ~(k <= 2 * c) /\ k + 1 <= Size
        BY <1>2, <2>1, <2>10
      <4>2. next[k] = Node(k + 1)
        BY <1>5, <4>1
      <4> QED BY <4>1, <4>2 DEF Node
    <3>4. x \in Reach(head)
      <4>1. b \in 1..b /\ 2 * b - 1 = x
        BY <2>1, <2>10
      <4> HIDE DEF b, x
      <4>2. t[b] = x
        BY <4>1
      <4> HIDE DEF t
      <4> QED BY <2>8, <4>1, <4>2
    <3>5. x..Size \subseteq Reach(p)
      <4>1. x \in 1..Len(data) /\ Size \in x..Len(data)
        BY <1>2, <1>3, <3>1
      <4> HIDE DEF x
      <4> QED BY <1>2, <3>2, <3>3, <4>1, StraightPath
    <3> QED BY <3>4, <3>5
  <2>11. ASSUME NEW k \in DOMAIN data, k \notin Reach(head) \cup Reach(p) PROVE k % 2 = 0
    <3>1. k \in 1..Size /\ (k % 2 = 0 \/ Odd(k))
      BY <1>2, <1>3 DEF Odd
    <3>2. k <= 2 * c \/ (2 * c + 1 <= Size /\ k \in (2 * c + 1)..Size)
      BY <1>2, <2>1, <3>1
    <3> QED BY <2>9, <2>10, <2>11, <3>1, <3>2
  <2>12. ASSUME NEW k \in DOMAIN data, pc = "done", k \notin Reach(head) PROVE k % 2 = 0
    <3>1. k \in 1..Size /\ (k % 2 = 0 \/ Odd(k))
      BY <1>2, <1>3 DEF Odd
    <3>2. k <= 2 * c \/ (2 * c + 1 <= Size /\ k = 2 * c + 1)
      BY <1>2, <1>5, <2>1, <2>12, <3>1
    <3> QED BY <2>9, <2>10, <2>12, <3>1, <3>2
  <2>13. NothingLost
    BY <1>4, <2>11, <2>12 DEF NothingLost
  <2>14. ASSUME pc = "done" PROVE List(head) = [k \in 1..((Size + 1) \div 2) |-> list1[2 * k - 1]]
    <3>1. b = (Size + 1) \div 2 /\ b \in 1..b /\ 2 * b - 1 \in 1..Size
      BY <1>2, <1>5, <2>1, <2>14
    <3>2. next[2 * b - 1] = 0
      <4>1. next[2 * b - 1] = Node(IF Odd(2 * b - 1) /\ 2 * b - 1 <= 2 * c THEN (2 * b - 1) + 2 ELSE (2 * b - 1) + 1)
        <5> HIDE DEF b
        <5> QED BY <1>5, <3>1
      <4>2. (2 * b - 1) + 2 > Size /\ (2 * b - 1 <= 2 * c \/ (2 * b - 1) + 1 > Size) /\ Odd(2 * b - 1)
        BY <1>2, <1>5, <2>1, <2>14 DEF Odd
      <4> QED BY <1>2, <2>1, <4>1, <4>2 DEF Node
    <3> HIDE DEF b
    <3>3. t[b] = 2 * b - 1 /\ Len(t) = b
      BY <2>3, <3>1
    <3>4. \A j \in 1..b : t[j] = 2 * j - 1
      OBVIOUS
    <3> HIDE DEF t
    <3>5. List(1) = [j \in 1..b |-> data[t[j]]]
      BY <1>2, <1>3, <2>1, <2>7, <3>2, <3>3, ListIs
    <3> QED BY <1>4, <2>6, <3>1, <3>4, <3>5
  <2> QED BY <2>13, <2>14
<1> QED BY <1>7, <1>8

(* reverse: the nodes behind the pointer lead back to the first. *)
LEMMA ReverseMeans ==
  ASSUME ResultsInv, Sound, prog = "reverse"
  PROVE  NothingLost /\ (pc = "done" => List(head) = Reverse(list1))
<1>1. Inputs /\ prog \notin TwoLists \cup ExtraNode /\ prog \notin TwoLists
  BY DEF ResultsInv, TwoLists, ExtraNode
<1>2. Size \in Nat /\ Len(list2) = 0 /\ Heap /\ Len(data) = Size + Len(list2) + 0 /\ DOMAIN data = 1..Len(data)
  BY <1>1, OneHeap DEF Sound
<1>3. Len(data) = Size /\ DOMAIN data = 1..Size
  BY <1>1, OneSize
<1>4. data = list1 /\ freed = {} /\ (list1 = <<>> <=> Size = 0) /\ list1 \in Seq(Int) /\ Size = Len(list1)
  BY <1>1, InputFacts DEF ResultsInv, ReverseResult, Size
<1>5. CASE pc \in {"start", "crashed"} /\ OneList
  <2>1. next = Straight /\ head = First
    BY <1>5 DEF OneList
  <2> QED BY <1>1, <1>4, <1>5, <2>1, OneLossless
<1>6. CASE pc = "run" /\ \E c \in 1..Size :
               /\ p = c /\ q = Node(c + 1)
               /\ next = [k \in 1..Size |-> IF 1 < k /\ k <= c THEN k - 1 ELSE Node(k + 1)]
  <2> HIDE DEF Size
  <2>1. PICK c \in 1..Size :
               /\ p = c /\ q = Node(c + 1)
               /\ next = [k \in 1..Size |-> IF 1 < k /\ k <= c THEN k - 1 ELSE Node(k + 1)]
    BY <1>6
  <2> DEFINE b == c + 1
             t == [j \in 1..c |-> b - j]
  <2>2. c \in Nat /\ b \in Nat /\ c >= 1 /\ c <= Size /\ \A j \in 1..c : b - j \in 1..Size
        /\ (\A m \in 1..(c - 1) : b - m \in 1..Size /\ 1 < b - m /\ b - m <= c /\ (b - m) - 1 = b - (m + 1) /\ m \in 1..c /\ m + 1 \in 1..c)
        /\ b - 1 = c /\ 1 \in 1..c /\ \A k \in 1..c : b - k \in 1..c /\ b - (b - k) = k
    BY <1>2
  <2> HIDE DEF b
  <2>3. t \in [1..c -> 1..Size]
    BY <2>2
  <2>4. t[1] = c /\ \A j \in 1..c : t[j] = b - j
    BY <2>2
  <2>5. \A j \in 1..(c - 1) : next[t[j]] = t[j + 1]
    <3> TAKE j \in 1..(c - 1)
    <3>1. t[j] = b - j /\ t[j + 1] = b - (j + 1)
      BY <2>2, <2>4
    <3>2. next[b - j] = (b - j) - 1
      BY <2>1, <2>2
    <3> QED BY <2>2, <3>1, <3>2
  <2> HIDE DEF t
  <2>6. t \in Seq(1..Size) /\ Len(t) = c /\ t # <<>>
    <3>1. t \in Seq(1..Size) /\ Len(t) = c
      BY <2>2, <2>3, ListOf
    <3> QED BY <2>2, <3>1
  <2>7. Path(c, t)
    BY <1>3, <2>4, <2>5, <2>6 DEF Path
  <2>8. \A j \in 1..c : t[j] \in Reach(p)
    <3>1. c \in 0..Len(data) /\ Len(t) <= Len(data) + 1
      BY <1>2, <1>3, <2>2, <2>6
    <3> QED BY <1>2, <2>1, <2>6, <2>7, <3>1, PathReach
  <2>9. \A k \in 1..c : k \in Reach(p)
    <3> TAKE k \in 1..c
    <3>1. b - k \in 1..c /\ t[b - k] = k
      BY <2>2, <2>4
    <3> QED BY <2>8, <3>1
  <2>10. ASSUME b <= Size PROVE b..Size \subseteq Reach(q)
    <3>1. q = b /\ b \in 1..Len(data) /\ Size \in b..Len(data)
      BY <1>2, <1>3, <2>1, <2>2, <2>10 DEF b, Node
    <3>2. \A k \in b..(Size - 1) : next[k] = k + 1
      <4> TAKE k \in b..(Size - 1)
      <4>1. k \in 1..Size /\ ~(k <= c) /\ k + 1 <= Size
        BY <1>2, <2>2 DEF b
      <4> QED BY <2>1, <4>1 DEF Node
    <3> QED BY <1>2, <3>1, <3>2, StraightPath
  <2>11. \A k \in DOMAIN data : k \in Reach(p) \cup Reach(q)
    <3> TAKE k \in DOMAIN data
    <3>1. k \in 1..c \/ (k \in b..Size /\ b <= Size)
      BY <1>2, <1>3, <2>2 DEF b
    <3> QED BY <2>9, <2>10, <3>1
  <2>12. NothingLost
    BY <1>4, <1>6, <2>11, LosslessRun
  <2> QED BY <1>6, <2>12
<1>7. CASE pc = "done" /\ list1 # <<>> /\ head = Size /\ next = [k \in 1..Size |-> k - 1]
  <2> DEFINE b == Size + 1
             t == [j \in 1..Size |-> b - j]
  <2>1. list1 \in Seq(Int) /\ Len(list1) = Size
    BY <1>4
  <2>2. /\ Reverse(list1) \in Seq(Int) /\ Len(Reverse(list1)) = Size
        /\ \A k \in 1..Size : Reverse(list1)[k] = list1[b - k]
    <3>1. /\ Reverse(list1) \in Seq(Int) /\ Len(Reverse(list1)) = Len(list1)
          /\ \A k \in 1..Len(list1) : Reverse(list1)[k] = list1[Len(list1) + 1 - k]
      BY <2>1, Reversed
    <3>2. \A k \in 1..Len(list1) : Len(list1) + 1 - k = b - k
      BY <2>1
    <3> HIDE DEF b, Size
    <3> QED BY <2>1, <3>1, <3>2
  <2> HIDE DEF Size
  <2>3. Size >= 1 /\ b \in Nat /\ (\A j \in 1..Size : b - j \in 1..Size /\ b - (b - j) = j)
        /\ (\A j \in 1..(Size - 1) : b - j \in 1..Size /\ (b - j) - 1 = b - (j + 1) /\ j \in 1..Size /\ j + 1 \in 1..Size)
        /\ b - 1 = Size /\ b - Size = 1 /\ Size \in 1..Size /\ 1 \in 1..Size
    BY <1>2, <1>4, <1>7
  <2> HIDE DEF b
  <2>4. t \in [1..Size -> 1..Size]
    BY <2>3
  <2>5. t[1] = Size /\ t[Size] = 1 /\ \A j \in 1..Size : t[j] = b - j
    BY <2>3
  <2>6. \A j \in 1..(Size - 1) : next[t[j]] = t[j + 1]
    <3> TAKE j \in 1..(Size - 1)
    <3>1. t[j] = b - j /\ t[j + 1] = b - (j + 1)
      BY <2>3, <2>5
    <3>2. next[b - j] = (b - j) - 1
      BY <1>7, <2>3
    <3> QED BY <2>3, <3>1, <3>2
  <2> HIDE DEF t
  <2>7. t \in Seq(1..Size) /\ Len(t) = Size /\ t # <<>>
    BY <1>2, <2>3, <2>4, ListOf
  <2>8. Path(Size, t)
    BY <1>3, <2>5, <2>6, <2>7 DEF Path
  <2>9. next[t[Len(t)]] = 0 /\ Size \in 0..Len(data) /\ Len(t) <= Len(data) + 1
    <3>1. next[1] = 1 - 1
      BY <1>7, <2>3
    <3> QED BY <1>2, <1>3, <2>5, <2>7, <3>1
  <2>10. \A j \in 1..Size : t[j] \in Reach(head)
    BY <1>2, <1>7, <2>7, <2>8, <2>9, PathReach
  <2>11. \A k \in DOMAIN data : k \in Reach(head)
    <3> TAKE k \in DOMAIN data
    <3>1. b - k \in 1..Size /\ t[b - k] = k
      BY <1>3, <2>3, <2>5
    <3> QED BY <2>10, <3>1
  <2>12. NothingLost
    BY <1>4, <2>11, Lossless
  <2>13. List(head) = [j \in 1..Size |-> data[t[j]]]
    BY <1>2, <1>7, <2>7, <2>8, <2>9, ListIs
  <2>14. List(head) = [j \in 1..Size |-> Reverse(list1)[j]]
    BY <1>4, <2>2, <2>5, <2>13
  <2>15. Reverse(list1) = [j \in 1..Size |-> Reverse(list1)[j]]
    BY <2>2
  <2> QED BY <2>12, <2>14, <2>15
<1> QED BY <1>5, <1>6, <1>7 DEF ResultsInv, ReverseResult

(* movelast: the last node, and behind it the others. *)
LEMMA MoveLastMeans ==
  ASSUME ResultsInv, Sound, prog = "movelast"
  PROVE  NothingLost /\ (pc = "done" => Size > 0 /\ List(head) = <<Last(list1)>> \o Front(list1))
<1>1. Inputs /\ prog \notin TwoLists \cup ExtraNode /\ prog \notin TwoLists
  BY DEF ResultsInv, TwoLists, ExtraNode
<1>2. Size \in Nat /\ Len(list2) = 0 /\ Heap /\ Len(data) = Size + Len(list2) + 0 /\ DOMAIN data = 1..Len(data)
  BY <1>1, OneHeap DEF Sound
<1>3. Len(data) = Size /\ DOMAIN data = 1..Size
  BY <1>1, OneSize
<1>4. data = list1 /\ freed = {} /\ (list1 = <<>> <=> Size = 0) /\ list1 \in Seq(Int) /\ Size = Len(list1)
  BY <1>1, InputFacts, Zenon DEF ResultsInv, MoveLastResult, Size
<1>5. CASE pc # "done" /\ OneList
  <2>1. next = Straight /\ head = First
    BY <1>5 DEF OneList
  <2> QED BY <1>1, <1>4, <1>5, <2>1, OneLossless
<1>6. CASE /\ pc = "done" /\ p \in 1..Size /\ head = Size
           /\ next = [k \in 1..Size |-> IF k = Size THEN (IF Size = 1 THEN 0 ELSE 1)
                                       ELSE IF k = Size - 1 THEN 0 ELSE k + 1]
  <2> DEFINE t == [j \in 1..Size |-> IF j = 1 THEN Size ELSE j - 1]
             u == SubSeq(list1, 1, Size - 1)
             v == <<list1[Size]>> \o u
  <2>1. Last(list1) = list1[Size] /\ Front(list1) = u
    BY <1>4 DEF Last, Front
  <2> HIDE DEF Size
  <2>2. Size >= 1 /\ Size \in 1..Size /\ 1 \in 1..Size /\ Size \in 0..Size
    BY <1>2, <1>6
  <2>3. t \in [1..Size -> 1..Size] /\ t[1] = Size /\ \A j \in 2..Size : t[j] = j - 1
    BY <1>2, <2>2
  <2>4. \A j \in 1..(Size - 1) : next[t[j]] = t[j + 1]
    <3> TAKE j \in 1..(Size - 1)
    <3>1. j \in 1..Size /\ j + 1 \in 2..Size /\ Size # 1
      BY <1>2
    <3>2. t[j + 1] = j
      BY <1>2, <2>3, <3>1
    <3>3. CASE j = 1
      <4>1. next[Size] = 1
        BY <1>6, <2>2, <3>1
      <4> QED BY <2>3, <3>2, <3>3, <4>1
    <3>4. CASE j # 1
      <4>1. j \in 2..Size /\ j - 1 \in 1..Size /\ j - 1 # Size /\ j - 1 # Size - 1 /\ (j - 1) + 1 = j
        BY <1>2, <3>4
      <4>2. next[j - 1] = (j - 1) + 1
        BY <1>6, <4>1
      <4> QED BY <2>3, <3>2, <4>1, <4>2
    <3> QED BY <3>3, <3>4
  <2>5. next[t[Size]] = 0
    <3>1. CASE Size = 1
      BY <1>6, <2>2, <2>3, <3>1
    <3>2. CASE Size # 1
      <4>1. Size \in 2..Size /\ Size - 1 \in 1..Size /\ Size - 1 # Size
        BY <1>2, <2>2, <3>2
      <4> QED BY <1>6, <2>3, <4>1
    <3> QED BY <3>1, <3>2
  <2>6. \A k \in 1..Size : \E j \in 1..Size : t[j] = k
    <3> TAKE k \in 1..Size
    <3>1. CASE k = Size
      BY <2>2, <2>3, <3>1
    <3>2. CASE k # Size
      <4>1. k + 1 \in 2..Size /\ k + 1 \in 1..Size /\ (k + 1) - 1 = k
        BY <1>2, <3>2
      <4> QED BY <2>3, <4>1
    <3> QED BY <3>1, <3>2
  <2> HIDE DEF t
  <2>7. t \in Seq(1..Size) /\ Len(t) = Size /\ t # <<>>
    BY <1>2, <2>2, <2>3, ListOf
  <2>8. Path(Size, t)
    BY <1>3, <2>3, <2>4, <2>7 DEF Path
  <2>9. Size \in 0..Len(data) /\ Len(t) <= Len(data) + 1
    BY <1>2, <1>3, <2>2, <2>7
  <2>10. \A j \in 1..Size : t[j] \in Reach(head)
    BY <1>2, <1>6, <2>7, <2>8, <2>9, PathReach
  <2>11. NothingLost
    BY <1>3, <1>4, <2>6, <2>10, Lossless
  <2>12. List(head) = [j \in 1..Size |-> data[t[j]]]
    <3>1. head = Size /\ next[t[Len(t)]] = 0
      BY <1>6, <2>5, <2>7
    <3>2. List(Size) = [j \in 1..Len(t) |-> data[t[j]]]
      BY <1>2, <2>8, <2>9, <3>1, ListIs, Zenon
    <3> QED BY <2>7, <3>1, <3>2
  <2>13. u \in Seq(Int) /\ Len(u) = Size - 1 /\ \A j \in 1..(Size - 1) : u[j] = list1[j]
    <3>1. \A m \in Nat : m >= 1 /\ m = Len(list1) => SubSeq(list1, 1, m - 1) \in Seq(Int) /\ Len(SubSeq(list1, 1, m - 1)) = m - 1
             /\ \A j \in 1..(m - 1) : SubSeq(list1, 1, m - 1)[j] = list1[j]
      BY <1>4
    <3> QED BY <1>2, <1>4, <2>2, <3>1
  <2>14. list1[Size] \in Int
    BY <1>4, <2>2
  <2>15. v \in Seq(Int) /\ Len(v) = Size /\ v[1] = list1[Size] /\ \A j \in 2..Size : v[j] = list1[j - 1]
    <3> HIDE DEF u
    <3>1. v \in Seq(Int) /\ Len(v) = Len(u) + 1 /\ v[1] = list1[Size] /\ \A j \in 1..Len(u) : v[j + 1] = u[j]
      BY <2>13, <2>14
    <3> HIDE DEF v
    <3>2. ASSUME NEW j \in 2..Size PROVE v[j] = list1[j - 1]
      <4>1. j - 1 \in 1..Len(u) /\ j - 1 \in 1..(Size - 1) /\ (j - 1) + 1 = j
        BY <1>2, <2>13
      <4> QED BY <2>13, <3>1, <4>1
    <3> QED BY <1>2, <2>2, <2>13, <3>1, <3>2
  <2> HIDE DEF v
  <2>16. \A j \in 1..Size : data[t[j]] = v[j]
    <3> TAKE j \in 1..Size
    <3>1. j = 1 \/ j \in 2..Size
      BY <1>2
    <3> QED BY <1>4, <2>3, <2>15, <3>1
  <2>17. v = [j \in 1..Size |-> v[j]]
    BY <2>15
  <2>18. List(head) = v
    BY <2>12, <2>16, <2>17
  <2> QED BY <2>1, <2>2, <2>11, <2>18 DEF v
<1> QED BY <1>5, <1>6 DEF ResultsInv, MoveLastResult

(* Numbers that go up by one at least. *)
LEMMA Increasing ==
  ASSUME NEW t, NEW m \in Nat, \A j \in 1..m : t[j] \in Nat /\ t[j] >= 1,
         \A j, k \in 1..m : j < k => t[j] < t[k]
  PROVE  \A j \in 1..m : j <= t[j]
<1> DEFINE W == {j \in Nat : j \in 1..m => j <= t[j]}
<1>1. ASSUME NEW j \in Nat, \A k \in Nat : k < j => k \in W
      PROVE  j \in W
  <2> SUFFICES ASSUME j \in 1..m PROVE j <= t[j]
    OBVIOUS
  <2>1. CASE j = 1
    BY <2>1
  <2>2. CASE j # 1
    <3>1. j - 1 \in Nat /\ j - 1 < j /\ j - 1 \in 1..m
      BY <2>2
    <3>2. j - 1 <= t[j - 1]
      BY <1>1, <3>1
    <3>3. t[j - 1] < t[j] /\ t[j] \in Nat /\ t[j - 1] \in Nat
      BY <3>1
    <3> QED BY <3>2, <3>3
  <2> QED BY <2>1, <2>2
<1> HIDE DEF W
<1>2. W = Nat
  <2>1. W \in SUBSET Nat
    BY DEF W
  <2> QED BY <2>1, <1>1, Induction
<1> QED BY <1>2 DEF W

(* remove_node: what stays is a path, and no link leads to what was freed. *)
LEMMA RemoveMeans ==
  ASSUME ResultsInv, Sound, prog = "remove_node"
  PROVE  NothingLost /\ (pc = "done" => List(head) = Pick(list1, Kept))
<1>1. Inputs /\ prog \notin TwoLists \cup ExtraNode /\ prog \notin TwoLists
  BY DEF ResultsInv, TwoLists, ExtraNode
<1>2. Size \in Nat /\ Len(list2) = 0 /\ Heap /\ Len(data) = Size + Len(list2) + 0 /\ DOMAIN data = 1..Len(data)
  BY <1>1, OneHeap DEF Sound
<1>3. Len(data) = Size /\ DOMAIN data = 1..Size
  BY <1>1, OneSize
<1>4. data = list1 /\ list1 \in Seq(Int) /\ Size = Len(list1)
  BY <1>1, InputFacts, Zenon DEF ResultsInv, RemoveResult, Size
<1>5. Head2 = 0 /\ Reach(Head2) = {} /\ Reach(0) = {}
  BY <1>1, <1>2, NoSecond, NodesOfNull
<1> HIDE DEF Size
<1>6. CASE pc \in {"start", "crashed"} /\ OneList
  <2>1. next = Straight /\ head = First /\ freed = {}
    BY <1>6 DEF OneList
  <2> QED BY <1>1, <1>6, <2>1, OneLossless
<1>7. CASE pc = "crashed" /\ Size = 1 /\ freed = {1} /\ head = 0 /\ p = 0 /\ q = 0
  <2>1. DOMAIN data = {1}
    BY <1>3, <1>7
  <2> QED BY <1>5, <1>7, <2>1 DEF NothingLost
<1>8. CASE \E c \in 1..Size : \E t \in Seq(1..Size) :
            /\ KeptSoFar(c, t) /\ q = Node(c + 1)
            /\ pc = "run" \/ (pc = "done" /\ c = Size)
  <2>1. PICK c \in 1..Size, t \in Seq(1..Size) :
            /\ KeptSoFar(c, t) /\ q = Node(c + 1)
            /\ pc = "run" \/ (pc = "done" /\ c = Size)
    BY <1>8
  <2> DEFINE m == Len(t)
             b == c + 1
             T == {t[j] : j \in 1..m}
             S == T \cup (b..Size)
  <2>2. /\ t # <<>> /\ t[1] = head /\ t[m] = p
        /\ \A j \in 1..m : t[j] <= c /\ t[j] \in Kept
        /\ \A k \in 1..c : k \in Kept => \E j \in 1..m : t[j] = k
        /\ \A j, k \in 1..m : j < k => t[j] < t[k]
        /\ \A j \in 1..(m - 1) : next[t[j]] = t[j + 1]
        /\ next[p] = Node(b) /\ \A k \in b..Size : next[k] = Node(k + 1)
        /\ freed = (1..c) \ Kept
    BY <2>1 DEF KeptSoFar
  <2>3. Picked(list1, Kept)[c] = [j \in 1..m |-> list1[t[j]]]
    BY <2>1 DEF KeptSoFar
  <2>4. c \in Nat /\ c >= 1 /\ c <= Size /\ b \in Nat
    BY <1>2
  <2>5. m \in Nat /\ m >= 1 /\ 1 \in 1..m /\ m \in 1..m /\ \A j \in 1..m : t[j] \in 1..Size /\ t[j] \in Nat /\ t[j] >= 1
    <3>1. m \in Nat /\ m >= 1 /\ \A j \in 1..m : t[j] \in 1..Size
      BY <2>2, Ends
    <3> QED BY <1>2, <3>1
  <2>6. m <= Size
    <3>1. m <= t[m] /\ t[m] <= c
      BY <2>2, <2>5, Increasing
    <3> QED BY <1>2, <2>4, <2>5, <3>1
  <2>7. head \in 1..Size /\ p \in 1..Size /\ head \in T /\ p \in T
    BY <2>2, <2>5
  <2>8. Path(head, t)
    <3>1. t \in Seq(1..Len(data))
      BY <1>3
    <3> QED BY <2>2, <3>1 DEF Path
  <2>9. \A k \in T : k \in Reach(head)
    <3>1. head \in 0..Len(data) /\ Len(t) <= Len(data) + 1
      BY <1>2, <1>3, <2>5, <2>6, <2>7
    <3> QED BY <1>2, <2>8, <3>1, PathReach
  <2> HIDE DEF m, b
  <2>10. q = Node(b)
    BY <2>1 DEF b
  <2>11. ASSUME b <= Size PROVE b..Size \subseteq Reach(q)
    <3>1. q = b /\ b \in 1..Len(data) /\ Size \in b..Len(data)
      BY <1>2, <1>3, <2>4, <2>10, <2>11 DEF Node, b
    <3>2. \A k \in b..(Size - 1) : next[k] = k + 1
      <4> TAKE k \in b..(Size - 1)
      <4>1. k \in b..Size /\ k + 1 <= Size
        BY <1>2, <2>4
      <4>2. next[k] = Node(k + 1)
        BY <2>2, <4>1
      <4> QED BY <4>1, <4>2 DEF Node
    <3> QED BY <1>2, <3>1, <3>2, StraightPath
  <2>12. S \in SUBSET (1..Len(data)) /\ head \in S \cup {0} /\ p \in S \cup {0} /\ q \in S \cup {0}
    <3>1. q \in S \cup {0}
      BY <1>2, <2>4, <2>10 DEF Node
    <3>2. \A k \in b..Size : k \in 1..Size
      BY <1>2, <2>4 DEF b
    <3> QED BY <1>3, <2>5, <2>7, <3>1, <3>2
  <2>13. \A k \in S : next[k] \in S \cup {0}
    <3>1. ASSUME NEW j \in 1..m PROVE next[t[j]] \in S \cup {0}
      <4>1. CASE j = m
        BY <1>2, <2>2, <2>4, <4>1 DEF Node
      <4>2. CASE j # m
        <5>1. j \in 1..(m - 1) /\ j + 1 \in 1..m
          BY <2>5, <4>2
        <5> QED BY <2>2, <5>1
      <4> QED BY <4>1, <4>2
    <3>2. ASSUME NEW k \in b..Size PROVE next[k] \in S \cup {0}
      <4>1. next[k] = Node(k + 1)
        BY <2>2
      <4>2. k + 1 <= Size => k + 1 \in b..Size
        BY <1>2, <2>4
      <4> QED BY <4>1, <4>2 DEF Node
    <3> QED BY <3>1, <3>2
  <2>14. Reach(head) \subseteq S /\ Reach(p) \subseteq S /\ Reach(q) \subseteq S
    <3> HIDE DEF S
    <3> QED BY <1>2, <2>12, <2>13, ClosedReach
  <2>15. S \cap freed = {}
    <3>1. \A j \in 1..m : t[j] \notin freed
      BY <2>2
    <3>2. \A k \in b..Size : k \notin freed
      BY <1>2, <2>2, <2>4 DEF b
    <3> QED BY <3>1, <3>2
  <2>16. ASSUME NEW k \in DOMAIN data, k \notin freed PROVE k \in T \/ (k \in b..Size /\ b <= Size /\ c # Size)
    <3>1. k \in 1..c \/ (k \in b..Size /\ b <= Size /\ c # Size)
      BY <1>2, <1>3, <2>4 DEF b
    <3>2. CASE k \in 1..c
      BY <2>2, <2>16, <3>2
    <3> QED BY <3>1, <3>2
  <2> HIDE DEF S, T
  <2>17. NothingLost
    <3>1. (Reach(head) \cup Reach(p) \cup Reach(q) \cup Reach(Head2)) \cap freed = {}
      BY <1>5, <2>14, <2>15
    <3>2. \A k \in DOMAIN data : k \in freed \/ k \in Reach(head) \/ k \in Reach(q)
      BY <2>9, <2>11, <2>16
    <3>3. pc = "done" => \A k \in DOMAIN data : k \in freed \/ k \in Reach(head)
      BY <2>1, <2>9, <2>16
    <3> QED BY <3>1, <3>2, <3>3 DEF NothingLost
  <2>18. ASSUME pc = "done" PROVE List(head) = Pick(list1, Kept)
    <3>1. c = Size /\ Node(b) = 0
      BY <1>2, <2>1, <2>18 DEF b, Node
    <3>2. head \in 0..Len(data) /\ Len(t) <= Len(data) + 1 /\ next[t[Len(t)]] = 0
      BY <1>2, <1>3, <2>2, <2>5, <2>6, <2>7, <3>1 DEF m
    <3>3. List(head) = [j \in 1..m |-> data[t[j]]]
      BY <1>2, <2>8, <3>2, ListIs DEF m
    <3>4. Pick(list1, Kept) = Picked(list1, Kept)[Len(list1)]
      BY <1>4, PickedIs
    <3> QED BY <1>4, <2>3, <3>1, <3>3, <3>4 DEF m
  <2> QED BY <2>17, <2>18
<1> QED BY <1>6, <1>7, <1>8 DEF ResultsInv, RemoveResult

-----------------------------------------------------------------------------
(* The invariant of getlength says, where the program is done, what its name promises. *)
LEMMA LengthMeans ==
  ASSUME ResultsInv, prog = "getlength" PROVE MeansWhatItSays
<1>1. pc = "done" => out = <<Len(list1)>>
  BY DEF ResultsInv, LengthResult, Size
<1> QED BY <1>1 DEF MeansWhatItSays, OpenEnded

(* The invariant of findmid says, where the program is done, what its name promises. *)
LEMMA MidMeans ==
  ASSUME ResultsInv, prog = "findmid" PROVE MeansWhatItSays
<1>1. pc = "done" => out = <<list1[Len(list1) \div 2 + 1]>>
  BY DEF ResultsInv, MidResult, Size
<1> QED BY <1>1 DEF MeansWhatItSays, OpenEnded

(* The invariant of findnode says, where the program is done, what its name promises. *)
LEMMA NodeMeans ==
  ASSUME ResultsInv, prog = "findnode" PROVE MeansWhatItSays
<1>1. list1 \in Seq(Int) /\ Len(list1) \in Nat /\ Size = Len(list1)
  BY InputFacts DEF ResultsInv, Size
<1>2. pc = "done" => out = <<Reverse(list1)[arg]>>
  <2>1. \A k \in 1..Len(list1) : Reverse(list1)[k] = list1[Len(list1) + 1 - k]
    BY <1>1, Reversed
  <2> QED BY <1>1, <2>1 DEF ResultsInv, NodeResult
<1> QED BY <1>2 DEF MeansWhatItSays, OpenEnded

(* The invariant of deepcopy says, where the program is done, what its name promises. *)
LEMMA CopyMeans ==
  ASSUME ResultsInv, prog = "deepcopy" PROVE MeansWhatItSays
<1>1. pc \in {"done", "crashed"} => out = Append(list1, arg)
  BY DEF ResultsInv, CopyResult
<1> QED BY <1>1 DEF MeansWhatItSays, OpenEnded

(* The invariant of partition says, where the program is done, what its name promises. *)
LEMMA PartitionMeans ==
  ASSUME ResultsInv, prog = "partition" PROVE MeansWhatItSays
<1>1. list1 \in Seq(Int) /\ Size \in Nat /\ Size = Len(list1)
  BY InputFacts DEF ResultsInv, Size
<1>2. pc = "done" => out = Picked(list1, Less)[Size] \o Picked(list1, NotLess)[Size]
  BY DEF ResultsInv, PartitionResult
<1>3. \A T : Pick(list1, T) = Picked(list1, T)[Len(list1)]
  BY <1>1, PickedIs
<1>4. pc = "done" => out = Pick(list1, Less) \o Pick(list1, NotLess)
  <2>1. Pick(list1, Less) = Picked(list1, Less)[Size] /\ Pick(list1, NotLess) = Picked(list1, NotLess)[Size]
    BY <1>1, <1>3
  <2> QED BY <1>2, <2>1
<1>5. Less = {k \in 1..Len(list1) : list1[k] < arg} /\ NotLess = {k \in 1..Len(list1) : list1[k] >= arg}
  BY DEF Less, NotLess, Size
<1> QED BY <1>4, <1>5 DEF MeansWhatItSays, OpenEnded

(* The invariant of addlist says, where the program is done, what its name promises. *)
LEMMA AddMeans ==
  ASSUME ResultsInv, prog = "addlist" PROVE MeansWhatItSays
<1>1. Size = Len(list1)
  BY DEF Size
<1>2. ASSUME pc \in {"done", "crashed"}, Size <= 2, Len(list2) <= 2 PROVE Number(out) = Number(list1) + Number(list2)
  <2>1. acc = 0 /\ out \in Seq(0..9) /\ acc * Pow(10, Len(out)) + Number(out) = Number(list1) + Number(list2)
    BY <1>2 DEF ResultsInv, AddResult
  <2>2. 10 \in Nat /\ 10 > 0 /\ 10 \in Int
    OBVIOUS
  <2>3. out \in Seq(Int) /\ Len(out) \in Nat
    BY <2>1, DigitLists
  <2>4. Pow(10, Len(out)) \in Nat
    BY <2>2, <2>3, PowerOf
  <2>5. Number(out) \in Int
    BY <2>2, <2>3, ValueAppend, NumberIs
  <2> DEFINE w == Pow(10, Len(out))
             v == Number(out)
  <2>6. w \in Nat /\ v \in Int /\ 0 * w + v = Number(list1) + Number(list2)
    BY <2>1, <2>4, <2>5
  <2> HIDE DEF w, v
  <2>7. 0 * w + v = v
    BY <2>6
  <2> QED BY <2>6, <2>7 DEF v
<1>3. pc \in {"done", "crashed"} => (Len(list1) <= 2 /\ Len(list2) <= 2 => Number(out) = Number(list1) + Number(list2))
  BY <1>1, <1>2
<1> QED BY <1>3 DEF MeansWhatItSays, OpenEnded

(* The same for the programs that change the links, and that they lose no node. *)
LEMMA ChangesMean ==
  ASSUME ResultsInv, Sound, prog \in {"deletenode", "reverse", "movelast", "remove_node"}
  PROVE  NothingLost /\ MeansWhatItSays
<1>1. Size = Len(list1)
  BY DEF Size
<1>2. CASE prog = "deletenode"
  BY <1>1, <1>2, DeleteMeans DEF MeansWhatItSays, OpenEnded
<1>3. CASE prog = "reverse"
  BY <1>1, <1>3, ReverseMeans DEF MeansWhatItSays, OpenEnded
<1>4. CASE prog = "movelast"
  BY <1>1, <1>4, MoveLastMeans DEF MeansWhatItSays, OpenEnded
<1>5. CASE prog = "remove_node"
  <2>1. NothingLost /\ (pc = "done" => List(head) = Pick(list1, Kept))
    BY <1>5, RemoveMeans
  <2>2. Kept = IF list1[1] # arg THEN {k \in 1..Len(list1) : list1[k] # arg}
                                 ELSE {2} \cup {k \in 3..Len(list1) : list1[k] # arg}
    BY DEF Kept, Size
  <2> QED BY <1>5, <2>1, <2>2 DEF MeansWhatItSays, OpenEnded
<1> QED BY <1>2, <1>3, <1>4, <1>5

(* The list from the first node on, of a straight heap, is its data. *)
LEMMA StraightList ==
  ASSUME Inputs, Sound, prog \notin TwoLists \cup ExtraNode, next = Straight, head = First
  PROVE  List(head) = [k \in 1..Size |-> data[k]]
<1>1. Size \in Nat /\ Len(list2) = 0 /\ Heap /\ Len(data) = Size + Len(list2) + 0 /\ DOMAIN data = 1..Len(data)
  BY OneHeap DEF Sound
<1>2. Len(data) = Size
  <2> HIDE DEF Size
  <2> QED BY <1>1
<1>3. First = Node(1) /\ Straight = [k \in 1..Size |-> Node(k + 1)]
  BY InputFacts
<1> HIDE DEF Size
<1>4. CASE Size = 0
  <2>1. head = 0 /\ List(0) = <<>>
    BY <1>1, <1>3, <1>4, ListOfNull DEF Node
  <2>2. [k \in 1..0 |-> data[k]] = <<>>
    OBVIOUS
  <2> QED BY <1>4, <2>1, <2>2
<1>5. CASE Size # 0
  <2> DEFINE t == [k \in 1..Size |-> k]
  <2>1. /\ t \in [1..Size -> 1..Size] /\ t[1] = 1 /\ t[Size] = Size /\ Size >= 1
        /\ \A k \in 1..Size : t[k] = k
    BY <1>1, <1>5
  <2>2. \A k \in 1..(Size - 1) : next[t[k]] = t[k + 1]
    <3> TAKE k \in 1..(Size - 1)
    <3>1. k \in 1..Size /\ k + 1 \in 1..Size /\ k + 1 <= Size
      BY <1>1
    <3> QED BY <1>3, <2>1, <3>1 DEF Node
  <2> HIDE DEF t
  <2>3. t \in Seq(1..Size) /\ Len(t) = Size
    BY <1>1, <2>1, ListOf
  <2>4. t # <<>>
    BY <2>1, <2>3
  <2>5. head = 1 /\ 1 \in 0..Len(data) /\ Len(t) <= Len(data) + 1
    BY <1>1, <1>2, <1>3, <2>1, <2>3 DEF Node
  <2>6. next[t[Len(t)]] = 0
    <3>1. Size \in 1..Size /\ Size + 1 > Size
      BY <1>1, <1>5
    <3> QED BY <1>1, <1>3, <2>1, <2>3, <3>1 DEF Node
  <2>7. Path(1, t)
    BY <1>2, <2>1, <2>2, <2>3, <2>4 DEF Path
  <2>8. List(1) = [k \in 1..Len(t) |-> data[t[k]]]
    BY <1>1, <2>5, <2>6, <2>7, ListIs
  <2> QED BY <2>1, <2>3, <2>5, <2>8
<1> QED BY <1>4, <1>5

(* The invariant of swap_two says, where the program is done, what its name promises. *)
LEMMA SwapMeans ==
  ASSUME ResultsInv, Sound, prog = "swap_two" PROVE MeansWhatItSays
<1>1. Inputs /\ prog \notin TwoLists \cup ExtraNode
  BY DEF ResultsInv, TwoLists, ExtraNode
<1>2. next = Straight /\ head = First
  BY DEF ResultsInv, SwapResult
<1>3. List(head) = [k \in 1..Size |-> data[k]]
  BY <1>1, <1>2, StraightList
<1>4. ASSUME pc = "done" PROVE List(head) = [k \in 1..Size |-> list1[IF Odd(k) THEN k + 1 ELSE k - 1]]
  <2>1. PICK c \in 0..Size : 2 * c = Size /\ data = Swapped(c)
    BY <1>4 DEF ResultsInv, SwapResult
  <2> HIDE DEF Size
  <2>2. \A k \in 1..Size : data[k] = list1[IF Odd(k) THEN k + 1 ELSE k - 1]
    <3> TAKE k \in 1..Size
    <3>1. k <= 2 * c
      BY <2>1
    <3>2. data[k] = list1[IF k <= 2 * c THEN (IF Odd(k) THEN k + 1 ELSE k - 1) ELSE k]
      BY <2>1 DEF Swapped
    <3> QED BY <3>1, <3>2
  <2> QED BY <1>3, <2>2
<1>5. Size = Len(list1)
  BY DEF Size
<1> QED BY <1>4, <1>5 DEF MeansWhatItSays, OpenEnded

(* The invariant of seg says, where the program is done, what its name promises. *)
LEMMA SegMeans ==
  ASSUME ResultsInv, Sound, prog = "seg" PROVE MeansWhatItSays
<1>1. Inputs /\ prog \notin TwoLists \cup ExtraNode /\ Size \in Nat
  BY InputFacts DEF ResultsInv, TwoLists, ExtraNode
<1>2. /\ next = Straight /\ head = First /\ data \in [1..Size -> Values]
      /\ \A x \in Values : Count(data, x) = Count(list1, x)
  BY DEF ResultsInv, SegResult
<1>3. List(head) = data
  <2>1. List(head) = [k \in 1..Size |-> data[k]]
    BY <1>1, <1>2, StraightList
  <2> QED BY <1>2, <2>1
<1> DEFINE odd == {k \in 1..Size : Odd(data[k])}
<1>4. ASSUME pc = "done" PROVE odd = {} \/ \E a, b \in 1..Size : odd = a..b /\ (a = 1 \/ b = Size)
  <2>1. PICK x, y \in 1..(Size + 1) :
         Split(x, y) /\ (y < x => x = Size + 1) /\ (x < y => y = Size + 1) /\ (x = y => Size = 0)
    BY <1>4 DEF ResultsInv, SegResult
  <2> HIDE DEF Size
  <2>2. x \in Nat /\ y \in Nat /\ x >= 1 /\ y >= 1 /\ x <= Size + 1 /\ y <= Size + 1
    BY <1>1
  <2>3. CASE x = y
    BY <2>1, <2>3
  <2>4. CASE y < x
    <3>1. x = Size + 1 /\ y \in 1..Size /\ Size \in 1..Size /\ x - 1 = Size
      BY <1>1, <2>1, <2>2, <2>4
    <3>2. (\A k \in 1..(y - 1) : ~Odd(data[k])) /\ \A k \in y..(x - 1) : Odd(data[k])
      BY <2>2, <2>4, <2>1 DEF Split
    <3>3. odd = y..Size
      <4>1. \A k \in 1..Size : k \in 1..(y - 1) \/ k \in y..Size
        BY <1>1, <2>2
      <4>2. \A k \in y..Size : k \in 1..Size /\ k \notin 1..(y - 1)
        BY <1>1, <2>2
      <4> QED BY <3>1, <3>2, <4>1, <4>2
    <3> HIDE DEF odd
    <3> QED BY <3>1, <3>3
  <2>5. CASE x < y
    <3>1. y = Size + 1 /\ y - 1 = Size
      BY <1>1, <2>1, <2>2, <2>5
    <3>2. (\A k \in 1..(x - 1) : Odd(data[k])) /\ \A k \in x..(y - 1) : ~Odd(data[k])
      BY <2>2, <2>5, <2>1 DEF Split
    <3>3. odd = 1..(x - 1)
      <4>1. \A k \in 1..Size : k \in 1..(x - 1) \/ k \in x..Size
        BY <1>1, <2>2
      <4>2. \A k \in 1..(x - 1) : k \in 1..Size /\ k \notin x..Size
        BY <1>1, <2>2
      <4> QED BY <3>1, <3>2, <4>1, <4>2
    <3>4. x = 1 => 1..(x - 1) = {}
      OBVIOUS
    <3>5. x # 1 => x - 1 \in 1..Size /\ 1 \in 1..Size
      BY <1>1, <2>2
    <3> HIDE DEF odd
    <3> QED BY <3>3, <3>4, <3>5
  <2> QED BY <2>2, <2>3, <2>4, <2>5
<1>5. Size = Len(list1)
  BY DEF Size
<1> QED BY <1>2, <1>3, <1>4, <1>5 DEF MeansWhatItSays, OpenEnded

(* The invariant of the visit says, where the program is done, what its name promises. *)
LEMMA VisitMeans ==
  ASSUME ResultsInv, Sound, prog = "visited" PROVE MeansWhatItSays
<1>1. Inputs /\ Size \in Nat /\ Size = Len(list1)
  BY InputFacts DEF ResultsInv, Size
<1>2. ASSUME pc = "done" PROVE NodesFrom(head) = [k \in 1..(Size + 1) |-> k]
  <2> DEFINE m == Size + 1
             t == [k \in 1..m |-> k]
  <2>1. head = 1 /\ next = [k \in 1..m |-> IF k <= Size THEN k + 1 ELSE 0]
    BY <1>2 DEF ResultsInv, VisitResult
  <2>2. list2 = <<>>
    BY <1>1 DEF Inputs, TwoLists
  <2>3. Len(list2) = 0
    BY <2>2
  <2>4. Heap /\ Len(data) = Size + Len(list2) + 1
    BY DEF Sound, ExtraNode
  <2> HIDE DEF Size
  <2>5. Len(data) = m /\ m \in Nat /\ m >= 1 /\ 1 \in 1..m /\ m \in 1..m
    BY <1>1, <2>3, <2>4
  <2>6. t \in [1..m -> 1..m] /\ t[1] = 1 /\ t[m] = m /\ \A k \in 1..m : t[k] = k
    BY <2>5
  <2>7. next[m] = 0 /\ \A k \in 1..(m - 1) : k \in 1..m /\ k + 1 \in 1..m /\ next[k] = k + 1
    <3>1. ~(m <= Size) /\ \A k \in 1..(m - 1) : k \in 1..m /\ k + 1 \in 1..m /\ k <= Size
      BY <1>1
    <3> HIDE DEF m
    <3> QED BY <2>1, <2>5, <3>1
  <2> HIDE DEF t, m
  <2>8. t \in Seq(1..m) /\ Len(t) = m
    BY <2>5, <2>6, ListOf
  <2>9. t # <<>>
    BY <2>5, <2>8
  <2>10. Path(1, t)
    BY <2>5, <2>6, <2>7, <2>8, <2>9 DEF Path
  <2>11. 1 \in 0..Len(data) /\ Len(t) <= Len(data) + 1 /\ next[t[Len(t)]] = 0
    BY <2>5, <2>6, <2>7, <2>8
  <2>12. NodesFrom(1) = t
    BY <2>4, <2>10, <2>11, PathEnds
  <2> QED BY <2>1, <2>12 DEF t, m
<1> QED BY <1>1, <1>2 DEF MeansWhatItSays, OpenEnded

(* The first elements of a list are another list. *)
LEMMA PrefixIs ==
  ASSUME NEW s \in Seq(Int), NEW w \in Seq(Int)
  PROVE  IsPrefix(s, w) <=> Len(s) <= Len(w) /\ \A k \in 1..Len(s) : s[k] = w[k]
<1>1. IsPrefix(s, w) <=> Len(s) <= Len(w) /\ SubSeq(s, 1, Len(s)) = SubSeq(w, 1, Len(s))
  BY DEF IsPrefix
<1>2. /\ SubSeq(s, 1, Len(s)) = s /\ s = [k \in 1..Len(s) |-> s[k]] /\ Len(s) \in Nat
      /\ SubSeq(w, 1, Len(s)) = [k \in 1..Len(s) |-> w[k]]
  <2>1. s = [k \in 1..Len(s) |-> s[k]] /\ Len(s) \in Nat
    OBVIOUS
  <2>2. ASSUME NEW m \in Nat PROVE SubSeq(w, 1, m) = [k \in 1..m |-> w[k]]
    OBVIOUS
  <2> QED BY <2>1, <2>2, PrefixAll
<1>3. s = [k \in 1..Len(s) |-> w[k]] <=> \A k \in 1..Len(s) : s[k] = w[k]
  <2>1. s = [k \in 1..Len(s) |-> s[k]]
    BY <1>2
  <2>2. ASSUME s = [k \in 1..Len(s) |-> w[k]] PROVE \A k \in 1..Len(s) : s[k] = w[k]
    BY <2>2
  <2>3. ASSUME \A k \in 1..Len(s) : s[k] = w[k] PROVE s = [k \in 1..Len(s) |-> w[k]]
    BY <2>1, <2>3
  <2> QED BY <2>2, <2>3
<1> QED BY <1>1, <1>2, <1>3

(* The invariant of getintersection says, where the program is done, what its name promises. *)
LEMMA IntersectionMeans ==
  ASSUME ResultsInv, prog = "getintersection" PROVE MeansWhatItSays
<1> DEFINE w == Len(list2)
           both == 1..(IF Len(list1) < w THEN Len(list1) ELSE w)
           same == {k \in both : list1[k] = list2[k]}
<1>1. Size \in Nat /\ w \in Nat /\ Size = Len(list1)
  BY InputFacts DEF ResultsInv, Size
<1>2. both = 1..Shorter /\ Shorter \in Nat
  BY <1>1 DEF Shorter, Size
<1>3. ASSUME pc = "done"
      PROVE  out = IF same = {} THEN Undefined ELSE <<list1[CHOOSE k \in same : \A j \in same : k <= j]>>
  <2> HIDE DEF both
  <2>1. PICK c \in 0..Shorter :
          /\ \A k \in 1..c : list1[k] # list2[k]
          /\ \/ c = Shorter /\ out = <<-1>>
             \/ c < Shorter /\ list1[c + 1] = list2[c + 1] /\ out = <<list1[c + 1]>>
    BY <1>3 DEF ResultsInv, IntersectionResult
  <2>2. CASE c = Shorter /\ out = <<-1>>
    <3>1. same = {}
      BY <1>2, <2>1, <2>2
    <3> HIDE DEF same
    <3> QED BY <2>2, <3>1 DEF Undefined
  <2>3. CASE c < Shorter /\ list1[c + 1] = list2[c + 1] /\ out = <<list1[c + 1]>>
    <3> DEFINE b == c + 1
    <3>1. b \in same /\ b \in Nat
      BY <1>2, <2>3
    <3>2. \A j \in same : j \in Nat /\ b <= j
      <4> TAKE j \in same
      <4>1. j \in 1..Shorter /\ list1[j] = list2[j]
        BY <1>2
      <4>2. j \notin 1..c
        BY <2>1, <4>1
      <4> QED BY <1>2, <4>1, <4>2
    <3> HIDE DEF b, same
    <3>3. (CHOOSE k \in same : \A j \in same : k <= j) = b
      <4> DEFINE x == CHOOSE k \in same : \A j \in same : k <= j
      <4>1. x \in same /\ \A j \in same : x <= j
        BY <3>1, <3>2
      <4> HIDE DEF x
      <4>2. x <= b /\ b <= x /\ x \in Nat
        BY <3>1, <3>2, <4>1
      <4>3. x = b
        BY <3>1, <4>2
      <4> QED BY <4>3 DEF x
    <3>4. same # {}
      BY <3>1
    <3> QED BY <2>3, <3>3, <3>4 DEF b
  <2> QED BY <2>1, <2>2, <2>3
<1> QED BY <1>3 DEF MeansWhatItSays, OpenEnded

(* The invariant of compare says, where the program is done, what its name promises. *)
LEMMA CompareMeans ==
  ASSUME ResultsInv, prog = "compare" PROVE MeansWhatItSays
<1>1. Size \in Nat /\ Len(list2) \in Nat /\ Size = Len(list1) /\ list1 \in Seq(Int) /\ list2 \in Seq(Int)
  BY InputFacts DEF ResultsInv, Size
<1> DEFINE m == Len(list2)
           pre == IsPrefix(list1, list2) \/ IsPrefix(list2, list1)
<1>2. /\ IsPrefix(list1, list2) <=> Len(list1) <= Len(list2) /\ \A k \in 1..Len(list1) : list1[k] = list2[k]
      /\ IsPrefix(list2, list1) <=> Len(list2) <= Len(list1) /\ \A k \in 1..Len(list2) : list2[k] = list1[k]
  BY <1>1, PrefixIs
<1>3. /\ IsPrefix(list1, list2) <=> Size <= m /\ \A k \in 1..Size : list1[k] = list2[k]
      /\ IsPrefix(list2, list1) <=> m <= Size /\ \A k \in 1..m : list2[k] = list1[k]
  BY <1>1, <1>2
<1>4. Size \in Nat /\ m \in Nat /\ Shorter = IF Size < m THEN Size ELSE m
  BY <1>1 DEF Shorter
<1> HIDE DEF Size, m
<1>5. pre <=> \A k \in 1..Shorter : list1[k] = list2[k]
  <2>1. CASE Size < m
    <3>1. ASSUME IsPrefix(list2, list1) PROVE FALSE
      BY <1>3, <1>4, <2>1, <3>1
    <3> QED BY <1>3, <1>4, <2>1, <3>1
  <2>2. CASE ~(Size < m)
    <3>1. IsPrefix(list2, list1) <=> \A k \in 1..Shorter : list1[k] = list2[k]
      BY <1>3, <1>4, <2>2
    <3>2. IsPrefix(list1, list2) => \A k \in 1..Shorter : list1[k] = list2[k]
      BY <1>3, <1>4, <2>2
    <3> QED BY <3>1, <3>2
  <2> QED BY <2>1, <2>2
<1>6. pc = "done" => out = <<IF pre THEN 1 ELSE 0>>
  <2> SUFFICES ASSUME pc = "done" PROVE out = <<IF pre THEN 1 ELSE 0>>
    OBVIOUS
  <2>1. PICK c \in 0..Shorter :
          /\ \A k \in 1..c : list1[k] = list2[k]
          /\ \/ c = Shorter /\ out = <<1>>
             \/ c < Shorter /\ list1[c + 1] # list2[c + 1] /\ out = <<0>>
    BY DEF ResultsInv, CompareResult
  <2>2. Shorter \in Nat
    BY <1>4
  <2> HIDE DEF pre
  <2>3. CASE c = Shorter /\ out = <<1>>
    BY <1>5, <2>1, <2>3
  <2>4. CASE c < Shorter /\ list1[c + 1] # list2[c + 1] /\ out = <<0>>
    <3>1. c + 1 \in 1..Shorter
      BY <2>2, <2>4
    <3> QED BY <1>5, <2>4, <3>1
  <2> QED BY <2>1, <2>3, <2>4
<1> QED BY <1>6 DEF MeansWhatItSays, OpenEnded

(* The invariant of ispalindrome says, where the program is done, what its name promises. *)
LEMMA PalindromeMeans ==
  ASSUME ResultsInv, prog = "ispalindrome" PROVE MeansWhatItSays
<1>1. Size \in Nat /\ Size = Len(list1) /\ list1 \in Seq(Int)
  BY InputFacts DEF ResultsInv, Size
<1> DEFINE r == Reverse(list1)
<1>2. r \in Seq(Int) /\ Len(r) = Len(list1) /\ \A k \in 1..Len(list1) : r[k] = list1[Len(list1) + 1 - k]
  BY <1>1, Reversed
<1>3. r = [k \in 1..Len(r) |-> r[k]] /\ list1 = [k \in 1..Len(list1) |-> list1[k]]
  <2>1. \A z \in Seq(Int) : z = [k \in 1..Len(z) |-> z[k]]
    OBVIOUS
  <2> HIDE DEF r
  <2> QED BY <1>1, <1>2, <2>1
<1>4. r = list1 <=> \A k \in 1..Len(list1) : list1[k] = list1[Len(list1) + 1 - k]
  <2> HIDE DEF r
  <2>1. ASSUME r = list1 PROVE \A k \in 1..Len(list1) : list1[k] = list1[Len(list1) + 1 - k]
    BY <1>2, <2>1
  <2>2. ASSUME \A k \in 1..Len(list1) : list1[k] = list1[Len(list1) + 1 - k] PROVE r = list1
    <3>1. \A k \in 1..Len(list1) : r[k] = list1[k]
      BY <1>2, <2>2
    <3> QED BY <1>2, <1>3, <3>1
  <2> QED BY <2>1, <2>2
<1>5. pc = "done" => \/ out = <<1>> /\ \A k \in 1..Len(list1) : list1[k] = list1[Len(list1) + 1 - k]
                     \/ out = <<0>> /\ \E k \in 1..Len(list1) : list1[k] # list1[Len(list1) + 1 - k]
  BY DEF ResultsInv, PalindromeResult, Size
<1>6. pc = "done" => out = <<IF Reverse(list1) = list1 THEN 1 ELSE 0>>
  BY <1>4, <1>5
<1> QED BY <1>6 DEF MeansWhatItSays, OpenEnded

(* Of the double of an unsigned int the highest bit falls out. *)
LEMMA HighestBit ==
  ASSUME NEW m \in Int
  PROVE  /\ m % (UIntSize \div 2) \in Nat /\ (2 * (m % UIntSize)) % UIntSize \in Nat
         /\ ((2 * (m % UIntSize)) % UIntSize) \div 2 = m % (UIntSize \div 2)
<1> DEFINE u == UIntSize
           h == UIntSize \div 2
           s == m % u
           k == m \div u
           t == (2 * s) % u
           j == (2 * s) \div u
           x == m % h
           y == m \div h
<1>1. u \in Nat /\ u > 0 /\ h \in Nat /\ u = 2 * h /\ h > 0
  BY UIntAssumption
<1> HIDE DEF u, h
<1>2. ASSUME NEW z \in Int, NEW w \in Nat, w > 0
      PROVE  z = (z \div w) * w + (z % w) /\ z % w \in 0..(w - 1) /\ z \div w \in Int
  BY <1>2
<1>3. m = k * u + s /\ s \in 0..(u - 1) /\ k \in Int
  BY <1>1, <1>2
<1>4. 2 * s = j * u + t /\ t \in 0..(u - 1) /\ j \in Int
  BY <1>1, <1>2, <1>3
<1>5. m = y * h + x /\ x \in 0..(h - 1) /\ y \in Int
  BY <1>1, <1>2
<1> HIDE DEF s, k, t, j, x, y
<1> DEFINE v == s - j * h
           z == 2 * k + j
<1>6. t = 2 * v /\ v \in Int
  <2>1. j * u = 2 * (j * h) /\ j * h \in Int
    BY <1>1, <1>4
  <2> QED BY <1>1, <1>3, <1>4, <2>1
<1>7. m = z * h + v /\ z \in Int
  <2>1. z * h = 2 * (k * h) + j * h /\ k * h \in Int /\ j * h \in Int
    BY <1>1, <1>3, <1>4
  <2>2. k * u = 2 * (k * h)
    BY <1>1, <1>3
  <2> QED BY <1>3, <1>4, <2>1, <2>2
<1> HIDE DEF v, z
<1>8. v \in 0..(h - 1)
  BY <1>1, <1>4, <1>6
<1>9. z = y /\ v = x
  BY <1>1, <1>5, <1>7, <1>8, DivisionUnique
<1>10. t \div 2 = v
  BY <1>6, <1>8
<1> QED BY <1>1, <1>4, <1>5, <1>9, <1>10 DEF t, s, x, u, h

(* The invariant of the conversion says, where the program is done, what its name promises. *)
LEMMA BinaryMeans ==
  ASSUME ResultsInv, prog = "binary" PROVE MeansWhatItSays
<1>1. Size \in Nat /\ arg \in Nat /\ Inputs /\ list1 \in Seq({0, 1})
  BY InputFacts DEF ResultsInv, Inputs
<1> DEFINE B == Bits(list1)
           t == (2 * (B % UIntSize)) % UIntSize
<1>2. B \in Int
  <2>1. list1 \in Seq(Int) /\ 2 \in Int
    BY <1>1, InputFacts
  <2> QED BY <2>1, ValueAppend, BitsIs
<1>3. ASSUME pc = "done" PROVE out = <<Or(B % (UIntSize \div 2), arg \div 2)>>
  <2>1. acc = Or(t, arg) /\ out = <<acc \div 2>>
    <3> HIDE DEF Size
    <3>1. PICK c \in 0..(Size + 1) :
            /\ acc = IF c <= Size THEN Bits(SubSeq(list1, 1, c)) % UIntSize
                  ELSE Or((2 * (Bits(list1) % UIntSize)) % UIntSize, arg)
            /\ c = Size + 1 /\ out = <<acc \div 2>>
      BY <1>3 DEF ResultsInv, BinaryResult
    <3>2. ~(c <= Size)
      BY <1>1, <3>1
    <3> QED BY <3>1, <3>2
  <2> HIDE DEF B
  <2>2. t \in Nat /\ t \div 2 = B % (UIntSize \div 2)
    BY <1>2, HighestBit
  <2> HIDE DEF t
  <2>3. Or(t, arg) \div 2 = Or(t \div 2, arg \div 2)
    BY <1>1, <2>2, OrBit
  <2> QED BY <2>1, <2>2, <2>3
<1> QED BY <1>3 DEF MeansWhatItSays, OpenEnded

(* Elements that are in order with their neighbours are in order. *)
LEMMA Neighbours ==
  ASSUME NEW s, NEW m \in Nat, \A k \in 1..m : s[k] \in Int, \A k \in 1..(m - 1) : s[k] <= s[k + 1]
  PROVE  \A j, k \in 1..m : j < k => s[j] <= s[k]
<1> SUFFICES ASSUME NEW j \in 1..m PROVE \A k \in 1..m : j < k => s[j] <= s[k]
  OBVIOUS
<1> DEFINE W == {k \in Nat : k \in 1..m /\ j < k => s[j] <= s[k]}
<1>1. ASSUME NEW k \in Nat, \A x \in Nat : x < k => x \in W
      PROVE  k \in W
  <2> SUFFICES ASSUME k \in 1..m, j < k PROVE s[j] <= s[k]
    OBVIOUS
  <2>1. k - 1 \in Nat /\ k - 1 < k /\ k - 1 \in 1..m /\ k - 1 \in 1..(m - 1) /\ (k - 1) + 1 = k
        /\ (j = k - 1 \/ j < k - 1)
    OBVIOUS
  <2>2. s[k - 1] <= s[k] /\ s[k - 1] \in Int /\ s[k] \in Int /\ s[j] \in Int
    BY <2>1
  <2>3. s[j] <= s[k - 1]
    BY <1>1, <2>1, <2>2
  <2> QED BY <2>2, <2>3
<1> HIDE DEF W
<1>2. W = Nat
  <2>1. W \in SUBSET Nat
    BY DEF W
  <2> QED BY <2>1, <1>1, Induction
<1> QED BY <1>2 DEF W

(* One list behind another. *)
LEMMA BehindIs ==
  \A s, w \in Seq(Int) :
    /\ s \o w \in Seq(Int) /\ Len(s \o w) = Len(s) + Len(w)
    /\ \A j \in 1..Len(s) : (s \o w)[j] = s[j]
    /\ \A j \in 1..Len(w) : (s \o w)[Len(s) + j] = w[j]
OBVIOUS

(* The pairs of both lists one behind the other are the lists, mixed. *)
LEMMA PairsMixed ==
  ASSUME NEW m \in Nat, NEW s \in Seq(Int), NEW w \in Seq(Int), Len(s) = m, Len(w) = m,
         \A k \in 1..m : s[k] = list1[k] /\ w[k] = list2[k], NEW x
  PROVE  Count(Pairs(m), x) = Count(s \o w, x)
<1> DEFINE X == 1..(2 * m)
           t == s \o w
           lt(j) == list1[j] < list2[j]
           g == [k \in X |-> IF Odd(k) THEN (IF lt((k + 1) \div 2) THEN (k + 1) \div 2 ELSE m + (k + 1) \div 2)
                                       ELSE (IF lt(k \div 2) THEN m + k \div 2 ELSE k \div 2)]
<1>1. \A k \in X : \/ Odd(k) /\ \E j \in 1..m : k = 2 * j - 1 /\ (k + 1) \div 2 = j
                   \/ ~Odd(k) /\ \E j \in 1..m : k = 2 * j /\ k \div 2 = j
  <2> TAKE k \in X
  <2>1. CASE Odd(k)
    <3> DEFINE b == (k + 1) \div 2
    <3>1. b \in 1..m /\ k = 2 * b - 1
      BY <2>1 DEF Odd
    <3> QED BY <2>1, <3>1
  <2>2. CASE ~Odd(k)
    <3> DEFINE b == k \div 2
    <3>1. b \in 1..m /\ k = 2 * b
      BY <2>2 DEF Odd
    <3> QED BY <2>2, <3>1
  <2> QED BY <2>1, <2>2
<1>2. \A j \in 1..m : /\ 2 * j - 1 \in X /\ 2 * j \in X /\ Odd(2 * j - 1) /\ ~Odd(2 * j)
                      /\ ((2 * j - 1) + 1) \div 2 = j /\ (2 * j) \div 2 = j
                      /\ j \in X /\ m + j \in X
  BY DEF Odd
<1>3. \A j \in 1..m : /\ g[2 * j - 1] = IF lt(j) THEN j ELSE m + j
                      /\ g[2 * j] = IF lt(j) THEN m + j ELSE j
  <2> TAKE j \in 1..m
  <2> HIDE DEF X
  <2>1. g[2 * j - 1] = IF lt(((2 * j - 1) + 1) \div 2) THEN ((2 * j - 1) + 1) \div 2 ELSE m + ((2 * j - 1) + 1) \div 2
    BY <1>2
  <2>2. g[2 * j] = IF lt((2 * j) \div 2) THEN m + (2 * j) \div 2 ELSE (2 * j) \div 2
    BY <1>2
  <2> QED BY <1>2, <2>1, <2>2
<1>4. DOMAIN g = X
  OBVIOUS
<1>5. \A k \in X : \E j \in 1..m : \/ k = 2 * j - 1 /\ g[k] = IF lt(j) THEN j ELSE m + j
                                   \/ k = 2 * j /\ g[k] = IF lt(j) THEN m + j ELSE j
  <2> HIDE DEF g, X, lt
  <2> QED BY <1>1, <1>3
<1> HIDE DEF g
<1>6. g \in [X -> X]
  <2>1. \A k \in X : g[k] \in X
    <3> TAKE k \in X
    <3>1. PICK j \in 1..m : \/ k = 2 * j - 1 /\ g[k] = IF lt(j) THEN j ELSE m + j
                            \/ k = 2 * j /\ g[k] = IF lt(j) THEN m + j ELSE j
      BY <1>5
    <3> HIDE DEF X, lt
    <3> QED BY <1>2, <3>1
  <2>2. g = [k \in X |-> g[k]]
    BY DEF g
  <2> HIDE DEF X
  <2> QED BY <2>1, <2>2
<1>7. ASSUME NEW a \in X, NEW b \in X, g[a] = g[b] PROVE a = b
  <2>1. PICK j \in 1..m : \/ a = 2 * j - 1 /\ g[a] = IF lt(j) THEN j ELSE m + j
                          \/ a = 2 * j /\ g[a] = IF lt(j) THEN m + j ELSE j
    BY <1>5
  <2>2. PICK k \in 1..m : \/ b = 2 * k - 1 /\ g[b] = IF lt(k) THEN k ELSE m + k
                          \/ b = 2 * k /\ g[b] = IF lt(k) THEN m + k ELSE k
    BY <1>5
  <2>3. j = k
    <3>1. (g[a] = j \/ g[a] = m + j) /\ (g[b] = k \/ g[b] = m + k)
      BY <2>1, <2>2
    <3>2. j \in Nat /\ k \in Nat /\ j # m + k /\ k # m + j /\ (m + j = m + k => j = k)
      OBVIOUS
    <3> QED BY <1>7, <3>1, <3>2
  <2>4. j # m + j
    OBVIOUS
  <2> HIDE DEF lt
  <2> QED BY <1>7, <2>1, <2>2, <2>3, <2>4
<1>8. ASSUME NEW b \in X PROVE \E k \in X : g[k] = b
  <2>1. CASE b \in 1..m
    BY <1>2, <1>3, <2>1
  <2>2. CASE b \notin 1..m
    <3>1. b - m \in 1..m /\ m + (b - m) = b
      BY <2>2
    <3> HIDE DEF X, lt
    <3>2. g[2 * (b - m) - 1] = b \/ g[2 * (b - m)] = b
      BY <1>3, <3>1
    <3> QED BY <1>2, <3>1, <3>2
  <2> QED BY <2>1, <2>2
<1>9. g \in Bijection(X, X)
  <2> HIDE DEF X
  <2> QED BY <1>6, <1>7, <1>8 DEF Bijection, Injection, Surjection, IsInjective
<1>10. t \in Seq(Int) /\ Len(t) = m + m /\ \A j \in 1..m : t[j] = list1[j] /\ t[m + j] = list2[j]
  <2>1. s \in Seq(Int) /\ w \in Seq(Int) /\ Len(s) = m /\ Len(w) = m
        /\ \A k \in 1..m : s[k] = list1[k] /\ w[k] = list2[k]
    OBVIOUS
  <2>2. t \in Seq(Int) /\ Len(t) = Len(s) + Len(w)
        /\ (\A j \in 1..Len(s) : t[j] = s[j]) /\ \A j \in 1..Len(w) : t[Len(s) + j] = w[j]
    BY ONLY <2>1, BehindIs, Zenon
  <2> HIDE DEF t
  <2> QED BY <2>1, <2>2
<1>11. DOMAIN t = X /\ DOMAIN Pairs(m) = X /\ 2 * m \in Nat
  <2>1. DOMAIN t = 1..(m + m)
    BY <1>10
  <2>2. m + m = 2 * m
    OBVIOUS
  <2>3. DOMAIN Pairs(m) = X
    BY DEF Pairs
  <2> HIDE DEF t
  <2> QED BY <2>1, <2>2, <2>3
<1> HIDE DEF t
<1>12. \A k \in X : Pairs(m)[k] = t[g[k]]
  <2> TAKE k \in X
  <2>1. PICK j \in 1..m : \/ k = 2 * j - 1 /\ g[k] = IF lt(j) THEN j ELSE m + j
                          \/ k = 2 * j /\ g[k] = IF lt(j) THEN m + j ELSE j
    BY <1>5
  <2>2. Pairs(m)[k] = IF Odd(k) THEN Small((k + 1) \div 2) ELSE Large(k \div 2)
    BY DEF Pairs
  <2>3. CASE k = 2 * j - 1
    <3>1. Pairs(m)[k] = Small(j)
      BY <1>2, <2>2, <2>3
    <3>2. g[k] = IF lt(j) THEN j ELSE m + j
      BY <1>3, <2>3
    <3> QED BY <1>10, <3>1, <3>2 DEF Small
  <2>4. CASE k = 2 * j
    <3>1. Pairs(m)[k] = Large(j)
      BY <1>2, <2>2, <2>4
    <3>2. g[k] = IF lt(j) THEN m + j ELSE j
      BY <1>3, <2>4
    <3> QED BY <1>10, <3>1, <3>2 DEF Large
  <2> QED BY <2>1, <2>3, <2>4
<1> DEFINE l == 2 * m
<1>13. DOMAIN Pairs(m) = 1..l /\ DOMAIN t = 1..l /\ g \in Bijection(1..l, 1..l) /\ l \in Nat
       /\ \A k \in 1..l : Pairs(m)[k] = t[g[k]]
  BY <1>9, <1>11, <1>12
<1> HIDE DEF l, X
<1>14. Count(Pairs(m), x) = Count(t, x)
  BY <1>13, CountPermuted
<1> QED BY <1>14 DEF t

(* They are sorted if every pair is below the next. *)
LEMMA PairsSorted ==
  ASSUME NEW m \in Nat, \A k \in 1..m : list1[k] \in Int /\ list2[k] \in Int
  PROVE  Sorted(Pairs(m)) <=> \A k \in 1..(m - 1) : Large(k) <= Small(k + 1)
<1> DEFINE l == 2 * m
           o == Pairs(m)
<1>1. \A k \in 1..m : Small(k) \in Int /\ Large(k) \in Int /\ Small(k) <= Large(k)
  BY DEF Small, Large
<1>2. \A k \in 1..l : o[k] = IF Odd(k) THEN Small((k + 1) \div 2) ELSE Large(k \div 2)
  BY DEF Pairs
<1>3. DOMAIN o = 1..l /\ l \in Nat
  BY DEF Pairs
<1>4. \A j \in 1..m : /\ 2 * j - 1 \in 1..l /\ 2 * j \in 1..l /\ Odd(2 * j - 1) /\ ~Odd(2 * j)
                      /\ ((2 * j - 1) + 1) \div 2 = j /\ (2 * j) \div 2 = j
  BY DEF Odd
<1>5. \A j \in 1..m : o[2 * j - 1] = Small(j) /\ o[2 * j] = Large(j)
  <2> TAKE j \in 1..m
  <2> HIDE DEF l, o
  <2>1. o[2 * j - 1] = IF Odd(2 * j - 1) THEN Small(((2 * j - 1) + 1) \div 2) ELSE Large((2 * j - 1) \div 2)
    BY <1>2, <1>4
  <2>2. o[2 * j] = IF Odd(2 * j) THEN Small((2 * j + 1) \div 2) ELSE Large((2 * j) \div 2)
    BY <1>2, <1>4
  <2> QED BY <1>4, <2>1, <2>2
<1>6. \A k \in 1..l : \E j \in 1..m : k = 2 * j - 1 \/ k = 2 * j
  <2> TAKE k \in 1..l
  <2>1. CASE Odd(k)
    <3> DEFINE b == (k + 1) \div 2
    <3>1. b \in 1..m /\ k = 2 * b - 1
      BY <2>1 DEF Odd
    <3> QED BY <3>1
  <2>2. CASE ~Odd(k)
    <3> DEFINE b == k \div 2
    <3>1. b \in 1..m /\ k = 2 * b
      BY <2>2 DEF Odd
    <3> QED BY <3>1
  <2> QED BY <2>1, <2>2
<1> HIDE DEF o
<1>7. ASSUME Sorted(o) PROVE \A k \in 1..(m - 1) : Large(k) <= Small(k + 1)
  <2> TAKE k \in 1..(m - 1)
  <2>1. k \in 1..m /\ k + 1 \in 1..m /\ 2 * k < 2 * (k + 1) - 1
    OBVIOUS
  <2>2. 2 * k \in DOMAIN o /\ 2 * (k + 1) - 1 \in DOMAIN o
    BY <1>3, <1>4, <2>1
  <2>3. o[2 * k] <= o[2 * (k + 1) - 1]
    BY <1>7, <2>1, <2>2 DEF Sorted
  <2> QED BY <1>5, <2>1, <2>3
<1>8. ASSUME \A k \in 1..(m - 1) : Large(k) <= Small(k + 1) PROVE Sorted(o)
  <2>1. \A k \in 1..l : o[k] \in Int
    BY <1>1, <1>5, <1>6
  <2>2. \A k \in 1..(l - 1) : o[k] <= o[k + 1]
    <3> TAKE k \in 1..(l - 1)
    <3>1. k \in 1..l /\ k + 1 <= 2 * m
      OBVIOUS
    <3>2. PICK j \in 1..m : k = 2 * j - 1 \/ k = 2 * j
      BY <1>6, <3>1
    <3>3. CASE k = 2 * j - 1
      <4>1. k + 1 = 2 * j
        BY <3>3
      <4> QED BY <1>1, <1>5, <3>3, <4>1
    <3>4. CASE k = 2 * j
      <4>1. j \in 1..(m - 1) /\ j + 1 \in 1..m /\ k + 1 = 2 * (j + 1) - 1
        BY <3>1, <3>4
      <4>2. o[k] = Large(j) /\ o[k + 1] = Small(j + 1)
        BY <1>5, <3>4, <4>1
      <4> QED BY <1>8, <4>1, <4>2
    <3> QED BY <3>2, <3>3, <3>4
  <2> HIDE DEF l
  <2>3. \A j, k \in 1..l : j < k => o[j] <= o[k]
    BY <1>3, <2>1, <2>2, Neighbours
  <2> QED BY <1>3, <2>3 DEF Sorted
<1> QED BY <1>7, <1>8 DEF o

(* The first elements of a list. *)
LEMMA FirstPart ==
  ASSUME NEW s \in Seq(Int), NEW m \in Nat, m <= Len(s)
  PROVE  SubSeq(s, 1, m) \in Seq(Int) /\ Len(SubSeq(s, 1, m)) = m /\ \A k \in 1..m : SubSeq(s, 1, m)[k] = s[k]
OBVIOUS

(* The invariant of mergelist says, where the program is done, what its name promises. *)
LEMMA MergeMeans ==
  ASSUME ResultsInv, prog = "mergelist" PROVE MeansWhatItSays
<1> DEFINE min(k) == IF list1[k] < list2[k] THEN list1[k] ELSE list2[k]
           max(k) == list1[k] + list2[k] - min(k)
           w == SubSeq(list2, 1, Len(list1))
<1>1. Size \in Nat /\ Size = Len(list1) /\ list1 \in Seq(Int) /\ list2 \in Seq(Int) /\ Len(list2) \in Nat
  BY InputFacts DEF ResultsInv, Size
<1>2. ASSUME pc = "done" PROVE out = Pairs(Size) /\ Size <= Len(list2)
  <2>1. i = Size /\ i \in 0..Shorter /\ out = Pairs(i)
    BY <1>2 DEF ResultsInv, MergeResult
  <2>2. Shorter <= Len(list2) /\ Shorter \in Nat
    BY <1>1 DEF Shorter
  <2> HIDE DEF Size
  <2> QED BY <1>1, <2>1, <2>2
<1>3. ASSUME pc = "done", NEW x PROVE Count(out, x) = Count(list1 \o w, x)
  <2>1. w \in Seq(Int) /\ Len(w) = Size /\ \A k \in 1..Size : w[k] = list2[k]
    <3>1. Size <= Len(list2)
      BY <1>2, <1>3
    <3> HIDE DEF Size
    <3> QED BY <1>1, <3>1, FirstPart
  <2> HIDE DEF Size, w
  <2>2. Count(Pairs(Size), x) = Count(list1 \o w, x)
    <3>1. Len(list1) = Size /\ \A k \in 1..Size : list1[k] = list1[k] /\ w[k] = list2[k]
      BY <1>1, <2>1
    <3> QED BY <1>1, <2>1, <3>1, PairsMixed, SMTT(20)
  <2> QED BY <1>2, <1>3, <2>2
<1>4. ASSUME pc = "done" PROVE Sorted(out) <=> \A k \in 1..(Len(list1) - 1) : max(k) <= min(k + 1)
  <2>1. \A k \in 1..Size : list1[k] \in Int /\ list2[k] \in Int
    <3>1. \A k \in 1..Size : k \in 1..Len(list1) /\ k \in 1..Len(list2)
      BY <1>1, <1>2, <1>4
    <3> QED BY <1>1, <3>1
  <2>2. \A k \in 1..Size : min(k) = Small(k) /\ max(k) = Large(k)
    BY <2>1 DEF Small, Large
  <2> HIDE DEF Size, min, max
  <2>3. Sorted(out) <=> \A k \in 1..(Size - 1) : Large(k) <= Small(k + 1)
    BY <1>1, <1>2, <1>4, <2>1, PairsSorted
  <2>4. \A k \in 1..(Size - 1) : k \in 1..Size /\ k + 1 \in 1..Size
    BY <1>1
  <2>5. Sorted(out) <=> \A k \in 1..(Size - 1) : max(k) <= min(k + 1)
    BY <2>2, <2>3, <2>4
  <2> QED BY <1>1, <2>5
<1> HIDE DEF w
<1>5. pc = "done" =>
        /\ \A x \in Values : Count(out, x) = Count(list1 \o SubSeq(list2, 1, Len(list1)), x)
        /\ Sorted(out) <=> \A k \in 1..(Len(list1) - 1) : max(k) <= min(k + 1)
  BY <1>3, <1>4 DEF w
<1> QED BY <1>5 DEF MeansWhatItSays, OpenEnded

-----------------------------------------------------------------------------
(* The invariant of its program says all that a program has to do. *)
LEMMA ResultsAre == ResultsInv => ResultsRight
<1> SUFFICES ASSUME ResultsInv PROVE ResultsRight
  OBVIOUS
<1>1. Inputs
  BY DEF ResultsInv
<1>2. \/ prog \in {"getlength", "findmid", "findnode", "partition"}
      \/ prog \in {"deletenode", "reverse", "movelast", "swap_two", "remove_node", "seg"}
      \/ prog = "ispalindrome" \/ prog \in TwoLists \/ prog \in ExtraNode
  BY <1>1 DEF Inputs, Programs, TwoLists, WithArg, ExtraNode
<1>3. Sound
  BY <1>2, SoundWalks, SoundChanges, SoundPalindrome, SoundBoth, SoundLonger
<1>4. TypeOK
  BY <1>1, <1>3, SoundTypes
<1>5. CASE prog \in {"deletenode", "reverse", "movelast", "remove_node"}
  BY <1>3, <1>4, <1>5, ChangesMean DEF ResultsRight
<1>6. CASE prog \notin {"deletenode", "reverse", "movelast", "remove_node"}
  <2>1. NothingLost
    BY <1>3, <1>6, LinksStay
  <2>2. MeansWhatItSays
    <3>1. CASE prog \in {"getlength", "findmid", "findnode", "partition"}
      BY <3>1, LengthMeans, MidMeans, NodeMeans, PartitionMeans
    <3>2. CASE prog \in {"swap_two", "seg", "ispalindrome"}
      BY <1>3, <3>2, SwapMeans, SegMeans, PalindromeMeans
    <3>3. CASE prog \in TwoLists
      BY <3>3, AddMeans, CompareMeans, IntersectionMeans, MergeMeans DEF TwoLists
    <3>4. CASE prog \in ExtraNode
      BY <1>3, <3>4, CopyMeans, BinaryMeans, VisitMeans DEF ExtraNode
    <3> QED BY <1>2, <1>6, <3>1, <3>2, <3>3, <3>4
  <2> QED BY <1>4, <2>1, <2>2 DEF ResultsRight
<1> QED BY <1>5, <1>6

(* Every program on a list of any numbers, of any length: it changes its heap as
   it should, loses no node, follows no freed one, and returns what its name says,
   with the exceptions that MeansWhatItSays names. *)
THEOREM ResultsAlwaysRight == Spec => []ResultsRight
<1>1. Init => QuestionsInv /\ ResultsInv
  BY QuestionsInit, ResultsInit
<1>2. (QuestionsInv /\ ResultsInv) /\ [Next]_vars => (QuestionsInv /\ ResultsInv)'
  BY QuestionsStep, ResultsStep
<1>3. QuestionsInv /\ ResultsInv => ResultsRight
  BY ResultsAre
<1> QED
  BY <1>1, <1>2, <1>3, PTL DEF Spec

(* Whatever the arrays of the questions hold and however long they are, the two
   pointers of a function keep their distance, and a program follows NULL, or a
   pointer that was never set, on exactly the inputs that CrashesExactly names. *)
THEOREM QuestionsStayInList == Spec => []StaysInList
<1>1. Init => QuestionsInv /\ ResultsInv
  BY QuestionsInit, ResultsInit
<1>2. (QuestionsInv /\ ResultsInv) /\ [Next]_vars => (QuestionsInv /\ ResultsInv)'
  BY QuestionsStep, ResultsStep
<1>3. QuestionsInv /\ ResultsInv => StaysInList
  <2> SUFFICES ASSUME QuestionsInv, ResultsInv PROVE StaysInList
    OBVIOUS
  <2>1. PointersInStep
    <3>1. prog \in {"findmid", "ispalindrome"} /\ pc = "run" /\ q # 0 => q = 2 * p - 1
      BY DEF QuestionsInv, FindMidInv
    <3>2. prog = "findnode" /\ pc = "both" /\ p # 0 => (IF q = 0 THEN Size + 1 ELSE q) - p = arg
      BY Sizes DEF QuestionsInv, FindNodeInv
    <3>3. prog \in {"remove_node", "swap_two"} /\ pc = "run" => next[p] = q
      BY DEF QuestionsInv, RemoveInv, SwapInv
    <3>4. prog = "reverse" /\ pc = "run" /\ q # 0 => p = q - 1
      BY DEF QuestionsInv, ReverseInv
    <3> QED
      BY <3>1, <3>2, <3>3, <3>4 DEF PointersInStep, Size
  <2>2. CASE prog \notin OpenEnded
    <3>1. CrashesExactly
      BY <2>2, Sizes DEF CrashesExactly, OpenEnded, QuestionsInv, Safe, Unsafe, FindMidInv, FindNodeInv,
         ReverseInv, MoveLastInv, SwapInv, RemoveInv, MergeInv, Size
    <3> QED BY <2>1, <3>1 DEF StaysInList
  <2>3. CASE prog = "deepcopy"
    <3>1. CrashesExactly
      BY <2>3 DEF CrashesExactly, ResultsInv, CopyResult, EndOfPrint
    <3> QED BY <2>1, <3>1 DEF StaysInList
  <2>4. CASE prog = "addlist"
    <3>1. SomeDigit <=> \E d \in ToSet(list1 \o list2) : d > 0
      BY SomeDigitIs DEF ResultsInv
    <3>2. (pc = "crashed" => loose # 0 /\ SomeDigit) /\ (pc = "done" => ~(loose # 0 /\ SomeDigit))
      BY <2>4 DEF ResultsInv, AddResult
    <3>3. CrashesExactly
      BY <2>4, <3>1, <3>2 DEF CrashesExactly
    <3> QED BY <2>1, <3>3 DEF StaysInList
  <2> QED
    BY <2>2, <2>3, <2>4 DEF OpenEnded
<1> QED
  BY <1>1, <1>2, <1>3, PTL DEF Spec
=============================================================================
