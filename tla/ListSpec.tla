------------------------------ MODULE ListSpec ------------------------------
(***************************************************************************)
(* What the functions of LinkedList/list.c mean, on sequences.  Two lists  *)
(* (head and head2 of ll.c) are two sequences.  Each function is one step: *)
(* if the condition under which the code behaves holds, the list it was    *)
(* called with becomes a new sequence and out is what the function returns *)
(* or prints; otherwise the program has undefined behaviour and the lists  *)
(* are Broken.                                                             *)
(***************************************************************************)
EXTENDS Integers, Sequences, SequencesExt

CONSTANTS
  Items,   \* the data of the nodes
  MaxPos,  \* the largest position asked for
  Broken,  \* the value of the lists after undefined behaviour
  None     \* no result

Lists == {1, 2}
Positions == 0..MaxPos

VARIABLES
  lists,  \* the two sequences, or Broken
  call,   \* the last call: function, list, arguments
  out     \* its result

vars == <<lists, call, out>>

Init == lists = [l \in Lists |-> <<>>] /\ call = <<>> /\ out = None

(* A call on list l.  safe: the code does not leave its lists; new: the list
   after the call. *)
Does(c, l, safe, new, result) ==
  /\ lists # Broken
  /\ call' = c
  /\ \/ safe /\ lists' = [lists EXCEPT ![l] = new] /\ out' = result
     \/ ~safe /\ lists' = Broken /\ out' = None

-----------------------------------------------------------------------------
(* The node at the middle, the first of two. *)
MiddleOf(s) == (Len(s) + 1) \div 2

Sorted(s) == SortSeq(s, LAMBDA a, b : a <= b)

Evens(s) == SelectSeq(s, LAMBDA x : x % 2 = 0)
Odds(s)  == SelectSeq(s, LAMBDA x : x % 2 = 1)

(* Every second element goes, but never the last of the list. *)
WithoutAlternate(s) ==
  [i \in 1..((Len(s) + 2) \div 2) |-> IF 2*i-1 <= Len(s) THEN s[2*i-1] ELSE s[Len(s)]]

Swapped(s) == [i \in 1..Len(s) |-> IF i % 2 = 1 THEN s[i+1] ELSE s[i-1]]

(* Element k of t is merged before the first element of s, from the i-th on,
   that it does not exceed; i then moves beyond that element. *)
RECURSIVE MergedInto(_, _)
MergedInto(s, t) ==
  IF s = <<>> \/ t = <<>> THEN s
  ELSE IF t[1] <= s[1] THEN <<t[1], s[1]>> \o MergedInto(Tail(s), Tail(t))
                       ELSE <<s[1]>> \o MergedInto(Tail(s), t)

-----------------------------------------------------------------------------
(* On an empty list the next pointer of the new node is whatever malloc left
   there. *)
AddToListAtBegin(l, x) ==
  LET c == <<"addToListAtBegin", l, x>> IN
  \/ Does(c, l, TRUE, <<x>> \o lists[l], None)
  \/ lists # Broken /\ lists[l] = <<>> /\ Does(c, l, FALSE, <<>>, None)

AddToListAtEnd(l, x) ==
  Does(<<"addToListAtEnd", l, x>>, l, TRUE, Append(lists[l], x), None)

AddToListAtPos(l, x, pos) ==
  LET s == lists[l] IN
  Does(<<"addToListAtPos", l, x, pos>>, l, TRUE,
       IF pos \in 1..(Len(s) + 1) THEN InsertAt(s, pos, x) ELSE s, None)

RemoveFromListAtBegin(l) ==
  LET s == lists[l] IN
  Does(<<"removeFromListAtBegin", l>>, l, TRUE,
       IF s = <<>> THEN s ELSE Tail(s), IF s = <<>> THEN None ELSE Head(s))

(* Not of the last remaining element. *)
RemoveFromListAtEnd(l) ==
  LET s == lists[l] IN
  Does(<<"removeFromListAtEnd", l>>, l, Len(s) >= 2, Front(s), Last(s))

RemoveFromListAtPos(l, pos) ==
  LET s == lists[l]
      valid == pos \in 1..Len(s)
  IN Does(<<"removeFromListAtPos", l, pos>>, l, TRUE,
          IF valid THEN RemoveAt(s, pos) ELSE s, IF valid THEN s[pos] ELSE None)

Destroy(l) == Does(<<"destroy", l>>, l, TRUE, <<>>, None)

ReverseList(l) == Does(<<"reverseList", l>>, l, TRUE, Reverse(lists[l]), None)

-----------------------------------------------------------------------------
Display(l) ==
  LET s == lists[l] IN Does(<<"display", l>>, l, s # <<>>, s, s)

MiddleList(l) ==
  LET s == lists[l] IN Does(<<"middleList", l>>, l, s # <<>>, s, s[MiddleOf(s)])

LengthList(l) ==
  LET s == lists[l] IN Does(<<"lengthList", l>>, l, TRUE, s, Len(s))

FindNthFromEnd(l, pos) ==
  LET s == lists[l] IN
  Does(<<"findNthFromEnd", l, pos>>, l, pos <= Len(s), s,
       IF pos = 0 THEN None ELSE s[Len(s) - pos + 1])

(* The caller has linked the tail to the element at entry (0: to nothing). *)
IsCyclePresent(l, entry) ==
  LET s == lists[l] IN
  /\ lists # Broken
  /\ entry <= Len(s)
  /\ Does(<<"isCyclePresent", l, entry>>, l, entry # 0 \/ Len(s) >= 2, s,
          IF entry = 0 THEN <<0>> ELSE <<1, s[entry]>>)

(* A list that is no palindrome loses its end. *)
IsListPalindrome(l) ==
  LET s == lists[l]
      n == Len(s)
      same == s = Reverse(s)
      kept == IF same THEN n ELSE IF n % 2 = 0 THEN n \div 2 ELSE (n + 3) \div 2
  IN Does(<<"isListPalindrome", l>>, l, n > 0, SubSeq(s, 1, kept), IF same THEN 1 ELSE 0)

-----------------------------------------------------------------------------
(* Neither the first element nor the one behind the last. *)
MovePosToFirst(l, pos) ==
  LET s == lists[l] IN
  Does(<<"movePosToFirst", l, pos>>, l, pos # 1 /\ pos # Len(s) + 1,
       IF pos \in 2..Len(s) THEN <<s[pos]>> \o RemoveAt(s, pos) ELSE s, None)

MoveLastToFirst(l) ==
  LET s == lists[l] IN
  Does(<<"moveLastToFirst", l>>, l, Len(s) # 1,
       IF s = <<>> THEN s ELSE <<Last(s)>> \o Front(s), None)

DeleteAltNodes(l) ==
  LET s == lists[l] IN
  Does(<<"deleteAltNodes", l>>, l, s # <<>>, WithoutAlternate(s), None)

SwapPairWise(l) ==
  LET s == lists[l] IN
  Does(<<"swapPairWise", l>>, l, s # <<>> /\ Len(s) % 2 = 0, Swapped(s), None)

SeparateEvenOddElements(l) ==
  LET s == lists[l] IN
  Does(<<"separateEvenOddElements", l>>, l, Evens(s) # <<>> /\ Odds(s) # <<>>,
       Evens(s) \o Odds(s), None)

MergeSort(l) == Does(<<"MergeSort", l>>, l, TRUE, Sorted(lists[l]), None)

(* The nodes of the other list move; what is left of it is lost. *)
MergeSortedList(l, k) ==
  /\ lists # Broken
  /\ call' = <<"mergeSortedList", l, k>>
  /\ lists' = [lists EXCEPT ![l] = MergedInto(lists[l], lists[k]), ![k] = <<>>]
  /\ out' = None

-----------------------------------------------------------------------------
Next ==
  \/ \E l \in Lists :
       \/ \E x \in Items : \/ AddToListAtBegin(l, x)
                           \/ AddToListAtEnd(l, x)
                           \/ \E pos \in Positions : AddToListAtPos(l, x, pos)
       \/ \E pos \in Positions : \/ RemoveFromListAtPos(l, pos)
                                 \/ FindNthFromEnd(l, pos)
                                 \/ MovePosToFirst(l, pos)
                                 \/ IsCyclePresent(l, pos)
       \/ RemoveFromListAtBegin(l) \/ RemoveFromListAtEnd(l)
       \/ Destroy(l) \/ ReverseList(l) \/ Display(l) \/ MiddleList(l) \/ LengthList(l)
       \/ IsListPalindrome(l) \/ MoveLastToFirst(l) \/ DeleteAltNodes(l)
       \/ SwapPairWise(l) \/ SeparateEvenOddElements(l) \/ MergeSort(l)
  \/ \E l, k \in Lists : l # k /\ MergeSortedList(l, k)

Spec == Init /\ [][Next]_vars
=============================================================================
