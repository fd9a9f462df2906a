----------------------------- MODULE LinkedList -----------------------------
(***************************************************************************)
(* The singly linked lists of LinkedList/list.c on a heap of nodes.  Any   *)
(* sequence of calls may be made on two lists, as main of ll.c does on its *)
(* head and head2.  A loop of the code is a recursive operator over the    *)
(* next pointers; a call is one action.  Dereferencing NULL or a pointer   *)
(* that was never set is a crash and ends the behaviour.                   *)
(***************************************************************************)
EXTENDS Integers, Sequences, FiniteSets

CONSTANTS
  Nodes,   \* the nodes malloc can return (a bound on the lists)
  Items,   \* the data of the nodes
  MaxPos,  \* the largest position asked for
  NULL,
  Freed,   \* the next pointer of memory that is not allocated
  Uninit,  \* a pointer variable that was never set
  None,    \* no result; the data of memory that is not allocated
  Broken   \* the lists after a crash, in the abstract specification

ASSUME ItemsAssumption == Items \subseteq Nat
ASSUME MaxPosAssumption == MaxPos \in Nat

Lists == {1, 2}
Positions == 0..MaxPos

VARIABLES
  head,     \* the callers' head pointers
  next,     \* the next pointer of every node
  data,     \* the data of every node
  crashed,  \* the last call left its lists
  call,     \* the last call
  out       \* what it returned or printed

vars == <<head, next, data, crashed, call, out>>

Pointer == Nodes \cup {NULL}
Unused == {n \in Nodes : next[n] = Freed}

Init ==
  /\ head = [l \in Lists |-> NULL]
  /\ next = [n \in Nodes |-> Freed] /\ data = [n \in Nodes |-> None]
  /\ crashed = FALSE /\ call = <<>> /\ out = None

Crash(c) ==
  /\ ~crashed
  /\ crashed' = TRUE /\ call' = c /\ out' = None
  /\ UNCHANGED <<head, next, data>>

(* The call returns with the head h of list l and the next pointers nx; freed
   nodes lose their data. *)
Return(c, l, h, nx, result) ==
  /\ ~crashed
  /\ head' = [head EXCEPT ![l] = h]
  /\ next' = nx
  /\ data' = [n \in Nodes |-> IF nx[n] = Freed THEN None ELSE data[n]]
  /\ call' = c /\ out' = result
  /\ UNCHANGED crashed

(* The call returns with the new node n in list l. *)
Inserted(c, l, n, x, h, nx) ==
  /\ ~crashed
  /\ head' = [head EXCEPT ![l] = h]
  /\ next' = nx
  /\ data' = [data EXCEPT ![n] = x]
  /\ call' = c /\ out' = None
  /\ UNCHANGED crashed

Looked(c, l, result) == Return(c, l, head[l], next, result)

-----------------------------------------------------------------------------
(* while (t->next) { p = t; t = t->next; } *)
RECURSIVE End(_, _, _)
End(nx, p, t) ==
  IF nx[t] = NULL THEN [p |-> p, t |-> t] ELSE End(nx, t, nx[t])

(* while (t) { if (c == pos) break; p = t; t = t->next; c++; } *)
RECURSIVE Seek(_, _, _, _)
Seek(pos, p, t, c) ==
  IF t = NULL \/ c = pos THEN [p |-> p, t |-> t, c |-> c]
                         ELSE Seek(pos, t, next[t], c + 1)

Find(l, pos) == Seek(pos, Uninit, head[l], 1)

(* lengthList *)
RECURSIVE Length(_)
Length(t) == IF t = NULL THEN 0 ELSE 1 + Length(next[t])

(* reverseList from t on, onto q: the new head and the next pointers. *)
RECURSIVE Reversed(_, _, _)
Reversed(nx, q, t) ==
  IF t = NULL THEN [h |-> q, nx |-> nx]
              ELSE Reversed([nx EXCEPT ![t] = q], t, nx[t])

(* getMiddleList: s and f of the loop. *)
RECURSIVE Middle(_, _, _)
Middle(nx, s, f) ==
  IF f = NULL \/ nx[f] = NULL THEN s ELSE Middle(nx, nx[s], nx[nx[f]])

GetMiddleList(nx, h) == Middle(nx, h, nx[h])

-----------------------------------------------------------------------------
(* malloc does not clear the node: without a head its next pointer may be a
   stale one.  The list is then unusable, which counts as a crash. *)
AddToListAtBegin(l, x) ==
  LET c == <<"addToListAtBegin", l, x>> IN
  \E n \in Unused :
    \/ Inserted(c, l, n, x, n, [next EXCEPT ![n] = head[l]])
    \/ head[l] = NULL /\ Crash(c)

AddToListAtEnd(l, x) ==
  \E n \in Unused :
    LET h == head[l]
        nx == [next EXCEPT ![n] = NULL]
    IN Inserted(<<"addToListAtEnd", l, x>>, l, n, x,
                IF h = NULL THEN n ELSE h,
                IF h = NULL THEN nx ELSE [nx EXCEPT ![End(next, Uninit, h).t] = n])

AddToListAtPos(l, x, pos) ==
  \E n \in Unused :
    LET c == <<"addToListAtPos", l, x, pos>>
        e == Find(l, pos)
        nx == [next EXCEPT ![n] = e.t]
    IN \/ e.c # pos /\ Looked(c, l, None)
       \/ e.c = pos /\ e.t = head[l] /\ Inserted(c, l, n, x, n, nx)
       \/ e.c = pos /\ e.t # head[l] /\ Inserted(c, l, n, x, head[l], [nx EXCEPT ![e.p] = n])

RemoveFromListAtBegin(l) ==
  LET c == <<"removeFromListAtBegin", l>>
      t == head[l]
  IN \/ t = NULL /\ Looked(c, l, None)
     \/ t # NULL /\ Return(c, l, next[t], [next EXCEPT ![t] = Freed], data[t])

(* The only node has no predecessor p. *)
RemoveFromListAtEnd(l) ==
  LET c == <<"removeFromListAtEnd", l>>
      h == head[l]
      e == End(next, Uninit, h)
  IN \/ h = NULL /\ Crash(c)
     \/ h # NULL /\ e.p = Uninit /\ Crash(c)
     \/ /\ h # NULL /\ e.p # Uninit
        /\ Return(c, l, h, [next EXCEPT ![e.p] = NULL, ![e.t] = Freed], data[e.t])

(* Mutant: the node is not freed. *)
RemoveFromListAtPos_Keeps(l, pos) ==
  LET c == <<"removeFromListAtPos", l, pos>>
      e == Find(l, pos)
  IN \/ e.t = NULL /\ Looked(c, l, None)
     \/ e.t # NULL /\ e.t = head[l] /\ Return(c, l, next[e.t], next, data[e.t])
     \/ /\ e.t # NULL /\ e.t # head[l]
        /\ Return(c, l, head[l], [next EXCEPT ![e.p] = next[e.t]], data[e.t])

RemoveFromListAtPos(l, pos) ==
  LET c == <<"removeFromListAtPos", l, pos>>
      e == Find(l, pos)
      nx == [next EXCEPT ![e.t] = Freed]
  IN \/ e.t = NULL /\ Looked(c, l, None)
     \/ e.t # NULL /\ e.t = head[l] /\ Return(c, l, next[e.t], nx, data[e.t])
     \/ /\ e.t # NULL /\ e.t # head[l]
        /\ Return(c, l, head[l], [nx EXCEPT ![e.p] = next[e.t]], data[e.t])

RECURSIVE FreeAll(_, _)
FreeAll(nx, t) == IF t = NULL THEN nx ELSE FreeAll([nx EXCEPT ![t] = Freed], nx[t])

Destroy(l) == Return(<<"destroy", l>>, l, NULL, FreeAll(next, head[l]), None)

ReverseList(l) ==
  LET r == Reversed(next, NULL, head[l])
  IN Return(<<"reverseList", l>>, l, r.h, r.nx, None)

-----------------------------------------------------------------------------
RECURSIVE Printed(_)
Printed(t) == IF t = NULL THEN <<>> ELSE <<data[t]>> \o Printed(next[t])

Display(l) ==
  LET c == <<"display", l>> IN
  \/ head[l] = NULL /\ Crash(c)
  \/ head[l] # NULL /\ Looked(c, l, Printed(head[l]))

MiddleList(l) ==
  LET c == <<"middleList", l>> IN
  \/ head[l] = NULL /\ Crash(c)
  \/ head[l] # NULL /\ Looked(c, l, data[GetMiddleList(next, head[l])])

LengthList(l) == Looked(<<"lengthList", l>>, l, Length(head[l]))

(* while (t) { if (len - c == pos) break; t = t->next; c++; } *)
RECURSIVE FromEnd(_, _, _)
FromEnd(pos, t, left) ==
  IF t = NULL \/ left = pos THEN t ELSE FromEnd(pos, next[t], left - 1)

FindNthFromEnd(l, pos) ==
  LET c == <<"findNthFromEnd", l, pos>>
      t == FromEnd(pos, head[l], Length(head[l]))
  IN \/ pos = 0 /\ Looked(c, l, None)
     \/ pos # 0 /\ t = NULL /\ Crash(c)
     \/ pos # 0 /\ t # NULL /\ Looked(c, l, data[t])

(* The first loop of isCyclePresent ends with s and f; without a cycle f is
   NULL or the last node. *)
RECURSIVE Meet(_, _, _)
Meet(nx, s, f) ==
  IF f = NULL \/ nx[f] = NULL THEN [s |-> s, f |-> f]
  ELSE LET g == nx[f]
           e == IF nx[g] = NULL THEN [s |-> s, f |-> g] ELSE [s |-> nx[s], f |-> nx[g]]
       IN IF e.s = e.f THEN e ELSE Meet(nx, e.s, e.f)

RECURSIVE Start(_, _, _)
Start(nx, s, f) == IF s = f THEN s ELSE Start(nx, nx[s], nx[f])

(* main of ll.c links the last node to the one at entry, calls isCyclePresent
   and cuts the link again; entry 0 is the call without a link.  When f never
   left a list without a second node, s = f is taken for a cycle and its
   members are printed along NULL. *)
IsCyclePresent(l, entry) ==
  LET c == <<"isCyclePresent", l, entry>>
      h == head[l]
      nx == IF entry = 0 THEN next
            ELSE [next EXCEPT ![End(next, Uninit, h).t] = Find(l, entry).t]
      e == Meet(nx, h, h)
  IN /\ entry <= Length(h)
     /\ \/ e.s # e.f /\ Looked(c, l, <<0>>)
        \/ e.s = e.f /\ entry = 0 /\ Crash(c)
        \/ e.s = e.f /\ entry # 0 /\ Looked(c, l, <<1, data[Start(nx, h, e.f)]>>)

RECURSIVE SameData(_, _, _)
SameData(nx, t1, t2) ==
  IF t1 = NULL \/ t2 = NULL THEN TRUE
  ELSE data[t1] = data[t2] /\ SameData(nx, nx[t1], nx[t2])

(* Only the successful comparison reverses the second half back. *)
IsListPalindrome(l) ==
  LET c == <<"isListPalindrome", l>>
      h == head[l]
      mid == GetMiddleList(next, h)
      m == IF Length(h) % 2 = 1 THEN next[mid] ELSE mid
      r == Reversed(next, NULL, m)
      same == SameData(r.nx, h, r.h)
  IN \/ h = NULL /\ Crash(c)
     \/ h # NULL /\ same /\ Return(c, l, h, Reversed(r.nx, NULL, r.h).nx, 1)
     \/ h # NULL /\ ~same /\ Return(c, l, h, r.nx, 0)

-----------------------------------------------------------------------------
(* Mutant: p->next = t->next forgotten. *)
MoveToFirst_Loops(c, l, pos) ==
  LET e == Find(l, pos) IN
  \/ (pos = 0 \/ e.c # pos) /\ Looked(c, l, None)
  \/ pos # 0 /\ e.c = pos /\ (e.t = NULL \/ e.p = Uninit) /\ Crash(c)
  \/ /\ pos # 0 /\ e.c = pos /\ e.t # NULL /\ e.p # Uninit
     /\ Return(c, l, e.t, [next EXCEPT ![e.t] = head[l]], None)

(* movePosToFirst: the first position has no predecessor p, and the position
   behind the last has no node t. *)
MoveToFirst(c, l, pos) ==
  LET e == Find(l, pos) IN
  \/ (pos = 0 \/ e.c # pos) /\ Looked(c, l, None)
  \/ pos # 0 /\ e.c = pos /\ (e.t = NULL \/ e.p = Uninit) /\ Crash(c)
  \/ /\ pos # 0 /\ e.c = pos /\ e.t # NULL /\ e.p # Uninit
     /\ Return(c, l, e.t, [next EXCEPT ![e.p] = next[e.t], ![e.t] = head[l]], None)

MovePosToFirst(l, pos) == MoveToFirst(<<"movePosToFirst", l, pos>>, l, pos)

MoveLastToFirst(l) == MoveToFirst(<<"moveLastToFirst", l>>, l, Length(head[l]))

RECURSIVE AltDeleted(_, _)
AltDeleted(nx, t) ==
  IF nx[t] = NULL \/ nx[nx[t]] = NULL THEN nx
  ELSE AltDeleted([nx EXCEPT ![t] = nx[nx[t]], ![nx[t]] = Freed], nx[nx[t]])

DeleteAltNodes(l) ==
  LET c == <<"deleteAltNodes", l>> IN
  \/ head[l] = NULL /\ Crash(c)
  \/ head[l] # NULL /\ Return(c, l, head[l], AltDeleted(next, head[l]), None)

(* From t on, with f the last node of the pair before. *)
RECURSIVE PairsSwapped(_, _, _)
PairsSwapped(nx, f, t) ==
  IF t = NULL THEN nx
  ELSE LET ff == nx[t]
           swapped == [nx EXCEPT ![t] = nx[ff], ![ff] = t]
       IN PairsSwapped(IF f = NULL THEN swapped ELSE [swapped EXCEPT ![f] = ff], t, nx[ff])

(* In a list of odd length the last node has no partner ff. *)
SwapPairWise(l) ==
  LET c == <<"swapPairWise", l>>
      h == head[l]
  IN \/ (h = NULL \/ Length(h) % 2 = 1) /\ Crash(c)
     \/ h # NULL /\ Length(h) % 2 = 0 /\ Return(c, l, next[h], PairsSwapped(next, NULL, h), None)

(* The odd chain oh..on and the even chain eh..en built so far. *)
RECURSIVE Separated(_, _)
Separated(st, t) ==
  LET linked(last) == IF last = Uninit THEN st.nx ELSE [st.nx EXCEPT ![last] = t]
  IN IF t = NULL THEN st
     ELSE IF data[t] % 2 = 1
       THEN Separated([st EXCEPT !.nx = linked(st.on), !.on = t,
                                 !.oh = IF @ = NULL THEN t ELSE @], next[t])
       ELSE Separated([st EXCEPT !.nx = linked(st.en), !.en = t,
                                 !.eh = IF @ = NULL THEN t ELSE @], next[t])

(* Without an even or without an odd element en or on is not set. *)
SeparateEvenOddElements(l) ==
  LET c == <<"separateEvenOddElements", l>>
      st == Separated([nx |-> next, oh |-> NULL, on |-> Uninit, eh |-> NULL, en |-> Uninit],
                      head[l])
  IN \/ (st.on = Uninit \/ st.en = Uninit) /\ Crash(c)
     \/ /\ st.on # Uninit /\ st.en # Uninit
        /\ Return(c, l, st.eh, [st.nx EXCEPT ![st.en] = st.oh, ![st.on] = NULL], None)

(* sortedMerge: the head of the merged list and the next pointers. *)
RECURSIVE SortedMerge(_, _, _)
SortedMerge(nx, a, b) ==
  IF a = NULL THEN [h |-> b, nx |-> nx]
  ELSE IF b = NULL THEN [h |-> a, nx |-> nx]
  ELSE IF data[a] <= data[b]
    THEN LET r == SortedMerge(nx, nx[a], b) IN [h |-> a, nx |-> [r.nx EXCEPT ![a] = r.h]]
    ELSE LET r == SortedMerge(nx, a, nx[b]) IN [h |-> b, nx |-> [r.nx EXCEPT ![b] = r.h]]

RECURSIVE SortedFrom(_, _)
SortedFrom(nx, h) ==
  IF h = NULL \/ nx[h] = NULL THEN [h |-> h, nx |-> nx]
  ELSE LET m == GetMiddleList(nx, h)
           a == SortedFrom([nx EXCEPT ![m] = NULL], h)
           b == SortedFrom(a.nx, nx[m])
       IN SortedMerge(b.nx, a.h, b.h)

MergeSort(l) ==
  LET r == SortedFrom(next, head[l]) IN Return(<<"MergeSort", l>>, l, r.h, r.nx, None)

(* The loop of mergeSortedList: p is the node before t, or NULL. *)
RECURSIVE MergedFrom(_, _, _, _, _)
MergedFrom(h, nx, p, t, l2) ==
  IF l2 = NULL \/ t = NULL THEN [h |-> h, nx |-> nx]
  ELSE IF data[l2] <= data[t]
    THEN LET linked == IF p = NULL THEN nx ELSE [nx EXCEPT ![p] = l2]
         IN MergedFrom(IF p = NULL THEN l2 ELSE h, [linked EXCEPT ![l2] = t], t, nx[t], nx[l2])
    ELSE MergedFrom(h, nx, t, nx[t], l2)

(* The caller does not use its pointer to the second list afterwards. *)
MergeSortedList(l, k) ==
  LET r == MergedFrom(head[l], next, NULL, head[l], head[k]) IN
  /\ ~crashed
  /\ head' = [head EXCEPT ![l] = r.h, ![k] = NULL]
  /\ next' = r.nx
  /\ call' = <<"mergeSortedList", l, k>> /\ out' = None
  /\ UNCHANGED <<data, crashed>>

-----------------------------------------------------------------------------
Next ==
  \/ \E l \in Lists, x \in Items :
       AddToListAtBegin(l, x) \/ AddToListAtEnd(l, x)
  \/ \E l \in Lists, x \in Items, pos \in Positions : AddToListAtPos(l, x, pos)
  \/ \E l \in Lists, pos \in Positions :
       \/ RemoveFromListAtPos(l, pos) \/ FindNthFromEnd(l, pos)
       \/ MovePosToFirst(l, pos) \/ IsCyclePresent(l, pos)
  \/ \E l \in Lists :
       \/ RemoveFromListAtBegin(l) \/ RemoveFromListAtEnd(l) \/ Destroy(l)
       \/ ReverseList(l) \/ Display(l) \/ MiddleList(l) \/ LengthList(l)
       \/ IsListPalindrome(l) \/ MoveLastToFirst(l) \/ DeleteAltNodes(l)
       \/ SwapPairWise(l) \/ SeparateEvenOddElements(l) \/ MergeSort(l)
  \/ \E l, k \in Lists : l # k /\ MergeSortedList(l, k)

Spec == Init /\ [][Next]_vars

-----------------------------------------------------------------------------
(* Type invariant. *)
TypeOK ==
  /\ head \in [Lists -> Pointer]
  /\ next \in [Nodes -> Pointer \cup {Freed}]
  /\ data \in [Nodes -> Items \cup {None}]
  /\ \A n \in Nodes : next[n] = Freed <=> data[n] = None
  /\ crashed \in BOOLEAN

(* The pointers met from t on, at most k of them. *)
RECURSIVE Chain(_, _)
Chain(t, k) == IF k = 0 \/ t \notin Nodes THEN <<t>> ELSE <<t>> \o Chain(next[t], k - 1)

ChainOf(l) == Chain(head[l], Cardinality(Nodes))
NodesOf(l) == {ChainOf(l)[i] : i \in 1..Len(ChainOf(l))} \cap Nodes

(* Between two calls each list ends in NULL, so it has no cycle and contains no
   freed node, and the lists share no node, whatever calls were made; the
   types come with it. *)
WellFormed ==
  /\ TypeOK
  /\ \A l \in Lists : ChainOf(l)[Len(ChainOf(l))] = NULL
  /\ NodesOf(1) \cap NodesOf(2) = {}

(* The allocated nodes that no list contains. *)
Leaked == {n \in Nodes : next[n] # Freed} \ (NodesOf(1) \cup NodesOf(2))

Contents(l) == LET c == ChainOf(l) IN [i \in 1..(Len(c) - 1) |-> data[c[i]]]

(* The comment of mergeSortedList: "merge two sorted linked list, final list
   should be sorted". *)
Ascending(s) == \A i, j \in 1..Len(s) : i < j => s[i] <= s[j]

MergeKeepsSorted ==
  [][\A l, k \in Lists :
       call' = <<"mergeSortedList", l, k>> /\ Ascending(Contents(l)) /\ Ascending(Contents(k))
         => Ascending(Contents(l)')]_vars
=============================================================================
