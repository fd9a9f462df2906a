------------------------------ MODULE OldLists ------------------------------
(***************************************************************************)
(* The list of Misc/Local/ll.c behind its menu and the linked stack of     *)
(* Misc/Local/stack.c, on the heap of LinkedList and with its conventions. *)
(* A behaviour is a run of one of the three programs.                      *)
(***************************************************************************)
EXTENDS LinkedList

VARIABLE program   \* "list.c", "ll.c", "stack.c", "over": a destroyed stack

oldVars == <<vars, program>>

OldInit == Init /\ program \in {"list.c", "ll.c", "stack.c"}

TypedPositions == Positions \cup {-1}
first == head[1]

(* The functions have one list, the first. *)
Set(c, list, nx, result) == Return(c, 1, list, nx, result)
Look(c, result) == Looked(c, 1, result)
Insert(c, n, x, list, nx) == Inserted(c, 1, n, x, list, nx)

-----------------------------------------------------------------------------
(* createlist forgets the list that is there. *)
CreateList == Set(<<"createlist">>, NULL, next, None)

InsertAtBegin(x) ==
  \E n \in Unused : Insert(<<"insertAtBegin", x>>, n, x, n, [next EXCEPT ![n] = first])

InsertAtEnd(x) ==
  LET c == <<"insertAtEnd", x>> IN
  \E n \in Unused :
    \/ first = NULL /\ Crash(c)
    \/ /\ first # NULL
       /\ Insert(c, n, x, first, [next EXCEPT ![n] = NULL, ![End(next, Uninit, first).t] = n])

(* Mutant: the new node takes the place of the last. *)
InsertAtPos_Replaces(x, pos) ==
  LET c == <<"insertAtPos", x, pos>>
      e == Find(1, pos)
  IN \E n \in Unused :
       \/ pos = 0 /\ Insert(c, n, x, first, [next EXCEPT ![n] = NULL])
       \/ pos # 0 /\ e.t = first /\ Insert(c, n, x, n, [next EXCEPT ![n] = first])
       \/ pos # 0 /\ e.t # first /\ e.t = NULL /\ Crash(c)
       \/ /\ pos # 0 /\ e.t # first /\ e.t # NULL
          /\ Insert(c, n, x, first, [next EXCEPT ![n] = next[e.t], ![e.p] = n])

(* For position 0 the new node is left alone.  Behind the last node t is NULL. *)
InsertAtPos(x, pos) ==
  LET c == <<"insertAtPos", x, pos>>
      e == Find(1, pos)
  IN \E n \in Unused :
       \/ pos = 0 /\ Insert(c, n, x, first, [next EXCEPT ![n] = NULL])
       \/ pos # 0 /\ e.t = first /\ Insert(c, n, x, n, [next EXCEPT ![n] = first])
       \/ pos # 0 /\ e.t # first /\ e.t = NULL /\ Crash(c)
       \/ /\ pos # 0 /\ e.t # first /\ e.t # NULL
          /\ Insert(c, n, x, first, IF next[e.t] = NULL
                                  THEN [next EXCEPT ![n] = NULL, ![e.t] = n]
                                  ELSE [next EXCEPT ![n] = e.t, ![e.p] = n])

RemoveAtBegin ==
  LET c == <<"removeAtBegin">> IN
  \/ first = NULL /\ Look(c, None)
  \/ first # NULL /\ Set(c, next[first], [next EXCEPT ![first] = Freed], data[first])

(* The only node has no predecessor p. *)
RemoveAtEnd ==
  LET c == <<"removeAtEnd">>
      e == End(next, Uninit, first)
  IN \/ first = NULL /\ Look(c, None)
     \/ first # NULL /\ e.p = Uninit /\ Crash(c)
     \/ /\ first # NULL /\ e.p # Uninit
        /\ Set(c, first, [next EXCEPT ![e.p] = NULL, ![e.t] = Freed], data[e.t])

(* while (t->next) { if (c == pos) break; p = t; t = t->next; c++; } *)
RECURSIVE SeekLast(_, _, _, _)
SeekLast(pos, p, t, c) ==
  IF next[t] = NULL \/ c = pos THEN [p |-> p, t |-> t] ELSE SeekLast(pos, t, next[t], c + 1)

RemoveAtPos(pos) ==
  LET c == <<"removeAtPos", pos>>
      e == SeekLast(pos, Uninit, first, 1)
      nx == [next EXCEPT ![e.t] = Freed]
  IN \/ (first = NULL \/ pos = 0) /\ Look(c, None)
     \/ first # NULL /\ pos # 0 /\ e.t = first /\ Set(c, next[first], nx, data[first])
     \/ /\ first # NULL /\ pos # 0 /\ e.t # first
        /\ Set(c, first, [nx EXCEPT ![e.p] = next[e.t]], data[e.t])

DisplayAll == Look(<<"display all">>, Printed(first))

DestroyAll == Set(<<"destroy all">>, NULL, FreeAll(next, first), None)

Menu ==
  /\ program = "ll.c" /\ UNCHANGED program
  /\ \/ CreateList \/ RemoveAtBegin \/ RemoveAtEnd \/ DisplayAll \/ DestroyAll
     \/ \E x \in Items : InsertAtBegin(x) \/ InsertAtEnd(x)
     \/ \E x \in Items, pos \in TypedPositions : InsertAtPos(x, pos)
     \/ \E pos \in TypedPositions : RemoveAtPos(pos)

-----------------------------------------------------------------------------
Push(x) == \E n \in Unused : Insert(<<"push", x>>, n, x, n, [next EXCEPT ![n] = first])

(* popll returns INT_MIN for an empty stack. *)
Pop ==
  LET c == <<"pop">> IN
  \/ first = NULL /\ Look(c, None)
  \/ first # NULL /\ Set(c, next[first], [next EXCEPT ![first] = Freed], data[first])

Peek ==
  LET c == <<"peek">> IN
  \/ first = NULL /\ Crash(c)
  \/ first # NULL /\ Look(c, data[first])

DisplayStack == Look(<<"display stack">>, Printed(first))

(* while (temp->next) { fr = temp; temp = temp->next; free(fr); } *)
RECURSIVE FreeToLast(_, _)
FreeToLast(nx, t) == IF nx[t] = NULL THEN nx ELSE FreeToLast([nx EXCEPT ![t] = Freed], nx[t])

(* The last node stays.  The program ends and does not use its pointer, which
   still points to the freed first node, again. *)
DestroyStack ==
  LET c == <<"destroy stack">> IN
  \/ Length(first) < 2 /\ Crash(c) /\ UNCHANGED program
  \/ /\ Length(first) >= 2 /\ program' = "over"
     /\ Set(c, NULL, [FreeToLast(next, next[first]) EXCEPT ![first] = Freed], None)

Stack ==
  /\ program = "stack.c"
  /\ \/ DestroyStack
     \/ /\ UNCHANGED program
        /\ Pop \/ Peek \/ DisplayStack \/ \E x \in Items : Push(x)

OldNext ==
  \/ program = "list.c" /\ Next /\ UNCHANGED program
  \/ Menu
  \/ Stack

OldSpec == OldInit /\ [][OldNext]_oldVars

-----------------------------------------------------------------------------
(* Every function frees what it takes out of a list, except a failed palindrome
   test and a merge, a second createlist, an insertion at position 0 and the
   destruction of a stack, which keeps one node. *)
Drops == {"isListPalindrome", "mergeSortedList", "createlist"}
Lost == Cardinality(Leaked') - Cardinality(Leaked)

LeaksOnlyWhereNamed ==
  [][\/ Leaked' \subseteq Leaked
     \/ call'[1] \in Drops
     \/ Lost = 1 /\ (call'[1] = "destroy stack" \/ (call'[1] = "insertAtPos" /\ call'[3] = 0))
    ]_oldVars

(* The functions of list.c, ll.c and stack.c do on the heap what OldListsSpec says
   of sequences, and crash when and only when it says that they leave their lists. *)
OldMeaning == INSTANCE OldListsSpec
                WITH lists <- IF crashed THEN Broken ELSE [l \in Lists |-> Contents(l)]

ImplementsOldListsSpec == OldMeaning!OldSpec
=============================================================================
