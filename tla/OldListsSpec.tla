---------------------------- MODULE OldListsSpec ----------------------------
(***************************************************************************)
(* What the functions of Misc/Local/ll.c and of the linked stack of        *)
(* Misc/Local/stack.c mean, on a sequence, next to those of ListSpec.  A   *)
(* stack is a sequence that begins with its top.                           *)
(***************************************************************************)
EXTENDS ListSpec

(* A position may be any number typed in. *)
TypedPositions == Positions \cup {-1}

(* On list 1, the only one of these programs. *)
Call(c, safe, new, result) == Does(c, 1, safe, new, result)

-----------------------------------------------------------------------------
(* ll.c.  Its own list is lost. *)
CreateList == Call(<<"createlist">>, TRUE, <<>>, None)

InsertAtBegin(x) == Call(<<"insertAtBegin", x>>, TRUE, <<x>> \o lists[1], None)

(* Not into an empty list. *)
InsertAtEnd(x) ==
  LET s == lists[1] IN Call(<<"insertAtEnd", x>>, s # <<>>, Append(s, x), None)

(* At the position, but behind the last element for the position of the last;
   in an empty list at any position but 0.  A position beyond the end is
   reported and then followed. *)
InsertAtPos(x, pos) ==
  LET s == lists[1] IN
  Call(<<"insertAtPos", x, pos>>, s = <<>> \/ pos \in 0..Len(s),
       IF pos = 0 THEN s
       ELSE IF s = <<>> \/ pos = 1 THEN <<x>> \o s
       ELSE IF pos = Len(s) THEN Append(s, x)
       ELSE InsertAt(s, pos, x), None)

RemoveAtBegin ==
  LET s == lists[1] IN
  Call(<<"removeAtBegin">>, TRUE, IF s = <<>> THEN s ELSE Tail(s),
       IF s = <<>> THEN None ELSE Head(s))

(* Not of the only element. *)
RemoveAtEnd ==
  LET s == lists[1] IN
  Call(<<"removeAtEnd">>, Len(s) # 1, IF s = <<>> THEN s ELSE Front(s),
       IF s = <<>> THEN None ELSE Last(s))

(* A position that is not in the list stands for the last. *)
RemoveAtPos(pos) ==
  LET s == lists[1]
      k == IF pos \in 1..Len(s) THEN pos ELSE Len(s)
      nothing == s = <<>> \/ pos = 0
  IN Call(<<"removeAtPos", pos>>, TRUE, IF nothing THEN s ELSE RemoveAt(s, k),
          IF nothing THEN None ELSE s[k])

DisplayAll == Call(<<"display all">>, TRUE, lists[1], lists[1])

DestroyAll == Call(<<"destroy all">>, TRUE, <<>>, None)

Menu ==
  /\ lists # Broken
  /\ \/ CreateList \/ RemoveAtBegin \/ RemoveAtEnd \/ DisplayAll \/ DestroyAll
     \/ \E x \in Items : InsertAtBegin(x) \/ InsertAtEnd(x)
     \/ \E x \in Items, pos \in TypedPositions : InsertAtPos(x, pos)
     \/ \E pos \in TypedPositions : RemoveAtPos(pos)

-----------------------------------------------------------------------------
(* stack.c *)
Push(x) == Call(<<"push", x>>, TRUE, <<x>> \o lists[1], None)

Pop ==
  LET s == lists[1] IN
  Call(<<"pop">>, TRUE, IF s = <<>> THEN s ELSE Tail(s), IF s = <<>> THEN None ELSE Head(s))

Peek == LET s == lists[1] IN Call(<<"peek">>, s # <<>>, s, Head(s))

DisplayStack == Call(<<"display stack">>, TRUE, lists[1], lists[1])

(* Not of a stack of less than two. *)
DestroyStack == Call(<<"destroy stack">>, Len(lists[1]) >= 2, <<>>, None)

Stack ==
  /\ lists # Broken
  /\ \/ Pop \/ Peek \/ DisplayStack \/ DestroyStack
     \/ \E x \in Items : Push(x)

OldSpec == Init /\ [][Next \/ Menu \/ Stack]_vars
=============================================================================
