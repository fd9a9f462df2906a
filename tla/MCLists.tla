------------------------------- MODULE MCLists -------------------------------
(***************************************************************************)
(* For TLC: the sequential programs on lists, those of the Linked_List     *)
(* questions, the numbers of LinkedList/list.c and the doubly linked lists *)
(* of dlink.c.  A behaviour is a run of one program; the others stay at a  *)
(* start.                                                                  *)
(***************************************************************************)
EXTENDS ListQuestions

CONSTANTS MaxNum, Garbage, Nodes, Starts, NULL

ASSUME LinksAssumption == NULL \notin Nodes /\ NULL \notin Starts
ASSUME NumbersAssumption == MaxNum \in Nat \ {0} /\ Garbage \subseteq Int

VARIABLES
  part, phase, num1, num2, t1, t2, num, l3, n, bits, e, val, junk,
  start, before, behind, order, owner, misused

numberVars == <<phase, num1, num2, t1, t2, num, l3, n, bits, e, val, junk>>
linkVars == <<start, before, behind, order, owner, misused>>
Numbers == INSTANCE ListNumbers
Links == INSTANCE DLink WITH prev <- before, next <- behind

NoQuestion == prog = "getlength" /\ list1 = <<>>
NoNumbers == num1 = 1 /\ num2 = 1 /\ junk = (CHOOSE g \in Garbage : TRUE)

MCInit ==
  /\ Links!Init
  /\ \/ part = "questions" /\ NoNumbers /\ Numbers!Init /\ Init
     \/ part = "numbers" /\ NoQuestion /\ Init /\ Numbers!Init
     \/ part = "links" /\ NoQuestion /\ NoNumbers /\ Init /\ Numbers!Init

MCNext ==
  \/ part = "questions" /\ Next /\ UNCHANGED <<part, numberVars, linkVars>>
  \/ part = "numbers" /\ Numbers!Next /\ UNCHANGED <<part, vars, linkVars>>
  \/ part = "links" /\ Links!Next /\ UNCHANGED <<part, vars, numberVars>>

MCSpec ==
  /\ MCInit /\ [][MCNext]_<<part, vars, numberVars, linkVars>>
  /\ WF_vars(part = "questions" /\ Next)

(* The numbers represented by lists: see ListNumbers. *)
NumbersRight == Numbers!NumbersRight

(* The doubly linked lists: see DLink. *)
DLinkRight == Links!DLinkRight

(* Every program of the questions ends: see ListQuestions. *)
ProgramsEnd == part = "questions" => Terminates
=============================================================================
