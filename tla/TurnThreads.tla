---------------------------- MODULE TurnThreads ----------------------------
(***************************************************************************)
(* Misc/Local/udemysp1.c: thread_callback1 prints the letters of one       *)
(* string, thread_callback2 those of the other, in turns, as the program   *)
(* would have it.  A section under the mutex is a step.  main overwrites   *)
(* both thread ids with the results of pthread_create, so that what its    *)
(* joins do is undefined: the program crashes, or they return at once.     *)
(***************************************************************************)
EXTENDS Naturals, Sequences, FiniteSets

CONSTANT Letters    \* the length of both strings

VARIABLES
  main, one, two,   \* where main and the threads are
  done,             \* whether thread 1 has printed
  out,              \* what is printed: pairs of a thread and a place in its string
  spurious          \* ghost: whether a wait returned without a signal

vars == <<main, one, two, done, out, spurious>>

Init ==
  /\ main = "create1" /\ one = "none" /\ two = "none"
  /\ done = 0 /\ out = <<>> /\ spurious = FALSE

-----------------------------------------------------------------------------
Gone == main \in {"exited", "crashed"}
Printed(t) == Cardinality({k \in DOMAIN out : out[k][1] = t})
PutChar(t) == out' = Append(out, <<t, Printed(t) + 1>>)

(* The creation of a thread, which may fail unnoticed. *)
CreateFirst ==
  /\ main = "create1" /\ main' = "create2"
  /\ one' \in {"none", "delay"}
  /\ UNCHANGED <<two, done, out, spurious>>

CreateSecond ==
  /\ main = "create2" /\ main' = "sleep"
  /\ two' \in {"none", "run"}
  /\ UNCHANGED <<one, done, out, spurious>>

Sleep ==
  /\ main = "sleep" /\ main' = "join1"
  /\ UNCHANGED <<one, two, done, out, spurious>>

(* pthread_join of 0, or of an error number. *)
Join ==
  /\ \/ main = "join1" /\ main' \in {"join2", "crashed"}
     \/ main = "join2" /\ main' \in {"destroy", "crashed"}
  /\ UNCHANGED <<one, two, done, out, spurious>>

(* The threads end with the process. *)
DestroyReturn ==
  /\ main = "destroy" /\ main' = "exited"
  /\ UNCHANGED <<one, two, done, out, spurious>>

-----------------------------------------------------------------------------
(* pthread_cond_signal. *)
Woken == IF two = "blocked" THEN "woken" ELSE two

FirstDelay ==
  /\ ~Gone /\ one = "delay" /\ one' = "run"
  /\ UNCHANGED <<main, two, done, out, spurious>>

(* done stays 1 for good. *)
FirstPrints ==
  /\ ~Gone /\ one = "run" /\ Printed(1) < Letters
  /\ PutChar(1) /\ done' = 1 /\ two' = Woken
  /\ UNCHANGED <<main, one, spurious>>

FirstExits ==
  /\ ~Gone /\ one = "run" /\ Printed(1) = Letters /\ one' = "exited"
  /\ UNCHANGED <<main, two, done, out, spurious>>

SecondWaits ==
  /\ ~Gone /\ two = "run" /\ Printed(2) < Letters /\ done = 0 /\ two' = "blocked"
  /\ UNCHANGED <<main, one, done, out, spurious>>

(* Woken up, it prints without testing done again. *)
SecondPrints ==
  /\ ~Gone
  /\ two = "woken" \/ (two = "run" /\ Printed(2) < Letters /\ done = 1)
  /\ PutChar(2) /\ two' = "run"
  /\ UNCHANGED <<main, one, done, spurious>>

SecondExits ==
  /\ ~Gone /\ two = "run" /\ Printed(2) = Letters /\ two' = "exited"
  /\ UNCHANGED <<main, one, done, out, spurious>>

SpuriousWakeup ==
  /\ ~Gone /\ two = "blocked" /\ two' = "woken" /\ spurious' = TRUE
  /\ UNCHANGED <<main, one, done, out>>

MainStep == CreateFirst \/ CreateSecond \/ Sleep \/ Join \/ DestroyReturn
FirstStep == FirstDelay \/ FirstPrints \/ FirstExits
SecondStep == SecondWaits \/ SecondPrints \/ SecondExits

Next == MainStep \/ FirstStep \/ SecondStep \/ SpuriousWakeup

(* Threads that can run do; nothing forces main beyond its sleep, as it
   may hang in pthread_cond_destroy. *)
Fairness == WF_vars(CreateFirst \/ CreateSecond) /\ WF_vars(FirstStep) /\ WF_vars(SecondStep)

Spec == Init /\ [][Next]_vars /\ Fairness

-----------------------------------------------------------------------------
(* Type invariant. *)
TypeOK ==
  /\ main \in {"create1", "create2", "sleep", "join1", "join2", "destroy", "exited", "crashed"}
  /\ one \in {"none", "delay", "run", "exited"}
  /\ two \in {"none", "run", "blocked", "woken", "exited"}
  /\ done \in {0, 1} /\ out \in Seq({1, 2} \X (1..Letters)) /\ spurious \in BOOLEAN

(* The second thread never waits for a signal that was sent, and begins behind
   the first unless its wait returns for no reason. *)
TurnsSafe ==
  /\ TypeOK
  /\ two = "blocked" => done = 0
  /\ out # <<>> => out[1][1] = 1 \/ spurious

(* The comment of udemysp1.c: "Program should print output A1B2C3D4". *)
Alternates ==
  \A k \in DOMAIN out : out[k][1] = IF k % 2 = 1 THEN 1 ELSE 2

(* The second thread prints its whole string if there is a first one and main
   lets it. *)
SecondEnds ==
  two = "run" ~> (two = "exited" \/ Gone \/ one = "none")
=============================================================================
