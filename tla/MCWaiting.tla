----------------------------- MODULE MCWaiting -----------------------------
(***************************************************************************)
(* For TLC: programs whose threads and processes wait for each other: the  *)
(* wait-queue driver, the threads of udemysp1.c that would take turns, the *)
(* pipes of client-server.c and of s2.c, and the message queue of cmsg.c   *)
(* and msg.c.  They share no state, so that a behaviour runs one of the    *)
(* five and leaves the others where they are.                              *)
(***************************************************************************)
EXTENDS WaitQueue

CONSTANTS Letters, Clients, MaxText, Senders, Receivers, NoQueue, MaxMsg

ASSUME TurnsAssumption == Letters \in Nat
ASSUME PipesAssumption == Clients \in Nat \ {0} /\ MaxText \in Nat
ASSUME QueueAssumption == NoQueue \notin Senders /\ MaxMsg \in Nat \ {0}

VARIABLES
  part,
  main, one, two, done, out, spurious,
  server, turn, child, writers, written, got, text, parent, copier, ends, sent, copied,
  name, queue, spc, rpc, smq, rmq, from, stale, replaced

turnVars == <<main, one, two, done, out, spurious>>
pipeVars == <<server, turn, child, writers, written, got, text, parent, copier, ends, sent, copied>>
queueVars == <<name, queue, spc, rpc, smq, rmq, from, stale, replaced>>
Turns == INSTANCE TurnThreads
Pipes == INSTANCE Pipes
Queues == INSTANCE MessageQueue

MCInit ==
  /\ part \in {"wait queue", "turns", "server", "copy", "message queue"}
  /\ Init /\ Turns!Init /\ Pipes!Init /\ Queues!Init
  /\ text # 0 => part = "copy"

MCNext ==
  \/ part = "wait queue" /\ Next /\ UNCHANGED <<part, turnVars, pipeVars, queueVars>>
  \/ part = "turns" /\ Turns!Next /\ UNCHANGED <<part, vars, pipeVars, queueVars>>
  \/ part = "server" /\ Pipes!Server /\ UNCHANGED <<part, vars, turnVars, queueVars>>
  \/ part = "copy" /\ Pipes!Copy /\ UNCHANGED <<part, vars, turnVars, queueVars>>
  \/ part = "message queue" /\ Queues!Next /\ UNCHANGED <<part, vars, turnVars, pipeVars>>

(* The fairness of each module, for the part that runs. *)
MCFairness ==
  /\ WF_vars(part = "wait queue" /\ ThreadStep) /\ WF_vars(part = "wait queue" /\ ExitStep)
  /\ \A u \in Users : WF_vars(part = "wait queue" /\ ReadWake(u))
  /\ WF_turnVars(part = "turns" /\ (Turns!CreateFirst \/ Turns!CreateSecond))
  /\ WF_turnVars(part = "turns" /\ Turns!FirstStep) /\ WF_turnVars(part = "turns" /\ Turns!SecondStep)
  /\ WF_pipeVars(part = "server" /\ Pipes!ServerStep)
  /\ \A c \in Pipes!Children : WF_pipeVars(part = "server" /\ Pipes!ChildStep(c))
  /\ WF_pipeVars(part = "copy" /\ Pipes!CopyParent) /\ WF_pipeVars(part = "copy" /\ Pipes!Copier)
  /\ \A s \in Senders : WF_queueVars(part = "message queue" /\ Queues!Sender(s))
  /\ \A r \in Receivers : WF_queueVars(part = "message queue" /\ Queues!Receiver(r))

MCSpec == MCInit /\ [][MCNext]_<<part, vars, turnVars, pipeVars, queueVars>> /\ MCFairness

(* The turns, the pipes and the message queue, each as its module says. *)
IpcSafe == Turns!TurnsSafe /\ Pipes!PipesSafe /\ Queues!QueueSafe

(* Nobody waits for ever, but for the cases each module names. *)
AllProceed ==
  /\ Progress
  /\ Turns!SecondEnds
  /\ part = "server" => Pipes!ServerEnds
  /\ part = "copy" => Pipes!CopyEnds
  /\ part = "message queue" => Queues!AllExit
=============================================================================
