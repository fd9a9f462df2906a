---------------------------- MODULE MessageQueue ----------------------------
(***************************************************************************)
(* The message queue of Misc/CFILE: every run of cmsg.c is a sender, every *)
(* run of msg.c a receiver.  A sender insists on a queue of its own: it    *)
(* unlinks the one it finds and creates another.  A receiver takes one     *)
(* message or its timeout, and unlinks whatever queue has the name then.   *)
(* A step is a call of the message queue library.                          *)
(***************************************************************************)
EXTENDS Naturals, FiniteSets

CONSTANTS
  Senders, Receivers,
  NoQueue,
  MaxMsg     \* mq_maxmsg

VARIABLES
  name,       \* the queue that has the name; a queue is known by its creator
  queue,      \* whose messages each queue holds
  spc, rpc,   \* where the processes are
  smq, rmq,   \* the queue each of them has opened
  from,       \* whose message each receiver got
  stale,      \* ghost: the queues unlinked by a receiver of another one
  replaced    \* ghost: the queues unlinked by a sender

senderVars == <<spc, smq, replaced>>
receiverVars == <<rpc, rmq, from, stale>>
vars == <<name, queue, senderVars, receiverVars>>

Init ==
  /\ name = NoQueue /\ queue = [s \in Senders |-> {}]
  /\ spc = [s \in Senders |-> "open"] /\ rpc = [r \in Receivers |-> "open"]
  /\ smq = [s \in Senders |-> NoQueue] /\ rmq = [r \in Receivers |-> NoQueue]
  /\ from = [r \in Receivers |-> NoQueue] /\ stale = {} /\ replaced = {}

SenderAt(s, here, there) == spc[s] = here /\ spc' = [spc EXCEPT ![s] = there]
ReceiverAt(r, here, there) == rpc[r] = here /\ rpc' = [rpc EXCEPT ![r] = there]

-----------------------------------------------------------------------------
(* mq_open with O_CREAT and O_EXCL. *)
Create(s, here) ==
  /\ SenderAt(s, here, "flags")
  /\ name = NoQueue /\ name' = s /\ smq' = [smq EXCEPT ![s] = s]
  /\ UNCHANGED <<queue, replaced, receiverVars>>

GivesUp(s, here) ==
  /\ SenderAt(s, here, "failed")
  /\ UNCHANGED <<name, queue, smq, replaced, receiverVars>>

Exists(s) ==
  /\ SenderAt(s, "open", "unlink") /\ name # NoQueue
  /\ UNCHANGED <<name, queue, smq, replaced, receiverVars>>

Open(s) == Create(s, "open") \/ Exists(s) \/ GivesUp(s, "open")

(* mq_unlink fails if another process was faster. *)
Unlink(s) ==
  \/ /\ SenderAt(s, "unlink", "reopen") /\ name # NoQueue
     /\ name' = NoQueue /\ replaced' = replaced \cup {name}
     /\ UNCHANGED <<queue, smq, receiverVars>>
  \/ GivesUp(s, "unlink")

(* Mutant: without O_EXCL the queue of another sender is opened. *)
Reopen_Shares(s) ==
  \/ Create(s, "reopen")
  \/ /\ SenderAt(s, "reopen", "flags") /\ name # NoQueue
     /\ smq' = [smq EXCEPT ![s] = name]
     /\ UNCHANGED <<name, queue, replaced, receiverVars>>

Reopen(s) == Create(s, "reopen") \/ GivesUp(s, "reopen")

SetFlags(s) ==
  \/ /\ SenderAt(s, "flags", "send")
     /\ UNCHANGED <<name, queue, smq, replaced, receiverVars>>
  \/ GivesUp(s, "flags")

(* The loop that was to send five messages ends with the first; mq_send waits
   while the queue is full. *)
Send(s) ==
  /\ SenderAt(s, "send", "closed")
  /\ Cardinality(queue[smq[s]]) < MaxMsg
  /\ queue' = [queue EXCEPT ![smq[s]] = @ \cup {s}]
  /\ UNCHANGED <<name, smq, replaced, receiverVars>>

-----------------------------------------------------------------------------
OpenToRead(r) ==
  /\ \/ ReceiverAt(r, "open", "failed") /\ UNCHANGED rmq
     \/ name # NoQueue /\ ReceiverAt(r, "open", "receive") /\ rmq' = [rmq EXCEPT ![r] = name]
  /\ UNCHANGED <<name, queue, from, stale, senderVars>>

(* mq_timedreceive, tried once: the first message, or nothing for about a second. *)
Receive(r) ==
  /\ ReceiverAt(r, "receive", "unlink")
  /\ \/ \E s \in queue[rmq[r]] :
          queue' = [queue EXCEPT ![rmq[r]] = @ \ {s}] /\ from' = [from EXCEPT ![r] = s]
     \/ queue[rmq[r]] = {} /\ UNCHANGED <<queue, from>>
  /\ UNCHANGED <<name, rmq, stale, senderVars>>

(* The name is unlinked, whatever queue has it by now. *)
UnlinkRead(r) ==
  /\ ReceiverAt(r, "unlink", "exited")
  /\ name' = NoQueue
  /\ stale' = IF name \in {NoQueue, rmq[r]} THEN stale ELSE stale \cup {name}
  /\ UNCHANGED <<queue, rmq, from, senderVars>>

Sender(s) == Open(s) \/ Unlink(s) \/ Reopen(s) \/ SetFlags(s) \/ Send(s)
Receiver(r) == OpenToRead(r) \/ Receive(r) \/ UnlinkRead(r)

Next == (\E s \in Senders : Sender(s)) \/ (\E r \in Receivers : Receiver(r))

(* The processes run on; mq_timedreceive does not wait for ever. *)
Fairness ==
  (\A s \in Senders : WF_vars(Sender(s))) /\ (\A r \in Receivers : WF_vars(Receiver(r)))

Spec == Init /\ [][Next]_vars /\ Fairness

-----------------------------------------------------------------------------
(* Type invariant. *)
TypeOK ==
  /\ name \in Senders \cup {NoQueue} /\ queue \in [Senders -> SUBSET Senders]
  /\ spc \in [Senders -> {"open", "unlink", "reopen", "flags", "send", "closed", "failed"}]
  /\ rpc \in [Receivers -> {"open", "receive", "unlink", "exited", "failed"}]
  /\ smq \in [Senders -> Senders \cup {NoQueue}]
  /\ rmq \in [Receivers -> Senders \cup {NoQueue}]
  /\ from \in [Receivers -> Senders \cup {NoQueue}]
  /\ stale \subseteq Senders /\ replaced \subseteq Senders

(* However senders replace each other's queues, no queue gets the messages of two:
   no message comes to a receiver twice, and mq_send never finds a queue full. *)
OneMessageEach ==
  /\ \A q \in Senders : queue[q] \subseteq {q}
  /\ \A q, r \in Receivers : q # r /\ from[q] = from[r] => from[q] = NoQueue

(* A message that nobody can open any more was in a queue that another sender
   replaced, that a receiver of another queue unlinked, or whose receiver did not
   wait for it. *)
LostOnlyByUnlink ==
  \A q \in Senders :
    queue[q] # {} /\ name # q =>
      q \in replaced \cup stale \cup {rmq[r] : r \in {x \in Receivers : from[x] = NoQueue}}

QueueSafe == TypeOK /\ OneMessageEach /\ LostOnlyByUnlink

(* Every sender and every receiver ends. *)
AllExit ==
  <>(/\ \A s \in Senders : spc[s] \in {"closed", "failed"}
     /\ \A r \in Receivers : rpc[r] \in {"exited", "failed"})
=============================================================================
