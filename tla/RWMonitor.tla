------------------------------ MODULE RWMonitor ------------------------------
(***************************************************************************)
(* The readers/writers monitor of Threads/rwprob.c and, without Cancels,   *)
(* of its older copies Misc/CFILE/rwprob.c and prob.c.  M writer threads   *)
(* copy a device's block into the slot of the shared buffer that belongs   *)
(* to the device, N reader threads print a slot.  The threads meet in one  *)
(* mutex (mutexlock), two condition variables (canread, canwrite) and four *)
(* counters (rcnt, wcnt, waitr, waitw).                                    *)
(*                                                                         *)
(* Every shared variable is read and written with mutexlock held only, so  *)
(* an action is one lock-delimited section: from pthread_mutex_lock, or    *)
(* from the return of pthread_cond_wait, to the unlock or to the next      *)
(* pthread_cond_wait.  The broadcast of beginRead comes after the unlock   *)
(* and is a step of its own.                                               *)
(***************************************************************************)
EXTENDS Integers, FiniteSets

CONSTANTS
  M,           \* number of writer threads, of devices and of slots
  N,           \* number of reader threads
  WriteLoops,  \* iterations of a writer thread (M in the code)
  ReadLoops,   \* iterations of a reader thread (N in the code)
  Cancels,     \* whether odd writers cancel themselves
  NoData       \* a slot of zero bytes

ASSUME MAssumption == M \in Nat \ {0}
ASSUME NAssumption == N \in Nat \ {0}
ASSUME LoopAssumption == WriteLoops \in Nat \ {0} /\ ReadLoops \in Nat \ {0}
ASSUME NoDataAssumption == NoData \notin Int
ASSUME CancelsAssumption == Cancels \in BOOLEAN

Writers == 0..(M-1)
Readers == 0..(N-1)

VARIABLES
  rcnt, wcnt, waitr, waitw,  \* the monitor's counters
  buffer,                    \* the shared buffer, one block per device
  rpc, wpc,                  \* where each reader and each writer is
  rc, wc,                    \* loop counter c of each thread
  main, next                 \* phase of main() and its loop counter i

vars == <<rcnt, wcnt, waitr, waitw, buffer, rpc, wpc, rc, wc, main, next>>

monitor == <<rcnt, wcnt, waitr, waitw, buffer>>
threads == <<rpc, wpc, rc, wc>>

(* "new": not created (or its creation failed), "ready": at the head of the
   loop, "waiting": blocked in pthread_cond_wait, "woken": unblocked and about
   to reacquire the mutex, "entered": a reader that has not broadcast yet.   *)
ReaderPC == {"new", "ready", "waiting", "woken", "entered", "active", "done"}
WriterPC == {"new", "ready", "waiting", "woken", "active", "done"}
MainPC == {"createW", "createR", "joinR", "joinW", "done", "crashed"}

ActiveReaders  == {r \in Readers : rpc[r] \in {"entered", "active"}}
WaitingReaders == {r \in Readers : rpc[r] \in {"waiting", "woken"}}
ActiveWriters  == {w \in Writers : wpc[w] = "active"}
WaitingWriters == {w \in Writers : wpc[w] \in {"waiting", "woken"}}

(* A thread that cancels itself ends at its first cancellation point, the
   usleep at the head of its loop. *)
Cancelled(w) == Cancels /\ w % 2 = 1

(* pthread_cond_signal: one blocked thread is unblocked, if there is one. *)
Signal(pc, pcNew) ==
  IF \E t \in DOMAIN pc : pc[t] = "waiting"
    THEN \E t \in DOMAIN pc : /\ pc[t] = "waiting"
                              /\ pcNew = [pc EXCEPT ![t] = "woken"]
    ELSE pcNew = pc

Broadcast(pc) ==
  [t \in DOMAIN pc |-> IF pc[t] = "waiting" THEN "woken" ELSE pc[t]]

-----------------------------------------------------------------------------
Init ==
  /\ rcnt = 0 /\ wcnt = 0 /\ waitr = 0 /\ waitw = 0
  /\ buffer = [w \in Writers |-> NoData]
  /\ rpc = [r \in Readers |-> "new"] /\ wpc = [w \in Writers |-> "new"]
  /\ rc = [r \in Readers |-> 0] /\ wc = [w \in Writers |-> 0]
  /\ main = "createW" /\ next = 0

(* beginRead.  The task itself only prints the slot. *)
BeginReadWait(r) ==
  /\ rpc[r] = "ready"
  /\ wcnt = 1 \/ waitw > 0
  /\ waitr' = waitr + 1
  /\ rpc' = [rpc EXCEPT ![r] = "waiting"]
  /\ UNCHANGED <<rcnt, wcnt, waitw, buffer, wpc, rc, wc, main, next>>

BeginRead(r) ==
  /\ rpc[r] = "ready"
  /\ ~(wcnt = 1 \/ waitw > 0)
  /\ rcnt' = rcnt + 1
  /\ rpc' = [rpc EXCEPT ![r] = "entered"]
  /\ UNCHANGED <<wcnt, waitr, waitw, buffer, wpc, rc, wc, main, next>>

(* Mutant: waitr-- forgotten. *)
ResumeRead_KeepsWaiting(r) ==
  /\ rpc[r] = "woken"
  /\ rcnt' = rcnt + 1
  /\ rpc' = [rpc EXCEPT ![r] = "entered"]
  /\ UNCHANGED <<wcnt, waitr, waitw, buffer, wpc, rc, wc, main, next>>

(* The condition is not tested again after the wait. *)
ResumeRead(r) ==
  /\ rpc[r] = "woken"
  /\ waitr' = waitr - 1
  /\ rcnt' = rcnt + 1
  /\ rpc' = [rpc EXCEPT ![r] = "entered"]
  /\ UNCHANGED <<wcnt, waitw, buffer, wpc, rc, wc, main, next>>

(* Mutant: the broadcast forgotten. *)
BroadcastRead_Silent(r) ==
  /\ rpc[r] = "entered"
  /\ rpc' = [rpc EXCEPT ![r] = "active"]
  /\ UNCHANGED <<monitor, wpc, rc, wc, main, next>>

BroadcastRead(r) ==
  /\ rpc[r] = "entered"
  /\ rpc' = [Broadcast(rpc) EXCEPT ![r] = "active"]
  /\ UNCHANGED <<monitor, wpc, rc, wc, main, next>>

(* Mutant: rcnt-- == 0 in place of --rcnt == 0. *)
EndRead_PostDecrement(r) ==
  /\ rpc[r] = "active"
  /\ rcnt' = rcnt - 1
  /\ IF rcnt = 0 THEN Signal(wpc, wpc') ELSE wpc' = wpc
  /\ rc' = [rc EXCEPT ![r] = @ + 1]
  /\ rpc' = [rpc EXCEPT ![r] = IF rc'[r] < ReadLoops THEN "ready" ELSE "done"]
  /\ UNCHANGED <<wcnt, waitr, waitw, buffer, wc, main, next>>

(* endRead and the end of the loop's body. *)
EndRead(r) ==
  /\ rpc[r] = "active"
  /\ rcnt' = rcnt - 1
  /\ IF rcnt' = 0 THEN Signal(wpc, wpc') ELSE wpc' = wpc
  /\ rc' = [rc EXCEPT ![r] = @ + 1]
  /\ rpc' = [rpc EXCEPT ![r] = IF rc'[r] < ReadLoops THEN "ready" ELSE "done"]
  /\ UNCHANGED <<wcnt, waitr, waitw, buffer, wc, main, next>>

-----------------------------------------------------------------------------
(* writer_thread: an odd thread cancels itself. *)
CancelWriter(w) ==
  /\ wpc[w] = "ready"
  /\ Cancelled(w)
  /\ wpc' = [wpc EXCEPT ![w] = "done"]
  /\ UNCHANGED <<monitor, rpc, rc, wc, main, next>>

(* get_external_data(&buffer[i*10], BUFSZ/M, i): the block of device w. *)
Write(w) ==
  /\ wcnt' = 1
  /\ buffer' = [buffer EXCEPT ![w] = w]
  /\ wpc' = [wpc EXCEPT ![w] = "active"]

BeginWriteWait(w) ==
  /\ wpc[w] = "ready"
  /\ ~Cancelled(w)
  /\ wcnt = 1 \/ rcnt > 0
  /\ waitw' = waitw + 1
  /\ wpc' = [wpc EXCEPT ![w] = "waiting"]
  /\ UNCHANGED <<rcnt, wcnt, waitr, buffer, rpc, rc, wc, main, next>>

BeginWrite(w) ==
  /\ wpc[w] = "ready"
  /\ ~Cancelled(w)
  /\ ~(wcnt = 1 \/ rcnt > 0)
  /\ Write(w)
  /\ UNCHANGED <<rcnt, waitr, waitw, rpc, rc, wc, main, next>>

ResumeWrite(w) ==
  /\ wpc[w] = "woken"
  /\ waitw' = waitw - 1
  /\ Write(w)
  /\ UNCHANGED <<rcnt, waitr, rpc, rc, wc, main, next>>

(* Mutant: waitr > 1 in place of waitr > 0. *)
EndWrite_OffByOne(w) ==
  /\ wpc[w] = "active"
  /\ wcnt' = 0
  /\ wc' = [wc EXCEPT ![w] = @ + 1]
  /\ LET ended == [wpc EXCEPT ![w] = IF wc'[w] < WriteLoops THEN "ready" ELSE "done"]
     IN IF waitr > 1
          THEN Signal(rpc, rpc') /\ wpc' = ended
          ELSE Signal(ended, wpc') /\ rpc' = rpc
  /\ UNCHANGED <<rcnt, waitr, waitw, buffer, rc, main, next>>

(* endWrite and the end of the loop's body. *)
EndWrite(w) ==
  /\ wpc[w] = "active"
  /\ wcnt' = 0
  /\ wc' = [wc EXCEPT ![w] = @ + 1]
  /\ LET ended == [wpc EXCEPT ![w] = IF wc'[w] < WriteLoops THEN "ready" ELSE "done"]
     IN IF waitr > 0
          THEN Signal(rpc, rpc') /\ wpc' = ended
          ELSE Signal(ended, wpc') /\ rpc' = rpc
  /\ UNCHANGED <<rcnt, waitr, waitw, buffer, rc, main, next>>

(* POSIX lets pthread_cond_wait return without a signal. *)
SpuriousRead(r) ==
  /\ rpc[r] = "waiting"
  /\ rpc' = [rpc EXCEPT ![r] = "woken"]
  /\ UNCHANGED <<monitor, wpc, rc, wc, main, next>>

SpuriousWrite(w) ==
  /\ wpc[w] = "waiting"
  /\ wpc' = [wpc EXCEPT ![w] = "woken"]
  /\ UNCHANGED <<monitor, rpc, rc, wc, main, next>>

-----------------------------------------------------------------------------
(* main(): four loops with the counter i (next). *)
Step(count, thenPhase) ==
  IF next + 1 < count THEN next' = next + 1 /\ main' = main
                      ELSE next' = 0 /\ main' = thenPhase

(* A failed pthread_create is reported and skipped. *)
CreateWriter ==
  /\ main = "createW"
  /\ \/ wpc' = [wpc EXCEPT ![next] = "ready"]
     \/ wpc' = wpc
  /\ Step(M, "createR")
  /\ UNCHANGED <<monitor, rpc, rc, wc>>

CreateReader ==
  /\ main = "createR"
  /\ \/ rpc' = [rpc EXCEPT ![next] = "ready"]
     \/ rpc' = rpc
  /\ Step(N, "joinR")
  /\ UNCHANGED <<monitor, wpc, rc, wc>>

(* Joining a thread that was never created dereferences the zero pthread_t
   of the global array: the process dies. *)
JoinReader ==
  /\ main = "joinR"
  /\ \/ rpc[next] = "done" /\ Step(N, "joinW")
     \/ rpc[next] = "new" /\ main' = "crashed" /\ next' = next
  /\ UNCHANGED <<monitor, threads>>

(* Mutant: the writers are not joined. *)
JoinWriter_Detached ==
  /\ main = "joinW"
  /\ Step(M, "done")
  /\ UNCHANGED <<monitor, threads>>

JoinWriter ==
  /\ main = "joinW"
  /\ \/ wpc[next] = "done" /\ Step(M, "done")
     \/ wpc[next] = "new" /\ main' = "crashed" /\ next' = next
  /\ UNCHANGED <<monitor, threads>>

MainStep == CreateWriter \/ CreateReader \/ JoinReader \/ JoinWriter

ReaderStep(r) ==
  BeginReadWait(r) \/ BeginRead(r) \/ ResumeRead(r) \/ BroadcastRead(r) \/ EndRead(r)

WriterStep(w) ==
  CancelWriter(w) \/ BeginWriteWait(w) \/ BeginWrite(w) \/ ResumeWrite(w) \/ EndWrite(w)

Spurious ==
  (\E r \in Readers : SpuriousRead(r)) \/ (\E w \in Writers : SpuriousWrite(w))

(* The process ends when main returns or crashes. *)
Ended == main \in {"done", "crashed"}

Next ==
  \/ /\ ~Ended
     /\ \/ MainStep
        \/ \E r \in Readers : ReaderStep(r)
        \/ \E w \in Writers : WriterStep(w)
        \/ Spurious
  \/ Ended /\ UNCHANGED vars

(* The kernel keeps running every runnable thread; nothing makes a spurious
   wakeup happen. *)
Fairness ==
  /\ WF_vars(MainStep)
  /\ \A r \in Readers : WF_vars(~Ended /\ ReaderStep(r))
  /\ \A w \in Writers : WF_vars(~Ended /\ WriterStep(w))

Spec == Init /\ [][Next]_vars /\ Fairness

-----------------------------------------------------------------------------
(* Type invariant. *)
TypeOK ==
  /\ rcnt \in Int /\ wcnt \in {0, 1} /\ waitr \in Int /\ waitw \in Int
  /\ buffer \in [Writers -> Writers \cup {NoData}]
  /\ rpc \in [Readers -> ReaderPC] /\ wpc \in [Writers -> WriterPC]
  /\ rc \in [Readers -> Nat] /\ wc \in [Writers -> Nat]
  /\ main \in MainPC
  /\ next \in Nat
  /\ main = "createW" \/ main = "joinW" => next \in Writers
  /\ main = "createR" \/ main = "joinR" => next \in Readers

(* main starts a thread before anything else happens to it. *)
NotYetCreated ==
  /\ main = "createW" => /\ \A r \in Readers : rpc[r] = "new"
                         /\ \A w \in Writers : w >= next => wpc[w] = "new"
  /\ main = "createR" => \A r \in Readers : r >= next => rpc[r] = "new"

(* The counters of beginRead, endRead, beginWrite and endWrite are exact:
   rcnt counts the readers inside, waitr and waitw the threads between the
   increment before pthread_cond_wait and the decrement after it, and wcnt is
   1 only while some writer is inside. *)
CountersExact ==
  /\ rcnt = Cardinality(ActiveReaders)
  /\ waitr = Cardinality(WaitingReaders)
  /\ waitw = Cardinality(WaitingWriters)
  /\ wcnt = 1 => ActiveWriters # {}

(* No wakeup is lost: while a thread is blocked in pthread_cond_wait, another
   thread is on its way to signal or broadcast the condition it waits for.
   The chain of signals of endRead, endWrite and the broadcast of beginRead
   never breaks, whatever the interleaving. *)
NoReaderStranded ==
  (\E r \in Readers : rpc[r] = "waiting") =>
    \/ \E r \in Readers : rpc[r] \in {"woken", "entered"}
    \/ WaitingWriters # {}
    \/ ActiveWriters # {}

NoWriterStranded ==
  (\E w \in Writers : wpc[w] = "waiting") =>
    \/ \E r \in Readers : rpc[r] \in {"woken", "entered", "active"}
    \/ \E w \in Writers : wpc[w] \in {"woken", "active"}

(* The inductive invariant the proofs rest on. *)
IInv ==
  TypeOK /\ NotYetCreated /\ CountersExact /\ NoReaderStranded /\ NoWriterStranded

(* What FinalState rests on besides IInv: a thread ends after its last turn, a
   writer that took a turn has written its slot, and main goes on when the
   threads it joins have ended. *)
Turns ==
  /\ \A r \in Readers : IF rpc[r] = "done" THEN rc[r] = ReadLoops ELSE rc[r] < ReadLoops
  /\ \A w \in Writers : Cancelled(w) =>
       wpc[w] \in {"new", "ready", "done"} /\ buffer[w] = NoData
  /\ \A w \in Writers : ~Cancelled(w) =>
       /\ wpc[w] = "active" \/ wc[w] > 0 => buffer[w] = w
       /\ wpc[w] = "done" => wc[w] > 0

Joined ==
  /\ main = "joinR" => \A r \in Readers : r < next => rpc[r] = "done"
  /\ main \in {"joinW", "done"} => \A r \in Readers : rpc[r] = "done"
  /\ main = "joinW" => \A w \in Writers : w < next => wpc[w] = "done"
  /\ main = "done" => \A w \in Writers : wpc[w] = "done"

(* When main returns after its joins, every thread has ended, the monitor is
   back in its initial state and exactly the devices of the writers that did
   not cancel themselves are in the buffer. *)
FinalState ==
  main = "done" =>
    /\ \A r \in Readers : rpc[r] = "done" /\ rc[r] = ReadLoops
    /\ \A w \in Writers : wpc[w] = "done"
    /\ rcnt = 0 /\ wcnt = 0 /\ waitr = 0 /\ waitw = 0
    /\ \A w \in Writers : buffer[w] = IF Cancelled(w) THEN NoData ELSE w

(* Every run of the program comes to its end, by main's return or, when a
   thread could not be created, by the failed join. *)
Termination == <>Ended

(* The comment of beginWrite: "A writer can enter when there is no active or
   waiting readers or other writers".  The part that concerns threads that are
   inside: whenever a writer is inside, it is alone. *)
WriterAlone ==
  ActiveWriters # {} => Cardinality(ActiveWriters) = 1 /\ ActiveReaders = {}
=============================================================================
