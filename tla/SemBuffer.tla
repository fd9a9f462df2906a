------------------------------ MODULE SemBuffer ------------------------------
(***************************************************************************)
(* The one-block buffer of Misc/CFILE/writer_reader.c.  N writer threads   *)
(* fill a block with the current letter (data) and hand it over, M reader  *)
(* threads consume it; the semaphores sem_Empty and sem_Full pass a single *)
(* token back and forth.  The writers stop after the last letter, and the  *)
(* last reader and the last writer wake the waiting threads so that they   *)
(* stop too.                                                               *)
(*                                                                         *)
(* data is shared and unprotected: a writer reads it while it fills its    *)
(* block and increments it after it has passed the token on.  The fill,    *)
(* 128 loads in the code, is two loads here; data++ is a load and a store. *)
(***************************************************************************)
EXTENDS Integers, FiniteSets

CONSTANTS
  M,          \* number of reader threads
  N,          \* number of writer threads
  LastLetter  \* 'Z', when 'A' is 0

ASSUME MAssumption == M \in Nat \ {0}
ASSUME NAssumption == N \in Nat \ {0}
ASSUME LetterAssumption == LastLetter \in Nat

Readers == 0..(M-1)
Writers == 0..(N-1)

VARIABLES
  sem_Empty, sem_Full,  \* the values of the semaphores
  data,                 \* the current letter
  ExitCondition,
  buffer,               \* the shared block: its first and its last character
  localBuf,             \* each writer's block
  reg,                  \* the value each writer loaded for data++
  rpc, wpc,             \* where each thread is
  main, next,           \* phase of main() and its loop counter i
  fresh,                \* ghost: the block in the buffer has not been consumed
  lost                  \* ghost: a store of data++ set data back or repeated it

vars == <<sem_Empty, sem_Full, data, ExitCondition, buffer, localBuf, reg,
          rpc, wpc, main, next, fresh, lost>>

sems == <<sem_Empty, sem_Full>>
letter == <<data, reg, lost>>
block == <<buffer, localBuf, fresh>>

Block == [first : Int, last : Int]

(* "new": not created, "ready": at the sem_wait of the loop, "check": past it,
   "exitE", "exitF": at the post of sem_Empty, sem_Full of the exit path.   *)
ReaderPC == {"new", "ready", "check", "get", "post", "exitE", "exitF", "done"}
WriterPC == {"new", "ready", "check", "fill", "update", "post", "load", "store",
             "exitE", "exitF", "done"}
MainPC == {"createR", "createW", "joinW", "joinR", "done", "crashed"}

MoveReader(r, from, to) ==
  rpc[r] = from /\ rpc' = [rpc EXCEPT ![r] = to] /\ UNCHANGED <<wpc, main, next>>

MoveWriter(w, from, to) ==
  wpc[w] = from /\ wpc' = [wpc EXCEPT ![w] = to] /\ UNCHANGED <<rpc, main, next>>

Post(sem) == sem' = sem + 1
Wait(sem) == sem > 0 /\ sem' = sem - 1

-----------------------------------------------------------------------------
(* Mutant: sem_Empty initialised to 2. *)
Init_Two ==
  /\ sem_Empty = 2 /\ sem_Full = 0
  /\ data = 0 /\ ExitCondition = FALSE
  /\ buffer = [first |-> -1, last |-> -1]
  /\ localBuf = [w \in Writers |-> [first |-> -1, last |-> -1]]
  /\ reg = [w \in Writers |-> 0]
  /\ rpc = [r \in Readers |-> "new"] /\ wpc = [w \in Writers |-> "new"]
  /\ main = "createR" /\ next = 0
  /\ fresh = FALSE /\ lost = FALSE

Init ==
  /\ sem_Empty = 1 /\ sem_Full = 0
  /\ data = 0 /\ ExitCondition = FALSE
  /\ buffer = [first |-> -1, last |-> -1]
  /\ localBuf = [w \in Writers |-> [first |-> -1, last |-> -1]]
  /\ reg = [w \in Writers |-> 0]
  /\ rpc = [r \in Readers |-> "new"] /\ wpc = [w \in Writers |-> "new"]
  /\ main = "createR" /\ next = 0
  /\ fresh = FALSE /\ lost = FALSE

-----------------------------------------------------------------------------
(* reader_thread *)
ReaderWait(r) ==
  /\ MoveReader(r, "ready", "check")
  /\ Wait(sem_Full) /\ sem_Empty' = sem_Empty
  /\ UNCHANGED <<letter, block, ExitCondition>>

(* Mutant: the reader looks at the letter only. *)
EndOfData_LetterOnly == data >= LastLetter

EndOfData == ExitCondition /\ data >= LastLetter

ReaderCheck(r) ==
  /\ MoveReader(r, "check", IF ~EndOfData THEN "get"
                            ELSE IF r = M-1 THEN "exitE" ELSE "exitF")
  /\ UNCHANGED <<sems, letter, block, ExitCondition>>

(* getDataFromShmBuf: the copy, then the post. *)
ReaderGet(r) ==
  /\ MoveReader(r, "get", "post")
  /\ fresh' = FALSE
  /\ UNCHANGED <<sems, letter, buffer, localBuf, ExitCondition>>

(* Mutant: the reader posts sem_Full. *)
ReaderPost_Full(r) ==
  /\ MoveReader(r, "post", "ready")
  /\ Post(sem_Full) /\ sem_Empty' = sem_Empty
  /\ UNCHANGED <<letter, block, ExitCondition>>

ReaderPost(r) ==
  /\ MoveReader(r, "post", "ready")
  /\ Post(sem_Empty) /\ sem_Full' = sem_Full
  /\ UNCHANGED <<letter, block, ExitCondition>>

(* The last reader lets the writers go, every reader the next reader. *)
ReaderExitEmpty(r) ==
  /\ MoveReader(r, "exitE", "exitF")
  /\ Post(sem_Empty) /\ sem_Full' = sem_Full
  /\ UNCHANGED <<letter, block, ExitCondition>>

ReaderExitFull(r) ==
  /\ MoveReader(r, "exitF", "done")
  /\ Post(sem_Full) /\ sem_Empty' = sem_Empty
  /\ UNCHANGED <<letter, block, ExitCondition>>

-----------------------------------------------------------------------------
(* writer_thread *)
WriterWait(w) ==
  /\ MoveWriter(w, "ready", "check")
  /\ Wait(sem_Empty) /\ sem_Full' = sem_Full
  /\ UNCHANGED <<letter, block, ExitCondition>>

(* The first load of get_external_data belongs to the step that leaves the
   test; the exit path sets ExitCondition. *)
WriterCheck(w) ==
  \/ /\ ~(data > LastLetter \/ ExitCondition)
     /\ MoveWriter(w, "check", "fill")
     /\ localBuf' = [localBuf EXCEPT ![w].first = data]
     /\ UNCHANGED <<sems, letter, buffer, fresh, ExitCondition>>
  \/ /\ data > LastLetter \/ ExitCondition
     /\ MoveWriter(w, "check", IF w = N-1 THEN "exitF" ELSE "exitE")
     /\ ExitCondition' = TRUE
     /\ UNCHANGED <<sems, letter, block>>

WriterFill(w) ==
  /\ MoveWriter(w, "fill", "update")
  /\ localBuf' = [localBuf EXCEPT ![w].last = data]
  /\ UNCHANGED <<sems, letter, buffer, fresh, ExitCondition>>

(* updateDataToShmBuf: the copy, then the post. *)
WriterUpdate(w) ==
  /\ MoveWriter(w, "update", "post")
  /\ buffer' = localBuf[w]
  /\ fresh' = TRUE
  /\ UNCHANGED <<sems, letter, localBuf, ExitCondition>>

(* Mutant: the writer posts sem_Empty. *)
WriterPost_Empty(w) ==
  /\ MoveWriter(w, "post", "load")
  /\ Post(sem_Empty) /\ sem_Full' = sem_Full
  /\ UNCHANGED <<letter, block, ExitCondition>>

WriterPost(w) ==
  /\ MoveWriter(w, "post", "load")
  /\ Post(sem_Full) /\ sem_Empty' = sem_Empty
  /\ UNCHANGED <<letter, block, ExitCondition>>

(* data++, after the token is gone. *)
WriterLoad(w) ==
  /\ MoveWriter(w, "load", "store")
  /\ reg' = [reg EXCEPT ![w] = data]
  /\ UNCHANGED <<sems, data, lost, block, ExitCondition>>

WriterStore(w) ==
  /\ MoveWriter(w, "store", "ready")
  /\ data' = reg[w] + 1
  /\ lost' = (lost \/ data' <= data)
  /\ UNCHANGED <<sems, reg, block, ExitCondition>>

(* Mutant: a post of the exit path forgotten. *)
WriterExitFull_Silent(w) ==
  /\ MoveWriter(w, "exitF", "exitE")
  /\ UNCHANGED <<sems, letter, block, ExitCondition>>

WriterExitFull(w) ==
  /\ MoveWriter(w, "exitF", "exitE")
  /\ Post(sem_Full) /\ sem_Empty' = sem_Empty
  /\ UNCHANGED <<letter, block, ExitCondition>>

WriterExitEmpty(w) ==
  /\ MoveWriter(w, "exitE", "done")
  /\ Post(sem_Empty) /\ sem_Full' = sem_Full
  /\ UNCHANGED <<letter, block, ExitCondition>>

-----------------------------------------------------------------------------
(* main(): the result of pthread_create is not looked at; joining a thread
   that was not created dereferences a zero pthread_t. *)
Turn(count, thenPhase) ==
  IF next + 1 < count THEN next' = next + 1 /\ main' = main
                      ELSE next' = 0 /\ main' = thenPhase

CreateReader ==
  /\ main = "createR"
  /\ rpc' = rpc \/ rpc' = [rpc EXCEPT ![next] = "ready"]
  /\ Turn(M, "createW")
  /\ UNCHANGED <<wpc, sems, letter, block, ExitCondition>>

CreateWriter ==
  /\ main = "createW"
  /\ wpc' = wpc \/ wpc' = [wpc EXCEPT ![next] = "ready"]
  /\ Turn(N, "joinW")
  /\ UNCHANGED <<rpc, sems, letter, block, ExitCondition>>

JoinWriter ==
  /\ main = "joinW"
  /\ \/ wpc[next] = "done" /\ Turn(N, "joinR")
     \/ wpc[next] = "new" /\ main' = "crashed" /\ next' = next
  /\ UNCHANGED <<rpc, wpc, sems, letter, block, ExitCondition>>

JoinReader ==
  /\ main = "joinR"
  /\ \/ rpc[next] = "done" /\ Turn(M, "done")
     \/ rpc[next] = "new" /\ main' = "crashed" /\ next' = next
  /\ UNCHANGED <<rpc, wpc, sems, letter, block, ExitCondition>>

MainStep == CreateReader \/ CreateWriter \/ JoinWriter \/ JoinReader

ReaderStep(r) ==
  \/ ReaderWait(r) \/ ReaderCheck(r) \/ ReaderGet(r) \/ ReaderPost(r)
  \/ ReaderExitEmpty(r) \/ ReaderExitFull(r)

WriterStep(w) ==
  \/ WriterWait(w) \/ WriterCheck(w) \/ WriterFill(w) \/ WriterUpdate(w)
  \/ WriterPost(w) \/ WriterLoad(w) \/ WriterStore(w)
  \/ WriterExitFull(w) \/ WriterExitEmpty(w)

Ended == main \in {"done", "crashed"}

Next ==
  /\ ~Ended
  /\ \/ MainStep
     \/ \E r \in Readers : ReaderStep(r)
     \/ \E w \in Writers : WriterStep(w)

(* Every thread that can run is scheduled; sem_wait promises no more. *)
Fairness ==
  /\ WF_vars(MainStep)
  /\ \A r \in Readers : WF_vars(~Ended /\ ReaderStep(r))
  /\ \A w \in Writers : WF_vars(~Ended /\ WriterStep(w))

Spec == Init /\ [][Next]_vars /\ Fairness

-----------------------------------------------------------------------------
(* Type invariant. *)
TypeOK ==
  /\ sem_Empty \in Nat /\ sem_Full \in Nat
  /\ data \in Nat /\ ExitCondition \in BOOLEAN
  /\ buffer \in Block /\ localBuf \in [Writers -> Block]
  /\ reg \in [Writers -> Nat]
  /\ rpc \in [Readers -> ReaderPC] /\ wpc \in [Writers -> WriterPC]
  /\ main \in MainPC /\ next \in Nat
  /\ main \in {"createR", "joinR"} => next \in Readers
  /\ main \in {"createW", "joinW"} => next \in Writers
  /\ fresh \in BOOLEAN /\ lost \in BOOLEAN

(* The threads that are copying into or out of the shared block. *)
Copying ==
  {<<"r", r>> : r \in {r \in Readers : rpc[r] = "get"}} \cup
  {<<"w", w>> : w \in {w \in Writers : wpc[w] = "update"}}

(* No two threads touch the shared block at the same time, not even while the
   exit paths put a second token into the system. *)
BufferExclusive == Cardinality(Copying) <= 1

(* A writer never overwrites a block that no reader has taken. *)
NoOverwrite == \A w \in Writers : wpc[w] = "update" => ~fresh

(* A reader takes every block once: what it copies was not copied before,
   unless data++ lost an update and the readers' exit test failed for it. *)
NoStaleRead == \A r \in Readers : rpc[r] = "get" => fresh \/ lost

(* Nothing handed over is left behind: when main has joined everybody, the
   last block was consumed. *)
AllConsumed == main = "done" => ~fresh

(* The inductive invariant the proofs rest on.  Until the first writer comes to
   its exit there is one token: in a semaphore, or with the thread that took it
   and has not posted yet.  From then on no writer fills a block, and the
   readers share a token of their own, which the writer N-1 brings. *)
WriterHolds(w) == wpc[w] \in {"check", "fill", "update", "post"}
ReaderHolds(r) == rpc[r] \in {"check", "get", "post"}
ReaderLeaves(r) == rpc[r] \in {"exitE", "exitF"}

OneToken ==
  /\ sem_Empty + sem_Full <= 1
  /\ sem_Empty + sem_Full = 1 =>
       (\A w \in Writers : ~WriterHolds(w)) /\ (\A r \in Readers : ~ReaderHolds(r))
  /\ \A v, w \in Writers : WriterHolds(v) /\ WriterHolds(w) => v = w
  /\ \A r, s \in Readers : ReaderHolds(r) /\ ReaderHolds(s) => r = s
  /\ \A w \in Writers, r \in Readers : ~(WriterHolds(w) /\ ReaderHolds(r))
  /\ \A w \in Writers : wpc[w] \notin {"exitE", "exitF", "done"}
  /\ \A r \in Readers : ~ReaderLeaves(r) /\ rpc[r] # "done"

(* Where the token is tells whether the block has been consumed. *)
FreshTravels ==
  /\ sem_Empty > 0 => ~fresh
  /\ sem_Full > 0 => fresh
  /\ \A w \in Writers : /\ wpc[w] \in {"check", "fill", "update"} => ~fresh
                        /\ wpc[w] = "post" => fresh
  /\ \A r \in Readers : /\ rpc[r] \in {"check", "get"} => fresh
                        /\ rpc[r] = "post" => ~fresh

ExitToken ==
  /\ ~fresh
  /\ data > LastLetter \/ lost
  /\ \A w \in Writers : /\ wpc[w] \notin {"fill", "update", "post"}
                        /\ wpc[w] = "exitF" => w = N-1
  /\ sem_Full <= 1
  /\ sem_Full = 1 => \A r \in Readers : ~ReaderHolds(r) /\ ~ReaderLeaves(r)
  /\ \A r, s \in Readers :
       (ReaderHolds(r) \/ ReaderLeaves(r)) /\ (ReaderHolds(s) \/ ReaderLeaves(s)) => r = s
  /\ wpc[N-1] \notin {"exitE", "done"} =>
       sem_Full = 0 /\ \A r \in Readers : ~ReaderHolds(r) /\ ~ReaderLeaves(r)
  /\ \A r \in Readers : rpc[r] = "get" => lost

(* What is in sem_Empty and what is still to come to it, once a writer is at its
   exit, is 3: a post of each writer that has taken a token to leave with, one of
   the reader M-1, and one of a reader that copies once more, which takes the
   readers' token out and happens only when a late store has set data back. *)
Leaving == {w \in Writers : wpc[w] \in {"check", "exitF", "exitE"}}
LastReaderPosts == IF rpc[M-1] \in {"exitF", "done"} THEN 0 ELSE 1
LateReaderPosts ==
  IF \/ wpc[N-1] \notin {"exitE", "done"} \/ sem_Full = 1
     \/ \E r \in Readers : ReaderHolds(r) \/ ReaderLeaves(r)
  THEN 1 ELSE 0

PostsToCome ==
  ExitCondition =>
    /\ \A r \in Readers : (rpc[r] = "exitE" => r = M-1) /\ (rpc[r] = "post" => lost)
    /\ lost \/ LateReaderPosts = 1
    /\ sem_Empty + Cardinality(Leaving) + LastReaderPosts + LateReaderPosts = 3

(* The semaphores are not the binary ones that the code means: the exit paths
   post sem_Empty up to 2, and to 3 if data++ lost an update. *)
SemaphoresBounded == sem_Full \in 0..1 /\ sem_Empty \in 0..(IF lost THEN 3 ELSE 2)

(* main joins the writer 0 before it goes on. *)
Joined ==
  main \in {"joinR", "done"} \/ (main = "joinW" /\ next > 0) => wpc[0] = "done"

(* A thread that main has not come to does not run. *)
NotYetCreated ==
  /\ main = "createR" => \A r \in Readers : r >= next => rpc[r] = "new"
  /\ main = "createR" => \A w \in Writers : wpc[w] = "new"
  /\ main = "createW" => \A w \in Writers : w >= next => wpc[w] = "new"

IInv ==
  /\ TypeOK /\ NotYetCreated /\ Joined
  /\ ~ExitCondition => OneToken /\ FreshTravels
  /\ ExitCondition => ExitToken

(* Every pthread_create succeeded. *)
AllCreated ==
  (\A r \in Readers : rpc[r] # "new") /\ (\A w \in Writers : wpc[w] # "new")

(* All writers come to their exit, whatever data++ does, and the program ends,
   provided that no update of data was lost. *)
WritersExit == AllCreated ~> \A w \in Writers : wpc[w] = "done"
Termination == WritersExit /\ (AllCreated ~> (main = "done" \/ lost))

(* The comment of writer_thread: "Signal waiting readers to exit".  When all
   writers have exited, the readers exit and main's joins return. *)
ReadersExit == (AllCreated /\ main = "joinR") ~> (main = "done")
=============================================================================
