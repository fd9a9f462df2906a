-------------------------- MODULE MCWaiting_proofs --------------------------
(***************************************************************************)
(* Theorems about the programs whose threads and processes wait for each   *)
(* other: the wait-queue driver, for any number of users and of reads; the *)
(* threads of udemysp1.c, for strings of any length; the pipes, for any    *)
(* number of clients and any string; and the message queue, for any number *)
(* of senders and receivers.                                               *)
(***************************************************************************)
EXTENDS MCWaiting, Sequences, FiniteSetTheorems, TLAPS

-----------------------------------------------------------------------------
(* The wait-queue driver. *)

(* A wake_up lets a sleeping thread test again, and moves no other. *)
LEMMA WakeEffect ==
  ASSUME NEW pc \in ThreadPC
  PROVE  /\ Wake(pc) \in ThreadPC \ {"asleep"}
         /\ Wake(pc) = pc \/ (pc = "asleep" /\ Wake(pc) = "wait")
  BY DEF Wake, ThreadPC

(* The inductive invariant holds at the start. *)
LEMMA InvInit == Init => IInv
  <1> SUFFICES ASSUME Init PROVE IInv
    OBVIOUS
  <1>1. upc \in [Users -> UserPC] /\ \A u \in Users : upc[u] = "out"
    BY DEF Init, UserPC
  <1>2. reads \in 0..MaxReads /\ reads = 0 /\ read_count = 0 /\ wait_queue_flag = 0
    BY MaxReadsAssumption DEF Init
  <1>3. tpc = "loop" /\ epc = "loaded" /\ ~should_stop
    BY DEF Init
  <1>b. should_stop \in BOOLEAN /\ wiped \in BOOLEAN
    BY Zenon DEF Init
  <1>4. TypeOK
    BY <1>1, <1>2, <1>3, <1>b DEF TypeOK, ThreadPC, ExitPC
  <1>5. QED  BY <1>1, <1>2, <1>3, <1>4
             DEF IInv, NoMissedWakeup, Uncounted, NobodyInside, Returned, NothingRunsUnloaded

(* What each user, the thread and the exit function do keeps it. *)
LEMMA UserInv ==
  ASSUME IInv, NEW u \in Users, Open(u) \/ Release(u) \/ ReadFlag(u) \/ ReadWake(u)
  PROVE  IInv'
  <1> USE MaxReadsAssumption DEF IInv, TypeOK, UserPC
  <1>1. epc = "loaded" /\ epc' = epc /\ \A v \in Users \ {u} : upc'[v] = upc[v]
    BY DEF Open, Release, ReadFlag, ReadWake, NobodyInside
  <1>2. NobodyInside' /\ NothingRunsUnloaded'
    BY <1>1 DEF NobodyInside, NothingRunsUnloaded
  <1>r. wait_queue_flag # 2 /\ ~should_stop /\ tpc # "exited"
    BY <1>1 DEF Returned
  <1>3. CASE Open(u) \/ Release(u)
    <2>1. /\ UNCHANGED <<wait_queue_flag, read_count, tpc, should_stop, reads, wiped>>
          /\ upc' \in [Users -> UserPC]
          /\ \A v \in Users : upc[v] = "wake" => upc'[v] = "wake"
      BY <1>3 DEF Open, Release
    <2>2. QED  BY <1>1, <1>2, <1>r, <2>1 DEF NoMissedWakeup, Uncounted, Returned
  <1>4. CASE ReadFlag(u)
    <2>1. /\ UNCHANGED <<read_count, tpc, should_stop, wiped>>
          /\ wait_queue_flag' = 1 /\ reads' = reads + 1 /\ reads' \in 0..MaxReads
          /\ upc' \in [Users -> UserPC] /\ upc'[u] = "wake"
      BY <1>4 DEF ReadFlag
    <2>2. QED  BY <1>1, <1>2, <1>r, <2>1 DEF NoMissedWakeup, Uncounted, Returned
  <1>5. CASE ReadWake(u)
    <2>1. /\ UNCHANGED <<wait_queue_flag, read_count, should_stop, reads, wiped>>
          /\ tpc' = Wake(tpc) /\ upc' \in [Users -> UserPC]
      BY <1>5 DEF ReadWake
    <2>2. QED  BY <1>1, <1>2, <1>r, <2>1, WakeEffect DEF NoMissedWakeup, Uncounted, Returned
  <1>6. QED  BY <1>3, <1>4, <1>5

(* The thread counts what it found in the flag and sleeps only when there is
   nothing in it. *)
LEMMA ThreadInv ==
  ASSUME IInv, ThreadStep
  PROVE  IInv'
  <1> USE DEF IInv, TypeOK, ThreadPC, NoMissedWakeup, Uncounted, NobodyInside, Returned, NothingRunsUnloaded
  <1>1. CASE ThreadLoop \/ ThreadNap
    BY <1>1 DEF ThreadLoop, ThreadNap
  <1>2. CASE ThreadWait
    BY <1>2 DEF ThreadWait
  <1>3. CASE ThreadTest
    BY <1>3 DEF ThreadTest
  <1>4. CASE ThreadCount
    BY <1>4 DEF ThreadCount
  <1>5. CASE ThreadReset
    BY <1>5 DEF ThreadReset
  <1>6. QED  BY <1>1, <1>2, <1>3, <1>4, <1>5 DEF ThreadStep

(* rmmod begins when nobody is inside and ends when the thread has. *)
LEMMA ExitInv ==
  ASSUME IInv, Rmmod \/ ExitStep
  PROVE  IInv'
  <1> USE DEF IInv, TypeOK, ExitPC, NoMissedWakeup, Uncounted, NobodyInside, Returned, NothingRunsUnloaded
  <1>1. CASE Rmmod
    BY <1>1 DEF Rmmod
  <1>2. CASE ExitFlag
    BY <1>2 DEF ExitFlag
  <1>3. CASE ExitWake
    BY <1>3, WakeEffect DEF ExitWake
  <1>4. CASE ExitStop
    <2>1. CASE epc' = "join"
      BY <1>4, <2>1, WakeEffect DEF ExitStop
    <2>2. CASE epc' = "crashed"
      <3>1. /\ tpc = "exited" /\ epc = "stop"
            /\ UNCHANGED <<wait_queue_flag, read_count, tpc, upc, should_stop, reads, wiped>>
        BY <1>4, <2>2 DEF ExitStop
      <3>2. wait_queue_flag = 2 /\ ~should_stop
        BY <3>1
      <3> QED  BY <2>2, <3>1, <3>2
    <2> QED  BY <1>4, <2>1, <2>2 DEF ExitStop
  <1>5. CASE ExitJoin
    BY <1>5 DEF ExitJoin
  <1>6. QED  BY <1>1, <1>2, <1>3, <1>4, <1>5 DEF ExitStep

(* The inductive invariant holds in every state. *)
LEMMA Invariance == Spec => []IInv
  <1>1. IInv /\ [Next]_vars => IInv'
    <2> SUFFICES ASSUME IInv, [Next]_vars PROVE IInv'
      OBVIOUS
    <2>1. CASE UNCHANGED vars
      BY <2>1 DEF vars, IInv, TypeOK, NoMissedWakeup, Uncounted, NobodyInside, Returned, NothingRunsUnloaded
    <2>2. QED  BY <2>1, UserInv, ThreadInv, ExitInv DEF Next
  <1>2. QED  BY <1>1, InvInit, PTL DEF Spec

-----------------------------------------------------------------------------
(* Type correctness of the driver. *)
THEOREM TypeCorrect == Spec => []TypeOK
  <1>1. IInv => TypeOK
    BY DEF IInv
  <1>2. QED  BY <1>1, Invariance, PTL

(* No wake_up of hwm_read or of the exit function is lost. *)
THEOREM WakeupsArrive == Spec => []NoMissedWakeup
  <1>1. IInv => NoMissedWakeup
    BY DEF IInv
  <1>2. QED  BY <1>1, Invariance, PTL

(* The thread counts no more events than hwm_read raised. *)
THEOREM EventsAreReads == Spec => []NoPhantomEvent
  <1>1. IInv => NoPhantomEvent
    BY DEF IInv, TypeOK, Uncounted, NoPhantomEvent
  <1>2. QED  BY <1>1, Invariance, PTL

(* Nobody runs in the code of a module that is gone, and rmmod fails in kthread_stop
   only if the thread answered the flag of the exit function by itself. *)
THEOREM UnloadIsSafe == Spec => []NothingRunsUnloaded
  <1>1. IInv => NothingRunsUnloaded
    BY DEF IInv
  <1>2. QED  BY <1>1, Invariance, PTL

-----------------------------------------------------------------------------
(* The threads of udemysp1.c.  One that waits has a letter to print, nothing is
   signalled before the first letter, and nothing but a wait that returned for no
   reason lets the second thread print before that. *)
TurnsInv ==
  /\ Turns!TypeOK
  /\ \A t \in {1, 2} : Turns!Printed(t) <= Letters
  /\ two \in {"blocked", "woken"} => Turns!Printed(2) < Letters
  /\ two = "blocked" => done = 0
  /\ two = "woken" => done = 1 \/ spurious
  /\ done = 1 => out # <<>>
  /\ out # <<>> => out[1][1] = 1 \/ spurious

(* The instances count the elements of a set alike. *)
LEMMA SameCount == \A S : Turns!Cardinality(S) = Cardinality(S)
  BY DEF Turns!Cardinality, Cardinality

(* A letter counts for the thread that prints it. *)
LEMMA PutCharCounts ==
  ASSUME out \in Seq({1, 2} \X (1..Letters)), NEW t \in {1, 2}, Turns!PutChar(t)
  PROVE  /\ \A u \in {1, 2} : Turns!Printed(u) \in Nat
         /\ Turns!Printed(t)' = Turns!Printed(t) + 1
         /\ \A u \in {1, 2} \ {t} : Turns!Printed(u)' = Turns!Printed(u)
         /\ out' # <<>> /\ out'[1] = IF out = <<>> THEN <<t, Turns!Printed(t) + 1>> ELSE out[1]
  <1> DEFINE Places(u) == {k \in DOMAIN out : out[k][1] = u}
  <1>1. /\ Len(out') = Len(out) + 1 /\ DOMAIN out' = 1..Len(out) + 1 /\ DOMAIN out = 1..Len(out)
        /\ Len(out) \in Nat
        /\ \A k \in 1..Len(out) : out'[k] = out[k]
        /\ out'[Len(out) + 1][1] = t
    BY DEF Turns!PutChar
  <1>2. ASSUME NEW u \in {1, 2} PROVE IsFiniteSet(Places(u)) /\ Cardinality(Places(u)) \in Nat
    <2>1. Places(u) \subseteq 1..Len(out)
      BY <1>1
    <2>2. IsFiniteSet(1..Len(out))
      BY <1>1, FS_Interval
    <2> QED  BY <2>1, <2>2, FS_Subset, FS_CardinalityType
  <1>3. Places(t)' = Places(t) \cup {Len(out) + 1} /\ Len(out) + 1 \notin Places(t)
    BY <1>1
  <1>4. Turns!Printed(t)' = Turns!Printed(t) + 1
    BY <1>2, <1>3, FS_AddElement, SameCount DEF Turns!Printed
  <1>5. \A u \in {1, 2} \ {t} : Places(u)' = Places(u)
    BY <1>1
  <1>6. out' # <<>> /\ out'[1] = IF out = <<>> THEN <<t, Turns!Printed(t) + 1>> ELSE out[1]
    BY <1>1 DEF Turns!PutChar
  <1> QED  BY <1>2, <1>4, <1>5, <1>6, SameCount DEF Turns!Printed

LEMMA TurnsInit ==
  ASSUME Turns!Init
  PROVE  TurnsInv
  <1> USE DEF Turns!Init
  <1>1. Turns!TypeOK
    <2>1. <<>> \in Seq({1, 2} \X (1..Letters))
      OBVIOUS
    <2> QED  BY <2>1 DEF Turns!TypeOK
  <1>2. ASSUME NEW t \in {1, 2} PROVE Turns!Printed(t) = 0
    <2>1. {k \in DOMAIN out : out[k][1] = t} = {}
      OBVIOUS
    <2> QED  BY <2>1, FS_EmptySet, SameCount DEF Turns!Printed
  <1> QED  BY <1>1, <1>2, TurnsAssumption DEF TurnsInv

LEMMA TurnsStutter ==
  ASSUME TurnsInv, UNCHANGED turnVars
  PROVE  TurnsInv'
  <1>1. \A t \in {1, 2} : Turns!Printed(t)' = Turns!Printed(t)
    BY DEF turnVars, Turns!Printed
  <1> QED  BY <1>1 DEF turnVars, TurnsInv, Turns!TypeOK

LEMMA TurnsStep ==
  ASSUME TurnsInv, Turns!Next
  PROVE  TurnsInv'
  <1> USE TurnsAssumption DEF TurnsInv, Turns!TypeOK, Turns!Gone
  <1>1. CASE Turns!FirstPrints
    <2> USE <1>1 DEF Turns!FirstPrints, Turns!Woken
    <2>1. out' \in Seq({1, 2} \X (1..Letters))
      BY PutCharCounts DEF Turns!PutChar
    <2> QED  BY <2>1, PutCharCounts
  <1>2. CASE Turns!SecondPrints
    <2> USE <1>2 DEF Turns!SecondPrints
    <2>1. out' \in Seq({1, 2} \X (1..Letters))
      BY PutCharCounts DEF Turns!PutChar
    <2> QED  BY <2>1, PutCharCounts
  <1>3. ASSUME UNCHANGED <<out, done>>,
               main' \in {"create1", "create2", "sleep", "join1", "join2", "destroy",
                         "exited", "crashed"},
               one' \in {"none", "delay", "run", "exited"},
               \/ UNCHANGED <<two, spurious>>
               \/ two' \in {"none", "run", "exited"} /\ UNCHANGED spurious
               \/ /\ two = "run" /\ two' = "blocked" /\ UNCHANGED spurious
                  /\ done = 0 /\ Turns!Printed(2) < Letters
               \/ two = "blocked" /\ two' = "woken" /\ spurious' = TRUE
        PROVE  TurnsInv'
    <2>1. \A t \in {1, 2} : Turns!Printed(t)' = Turns!Printed(t)
      BY <1>3 DEF Turns!Printed
    <2>2. Turns!TypeOK'
      BY <1>3
    <2>3. two' = "woken" => done' = 1 \/ spurious'
      BY <1>3
    <2>4. out' # <<>> => out'[1][1] = 1 \/ spurious'
      BY <1>3
    <2> QED  BY <1>3, <2>1, <2>2, <2>3, <2>4
  <1>4. CASE Turns!MainStep
    BY <1>3, <1>4 DEF Turns!MainStep, Turns!CreateFirst, Turns!CreateSecond,
                     Turns!Sleep, Turns!Join, Turns!DestroyReturn
  <1>5. CASE Turns!FirstDelay \/ Turns!FirstExits
    BY <1>3, <1>5 DEF Turns!FirstDelay, Turns!FirstExits
  <1>6. CASE Turns!SecondWaits \/ Turns!SecondExits \/ Turns!SpuriousWakeup
    BY <1>3, <1>6 DEF Turns!SecondWaits, Turns!SecondExits, Turns!SpuriousWakeup
  <1> QED  BY <1>1, <1>2, <1>4, <1>5, <1>6 DEF Turns!Next, Turns!FirstStep, Turns!SecondStep

(* The second thread does not sleep once the first has printed, and does not print
   before the first unless its wait returns for no reason; for any two strings of
   the same length. *)
THEOREM TurnsAlwaysSafe == Turns!Spec => []Turns!TurnsSafe
  <1>1. TurnsInv /\ [Turns!Next]_turnVars => TurnsInv'
    BY TurnsStep, TurnsStutter
  <1>2. TurnsInv => Turns!TurnsSafe
    BY DEF TurnsInv, Turns!TurnsSafe
  <1> QED  BY <1>1, <1>2, TurnsInit, PTL DEF Turns!Spec, Turns!vars, turnVars

-----------------------------------------------------------------------------
(* client-server.c: the types of its part. *)
ServerTypes ==
  /\ server \in {"pipe", "fork", "write", "close", "wait", "exited", "killed"}
  /\ turn \in Pipes!Children
  /\ child \in [Pipes!Children -> {"none", "close", "read", "exited", "reaped"}]
  /\ writers \in [Pipes!Children -> SUBSET (Pipes!Children \cup {Pipes!Parent})]
  /\ written \in [Pipes!Children -> BOOLEAN]
  /\ got \in [Pipes!Children -> {"nothing", "message", "end"}]

(* Where the loop over the clients has come to: pipes that are not yet created have
   no writer, messages are written in order, each to a child that exists. *)
LoopInv ==
  /\ server \in {"pipe", "fork"} => \A c \in Pipes!Children : ~written[c]
  /\ server = "pipe" => \A c \in Pipes!Children : c >= turn => writers[c] = {}
  /\ server = "fork" => /\ Pipes!Parent \in writers[turn]
                        /\ \A c \in Pipes!Children : c > turn => writers[c] = {}
  /\ server \in {"write", "close"} => \A c \in Pipes!Children : c < turn => written[c]
  /\ server = "close" => written[turn]
  /\ server = "wait" => \A c \in Pipes!Children : written[c]
  /\ \A c, d \in Pipes!Children : written[c] /\ d <= c => written[d]
  /\ \A c \in Pipes!Children : written[c] => child[c] # "none"

(* The server that runs holds the write end of every child it has not written to;
   an ended child got something, and a server that waits has reaped one at every
   turn. *)
Reaped == {c \in Pipes!Children : child[c] = "reaped"}
ChildrenInv ==
  /\ \A c \in Pipes!Children :
       /\ child[c] # "none" /\ ~written[c] /\ server \notin {"exited", "killed"} =>
            Pipes!Parent \in writers[c]
       /\ child[c] \in {"exited", "reaped"} => got[c] # "nothing"
       /\ got[c] = "end" => server \in {"exited", "killed"} /\ ~written[c]
  /\ server = "wait" => turn <= Cardinality(Reaped) + 1
  /\ server = "exited" /\ written[Clients] => Reaped = Pipes!Children

ServerInv == ServerTypes /\ LoopInv /\ ChildrenInv /\ Pipes!OnlyYoungerHold

LEMMA ServerInit ==
  ASSUME Pipes!ServerInit
  PROVE  ServerInv
  <1> USE PipesAssumption DEF Pipes!ServerInit, Pipes!Children, Pipes!Parent
  <1>1. ServerTypes
    BY DEF ServerTypes
  <1>2. LoopInv /\ ChildrenInv
    BY DEF LoopInv, ChildrenInv, Reaped
  <1>3. Pipes!OnlyYoungerHold
    BY DEF Pipes!OnlyYoungerHold
  <1> QED  BY <1>1, <1>2, <1>3 DEF ServerInv

(* A loop over the clients goes on or starts anew. *)
LEMMA TurnMoves ==
  ASSUME ServerTypes, NEW loop, NEW after, Pipes!NextTurn(loop, after)
  PROVE  /\ turn' \in Pipes!Children
         /\ \/ turn < Clients /\ server' = loop /\ turn' = turn + 1
            \/ turn = Clients /\ server' = after /\ turn' = 1
  BY PipesAssumption DEF ServerTypes, Pipes!NextTurn, Pipes!Children

(* The reaped children are as many as the clients at most. *)
LEMMA ReapedFinite ==
  /\ IsFiniteSet(Reaped) /\ Cardinality(Reaped) \in Nat /\ Reaped \subseteq 1..Clients
  /\ IsFiniteSet(1..Clients) /\ Cardinality(1..Clients) = Clients
  <1>1. Reaped \subseteq 1..Clients
    BY DEF Reaped, Pipes!Children
  <1>2. IsFiniteSet(1..Clients) /\ Cardinality(1..Clients) = Clients
    BY PipesAssumption, FS_Interval
  <1>3. IsFiniteSet(Reaped)
    BY <1>1, <1>2, FS_Subset
  <1>4. Cardinality(Reaped) \in Nat
    BY <1>3, FS_CardinalityType
  <1> QED  BY <1>1, <1>2, <1>3, <1>4

(* The loop that creates the pipes and the children. *)
LEMMA PipeInv ==
  ASSUME ServerInv, Pipes!Pipe
  PROVE  ServerInv'
  <1> USE PipesAssumption DEF ServerInv, ServerTypes, Pipes!Pipe, Pipes!Children,
              Pipes!Parent, Pipes!copyVars
  <1>1. ServerTypes'
    BY DEF Pipes!Without
  <1>2. LoopInv'
    BY DEF LoopInv, Pipes!Without
  <1>3. ChildrenInv'
    <2>1. Reaped' = Reaped
      BY DEF Reaped
    <2> QED  BY <2>1 DEF LoopInv, ChildrenInv, Pipes!Without
  <1>4. Pipes!OnlyYoungerHold'
    BY DEF Pipes!OnlyYoungerHold, Pipes!Without
  <1> QED  BY <1>1, <1>2, <1>3, <1>4

LEMMA ForkInv ==
  ASSUME ServerInv, Pipes!Fork
  PROVE  ServerInv'
  <1> USE PipesAssumption DEF ServerInv, ServerTypes, Pipes!Fork, Pipes!Children,
              Pipes!Parent, Pipes!copyVars
  <1>0. /\ turn' \in Pipes!Children
        /\ \/ turn < Clients /\ server' = "pipe" /\ turn' = turn + 1
           \/ turn = Clients /\ server' = "write" /\ turn' = 1
    BY TurnMoves
  <1>1. ServerTypes'
    <2>1. child' \in [1..Clients -> {"none", "close", "read", "exited", "reaped"}]
      BY Zenon
    <2>2. writers' \in [1..Clients -> SUBSET ((1..Clients) \cup {0})]
      <3>1. CASE UNCHANGED writers
        BY <3>1
      <3>2. CASE writers' = [c \in 1..Clients |-> IF 0 \in writers[c] THEN writers[c] \cup {turn} ELSE writers[c]]
        <4>1. \A c \in 1..Clients : writers[c] \cup {turn} \subseteq (1..Clients) \cup {0}
          OBVIOUS
        <4> QED  BY <3>2, <4>1
      <3> QED  BY <3>1, <3>2
    <2> QED  BY <1>0, <2>1, <2>2
  <1>2. LoopInv'
    <2>1. \A c \in 1..Clients : ~written[c] /\ (c > turn => writers'[c] = {})
      BY DEF LoopInv
    <2>2. server' = "pipe" => \A c \in 1..Clients : c >= turn' => writers'[c] = {}
      BY <1>0, <2>1
    <2> QED  BY <1>0, <2>1, <2>2 DEF LoopInv
  <1>3. ChildrenInv'
    BY <1>0 DEF LoopInv, ChildrenInv
  <1>4. Pipes!OnlyYoungerHold'
    <2> SUFFICES ASSUME NEW c \in 1..Clients, NEW w \in writers'[c], w # 0
                 PROVE  w > c \/ (w = c /\ child'[c] = "close")
      BY DEF Pipes!OnlyYoungerHold
    <2>1. w \in 1..Clients
      BY <1>1
    <2>2. CASE w \notin writers[c]
      <3>1. w = turn /\ c <= turn /\ child'[turn] = "close"
        BY <2>2 DEF LoopInv
      <3> QED  BY <3>1
    <2>3. CASE w \in writers[c]
      <3>1. child[c] = "close" => child'[c] = "close"
        OBVIOUS
      <3> QED  BY <2>1, <2>3, <3>1 DEF Pipes!OnlyYoungerHold
    <2> QED  BY <2>2, <2>3
  <1> QED  BY <1>1, <1>2, <1>3, <1>4

(* The loop that writes the messages. *)
LEMMA WriteInv ==
  ASSUME ServerInv, Pipes!Write \/ Pipes!Close
  PROVE  ServerInv'
  <1> USE PipesAssumption DEF ServerInv, ServerTypes, Pipes!Children,
              Pipes!Parent, Pipes!copyVars
  <1>0. Reaped' = Reaped
    BY DEF Pipes!Write, Pipes!Close, Reaped
  <1>1. CASE Pipes!Write
    <2> USE <1>1 DEF Pipes!Write
    <2>1. ServerTypes'
      <3>1. writers' \in [Pipes!Children -> SUBSET (Pipes!Children \cup {Pipes!Parent})]
        BY DEF Pipes!Without
      <3>2. written' \in [Pipes!Children -> BOOLEAN]
        OBVIOUS
      <3> QED  BY <3>1, <3>2
    <2>2. LoopInv'
      BY DEF LoopInv, Pipes!Without
    <2>3. ChildrenInv'
      BY <1>0 DEF LoopInv, ChildrenInv, Pipes!Without
    <2>4. Pipes!OnlyYoungerHold'
      BY DEF Pipes!OnlyYoungerHold, Pipes!Without
    <2> QED  BY <2>1, <2>2, <2>3, <2>4
  <1>2. CASE Pipes!Close
    <2> USE <1>2 DEF Pipes!Close
    <2>0. /\ turn' \in Pipes!Children
          /\ \/ turn < Clients /\ server' = "write" /\ turn' = turn + 1
             \/ turn = Clients /\ server' = "wait" /\ turn' = 1
      BY TurnMoves
    <2>1. ServerTypes'
      BY <2>0
    <2>2. LoopInv'
      BY <2>0 DEF LoopInv
    <2>3. ChildrenInv'
      <3>1. Cardinality(Reaped) \in Nat
        BY ReapedFinite
      <3> QED  BY <1>0, <2>0, <3>1 DEF LoopInv, ChildrenInv
    <2>4. Pipes!OnlyYoungerHold'
      BY DEF Pipes!OnlyYoungerHold
    <2> QED  BY <2>1, <2>2, <2>3, <2>4
  <1> QED  BY <1>1, <1>2

(* The loop that waits. *)
LEMMA AwaitInv ==
  ASSUME ServerInv, Pipes!Await
  PROVE  ServerInv'
  <1> USE PipesAssumption DEF ServerInv, ServerTypes, Pipes!Await, Pipes!Children,
              Pipes!Parent, Pipes!copyVars
  <1>0. /\ turn' \in Pipes!Children
        /\ \/ turn < Clients /\ server' = "wait" /\ turn' = turn + 1
           \/ turn = Clients /\ server' = "exited" /\ turn' = 1
    BY TurnMoves
  <1>1. ServerTypes'
    BY <1>0
  <1>2. LoopInv'
    BY <1>0 DEF LoopInv
  <1>3. /\ IsFiniteSet(Reaped) /\ Cardinality(Reaped) \in Nat
        /\ IsFiniteSet(1..Clients) /\ Cardinality(1..Clients) = Clients
        /\ IsFiniteSet(Reaped') /\ Cardinality(Reaped') \in Nat /\ Reaped' \subseteq 1..Clients
    <2>1. Reaped' \subseteq 1..Clients
      BY DEF Reaped
    <2>2. IsFiniteSet(Reaped')
      BY <2>1, ReapedFinite, FS_Subset
    <2> QED  BY <2>1, <2>2, ReapedFinite, FS_CardinalityType
  <1>4. turn <= Cardinality(Reaped')
    <2>1. CASE \E c \in 1..Clients : child[c] = "exited" /\ child' = [child EXCEPT ![c] = "reaped"]
      <3> PICK c \in 1..Clients : child[c] = "exited" /\ child' = [child EXCEPT ![c] = "reaped"]
        BY <2>1
      <3>1. Reaped' = Reaped \cup {c} /\ c \notin Reaped
        BY DEF Reaped
      <3> QED  BY <1>3, <3>1, FS_AddElement DEF ChildrenInv
    <2>2. CASE (\A c \in 1..Clients : child[c] \in {"none", "reaped"}) /\ UNCHANGED child
      <3>1. Reaped' = 1..Clients
        BY <2>2 DEF Reaped, LoopInv
      <3> QED  BY <1>3, <3>1
    <2> QED  BY <2>1, <2>2
  <1>5. turn = Clients => Reaped' = 1..Clients
    <2>1. /\ Cardinality(Reaped') <= Cardinality(1..Clients)
          /\ Cardinality(1..Clients) = Cardinality(Reaped') => 1..Clients = Reaped'
      <3>1. Reaped' \in SUBSET (1..Clients)
        BY <1>3
      <3> HIDE DEF Reaped
      <3> QED  BY <1>3, <3>1, FS_Subset
    <2> QED  BY <1>3, <1>4, <2>1
  <1>6. ChildrenInv'
    BY <1>0, <1>3, <1>4, <1>5 DEF LoopInv, ChildrenInv
  <1>7. Pipes!OnlyYoungerHold'
    BY DEF Pipes!OnlyYoungerHold
  <1> QED  BY <1>1, <1>2, <1>6, <1>7

LEMMA ChildInv ==
  ASSUME ServerInv, NEW c \in Pipes!Children, Pipes!ChildStep(c)
  PROVE  ServerInv'
  <1> USE PipesAssumption DEF ServerInv, ServerTypes, Pipes!ChildStep, Pipes!Children,
              Pipes!Parent, Pipes!copyVars
  <1>0. Reaped' = Reaped
    BY DEF Pipes!ChildClose, Pipes!ChildRead, Reaped
  <1>1. CASE Pipes!ChildClose(c)
    <2> USE <1>1 DEF Pipes!ChildClose
    <2>1. ServerTypes'
      OBVIOUS
    <2>2. LoopInv'
      BY DEF LoopInv
    <2>3. ChildrenInv'
      BY <1>0 DEF ChildrenInv
    <2>4. Pipes!OnlyYoungerHold'
      BY DEF Pipes!OnlyYoungerHold
    <2> QED  BY <2>1, <2>2, <2>3, <2>4
  <1>2. CASE Pipes!ChildRead(c)
    <2> USE <1>2 DEF Pipes!ChildRead
    <2>1. ServerTypes'
      BY DEF Pipes!Without
    <2>2. LoopInv'
      BY DEF LoopInv, Pipes!Without
    <2>3. ChildrenInv'
      BY <1>0 DEF ChildrenInv, Pipes!Without
    <2>4. Pipes!OnlyYoungerHold'
      BY DEF Pipes!OnlyYoungerHold, Pipes!Without
    <2> QED  BY <2>1, <2>2, <2>3, <2>4
  <1> QED  BY <1>1, <1>2

LEMMA ServerStepInv ==
  ASSUME ServerInv, Pipes!Server
  PROVE  ServerInv'
  BY PipeInv, ForkInv, WriteInv, AwaitInv, ChildInv DEF Pipes!Server, Pipes!ServerStep

LEMMA ServerStutter ==
  ASSUME ServerInv, UNCHANGED Pipes!serverVars
  PROVE  ServerInv'
  <1> USE DEF Pipes!serverVars, ServerInv
  <1>1. ServerTypes'
    BY DEF ServerTypes
  <1>2. LoopInv'
    BY DEF LoopInv
  <1>3. ChildrenInv'
    <2>1. Reaped' = Reaped
      BY DEF Reaped
    <2> QED  BY <2>1 DEF ChildrenInv
  <1>4. Pipes!OnlyYoungerHold'
    BY DEF Pipes!OnlyYoungerHold
  <1> QED  BY <1>1, <1>2, <1>3, <1>4

(* What the invariant was for. *)
LEMMA Served ==
  ASSUME ServerInv
  PROVE  Pipes!EveryChildServed
  <1> USE PipesAssumption DEF ServerInv, ServerTypes, ChildrenInv, LoopInv, Pipes!Children
  <1>1. CASE server = "exited" /\ written[Clients]
    <2>1. \A c \in 1..Clients : written[c] /\ child[c] = "reaped"
      BY <1>1 DEF Reaped
    <2> QED  BY <1>1, <2>1 DEF Pipes!EveryChildServed
  <1>2. CASE ~(server = "exited" /\ written[Clients])
    BY <1>2 DEF Pipes!EveryChildServed
  <1> QED  BY <1>1, <1>2

-----------------------------------------------------------------------------
(* s2.c: its child holds a write end until it has seen a byte, and its parent until
   it has written them all. *)
CopyTypes ==
  /\ text \in 0..MaxText /\ sent \in {0, text} /\ copied \in 0..text
  /\ parent \in {"fork", "write", "close", "wait", "exited"}
  /\ copier \in {"none", "select", "close", "read", "exited"}
  /\ ends \subseteq {"parent", "copier"}
CopyInv ==
  /\ CopyTypes /\ Pipes!CopyExact
  /\ copied <= sent
  /\ parent = "fork" => copier = "none"
  /\ parent \in {"fork", "write"} => sent = 0
  /\ parent \in {"close", "wait"} => sent = text
  /\ parent \in {"write", "close"} => "parent" \in ends
  /\ parent = "exited" => copier \in {"none", "exited"}
  /\ copier \in {"select", "close"} => "copier" \in ends

LEMMA CopyInit ==
  ASSUME Pipes!CopyInit
  PROVE  CopyInv
  BY PipesAssumption DEF Pipes!CopyInit, CopyInv, CopyTypes, Pipes!CopyExact

LEMMA CopyStepInv ==
  ASSUME CopyInv, Pipes!Copy
  PROVE  CopyInv'
  <1> USE PipesAssumption DEF CopyInv, CopyTypes, Pipes!CopyExact, Pipes!serverVars
  <1>1. CASE Pipes!CopyFork
    BY <1>1 DEF Pipes!CopyFork
  <1>2. CASE Pipes!CopyWrite
    BY <1>2 DEF Pipes!CopyWrite
  <1>3. CASE Pipes!CopyClose
    BY <1>3 DEF Pipes!CopyClose
  <1>4. CASE Pipes!CopyAwait
    BY <1>4 DEF Pipes!CopyAwait
  <1>5. CASE Pipes!CopySelect
    BY <1>5 DEF Pipes!CopySelect, Pipes!Readable
  <1>6. CASE Pipes!CopierClose
    BY <1>6 DEF Pipes!CopierClose
  <1>7. CASE Pipes!CopyRead
    BY <1>7 DEF Pipes!CopyRead, Pipes!Readable
  <1> QED  BY <1>1, <1>2, <1>3, <1>4, <1>5, <1>6, <1>7 DEF Pipes!Copy, Pipes!CopyParent, Pipes!Copier

LEMMA CopyStutter ==
  ASSUME CopyInv, UNCHANGED Pipes!copyVars
  PROVE  CopyInv'
  BY DEF Pipes!copyVars, CopyInv, CopyTypes, Pipes!CopyExact

(* Neither program touches the other. *)
LEMMA PipesApart ==
  /\ Pipes!Server => UNCHANGED Pipes!copyVars
  /\ Pipes!Copy => UNCHANGED Pipes!serverVars
  <1>1. Pipes!Server => UNCHANGED Pipes!copyVars
    BY DEF Pipes!Server, Pipes!ServerStep, Pipes!ChildStep, Pipes!Pipe, Pipes!Fork, Pipes!Write,
           Pipes!Close, Pipes!Await, Pipes!ChildClose, Pipes!ChildRead
  <1>2. Pipes!Copy => UNCHANGED Pipes!serverVars
    BY DEF Pipes!Copy, Pipes!CopyParent, Pipes!Copier, Pipes!CopyFork, Pipes!CopyWrite,
           Pipes!CopyClose, Pipes!CopyAwait, Pipes!CopySelect, Pipes!CopierClose, Pipes!CopyRead
  <1> QED  BY <1>1, <1>2

LEMMA PipesStep ==
  ASSUME ServerInv, CopyInv, Pipes!Server \/ Pipes!Copy \/ UNCHANGED pipeVars
  PROVE  ServerInv' /\ CopyInv'
  <1>1. CASE Pipes!Server
    BY <1>1, ServerStepInv, CopyStutter, PipesApart
  <1>2. CASE Pipes!Copy
    BY <1>2, CopyStepInv, ServerStutter, PipesApart
  <1>3. CASE UNCHANGED pipeVars
    BY <1>3, ServerStutter, CopyStutter DEF pipeVars, Pipes!serverVars, Pipes!copyVars
  <1> QED  BY <1>1, <1>2, <1>3

LEMMA PipesInvSafe ==
  ASSUME ServerInv, CopyInv
  PROVE  Pipes!PipesSafe
  <1>1. Pipes!TypeOK
    BY DEF ServerInv, ServerTypes, CopyInv, CopyTypes, Pipes!TypeOK
  <1> QED  BY <1>1, Served DEF ServerInv, CopyInv, Pipes!PipesSafe

(* However many clients the server has, whichever of its forks and pipes fail and in
   whatever order its children run, a child misses its message only if the server is
   gone, and a write end is left to younger siblings only; the child of s2.c copies
   every string. *)
THEOREM PipesAlwaysSafe == Pipes!Spec => []Pipes!PipesSafe
  <1>1. Pipes!Init => ServerInv /\ CopyInv
    BY ServerInit, CopyInit DEF Pipes!Init
  <1>2. ServerInv /\ CopyInv /\ [Pipes!Next]_(Pipes!vars) => ServerInv' /\ CopyInv'
    BY PipesStep DEF Pipes!Next, Pipes!vars, Pipes!serverVars, Pipes!copyVars, pipeVars
  <1> QED  BY <1>1, <1>2, PipesInvSafe, PTL DEF Pipes!Spec

-----------------------------------------------------------------------------
(* The message queue. *)

(* A sender opens no queue but its own, and has it from then on. *)
OwnQueue ==
  \A s \in Senders :
    /\ smq[s] \in {s, NoQueue}
    /\ spc[s] \in {"flags", "send", "closed"} => smq[s] = s
    /\ spc[s] \in {"open", "unlink", "reopen"} => smq[s] = NoQueue

(* The message of a sender is sent once, into its queue, and is there or with one
   receiver, which had opened that queue. *)
OnePlace ==
  /\ \A s \in Senders : queue[s] \subseteq {s} /\ (queue[s] # {} => spc[s] = "closed")
  /\ \A r \in Receivers :
       /\ from[r] # NoQueue =>
            /\ from[r] = rmq[r] /\ queue[from[r]] = {} /\ spc[from[r]] = "closed"
            /\ rpc[r] \in {"unlink", "exited"}
       /\ rpc[r] \in {"receive", "unlink", "exited"} => rmq[r] \in Senders
  /\ \A q, r \in Receivers : q # r /\ from[q] = from[r] => from[q] = NoQueue

(* A queue that has lost its name lost it to another sender, to a receiver of another
   queue, to its receiver that got nothing, or to the one that got its message. *)
NameLost(s) ==
  \/ s \in replaced \cup stale
  \/ \E r \in Receivers : rmq[r] = s /\ (from[r] = s \/ rpc[r] = "exited")
NamesKept ==
  /\ \A s \in Senders : smq[s] = s => name = s \/ NameLost(s)
  /\ name # NoQueue => smq[name] = name

QueueInv == Queues!TypeOK /\ OwnQueue /\ OnePlace /\ NamesKept

(* The initial state satisfies all of them. *)
LEMMA QueueInit ==
  ASSUME Queues!Init
  PROVE  QueueInv
  <1>1. Queues!TypeOK
    BY DEF Queues!Init, Queues!TypeOK
  <1>2. OwnQueue /\ OnePlace /\ NamesKept
    BY DEF Queues!Init, OwnQueue, OnePlace, NamesKept
  <1> QED  BY <1>1, <1>2 DEF QueueInv

(* Only the creation changes what a sender has opened. *)
LEMMA QueueCreateInv ==
  ASSUME QueueInv, NEW s \in Senders, NEW here \in {"open", "reopen"},
         Queues!Create(s, here)
  PROVE  QueueInv'
  <1> USE QueueAssumption DEF QueueInv, Queues!Create, Queues!SenderAt, Queues!receiverVars
  <1>1. Queues!TypeOK'
    BY DEF Queues!TypeOK
  <1>2. OwnQueue'
    BY DEF Queues!TypeOK, OwnQueue
  <1>3. OnePlace'
    BY DEF Queues!TypeOK, OnePlace
  <1>4. NamesKept'
    BY DEF Queues!TypeOK, OwnQueue, NamesKept, NameLost
  <1> QED  BY <1>1, <1>2, <1>3, <1>4

(* A call that only moves the sender on, and leaves alone one that has ended. *)
LEMMA QueueMoveInv ==
  ASSUME QueueInv, NEW s \in Senders,
         NEW here \in {"open", "unlink", "reopen", "flags"},
         NEW there \in {"unlink", "failed", "send"},
         there = "unlink" => here = "open", there = "send" => here = "flags",
         Queues!SenderAt(s, here, there), UNCHANGED <<name, queue, smq, replaced, Queues!receiverVars>>
  PROVE  QueueInv'
  <1> USE QueueAssumption DEF QueueInv, Queues!SenderAt, Queues!receiverVars
  <1>1. Queues!TypeOK'
    BY DEF Queues!TypeOK
  <1>2. OwnQueue'
    BY DEF Queues!TypeOK, OwnQueue
  <1>3. OnePlace'
    BY DEF Queues!TypeOK, OnePlace
  <1>4. NamesKept'
    BY DEF Queues!TypeOK, NamesKept, NameLost
  <1> QED  BY <1>1, <1>2, <1>3, <1>4

LEMMA QueueUnlinkInv ==
  ASSUME QueueInv, NEW s \in Senders, Queues!Unlink(s)
  PROVE  QueueInv'
  <1>1. CASE Queues!GivesUp(s, "unlink")
    BY <1>1, QueueMoveInv DEF Queues!GivesUp
  <1>2. CASE ~Queues!GivesUp(s, "unlink")
    <2> USE <1>2, QueueAssumption DEF QueueInv, Queues!Unlink, Queues!SenderAt, Queues!receiverVars
    <2>1. Queues!TypeOK'
      BY DEF Queues!TypeOK
    <2>2. OwnQueue'
      BY DEF Queues!TypeOK, OwnQueue
    <2>3. OnePlace'
      BY DEF Queues!TypeOK, OnePlace
    <2>4. NamesKept'
      BY DEF Queues!TypeOK, NamesKept, NameLost
    <2> QED  BY <2>1, <2>2, <2>3, <2>4
  <1> QED  BY <1>1, <1>2

LEMMA QueueSendInv ==
  ASSUME QueueInv, NEW s \in Senders, Queues!Send(s)
  PROVE  QueueInv'
  <1> USE QueueAssumption DEF QueueInv, Queues!Send, Queues!SenderAt, Queues!receiverVars
  <1>1. smq[s] = s /\ queue[s] = {}
    BY DEF Queues!TypeOK, OwnQueue, OnePlace
  <1>2. Queues!TypeOK'
    BY <1>1 DEF Queues!TypeOK
  <1>3. OwnQueue'
    BY DEF Queues!TypeOK, OwnQueue
  <1>4. OnePlace'
    BY <1>1 DEF Queues!TypeOK, OnePlace
  <1>5. NamesKept'
    BY DEF Queues!TypeOK, NamesKept, NameLost
  <1> QED  BY <1>2, <1>3, <1>4, <1>5

LEMMA QueueSenderInv ==
  ASSUME QueueInv, NEW s \in Senders, Queues!Sender(s)
  PROVE  QueueInv'
  <1>1. CASE Queues!Open(s)
    BY <1>1, QueueCreateInv, QueueMoveInv DEF Queues!Open, Queues!Exists, Queues!GivesUp
  <1>2. CASE Queues!Unlink(s)
    BY <1>2, QueueUnlinkInv
  <1>3. CASE Queues!Reopen(s)
    BY <1>3, QueueCreateInv, QueueMoveInv DEF Queues!Reopen, Queues!GivesUp
  <1>4. CASE Queues!SetFlags(s)
    BY <1>4, QueueMoveInv DEF Queues!SetFlags, Queues!GivesUp
  <1>5. CASE Queues!Send(s)
    BY <1>5, QueueSendInv
  <1> QED  BY <1>1, <1>2, <1>3, <1>4, <1>5 DEF Queues!Sender

LEMMA QueueReceiverInv ==
  ASSUME QueueInv, NEW r \in Receivers, Queues!Receiver(r)
  PROVE  QueueInv'
  <1> USE QueueAssumption DEF QueueInv, Queues!ReceiverAt, Queues!senderVars
  <1>1. CASE Queues!OpenToRead(r)
    <2> USE <1>1 DEF Queues!OpenToRead
    <2>1. Queues!TypeOK'
      BY DEF Queues!TypeOK
    <2>2. OwnQueue' /\ OnePlace'
      BY DEF Queues!TypeOK, OwnQueue, OnePlace
    <2>3. NamesKept'
      BY DEF Queues!TypeOK, OnePlace, NamesKept, NameLost
    <2> QED  BY <2>1, <2>2, <2>3
  <1>2. CASE Queues!Receive(r)
    <2> USE <1>2 DEF Queues!Receive
    <2>1. rmq[r] \in Senders /\ from[r] = NoQueue
      BY DEF Queues!TypeOK, OnePlace
    <2>2. CASE UNCHANGED <<queue, from>>
      <3>1. Queues!TypeOK' /\ OwnQueue' /\ OnePlace'
        BY <2>2 DEF Queues!TypeOK, OwnQueue, OnePlace
      <3>2. NamesKept'
        BY <2>2 DEF Queues!TypeOK, NamesKept, NameLost
      <3> QED  BY <3>1, <3>2
    <2>3. CASE ~UNCHANGED <<queue, from>>
      <3> DEFINE q == rmq[r]
      <3>1. /\ queue[q] = {q} /\ queue' = [queue EXCEPT ![q] = {}]
            /\ from' = [from EXCEPT ![r] = q]
        BY <2>1, <2>3 DEF Queues!TypeOK, OnePlace
      <3>2. Queues!TypeOK' /\ OwnQueue'
        BY <2>1, <3>1 DEF Queues!TypeOK, OwnQueue
      <3>3. \A x \in Receivers : x # r => from[x] # q /\ from'[x] = from[x]
        <4>1. ASSUME NEW x \in Receivers, from[x] = q PROVE FALSE
          <5>1. queue[from[x]] = {}
            BY <2>1, <4>1 DEF OnePlace
          <5> QED  BY <3>1, <4>1, <5>1
        <4>2. ASSUME NEW x \in Receivers, x # r PROVE from'[x] = from[x]
          BY <3>1, <4>2 DEF Queues!TypeOK
        <4> QED  BY <4>1, <4>2
      <3>4. \A s \in Senders : queue'[s] \subseteq {s} /\ (queue'[s] # {} => spc[s] = "closed")
        BY <2>1, <3>1 DEF Queues!TypeOK, OnePlace
      <3>5. from'[r] = q /\ queue'[q] = {} /\ spc[q] = "closed"
        BY <2>1, <3>1 DEF Queues!TypeOK, OnePlace
      <3>6. OnePlace'
        <4>1. \A x \in Receivers \ {r} :
                /\ from[x] # NoQueue =>
                     from[x] \in Senders /\ queue[from[x]] = {} /\ from[x] # q
                /\ rpc'[x] = rpc[x]
          BY <3>3 DEF Queues!TypeOK, OnePlace
        <4>2. \A x \in Receivers \ {r} : from[x] # NoQueue => queue'[from[x]] = {}
          BY <2>1, <3>1, <4>1 DEF Queues!TypeOK
        <4>3. rpc'[r] = "unlink"
          BY DEF Queues!TypeOK
        <4> QED  BY <2>1, <3>3, <3>4, <3>5, <4>1, <4>2, <4>3 DEF OnePlace
      <3>7. NamesKept'
        BY <2>1, <3>1 DEF Queues!TypeOK, NamesKept, NameLost
      <3> QED  BY <3>2, <3>6, <3>7
    <2> QED  BY <2>2, <2>3
  <1>3. CASE Queues!UnlinkRead(r)
    <2> USE <1>3 DEF Queues!UnlinkRead
    <2>1. Queues!TypeOK'
      BY DEF Queues!TypeOK
    <2>2. OwnQueue' /\ OnePlace'
      BY DEF Queues!TypeOK, OwnQueue, OnePlace
    <2>3. NamesKept'
      BY DEF Queues!TypeOK, NamesKept, NameLost
    <2> QED  BY <2>1, <2>2, <2>3
  <1> QED  BY <1>1, <1>2, <1>3 DEF Queues!Receiver

(* What the invariant was for. *)
LEMMA QueueInvSafe ==
  ASSUME QueueInv
  PROVE  Queues!QueueSafe
  <1>1. Queues!OneMessageEach
    BY DEF QueueInv, OnePlace, Queues!OneMessageEach
  <1>2. Queues!LostOnlyByUnlink
    BY DEF QueueInv, Queues!TypeOK, OwnQueue, OnePlace, NamesKept, NameLost, Queues!LostOnlyByUnlink
  <1> QED  BY <1>1, <1>2 DEF QueueInv, Queues!QueueSafe

LEMMA QueueStep ==
  ASSUME QueueInv, Queues!Next \/ UNCHANGED queueVars
  PROVE  QueueInv'
  <1>1. CASE UNCHANGED queueVars
    BY <1>1 DEF queueVars, QueueInv, Queues!TypeOK, OwnQueue, OnePlace, NamesKept, NameLost
  <1> QED  BY <1>1, QueueSenderInv, QueueReceiverInv DEF Queues!Next

(* However many senders replace each other's queues and receivers unlink them, every
   message is in one place, and is out of reach only if its queue was replaced, was
   unlinked by a receiver of another one, or had a receiver that did not wait. *)
THEOREM QueueAlwaysSafe == Queues!Spec => []Queues!QueueSafe
  <1>1. Queues!Init => QueueInv
    BY QueueInit
  <1>2. QueueInv /\ [Queues!Next]_(Queues!vars) => QueueInv'
    BY QueueStep DEF Queues!vars, Queues!senderVars, Queues!receiverVars, queueVars
  <1> QED  BY <1>1, <1>2, QueueInvSafe, PTL DEF Queues!Spec

-----------------------------------------------------------------------------
(* What each of the programs promises holds in every state, whichever of them
   runs. *)
THEOREM IpcAlwaysSafe == MCSpec => []IpcSafe
  <1> DEFINE Inv == TurnsInv /\ ServerInv /\ CopyInv /\ QueueInv
             AllVars == <<part, vars, turnVars, pipeVars, queueVars>>
  <1>1. MCInit => Inv
    BY TurnsInit, ServerInit, CopyInit, QueueInit DEF MCInit, Pipes!Init
  <1>2. Inv /\ [MCNext]_AllVars => Inv'
    <2> SUFFICES ASSUME Inv, [MCNext]_AllVars PROVE Inv'
      OBVIOUS
    <2>1. TurnsInv'
      BY TurnsStep, TurnsStutter DEF MCNext
    <2>2. ServerInv' /\ CopyInv'
      BY PipesStep DEF MCNext
    <2>3. QueueInv'
      BY QueueStep DEF MCNext
    <2> QED  BY <2>1, <2>2, <2>3
  <1>3. Inv => IpcSafe
    BY PipesInvSafe, QueueInvSafe DEF IpcSafe, TurnsInv, Turns!TurnsSafe
  <1> QED  BY <1>1, <1>2, <1>3, PTL DEF MCSpec
=============================================================================
