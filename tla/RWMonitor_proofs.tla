-------------------------- MODULE RWMonitor_proofs --------------------------
(* Proofs about RWMonitor, for every number of readers, writers and loops. *)
EXTENDS RWMonitor, FiniteSetTheorems, TLAPS

(* A signal moves a blocked thread from "waiting" to "woken", if there is one,
   and moves no other thread. *)
LEMMA SignalReaders ==
  ASSUME NEW pc \in [Readers -> ReaderPC], NEW pcNew, Signal(pc, pcNew)
  PROVE  /\ pcNew \in [Readers -> ReaderPC]
         /\ \A t \in Readers : \/ pcNew[t] = pc[t]
                               \/ pc[t] = "waiting" /\ pcNew[t] = "woken"
         /\ (\E t \in Readers : pc[t] = "waiting") => \E t \in Readers : pcNew[t] = "woken"
  <1>1. CASE \E t \in Readers : pc[t] = "waiting"
    <2>1. PICK t \in Readers : pc[t] = "waiting" /\ pcNew = [pc EXCEPT ![t] = "woken"]
      BY <1>1 DEF Signal
    <2>2. QED  BY <2>1 DEF ReaderPC
  <1>2. CASE ~\E t \in Readers : pc[t] = "waiting"
    BY <1>2 DEF Signal
  <1>3. QED  BY <1>1, <1>2

(* The same of the writers. *)
LEMMA SignalWriters ==
  ASSUME NEW pc \in [Writers -> WriterPC], NEW pcNew, Signal(pc, pcNew)
  PROVE  /\ pcNew \in [Writers -> WriterPC]
         /\ \A t \in Writers : \/ pcNew[t] = pc[t]
                               \/ pc[t] = "waiting" /\ pcNew[t] = "woken"
         /\ (\E t \in Writers : pc[t] = "waiting") => \E t \in Writers : pcNew[t] = "woken"
  <1>1. CASE \E t \in Writers : pc[t] = "waiting"
    <2>1. PICK t \in Writers : pc[t] = "waiting" /\ pcNew = [pc EXCEPT ![t] = "woken"]
      BY <1>1 DEF Signal
    <2>2. QED  BY <2>1 DEF WriterPC
  <1>2. CASE ~\E t \in Writers : pc[t] = "waiting"
    BY <1>2 DEF Signal
  <1>3. QED  BY <1>1, <1>2

(* A broadcast leaves no thread blocked and moves only the blocked ones. *)
LEMMA BroadcastEffect ==
  ASSUME NEW pc \in [Readers -> ReaderPC]
  PROVE  /\ Broadcast(pc) \in [Readers -> ReaderPC]
         /\ \A t \in Readers :
               Broadcast(pc)[t] = (IF pc[t] = "waiting" THEN "woken" ELSE pc[t])
  BY DEF Broadcast, ReaderPC

(* The sets the counters count are finite. *)
LEMMA FiniteThreads ==
  /\ IsFiniteSet(ActiveReaders) /\ IsFiniteSet(WaitingReaders)
  /\ IsFiniteSet(ActiveWriters) /\ IsFiniteSet(WaitingWriters)
  <1>1. IsFiniteSet(Readers) /\ IsFiniteSet(Writers)
    BY FS_Interval, MAssumption, NAssumption DEF Readers, Writers
  <1>2. ActiveReaders \in SUBSET Readers /\ WaitingReaders \in SUBSET Readers
    BY DEF ActiveReaders, WaitingReaders
  <1>3. ActiveWriters \in SUBSET Writers /\ WaitingWriters \in SUBSET Writers
    BY DEF ActiveWriters, WaitingWriters
  <1>4. QED  BY <1>1, <1>2, <1>3, FS_Subset

-----------------------------------------------------------------------------
(* The initial values have their types. *)
LEMMA TypeInit == Init => TypeOK
  BY MAssumption, NAssumption DEF Init, TypeOK, ReaderPC, WriterPC, MainPC, Writers, Readers

(* One turn of a loop of main() keeps i in the range of the loop it is in. *)
LEMMA StepType ==
  ASSUME NEW count \in Nat \ {0}, NEW phase, next \in 0..(count-1), Step(count, phase)
  PROVE  \/ main' = main /\ next' \in 0..(count-1)
         \/ main' = phase /\ next' = 0
  BY DEF Step

(* Every step of a thread and of main() keeps the types. *)
LEMMA TypeStep == TypeOK /\ [Next]_vars => TypeOK'
  <1> SUFFICES ASSUME TypeOK, [Next]_vars PROVE TypeOK'
    OBVIOUS
  <1> USE MAssumption, NAssumption DEF TypeOK, ReaderPC, WriterPC, MainPC
  <1>1. CASE MainStep
    <2>0. 0 \in Writers /\ 0 \in Readers
      BY DEF Writers, Readers
    <2>1. CASE CreateWriter
      <3>1. \/ main' = "createW" /\ next' \in Writers
            \/ main' = "createR" /\ next' = 0
        BY <2>1, StepType DEF CreateWriter, Writers
      <3>2. wpc' \in [Writers -> WriterPC] /\ UNCHANGED <<monitor, rpc, rc, wc>>
        BY <2>1 DEF CreateWriter
      <3>3. next' \in Nat
        BY <3>1, <2>0 DEF Writers
      <3>4. QED  BY <2>0, <3>1, <3>2, <3>3 DEF monitor
    <2>2. CASE CreateReader
      <3>1. \/ main' = "createR" /\ next' \in Readers
            \/ main' = "joinR" /\ next' = 0
        BY <2>2, StepType DEF CreateReader, Readers
      <3>2. rpc' \in [Readers -> ReaderPC] /\ UNCHANGED <<monitor, wpc, rc, wc>>
        BY <2>2 DEF CreateReader
      <3>3. next' \in Nat
        BY <3>1, <2>0 DEF Readers
      <3>4. QED  BY <2>0, <3>1, <3>2, <3>3 DEF monitor
    <2>3. CASE JoinReader
      <3>1. \/ main' = "joinR" /\ next' \in Readers
            \/ main' = "joinW" /\ next' = 0
            \/ main' = "crashed" /\ next' = next
        BY <2>3, StepType DEF JoinReader, Readers
      <3>2. UNCHANGED <<monitor, threads>>
        BY <2>3 DEF JoinReader
      <3>3. next' \in Nat
        BY <3>1, <2>0 DEF Readers
      <3>4. QED  BY <2>0, <3>1, <3>2, <3>3 DEF monitor, threads
    <2>4. CASE JoinWriter
      <3>1. \/ main' = "joinW" /\ next' \in Writers
            \/ main' = "done" /\ next' = 0
            \/ main' = "crashed" /\ next' = next
        BY <2>4, StepType DEF JoinWriter, Writers
      <3>2. UNCHANGED <<monitor, threads>>
        BY <2>4 DEF JoinWriter
      <3>3. next' \in Nat
        BY <3>1, <2>0 DEF Writers
      <3>4. QED  BY <2>0, <3>1, <3>2, <3>3 DEF monitor, threads
    <2>5. QED  BY <1>1, <2>1, <2>2, <2>3, <2>4 DEF MainStep
  <1>2. ASSUME NEW r \in Readers, ReaderStep(r) PROVE TypeOK'
    <2>1. CASE BeginReadWait(r)
      BY <2>1 DEF BeginReadWait
    <2>2. CASE BeginRead(r)
      BY <2>2 DEF BeginRead
    <2>3. CASE ResumeRead(r)
      BY <2>3 DEF ResumeRead
    <2>4. CASE BroadcastRead(r)
      <3>1. Broadcast(rpc) \in [Readers -> ReaderPC]
        BY BroadcastEffect
      <3>2. QED  BY <2>4, <3>1 DEF BroadcastRead, monitor
    <2>5. CASE EndRead(r)
      <3>1. wpc' \in [Writers -> WriterPC]
        BY <2>5, SignalWriters DEF EndRead
      <3>2. rc' \in [Readers -> Nat] /\ rpc' \in [Readers -> ReaderPC]
        BY <2>5 DEF EndRead
      <3>3. rcnt' = rcnt - 1 /\ UNCHANGED <<wcnt, waitr, waitw, buffer, wc, main, next>>
        BY <2>5 DEF EndRead
      <3>4. QED  BY <3>1, <3>2, <3>3
    <2>6. QED  BY <1>2, <2>1, <2>2, <2>3, <2>4, <2>5 DEF ReaderStep
  <1>3. ASSUME NEW w \in Writers, WriterStep(w) PROVE TypeOK'
    <2>1. CASE CancelWriter(w)
      BY <2>1 DEF CancelWriter, monitor
    <2>2. CASE BeginWriteWait(w)
      BY <2>2 DEF BeginWriteWait
    <2>3. CASE BeginWrite(w)
      BY <2>3 DEF BeginWrite, Write
    <2>4. CASE ResumeWrite(w)
      BY <2>4 DEF ResumeWrite, Write
    <2>5. CASE EndWrite(w)
      <3> DEFINE ended == [wpc EXCEPT ![w] = IF wc'[w] < WriteLoops THEN "ready" ELSE "done"]
      <3>1. wc' \in [Writers -> Nat] /\ ended \in [Writers -> WriterPC]
        BY <2>5 DEF EndWrite
      <3>2. rpc' \in [Readers -> ReaderPC] /\ wpc' \in [Writers -> WriterPC]
        <4>1. CASE waitr > 0
          <5>1. Signal(rpc, rpc') /\ wpc' = ended
            BY <2>5, <4>1 DEF EndWrite
          <5>2. QED  BY <5>1, <3>1, SignalReaders
        <4>2. CASE ~(waitr > 0)
          <5>1. Signal(ended, wpc') /\ rpc' = rpc
            BY <2>5, <4>2 DEF EndWrite
          <5> HIDE DEF ended
          <5>2. QED  BY <5>1, <3>1, SignalWriters
        <4>3. QED  BY <4>1, <4>2
      <3>3. wcnt' = 0 /\ UNCHANGED <<rcnt, waitr, waitw, buffer, rc, main, next>>
        BY <2>5 DEF EndWrite
      <3>4. QED  BY <3>1, <3>2, <3>3
    <2>6. QED  BY <1>3, <2>1, <2>2, <2>3, <2>4, <2>5 DEF WriterStep
  <1>4. CASE Spurious
    BY <1>4 DEF Spurious, SpuriousRead, SpuriousWrite, monitor
  <1>5. CASE UNCHANGED vars
    BY <1>5 DEF vars
  <1>6. QED  BY <1>1, <1>2, <1>3, <1>4, <1>5 DEF Next

(* Type correctness of the monitor. *)
THEOREM TypeCorrect == Spec => []TypeOK
  <1>1. QED  BY TypeInit, TypeStep, PTL DEF Spec

-----------------------------------------------------------------------------
(* What a step does to the sets that the counters count. *)
Same(S, T) == T = S
Joins(S, T, x) == x \notin S /\ T = S \cup {x}
Leaves(S, T, x) == x \in S /\ T = S \ {x}

(* The size of a finite set follows a thread that joins or leaves it. *)
LEMMA CardinalityStep ==
  ASSUME NEW S, IsFiniteSet(S), NEW T, NEW x
  PROVE  /\ Cardinality(S) \in Nat
         /\ Joins(S, T, x) => Cardinality(T) = Cardinality(S) + 1
         /\ Leaves(S, T, x) => Cardinality(T) = Cardinality(S) - 1
         /\ Cardinality(S) = 0 <=> S = {}
  <1>1. Cardinality(S) \in Nat
    BY FS_CardinalityType
  <1>2. Joins(S, T, x) => Cardinality(T) = Cardinality(S) + 1
    BY FS_AddElement DEF Joins
  <1>3. Leaves(S, T, x) => Cardinality(T) = Cardinality(S) - 1
    BY FS_RemoveElement DEF Leaves
  <1>4. Cardinality(S) = 0 <=> S = {}
    BY FS_EmptySet
  <1>5. QED  BY <1>1, <1>2, <1>3, <1>4

(* The groups of threads that the counters and the wakeup chain are about. *)
groups == <<ActiveReaders, WaitingReaders, ActiveWriters, WaitingWriters>>

(* main only moves threads from "new" to "ready", outside the monitor. *)
LEMMA MainPCs ==
  ASSUME TypeOK, NotYetCreated, MainStep
  PROVE  /\ UNCHANGED monitor
         /\ \A r \in Readers : rpc'[r] = rpc[r] \/ (rpc[r] = "new" /\ rpc'[r] = "ready")
         /\ \A w \in Writers : wpc'[w] = wpc[w] \/ (wpc[w] = "new" /\ wpc'[w] = "ready")
         /\ NotYetCreated'
  <1> USE MAssumption, NAssumption DEF TypeOK, NotYetCreated, Writers, Readers
  <1>1. CASE CreateWriter
    <2>1. rpc' = rpc /\ UNCHANGED monitor
      BY <1>1 DEF CreateWriter
    <2>2. \A w \in Writers : wpc'[w] = wpc[w] \/ (w = next /\ wpc'[w] = "ready")
      BY <1>1 DEF CreateWriter
    <2>3. wpc[next] = "new" /\ main = "createW"
      BY <1>1 DEF CreateWriter
    <2>4. \/ main' = "createW" /\ next' = next + 1
          \/ main' = "createR" /\ next' = 0
      BY <1>1 DEF CreateWriter, Step
    <2>5. NotYetCreated'
      BY <2>1, <2>2, <2>3, <2>4
    <2>6. QED  BY <2>1, <2>2, <2>3, <2>5
  <1>2. CASE CreateReader
    <2>1. wpc' = wpc /\ UNCHANGED monitor
      BY <1>2 DEF CreateReader
    <2>2. \A r \in Readers : rpc'[r] = rpc[r] \/ (r = next /\ rpc'[r] = "ready")
      BY <1>2 DEF CreateReader
    <2>3. rpc[next] = "new" /\ main = "createR"
      BY <1>2 DEF CreateReader
    <2>4. \/ main' = "createR" /\ next' = next + 1
          \/ main' = "joinR"
      BY <1>2 DEF CreateReader, Step
    <2>5. NotYetCreated'
      BY <2>1, <2>2, <2>3, <2>4
    <2>6. QED  BY <2>1, <2>2, <2>3, <2>5
  <1>3. CASE JoinReader \/ JoinWriter
    <2>1. rpc' = rpc /\ wpc' = wpc /\ UNCHANGED monitor
      BY <1>3 DEF JoinReader, JoinWriter, threads
    <2>2. main' \notin {"createW", "createR"}
      BY <1>3 DEF JoinReader, JoinWriter, Step
    <2>3. QED  BY <2>1, <2>2
  <1>4. QED  BY <1>1, <1>2, <1>3 DEF MainStep

(* A step of main() changes none of the groups. *)
LEMMA MainGroups ==
  ASSUME TypeOK, NotYetCreated, MainStep
  PROVE  groups' = groups
  BY MainPCs DEF groups, ActiveReaders, WaitingReaders, ActiveWriters, WaitingWriters

(* A step of a reader moves it from one group to the next; a signal or broadcast
   leaves its target in the group of the waiting. *)
LEMMA ReaderGroups ==
  ASSUME TypeOK, NEW r \in Readers
  PROVE  /\ BeginReadWait(r) =>
              /\ Joins(WaitingReaders, WaitingReaders', r)
              /\ UNCHANGED <<ActiveReaders, ActiveWriters, WaitingWriters>>
         /\ BeginRead(r) =>
              /\ Joins(ActiveReaders, ActiveReaders', r)
              /\ UNCHANGED <<WaitingReaders, ActiveWriters, WaitingWriters>>
         /\ ResumeRead(r) =>
              /\ Joins(ActiveReaders, ActiveReaders', r)
              /\ Leaves(WaitingReaders, WaitingReaders', r)
              /\ UNCHANGED <<ActiveWriters, WaitingWriters>>
         /\ BroadcastRead(r) => groups' = groups
         /\ EndRead(r) =>
              /\ Leaves(ActiveReaders, ActiveReaders', r)
              /\ UNCHANGED <<WaitingReaders, ActiveWriters, WaitingWriters>>
  <1> USE DEF groups, ActiveReaders, WaitingReaders, ActiveWriters, WaitingWriters, Joins, Leaves
  <1>1. ASSUME BeginReadWait(r)
        PROVE  /\ Joins(WaitingReaders, WaitingReaders', r)
               /\ UNCHANGED <<ActiveReaders, ActiveWriters, WaitingWriters>>
    BY <1>1 DEF BeginReadWait, TypeOK
  <1>2. ASSUME BeginRead(r)
        PROVE  /\ Joins(ActiveReaders, ActiveReaders', r)
               /\ UNCHANGED <<WaitingReaders, ActiveWriters, WaitingWriters>>
    BY <1>2 DEF BeginRead, TypeOK
  <1>3. ASSUME ResumeRead(r)
        PROVE  /\ Joins(ActiveReaders, ActiveReaders', r)
               /\ Leaves(WaitingReaders, WaitingReaders', r)
               /\ UNCHANGED <<ActiveWriters, WaitingWriters>>
    BY <1>3 DEF ResumeRead, TypeOK
  <1>4. ASSUME BroadcastRead(r) PROVE groups' = groups
    <2>1. /\ Broadcast(rpc) \in [Readers -> ReaderPC]
          /\ \A t \in Readers : Broadcast(rpc)[t] = (IF rpc[t] = "waiting" THEN "woken" ELSE rpc[t])
      BY BroadcastEffect DEF TypeOK, ReaderPC
    <2>2. /\ rpc[r] = "entered" /\ rpc'[r] = "active" /\ wpc' = wpc
          /\ \A t \in Readers : t # r => rpc'[t] = (IF rpc[t] = "waiting" THEN "woken" ELSE rpc[t])
      BY <1>4, <2>1 DEF BroadcastRead
    <2>3. ActiveReaders' = ActiveReaders
      BY <2>2
    <2>4. WaitingReaders' = WaitingReaders
      BY <2>2
    <2>5. QED  BY <2>2, <2>3, <2>4
  <1>5. ASSUME EndRead(r)
        PROVE  /\ Leaves(ActiveReaders, ActiveReaders', r)
               /\ UNCHANGED <<WaitingReaders, ActiveWriters, WaitingWriters>>
    <2>1. \A w \in Writers : wpc'[w] = wpc[w] \/ (wpc[w] = "waiting" /\ wpc'[w] = "woken")
      BY <1>5, SignalWriters DEF EndRead, TypeOK
    <2>2. /\ rpc[r] = "active" /\ rpc'[r] \in {"ready", "done"}
          /\ \A t \in Readers : t # r => rpc'[t] = rpc[t]
      BY <1>5 DEF EndRead, TypeOK
    <2>3. ActiveWriters' = ActiveWriters /\ WaitingWriters' = WaitingWriters
      BY <2>1
    <2>4. Leaves(ActiveReaders, ActiveReaders', r) /\ WaitingReaders' = WaitingReaders
      BY <2>2
    <2>5. QED  BY <2>3, <2>4
  <1>6. QED  BY <1>1, <1>2, <1>3, <1>4, <1>5

(* endWrite: the thread leaves, and wakes a reader if one is counted in waitr,
   a writer otherwise. *)
LEMMA EndWritePCs ==
  ASSUME TypeOK, NEW w \in Writers, EndWrite(w)
  PROVE  /\ wpc[w] = "active" /\ wpc'[w] \in {"ready", "done"}
         /\ \A t \in Writers : \/ t = w
                               \/ wpc'[t] = wpc[t]
                               \/ wpc[t] = "waiting" /\ wpc'[t] = "woken"
         /\ \A t \in Readers : \/ rpc'[t] = rpc[t]
                               \/ rpc[t] = "waiting" /\ rpc'[t] = "woken"
         /\ waitr > 0 => ( (\E t \in Readers : rpc[t] = "waiting")
                             => \E t \in Readers : rpc'[t] = "woken" )
         /\ ~(waitr > 0) => ( (\E t \in Writers : wpc[t] = "waiting")
                                => \E t \in Writers : wpc'[t] = "woken" )
  <1> DEFINE ended == [wpc EXCEPT ![w] = IF wc'[w] < WriteLoops THEN "ready" ELSE "done"]
  <1>1. /\ wpc[w] = "active" /\ ended \in [Writers -> WriterPC]
        /\ ended[w] \in {"ready", "done"}
        /\ \A t \in Writers : t # w => ended[t] = wpc[t]
    BY DEF EndWrite, TypeOK, WriterPC
  <1>2. rpc \in [Readers -> ReaderPC]
    BY DEF TypeOK
  <1>3. CASE waitr > 0
    <2>1. Signal(rpc, rpc') /\ wpc' = ended
      BY <1>3 DEF EndWrite
    <2> HIDE DEF ended
    <2>2. QED  BY <1>1, <1>2, <1>3, <2>1, SignalReaders
  <1>4. CASE ~(waitr > 0)
    <2>1. Signal(ended, wpc') /\ rpc' = rpc
      BY <1>4 DEF EndWrite
    <2> HIDE DEF ended
    <2>2. /\ \A t \in Writers : \/ wpc'[t] = ended[t]
                                \/ ended[t] = "waiting" /\ wpc'[t] = "woken"
          /\ (\E t \in Writers : ended[t] = "waiting") => \E t \in Writers : wpc'[t] = "woken"
      BY <1>1, <2>1, SignalWriters
    <2>3. QED  BY <1>1, <1>4, <2>1, <2>2
  <1>5. QED  BY <1>3, <1>4

(* The same of a step of a writer. *)
LEMMA WriterGroups ==
  ASSUME TypeOK, NEW w \in Writers
  PROVE  /\ CancelWriter(w) => groups' = groups
         /\ BeginWriteWait(w) =>
              /\ Joins(WaitingWriters, WaitingWriters', w)
              /\ UNCHANGED <<ActiveReaders, WaitingReaders, ActiveWriters>>
         /\ BeginWrite(w) =>
              /\ Joins(ActiveWriters, ActiveWriters', w)
              /\ UNCHANGED <<ActiveReaders, WaitingReaders, WaitingWriters>>
         /\ ResumeWrite(w) =>
              /\ Joins(ActiveWriters, ActiveWriters', w)
              /\ Leaves(WaitingWriters, WaitingWriters', w)
              /\ UNCHANGED <<ActiveReaders, WaitingReaders>>
         /\ EndWrite(w) =>
              /\ Leaves(ActiveWriters, ActiveWriters', w)
              /\ UNCHANGED <<ActiveReaders, WaitingReaders, WaitingWriters>>
  <1> USE DEF groups, ActiveReaders, WaitingReaders, ActiveWriters, WaitingWriters, Joins, Leaves
  <1>1. ASSUME CancelWriter(w) PROVE groups' = groups
    BY <1>1 DEF CancelWriter, TypeOK
  <1>2. ASSUME BeginWriteWait(w)
        PROVE  /\ Joins(WaitingWriters, WaitingWriters', w)
               /\ UNCHANGED <<ActiveReaders, WaitingReaders, ActiveWriters>>
    BY <1>2 DEF BeginWriteWait, TypeOK
  <1>3. ASSUME BeginWrite(w)
        PROVE  /\ Joins(ActiveWriters, ActiveWriters', w)
               /\ UNCHANGED <<ActiveReaders, WaitingReaders, WaitingWriters>>
    BY <1>3 DEF BeginWrite, Write, TypeOK
  <1>4. ASSUME ResumeWrite(w)
        PROVE  /\ Joins(ActiveWriters, ActiveWriters', w)
               /\ Leaves(WaitingWriters, WaitingWriters', w)
               /\ UNCHANGED <<ActiveReaders, WaitingReaders>>
    BY <1>4 DEF ResumeWrite, Write, TypeOK
  <1>5. ASSUME EndWrite(w)
        PROVE  /\ Leaves(ActiveWriters, ActiveWriters', w)
               /\ UNCHANGED <<ActiveReaders, WaitingReaders, WaitingWriters>>
    <2>1. /\ wpc[w] = "active" /\ wpc'[w] \in {"ready", "done"}
          /\ \A t \in Writers : \/ t = w
                                \/ wpc'[t] = wpc[t]
                                \/ wpc[t] = "waiting" /\ wpc'[t] = "woken"
          /\ \A t \in Readers : \/ rpc'[t] = rpc[t]
                                \/ rpc[t] = "waiting" /\ rpc'[t] = "woken"
      BY <1>5, EndWritePCs
    <2>2. WaitingReaders' = WaitingReaders /\ ActiveReaders' = ActiveReaders
      BY <2>1
    <2>3. Leaves(ActiveWriters, ActiveWriters', w) /\ WaitingWriters' = WaitingWriters
      BY <2>1
    <2>4. QED  BY <2>2, <2>3
  <1>6. QED  BY <1>1, <1>2, <1>3, <1>4, <1>5

-----------------------------------------------------------------------------
(* What the counters say about the threads. *)
LEMMA CountersMean ==
  ASSUME CountersExact
  PROVE  /\ rcnt \in Nat /\ waitr \in Nat /\ waitw \in Nat
         /\ rcnt = 0 <=> ActiveReaders = {}
         /\ waitr = 0 <=> WaitingReaders = {}
         /\ waitw = 0 <=> WaitingWriters = {}
  BY FiniteThreads, FS_EmptySet, FS_CardinalityType DEF CountersExact

(* Each step adds to a counter when a thread joins the group it counts. *)
LEMMA CountersReader ==
  ASSUME TypeOK, CountersExact, NEW r \in Readers, ReaderStep(r)
  PROVE  CountersExact'
  <1> USE FiniteThreads, CardinalityStep, ReaderGroups DEF CountersExact
  <1>1. CASE BeginReadWait(r)
    BY <1>1 DEF BeginReadWait
  <1>2. CASE BeginRead(r)
    BY <1>2 DEF BeginRead
  <1>3. CASE ResumeRead(r)
    BY <1>3 DEF ResumeRead
  <1>4. CASE BroadcastRead(r)
    BY <1>4 DEF BroadcastRead, monitor, groups
  <1>5. CASE EndRead(r)
    BY <1>5 DEF EndRead
  <1>6. QED  BY <1>1, <1>2, <1>3, <1>4, <1>5 DEF ReaderStep

(* The same of the writers' steps. *)
LEMMA CountersWriter ==
  ASSUME TypeOK, CountersExact, NEW w \in Writers, WriterStep(w)
  PROVE  CountersExact'
  <1> USE FiniteThreads, CardinalityStep, WriterGroups DEF CountersExact
  <1>1. CASE CancelWriter(w)
    BY <1>1 DEF CancelWriter, monitor, groups
  <1>2. CASE BeginWriteWait(w)
    BY <1>2 DEF BeginWriteWait
  <1>3. CASE BeginWrite(w)
    BY <1>3 DEF BeginWrite, Write, Joins
  <1>4. CASE ResumeWrite(w)
    BY <1>4 DEF ResumeWrite, Write, Joins
  <1>5. CASE EndWrite(w)
    <2>1. wcnt' = 0 /\ UNCHANGED <<rcnt, waitr, waitw>>
      BY <1>5 DEF EndWrite
    <2>2. QED  BY <1>5, <2>1
  <1>6. QED  BY <1>1, <1>2, <1>3, <1>4, <1>5 DEF WriterStep

(* A spurious wakeup leaves its thread in the group of the waiting. *)
LEMMA SpuriousGroups ==
  ASSUME TypeOK, Spurious
  PROVE  /\ groups' = groups /\ UNCHANGED monitor
         /\ \A t \in Readers : \/ rpc'[t] = rpc[t]
                               \/ rpc[t] = "waiting" /\ rpc'[t] = "woken"
         /\ \A t \in Writers : \/ wpc'[t] = wpc[t]
                               \/ wpc[t] = "waiting" /\ wpc'[t] = "woken"
  <1>1. UNCHANGED monitor
    BY DEF Spurious, SpuriousRead, SpuriousWrite
  <1>2. /\ \A t \in Readers : \/ rpc'[t] = rpc[t]
                              \/ rpc[t] = "waiting" /\ rpc'[t] = "woken"
        /\ \A t \in Writers : \/ wpc'[t] = wpc[t]
                              \/ wpc[t] = "waiting" /\ wpc'[t] = "woken"
    BY DEF TypeOK, Spurious, SpuriousRead, SpuriousWrite
  <1>3. ActiveReaders' = ActiveReaders /\ WaitingReaders' = WaitingReaders
    BY <1>2 DEF ActiveReaders, WaitingReaders
  <1>4. ActiveWriters' = ActiveWriters /\ WaitingWriters' = WaitingWriters
    BY <1>2 DEF ActiveWriters, WaitingWriters
  <1>5. QED  BY <1>1, <1>2, <1>3, <1>4 DEF groups

-----------------------------------------------------------------------------
(* The wakeup chain.  A thread that starts to wait sees, in the counters, the
   thread that will wake it; a thread that leaves hands the duty on. *)
NoneStranded == NoReaderStranded /\ NoWriterStranded

(* A reader's step strands nobody. *)
LEMMA ChainReader ==
  ASSUME TypeOK, CountersExact, NoneStranded, NEW r \in Readers, ReaderStep(r)
  PROVE  NoneStranded'
  <1> USE DEF NoneStranded, NoReaderStranded, NoWriterStranded,
              ActiveReaders, ActiveWriters, WaitingWriters
  <1>0. rpc \in [Readers -> ReaderPC] /\ wpc \in [Writers -> WriterPC]
    BY DEF TypeOK
  <1>1. CASE BeginReadWait(r)
    <2>1. ActiveWriters # {} \/ WaitingWriters # {}
      BY <1>1, CountersMean DEF BeginReadWait, CountersExact
    <2>2. wpc' = wpc /\ rpc[r] = "ready" /\ rpc' = [rpc EXCEPT ![r] = "waiting"]
      BY <1>1 DEF BeginReadWait
    <2>3. QED  BY <1>0, <2>1, <2>2
  <1>2. CASE BeginRead(r) \/ ResumeRead(r)
    <2>1. wpc' = wpc /\ rpc' = [rpc EXCEPT ![r] = "entered"] /\ rpc[r] \in {"ready", "woken"}
      BY <1>2 DEF BeginRead, ResumeRead
    <2>2. QED  BY <1>0, <2>1
  <1>3. CASE BroadcastRead(r)
    <2>1. /\ wpc' = wpc /\ rpc[r] = "entered" /\ rpc'[r] = "active"
          /\ \A t \in Readers : t # r => rpc'[t] = (IF rpc[t] = "waiting" THEN "woken" ELSE rpc[t])
      BY <1>0, <1>3, BroadcastEffect DEF BroadcastRead
    <2>2. QED  BY <2>1
  <1>4. CASE EndRead(r)
    <2>1. /\ rpc[r] = "active" /\ rpc'[r] \in {"ready", "done"}
          /\ \A t \in Readers : t # r => rpc'[t] = rpc[t]
      BY <1>0, <1>4 DEF EndRead
    <2>2. CASE rcnt' = 0
      <3>1. Signal(wpc, wpc')
        BY <1>4, <2>2 DEF EndRead
      <3>2. QED  BY <1>0, <2>1, <3>1, SignalWriters
    <2>3. CASE rcnt' # 0
      <3>1. wpc' = wpc
        BY <1>4, <2>3 DEF EndRead
      <3>2. ActiveReaders' # {}
        BY <1>4, <2>3, CountersReader, FiniteThreads, FS_EmptySet DEF CountersExact, ReaderStep
      <3>3. QED  BY <2>1, <3>1, <3>2
    <2>4. QED  BY <2>2, <2>3
  <1>5. QED  BY <1>1, <1>2, <1>3, <1>4 DEF ReaderStep

(* A writer's step strands nobody. *)
LEMMA ChainWriter ==
  ASSUME TypeOK, CountersExact, NoneStranded, NEW w \in Writers, WriterStep(w)
  PROVE  NoneStranded'
  <1> USE DEF NoneStranded, NoReaderStranded, NoWriterStranded,
              ActiveReaders, ActiveWriters, WaitingWriters
  <1>0. rpc \in [Readers -> ReaderPC] /\ wpc \in [Writers -> WriterPC]
    BY DEF TypeOK
  <1>1. CASE CancelWriter(w)
    <2>1. rpc' = rpc /\ wpc[w] = "ready" /\ wpc' = [wpc EXCEPT ![w] = "done"]
      BY <1>1 DEF CancelWriter
    <2>2. QED  BY <1>0, <2>1
  <1>2. CASE BeginWriteWait(w)
    <2>1. ActiveWriters # {} \/ ActiveReaders # {}
      BY <1>2, CountersMean DEF BeginWriteWait, CountersExact
    <2>2. rpc' = rpc /\ wpc[w] = "ready" /\ wpc' = [wpc EXCEPT ![w] = "waiting"]
      BY <1>2 DEF BeginWriteWait
    <2>3. QED  BY <1>0, <2>1, <2>2
  <1>3. CASE BeginWrite(w) \/ ResumeWrite(w)
    <2>1. rpc' = rpc /\ wpc' = [wpc EXCEPT ![w] = "active"] /\ wpc[w] \in {"ready", "woken"}
      BY <1>3 DEF BeginWrite, ResumeWrite, Write
    <2>2. QED  BY <1>0, <2>1
  <1>4. CASE EndWrite(w)
    <2>1. waitr > 0 <=> \E t \in Readers : rpc[t] \in {"waiting", "woken"}
      BY CountersMean DEF WaitingReaders
    <2>2. /\ wpc[w] = "active" /\ wpc'[w] \in {"ready", "done"}
          /\ \A t \in Writers : \/ t = w
                                \/ wpc'[t] = wpc[t]
                                \/ wpc[t] = "waiting" /\ wpc'[t] = "woken"
          /\ \A t \in Readers : \/ rpc'[t] = rpc[t]
                                \/ rpc[t] = "waiting" /\ rpc'[t] = "woken"
      BY <1>4, EndWritePCs
    <2>3. CASE waitr > 0
      <3>1. \E t \in Readers : rpc'[t] = "woken"
        BY <1>4, <2>1, <2>2, <2>3, EndWritePCs
      <3>2. QED  BY <3>1
    <2>4. CASE ~(waitr > 0)
      <3>1. ~\E t \in Readers : rpc'[t] = "waiting"
        BY <2>1, <2>2, <2>4
      <3>2. (\E t \in Writers : wpc[t] = "waiting") => \E t \in Writers : wpc'[t] = "woken"
        BY <1>4, <2>4, EndWritePCs
      <3>3. QED  BY <2>2, <3>1, <3>2
    <2>5. QED  BY <2>3, <2>4
  <1>5. QED  BY <1>1, <1>2, <1>3, <1>4 DEF WriterStep

(* Only main starts a thread. *)
LEMMA ReaderKeepsNew ==
  ASSUME TypeOK, NEW r \in Readers, ReaderStep(r)
  PROVE  /\ rpc[r] # "new" /\ main' = main /\ next' = next
         /\ \A t \in Readers : rpc[t] = "new" => rpc'[t] = "new"
         /\ \A t \in Writers : wpc[t] = "new" => wpc'[t] = "new"
  <1>0. rpc \in [Readers -> ReaderPC] /\ wpc \in [Writers -> WriterPC]
    BY DEF TypeOK
  <1>1. CASE BeginReadWait(r) \/ BeginRead(r) \/ ResumeRead(r)
    BY <1>0, <1>1 DEF BeginReadWait, BeginRead, ResumeRead
  <1>2. CASE BroadcastRead(r)
    BY <1>0, <1>2, BroadcastEffect DEF BroadcastRead
  <1>3. CASE EndRead(r)
    <2>1. \/ wpc' = wpc
          \/ Signal(wpc, wpc')
      BY <1>3 DEF EndRead
    <2>2. \A t \in Writers : wpc[t] = "new" => wpc'[t] = "new"
      BY <1>0, <2>1, SignalWriters
    <2>3. /\ rpc[r] # "new" /\ main' = main /\ next' = next
          /\ \A t \in Readers : rpc[t] = "new" => rpc'[t] = "new"
      BY <1>0, <1>3 DEF EndRead
    <2>4. QED  BY <2>2, <2>3
  <1>4. QED  BY <1>1, <1>2, <1>3 DEF ReaderStep

(* The same of the writers' steps. *)
LEMMA WriterKeepsNew ==
  ASSUME TypeOK, NEW w \in Writers, WriterStep(w)
  PROVE  /\ wpc[w] # "new" /\ main' = main /\ next' = next
         /\ \A t \in Readers : rpc[t] = "new" => rpc'[t] = "new"
         /\ \A t \in Writers : wpc[t] = "new" => wpc'[t] = "new"
  <1>0. rpc \in [Readers -> ReaderPC] /\ wpc \in [Writers -> WriterPC]
    BY DEF TypeOK
  <1>1. CASE CancelWriter(w)
    BY <1>0, <1>1 DEF CancelWriter
  <1>2. CASE BeginWriteWait(w)
    BY <1>0, <1>2 DEF BeginWriteWait
  <1>3. CASE BeginWrite(w) \/ ResumeWrite(w)
    BY <1>0, <1>3 DEF BeginWrite, ResumeWrite, Write
  <1>4. CASE EndWrite(w)
    <2>1. main' = main /\ next' = next
      BY <1>4 DEF EndWrite
    <2>2. QED  BY <1>4, <2>1, EndWritePCs
  <1>5. QED  BY <1>1, <1>2, <1>3, <1>4 DEF WriterStep

-----------------------------------------------------------------------------
(* The inductive invariant holds at the start. *)
LEMMA InvInit == Init => IInv
  <1> SUFFICES ASSUME Init PROVE IInv
    OBVIOUS
  <1>1. /\ ActiveReaders = {} /\ WaitingReaders = {}
        /\ ActiveWriters = {} /\ WaitingWriters = {}
    BY DEF Init, ActiveReaders, WaitingReaders, ActiveWriters, WaitingWriters
  <1>2. CountersExact
    BY <1>1, FS_EmptySet DEF Init, CountersExact
  <1>3. NotYetCreated /\ NoReaderStranded /\ NoWriterStranded
    BY DEF Init, NotYetCreated, NoReaderStranded, NoWriterStranded
  <1>4. QED  BY <1>2, <1>3, TypeInit DEF IInv

(* Every step keeps the inductive invariant. *)
LEMMA InvStep == IInv /\ [Next]_vars => IInv'
  <1> SUFFICES ASSUME IInv, [Next]_vars PROVE IInv'
    OBVIOUS
  <1>0. TypeOK /\ TypeOK' /\ NotYetCreated /\ CountersExact /\ NoneStranded
    BY TypeStep DEF IInv, NoneStranded
  <1>1. CASE MainStep
    <2>1. NotYetCreated' /\ groups' = groups /\ UNCHANGED monitor
      BY <1>0, <1>1, MainPCs, MainGroups
    <2>2. CountersExact'
      BY <1>0, <2>1 DEF CountersExact, groups, monitor
    <2>3. NoneStranded'
      BY <1>0, <1>1, <2>1, MainPCs DEF NoneStranded, NoReaderStranded, NoWriterStranded, groups
    <2>4. QED  BY <1>0, <2>1, <2>2, <2>3 DEF IInv, NoneStranded
  <1>2. ASSUME NEW r \in Readers, ReaderStep(r) PROVE IInv'
    <2>1. NotYetCreated'
      BY <1>0, <1>2, ReaderKeepsNew DEF NotYetCreated
    <2>2. CountersExact' /\ NoneStranded'
      BY <1>0, <1>2, CountersReader, ChainReader
    <2>3. QED  BY <1>0, <2>1, <2>2 DEF IInv, NoneStranded
  <1>3. ASSUME NEW w \in Writers, WriterStep(w) PROVE IInv'
    <2>1. NotYetCreated'
      BY <1>0, <1>3, WriterKeepsNew DEF NotYetCreated
    <2>2. CountersExact' /\ NoneStranded'
      BY <1>0, <1>3, CountersWriter, ChainWriter
    <2>3. QED  BY <1>0, <2>1, <2>2 DEF IInv, NoneStranded
  <1>4. CASE Spurious
    <2>1. /\ groups' = groups /\ UNCHANGED monitor
          /\ \A t \in Readers : \/ rpc'[t] = rpc[t]
                                \/ rpc[t] = "waiting" /\ rpc'[t] = "woken"
          /\ \A t \in Writers : \/ wpc'[t] = wpc[t]
                                \/ wpc[t] = "waiting" /\ wpc'[t] = "woken"
      BY <1>0, <1>4, SpuriousGroups
    <2>2. main' = main /\ next' = next
      BY <1>4 DEF Spurious, SpuriousRead, SpuriousWrite
    <2>3. NotYetCreated'
      BY <1>0, <2>1, <2>2 DEF NotYetCreated
    <2>4. CountersExact'
      BY <1>0, <2>1 DEF CountersExact, groups, monitor
    <2>5. NoneStranded'
      BY <1>0, <2>1 DEF NoneStranded, NoReaderStranded, NoWriterStranded, groups
    <2>6. QED  BY <1>0, <2>3, <2>4, <2>5 DEF IInv, NoneStranded
  <1>5. CASE UNCHANGED vars
    BY <1>0, <1>5 DEF vars, IInv, NoneStranded, NotYetCreated, CountersExact, NoReaderStranded,
       NoWriterStranded, ActiveReaders, WaitingReaders, ActiveWriters, WaitingWriters
  <1>6. QED  BY <1>1, <1>2, <1>3, <1>4, <1>5 DEF Next

(* The inductive invariant holds in every state. *)
LEMMA Invariance == Spec => []IInv
  BY InvInit, InvStep, PTL DEF Spec

(* The counters of the monitor are exact in every state. *)
THEOREM CountersCorrect == Spec => []CountersExact
  <1>1. IInv => CountersExact
    BY DEF IInv
  <1>2. QED  BY <1>1, Invariance, PTL

(* No reader is blocked without a thread on its way to wake it. *)
THEOREM ReadersNotStranded == Spec => []NoReaderStranded
  <1>1. IInv => NoReaderStranded
    BY DEF IInv
  <1>2. QED  BY <1>1, Invariance, PTL

(* No writer is blocked without a thread on its way to wake it. *)
THEOREM WritersNotStranded == Spec => []NoWriterStranded
  <1>1. IInv => NoWriterStranded
    BY DEF IInv
  <1>2. QED  BY <1>1, Invariance, PTL

-----------------------------------------------------------------------------
(* The state in which main() returns.  IInv says that the counters are exact;
   Turns and Joined say what the threads have done by then. *)

(* The initial state satisfies both. *)
LEMMA EndInit == Init => Turns /\ Joined
  <1> SUFFICES ASSUME Init PROVE Turns /\ Joined
    OBVIOUS
  <1>1. /\ \A r \in Readers : rpc[r] = "new" /\ rc[r] = 0
        /\ \A w \in Writers : wpc[w] = "new" /\ wc[w] = 0 /\ buffer[w] = NoData
        /\ main = "createW"
    BY DEF Init
  <1>2. 0 < ReadLoops
    BY LoopAssumption
  <1>3. QED  BY <1>1, <1>2 DEF Turns, Joined

(* main() joins the threads in order. *)
LEMMA MainEnd ==
  ASSUME IInv, Turns, Joined, MainStep
  PROVE  Turns' /\ Joined'
  <1>0. TypeOK /\ NotYetCreated
    BY DEF IInv
  <1>1. /\ UNCHANGED monitor
        /\ \A r \in Readers : rpc'[r] = rpc[r] \/ (rpc[r] = "new" /\ rpc'[r] = "ready")
        /\ \A w \in Writers : wpc'[w] = wpc[w] \/ (wpc[w] = "new" /\ wpc'[w] = "ready")
    BY <1>0, MainPCs
  <1>2. rc' = rc /\ wc' = wc
    BY DEF MainStep, CreateWriter, CreateReader, JoinReader, JoinWriter, threads
  <1>3. Turns'
    BY <1>1, <1>2 DEF Turns, monitor
  <1>4. CASE CreateWriter \/ CreateReader
    <2>1. main' \in {"createW", "createR"} \/ (main' = "joinR" /\ next' = 0)
      BY <1>0, <1>4 DEF CreateWriter, CreateReader, Step
    <2>2. \A r \in Readers : ~(r < 0)
      BY DEF Readers
    <2>3. QED  BY <1>3, <2>1, <2>2 DEF Joined
  <1>5. CASE JoinReader
    <2>1. main = "joinR" /\ next \in Readers /\ rpc' = rpc /\ wpc' = wpc
      BY <1>0, <1>5 DEF JoinReader, TypeOK, threads
    <2>2. CASE main' = "crashed"
      BY <1>3, <2>2 DEF Joined
    <2>3. CASE main' = "joinR" /\ next' = next + 1
      <3>1. rpc[next] = "done"
        BY <1>5, <2>1, <2>3 DEF JoinReader
      <3>2. \A r \in Readers : r < next + 1 => r < next \/ r = next
        BY <2>1 DEF Readers
      <3>3. QED  BY <1>3, <2>1, <2>3, <3>1, <3>2 DEF Joined
    <2>4. CASE main' = "joinW" /\ next' = 0
      <3>1. rpc[next] = "done" /\ ~(next + 1 < N)
        BY <1>5, <2>1, <2>4 DEF JoinReader, Step
      <3>2. \A r \in Readers : r < next \/ r = next
        BY <2>1, <3>1, NAssumption DEF Readers
      <3>3. \A w \in Writers : ~(w < 0)
        BY DEF Writers
      <3>4. QED  BY <1>3, <2>1, <2>4, <3>1, <3>2, <3>3 DEF Joined
    <2>5. QED  BY <1>5, <2>1, <2>2, <2>3, <2>4 DEF JoinReader, Step
  <1>6. CASE JoinWriter
    <2>1. main = "joinW" /\ next \in Writers /\ rpc' = rpc /\ wpc' = wpc
      BY <1>0, <1>6 DEF JoinWriter, TypeOK, threads
    <2>2. CASE main' = "crashed"
      BY <1>3, <2>2 DEF Joined
    <2>3. CASE main' = "joinW" /\ next' = next + 1
      <3>1. wpc[next] = "done"
        BY <1>6, <2>1, <2>3 DEF JoinWriter
      <3>2. \A w \in Writers : w < next + 1 => w < next \/ w = next
        BY <2>1 DEF Writers
      <3>3. QED  BY <1>3, <2>1, <2>3, <3>1, <3>2 DEF Joined
    <2>4. CASE main' = "done"
      <3>1. wpc[next] = "done" /\ ~(next + 1 < M)
        BY <1>6, <2>1, <2>4 DEF JoinWriter, Step
      <3>2. \A w \in Writers : w < next \/ w = next
        BY <2>1, <3>1, MAssumption DEF Writers
      <3>3. QED  BY <1>3, <2>1, <2>4, <3>1, <3>2 DEF Joined
    <2>5. QED  BY <1>6, <2>1, <2>2, <2>3, <2>4 DEF JoinWriter, Step
  <1>7. QED  BY <1>4, <1>5, <1>6 DEF MainStep

(* A reader's step: only endRead takes a turn, and the last turn ends it. *)
LEMMA ReaderEnd ==
  ASSUME TypeOK, Turns, Joined, NEW r \in Readers, ReaderStep(r)
  PROVE  Turns' /\ Joined'
  <1>0. /\ rpc \in [Readers -> ReaderPC] /\ wpc \in [Writers -> WriterPC]
        /\ rc \in [Readers -> Nat]
    BY DEF TypeOK
  <1>1. buffer' = buffer /\ wc' = wc /\ main' = main /\ next' = next
    BY DEF ReaderStep, BeginReadWait, BeginRead, ResumeRead, BroadcastRead, EndRead, monitor
  <1>2. /\ \A w \in Writers : wpc'[w] = wpc[w] \/ (wpc[w] = "waiting" /\ wpc'[w] = "woken")
        /\ \A s \in Readers : rpc[s] = "done" => rpc'[s] = "done"
        /\ \A s \in Readers : IF rpc'[s] = "done" THEN rc'[s] = ReadLoops ELSE rc'[s] < ReadLoops
    <2>1. CASE BeginReadWait(r) \/ BeginRead(r) \/ ResumeRead(r)
      BY <1>0, <2>1 DEF BeginReadWait, BeginRead, ResumeRead, Turns
    <2>2. CASE BroadcastRead(r)
      BY <1>0, <2>2, BroadcastEffect DEF BroadcastRead, Turns
    <2>3. CASE EndRead(r)
      <3>1. \A w \in Writers : wpc'[w] = wpc[w] \/ (wpc[w] = "waiting" /\ wpc'[w] = "woken")
        BY <1>0, <2>3, SignalWriters DEF EndRead
      <3>2. /\ rpc[r] = "active" /\ rc'[r] = rc[r] + 1
            /\ rpc'[r] = IF rc'[r] < ReadLoops THEN "ready" ELSE "done"
            /\ \A s \in Readers : s # r => rpc'[s] = rpc[s] /\ rc'[s] = rc[s]
        BY <1>0, <2>3 DEF EndRead
      <3>3. rc[r] < ReadLoops /\ rc[r] \in Nat
        BY <1>0, <3>2 DEF Turns
      <3>4. \A s \in Readers : IF rpc'[s] = "done" THEN rc'[s] = ReadLoops ELSE rc'[s] < ReadLoops
        BY <3>2, <3>3, LoopAssumption DEF Turns
      <3>5. \A s \in Readers : rpc[s] = "done" => rpc'[s] = "done"
        BY <3>2
      <3>6. QED  BY <3>1, <3>4, <3>5
    <2>4. QED  BY <2>1, <2>2, <2>3 DEF ReaderStep
  <1>3. Turns'
    BY <1>1, <1>2 DEF Turns
  <1>4. Joined'
    BY <1>1, <1>2 DEF Joined
  <1>5. QED  BY <1>3, <1>4

(* A writer's step: it writes its own slot, and ends after a turn or, if it has
   cancelled itself, without one. *)
LEMMA WriterEnd ==
  ASSUME TypeOK, Turns, Joined, NEW w \in Writers, WriterStep(w)
  PROVE  Turns' /\ Joined'
  <1>0. /\ rpc \in [Readers -> ReaderPC] /\ wpc \in [Writers -> WriterPC]
        /\ wc \in [Writers -> Nat] /\ buffer \in [Writers -> Writers \cup {NoData}]
    BY DEF TypeOK
  <1>1. rc' = rc /\ main' = main /\ next' = next
    BY DEF WriterStep, CancelWriter, BeginWriteWait, BeginWrite, ResumeWrite, EndWrite
  <1>2. \A v \in Writers : wpc[v] = "done" => wpc'[v] = "done"
    BY <1>0, EndWritePCs DEF WriterStep, CancelWriter, BeginWriteWait, BeginWrite, ResumeWrite, Write
  <1>3. \A s \in Readers : rpc'[s] = rpc[s] \/ (rpc[s] = "waiting" /\ rpc'[s] = "woken")
    BY EndWritePCs DEF WriterStep, CancelWriter, BeginWriteWait, BeginWrite, ResumeWrite
  <1>4. CASE CancelWriter(w)
    BY <1>0, <1>1, <1>2, <1>3, <1>4 DEF CancelWriter, Turns, Joined, monitor
  <1>5. CASE BeginWriteWait(w)
    BY <1>0, <1>1, <1>2, <1>3, <1>5 DEF BeginWriteWait, Turns, Joined
  <1>6. CASE BeginWrite(w) \/ ResumeWrite(w)
    <2>1. ~Cancelled(w)
      BY <1>6 DEF BeginWrite, ResumeWrite, Turns
    <2>2. /\ wpc'[w] = "active" /\ buffer'[w] = w /\ wc' = wc
          /\ \A v \in Writers : v # w => wpc'[v] = wpc[v] /\ buffer'[v] = buffer[v]
      BY <1>0, <1>6 DEF BeginWrite, ResumeWrite, Write
    <2>3. Turns'
      BY <1>1, <1>3, <2>1, <2>2 DEF Turns
    <2>4. QED  BY <1>1, <1>2, <1>3, <2>3 DEF Joined
  <1>7. CASE EndWrite(w)
    <2>1. /\ wpc[w] = "active" /\ buffer' = buffer /\ wc'[w] = wc[w] + 1
          /\ \A v \in Writers : v # w => wc'[v] = wc[v]
      BY <1>0, <1>7 DEF EndWrite
    <2>2. \A v \in Writers : \/ v = w
                             \/ wpc'[v] = wpc[v]
                             \/ wpc[v] = "waiting" /\ wpc'[v] = "woken"
      BY <1>7, EndWritePCs
    <2>3. ~Cancelled(w) /\ buffer[w] = w
      BY <2>1 DEF Turns
    <2>4. wc'[w] > 0
      BY <1>0, <2>1
    <2>5. Turns'
      BY <1>1, <1>3, <2>1, <2>2, <2>3, <2>4 DEF Turns
    <2>6. QED  BY <1>1, <1>2, <1>3, <2>5 DEF Joined
  <1>8. QED  BY <1>4, <1>5, <1>6, <1>7 DEF WriterStep

(* Every step keeps both. *)
LEMMA EndStep ==
  ASSUME IInv, Turns, Joined, [Next]_vars
  PROVE  Turns' /\ Joined'
  <1>0. TypeOK
    BY DEF IInv
  <1>1. CASE MainStep
    BY <1>1, MainEnd
  <1>2. ASSUME NEW r \in Readers, ReaderStep(r) PROVE Turns' /\ Joined'
    BY <1>0, <1>2, ReaderEnd
  <1>3. ASSUME NEW w \in Writers, WriterStep(w) PROVE Turns' /\ Joined'
    BY <1>0, <1>3, WriterEnd
  <1>4. CASE Spurious
    <2>1. /\ buffer' = buffer
          /\ \A t \in Readers : \/ rpc'[t] = rpc[t]
                                \/ rpc[t] = "waiting" /\ rpc'[t] = "woken"
          /\ \A t \in Writers : \/ wpc'[t] = wpc[t]
                                \/ wpc[t] = "waiting" /\ wpc'[t] = "woken"
      BY <1>0, <1>4, SpuriousGroups DEF monitor
    <2>2. rc' = rc /\ wc' = wc /\ main' = main /\ next' = next
      BY <1>4 DEF Spurious, SpuriousRead, SpuriousWrite
    <2>3. Turns'
      BY <2>1, <2>2 DEF Turns
    <2>4. Joined'
      BY <2>1, <2>2 DEF Joined
    <2>5. QED  BY <2>3, <2>4
  <1>5. CASE UNCHANGED vars
    BY <1>5 DEF vars, Turns, Joined
  <1>6. QED  BY <1>1, <1>2, <1>3, <1>4, <1>5 DEF Next

(* When main has joined every thread, nobody is left inside or waiting, so the
   counters, being exact, are back at 0. *)
LEMMA EndMeans ==
  ASSUME IInv, Turns, Joined
  PROVE  FinalState
  <1> SUFFICES ASSUME main = "done" PROVE FinalState
    BY DEF FinalState
  <1>0. TypeOK /\ CountersExact
    BY DEF IInv
  <1>1. /\ \A r \in Readers : rpc[r] = "done"
        /\ \A w \in Writers : wpc[w] = "done"
    BY DEF Joined
  <1>2. /\ ActiveReaders = {} /\ WaitingReaders = {}
        /\ ActiveWriters = {} /\ WaitingWriters = {}
    BY <1>1 DEF ActiveReaders, WaitingReaders, ActiveWriters, WaitingWriters
  <1>3. rcnt = 0 /\ waitr = 0 /\ waitw = 0
    BY <1>0, <1>2, CountersMean
  <1>4. wcnt = 0
    BY <1>0, <1>2 DEF CountersExact, TypeOK
  <1>5. \A r \in Readers : rc[r] = ReadLoops
    BY <1>1 DEF Turns
  <1>6. \A w \in Writers : buffer[w] = IF Cancelled(w) THEN NoData ELSE w
    BY <1>1 DEF Turns
  <1>7. QED  BY <1>1, <1>3, <1>4, <1>5, <1>6 DEF FinalState

(* When main returns, every thread has ended after its turns, the monitor is
   as it was at the start and the buffer holds what the writers wrote. *)
THEOREM EndsRight == Spec => []FinalState
  <1>1. Init => Turns /\ Joined
    BY EndInit
  <1>2. IInv /\ Turns /\ Joined /\ [Next]_vars => Turns' /\ Joined'
    BY EndStep
  <1>3. IInv /\ Turns /\ Joined => FinalState
    BY EndMeans
  <1>4. QED  BY <1>1, <1>2, <1>3, Invariance, PTL DEF Spec
=============================================================================
