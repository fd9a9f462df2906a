--------------------------- MODULE SemBuffer_proofs ---------------------------
(* Theorems about SemBuffer, for any number of readers, writers and letters. *)
EXTENDS SemBuffer, FiniteSetTheorems, TLAPS

(* A thread that moves leaves the other threads where they are. *)
LEMMA ReaderMoves ==
  ASSUME TypeOK, NEW r \in Readers, NEW from, NEW to \in ReaderPC, MoveReader(r, from, to)
  PROVE  /\ rpc \in [Readers -> ReaderPC] /\ rpc' \in [Readers -> ReaderPC]
         /\ rpc[r] = from /\ rpc'[r] = to
         /\ \A s \in Readers : s # r => rpc'[s] = rpc[s]
         /\ wpc' = wpc /\ main' = main /\ next' = next
  BY DEF MoveReader, TypeOK

(* The same of the writers. *)
LEMMA WriterMoves ==
  ASSUME TypeOK, NEW w \in Writers, NEW from, NEW to \in WriterPC, MoveWriter(w, from, to)
  PROVE  /\ wpc \in [Writers -> WriterPC] /\ wpc' \in [Writers -> WriterPC]
         /\ wpc[w] = from /\ wpc'[w] = to
         /\ \A v \in Writers : v # w => wpc'[v] = wpc[v]
         /\ rpc' = rpc /\ main' = main /\ next' = next
  BY DEF MoveWriter, TypeOK

-----------------------------------------------------------------------------
(* The initial values have their types. *)
LEMMA TypeInit == Init => TypeOK
  <1> SUFFICES ASSUME Init PROVE TypeOK
    OBVIOUS
  <1>1. [first |-> -1, last |-> -1] \in Block
    BY DEF Block
  <1>2. buffer \in Block /\ localBuf \in [Writers -> Block]
    BY <1>1 DEF Init
  <1>3. 0 \in Readers /\ next = 0 /\ main = "createR"
    BY MAssumption DEF Init, Readers
  <1>4. rpc \in [Readers -> ReaderPC] /\ wpc \in [Writers -> WriterPC]
    BY DEF Init, ReaderPC, WriterPC
  <1>5. reg \in [Writers -> Nat] /\ sem_Empty \in Nat /\ sem_Full \in Nat /\ data \in Nat
    BY DEF Init
  <1>6. ExitCondition \in BOOLEAN /\ fresh \in BOOLEAN /\ lost \in BOOLEAN
    BY DEF Init
  <1>7. main \in MainPC /\ next \in Nat
    BY <1>3 DEF MainPC
  <1>8. QED  BY <1>2, <1>3, <1>4, <1>5, <1>6, <1>7 DEF TypeOK

(* One turn of a loop of main() keeps i in the range of the loop it is in. *)
LEMMA TurnType ==
  ASSUME NEW count \in Nat \ {0}, next \in 0..(count-1), NEW phase, Turn(count, phase)
  PROVE  \/ (main' = main /\ next' \in 0..(count-1) /\ next' = next + 1)
         \/ (main' = phase /\ next' = 0)
  <1>1. CASE next + 1 < count
    BY <1>1 DEF Turn
  <1>2. CASE ~(next + 1 < count)
    BY <1>2 DEF Turn
  <1>3. QED  BY <1>1, <1>2

(* What main() does to the threads: it starts those it has come to. *)
LEMMA MainMoves ==
  ASSUME TypeOK, NotYetCreated, MainStep
  PROVE  /\ \A r \in Readers : rpc'[r] = rpc[r] \/ (rpc[r] = "new" /\ rpc'[r] = "ready")
         /\ \A w \in Writers : wpc'[w] = wpc[w] \/ (wpc[w] = "new" /\ wpc'[w] = "ready")
         /\ UNCHANGED <<sems, letter, block, ExitCondition>>
  <1>1. CASE CreateReader
    <2>1. main = "createR" /\ next \in Readers /\ wpc' = wpc
      BY <1>1 DEF CreateReader, TypeOK
    <2>2. rpc[next] = "new"
      BY <2>1 DEF NotYetCreated, Readers
    <2>3. \A r \in Readers : rpc'[r] = rpc[r] \/ (r = next /\ rpc'[r] = "ready")
      BY <1>1 DEF CreateReader, TypeOK
    <2>4. QED  BY <1>1, <2>1, <2>2, <2>3 DEF CreateReader
  <1>2. CASE CreateWriter
    <2>1. main = "createW" /\ next \in Writers /\ rpc' = rpc
      BY <1>2 DEF CreateWriter, TypeOK
    <2>2. wpc[next] = "new"
      BY <2>1 DEF NotYetCreated, Writers
    <2>3. \A w \in Writers : wpc'[w] = wpc[w] \/ (w = next /\ wpc'[w] = "ready")
      BY <1>2 DEF CreateWriter, TypeOK
    <2>4. QED  BY <1>2, <2>1, <2>2, <2>3 DEF CreateWriter
  <1>3. CASE JoinWriter \/ JoinReader
    BY <1>3 DEF JoinWriter, JoinReader
  <1>4. QED  BY <1>1, <1>2, <1>3 DEF MainStep

(* A step of main() keeps the types, starts threads in order and joins the
   writer 0 first. *)
LEMMA MainStepInv ==
  ASSUME TypeOK, NotYetCreated, Joined, MainStep
  PROVE  TypeOK' /\ NotYetCreated' /\ Joined'
  <1> USE MAssumption, NAssumption DEF TypeOK, NotYetCreated, Joined, Readers, Writers
  <1>0. UNCHANGED <<sems, letter, block, ExitCondition>>
    BY DEF MainStep, CreateReader, CreateWriter, JoinReader, JoinWriter
  <1>1. CASE CreateReader
    <2>1. main = "createR" /\ wpc' = wpc
      BY <1>1 DEF CreateReader
    <2>2. rpc' \in [Readers -> ReaderPC] /\ \A r \in Readers : r # next => rpc'[r] = rpc[r]
      BY <1>1 DEF CreateReader, ReaderPC
    <2>3. \/ main' = "createR" /\ next' \in Readers /\ next' = next + 1
          \/ main' = "createW" /\ next' = 0
      BY <1>1, <2>1, TurnType DEF CreateReader
    <2>4. QED  BY <1>0, <2>1, <2>2, <2>3 DEF MainPC, sems, letter, block
  <1>2. CASE CreateWriter
    <2>1. main = "createW" /\ rpc' = rpc
      BY <1>2 DEF CreateWriter
    <2>2. wpc' \in [Writers -> WriterPC] /\ \A w \in Writers : w # next => wpc'[w] = wpc[w]
      BY <1>2 DEF CreateWriter, WriterPC
    <2>3. \/ main' = "createW" /\ next' \in Writers /\ next' = next + 1
          \/ main' = "joinW" /\ next' = 0
      BY <1>2, <2>1, TurnType DEF CreateWriter
    <2>4. QED  BY <1>0, <2>1, <2>2, <2>3 DEF MainPC, sems, letter, block
  <1>3. CASE JoinWriter
    <2>1. main = "joinW" /\ rpc' = rpc /\ wpc' = wpc
      BY <1>3 DEF JoinWriter
    <2>2. \/ /\ wpc[next] = "done"
             /\ \/ main' = "joinW" /\ next' \in Writers /\ next' = next + 1
                \/ main' = "joinR" /\ next' = 0
          \/ main' = "crashed" /\ next' = next
      BY <1>3, <2>1, TurnType DEF JoinWriter
    <2>3. QED  BY <1>0, <2>1, <2>2 DEF MainPC, sems, letter, block
  <1>4. CASE JoinReader
    <2>1. main = "joinR" /\ rpc' = rpc /\ wpc' = wpc
      BY <1>4 DEF JoinReader
    <2>2. \/ main' = "joinR" /\ next' \in Readers
          \/ main' = "done" /\ next' = 0
          \/ main' = "crashed" /\ next' = next
      BY <1>4, <2>1, TurnType DEF JoinReader
    <2>3. QED  BY <1>0, <2>1, <2>2 DEF MainPC, sems, letter, block
  <1>5. QED  BY <1>1, <1>2, <1>3, <1>4 DEF MainStep

(* A step of a reader keeps the types. *)
LEMMA ReaderType ==
  ASSUME TypeOK, NEW r \in Readers, ReaderStep(r)
  PROVE  TypeOK'
  <1> USE DEF TypeOK, MoveReader, sems, letter, block, Post, Wait, ReaderPC
  <1>1. CASE ReaderWait(r)
    BY <1>1 DEF ReaderWait
  <1>2. CASE ReaderCheck(r)
    BY <1>2 DEF ReaderCheck
  <1>3. CASE ReaderGet(r)
    BY <1>3 DEF ReaderGet
  <1>4. CASE ReaderPost(r)
    BY <1>4 DEF ReaderPost
  <1>5. CASE ReaderExitEmpty(r)
    BY <1>5 DEF ReaderExitEmpty
  <1>6. CASE ReaderExitFull(r)
    BY <1>6 DEF ReaderExitFull
  <1>7. QED  BY <1>1, <1>2, <1>3, <1>4, <1>5, <1>6 DEF ReaderStep

(* A step of a writer keeps the types. *)
LEMMA WriterType ==
  ASSUME TypeOK, NEW w \in Writers, WriterStep(w)
  PROVE  TypeOK'
  <1> USE DEF TypeOK, MoveWriter, sems, letter, block, Post, Wait, WriterPC, Block
  <1>1. CASE WriterWait(w)
    BY <1>1 DEF WriterWait
  <1>2. CASE WriterCheck(w)
    <2>1. CASE MoveWriter(w, "check", "fill")
      <3>1. [localBuf[w] EXCEPT !.first = data] \in Block
        OBVIOUS
      <3>2. localBuf' \in [Writers -> Block]
        BY <1>2, <2>1, <3>1 DEF WriterCheck
      <3>3. QED  BY <1>2, <2>1, <3>2 DEF WriterCheck
    <2>2. CASE ~MoveWriter(w, "check", "fill")
      BY <1>2, <2>2 DEF WriterCheck
    <2>3. QED  BY <2>1, <2>2
  <1>3. CASE WriterFill(w)
    BY <1>3 DEF WriterFill
  <1>4. CASE WriterUpdate(w)
    BY <1>4 DEF WriterUpdate
  <1>5. CASE WriterPost(w)
    BY <1>5 DEF WriterPost
  <1>6. CASE WriterLoad(w)
    BY <1>6 DEF WriterLoad
  <1>7. CASE WriterStore(w)
    BY <1>7 DEF WriterStore
  <1>8. CASE WriterExitFull(w)
    BY <1>8 DEF WriterExitFull
  <1>9. CASE WriterExitEmpty(w)
    BY <1>9 DEF WriterExitEmpty
  <1>10. QED  BY <1>1, <1>2, <1>3, <1>4, <1>5, <1>6, <1>7, <1>8, <1>9 DEF WriterStep

-----------------------------------------------------------------------------
(* The parts of the invariant that speak of the token. *)
Token == /\ ~ExitCondition => OneToken /\ FreshTravels
         /\ ExitCondition => ExitToken

(* A thread that main starts takes no part in the token's travels yet. *)
LEMMA MainToken ==
  ASSUME TypeOK, NotYetCreated, Token, MainStep
  PROVE  Token'
  <1>1. UNCHANGED <<sem_Empty, sem_Full, data, lost, fresh, ExitCondition>>
    BY MainMoves DEF sems, letter, block
  <1>2. /\ \A r \in Readers : rpc'[r] = rpc[r] \/ (rpc[r] = "new" /\ rpc'[r] = "ready")
        /\ \A w \in Writers : wpc'[w] = wpc[w] \/ (wpc[w] = "new" /\ wpc'[w] = "ready")
    BY MainMoves
  <1>3. /\ \A r \in Readers : /\ ReaderHolds(r)' <=> ReaderHolds(r)
                              /\ ReaderLeaves(r)' <=> ReaderLeaves(r)
                              /\ \A pc \in {"check", "get", "post", "done"} : rpc'[r] = pc <=> rpc[r] = pc
        /\ \A w \in Writers : WriterHolds(w)' <=> WriterHolds(w)
        /\ \A w \in Writers : \A pc \in {"check", "fill", "update", "post", "exitE", "exitF", "done"} :
             wpc'[w] = pc <=> wpc[w] = pc
    BY <1>2 DEF ReaderHolds, ReaderLeaves, WriterHolds
  <1>4. CASE ExitCondition
    <2>1. N-1 \in Writers
      BY NAssumption DEF Writers
    <2>2. ExitToken'
      BY <1>1, <1>3, <1>4, <2>1 DEF Token, ExitToken
    <2>3. QED  BY <1>1, <1>4, <2>2 DEF Token
  <1>5. CASE ~ExitCondition
    <2>1. OneToken'
      BY <1>1, <1>3, <1>5 DEF Token, OneToken
    <2>2. FreshTravels'
      BY <1>1, <1>3, <1>5 DEF Token, FreshTravels
    <2>3. QED  BY <1>1, <1>5, <2>1, <2>2 DEF Token
  <1>6. QED  BY <1>4, <1>5

(* Before the exit the readers hand the token from sem_Full to sem_Empty. *)
LEMMA ReaderToken ==
  ASSUME TypeOK, NEW r \in Readers, ReaderStep(r), ~ExitCondition, OneToken, FreshTravels
  PROVE  OneToken' /\ FreshTravels' /\ ~ExitCondition'
  <1> USE DEF OneToken, FreshTravels, WriterHolds, ReaderHolds, ReaderLeaves
  <1>0. sem_Empty \in Nat /\ sem_Full \in Nat
    BY DEF TypeOK
  <1>1. CASE ReaderWait(r)
    <2>1. /\ rpc[r] = "ready" /\ rpc'[r] = "check" /\ wpc' = wpc
          /\ \A s \in Readers : s # r => rpc'[s] = rpc[s]
      BY <1>1, ReaderMoves DEF ReaderWait, ReaderPC
    <2>2. /\ sem_Full = 1 /\ sem_Full' = 0 /\ sem_Empty = 0 /\ sem_Empty' = 0
          /\ fresh' = fresh /\ ExitCondition' = ExitCondition
      BY <1>0, <1>1 DEF ReaderWait, Wait, block
    <2>3. OneToken'
      BY <2>1, <2>2
    <2>4. FreshTravels'
      BY <2>1, <2>2
    <2>5. QED  BY <2>2, <2>3, <2>4
  <1>2. CASE ReaderCheck(r)
    <2>1. /\ rpc[r] = "check" /\ rpc'[r] = "get" /\ wpc' = wpc
          /\ \A s \in Readers : s # r => rpc'[s] = rpc[s]
      BY <1>2, ReaderMoves DEF ReaderCheck, ReaderPC, EndOfData
    <2>2. UNCHANGED <<sem_Empty, sem_Full, fresh, ExitCondition>>
      BY <1>2 DEF ReaderCheck, sems, block
    <2>3. OneToken'
      BY <1>0, <2>1, <2>2
    <2>4. FreshTravels'
      BY <1>0, <2>1, <2>2
    <2>5. QED  BY <2>2, <2>3, <2>4
  <1>3. CASE ReaderGet(r)
    <2>1. /\ rpc[r] = "get" /\ rpc'[r] = "post" /\ wpc' = wpc
          /\ \A s \in Readers : s # r => rpc'[s] = rpc[s]
      BY <1>3, ReaderMoves DEF ReaderGet, ReaderPC
    <2>2. UNCHANGED <<sem_Empty, sem_Full, ExitCondition>> /\ fresh' = FALSE
      BY <1>3 DEF ReaderGet, sems
    <2>3. OneToken'
      BY <1>0, <2>1, <2>2
    <2>4. sem_Full = 0
      BY <1>0, <2>1
    <2>5. FreshTravels'
      BY <1>0, <2>1, <2>2, <2>4
    <2>6. QED  BY <2>2, <2>3, <2>5
  <1>4. CASE ReaderPost(r)
    <2>1. /\ rpc[r] = "post" /\ rpc'[r] = "ready" /\ wpc' = wpc
          /\ \A s \in Readers : s # r => rpc'[s] = rpc[s]
      BY <1>4, ReaderMoves DEF ReaderPost, ReaderPC
    <2>2. /\ sem_Full = 0 /\ sem_Full' = 0 /\ sem_Empty = 0 /\ sem_Empty' = 1
          /\ fresh' = fresh /\ ExitCondition' = ExitCondition
      BY <1>0, <1>4, <2>1 DEF ReaderPost, Post, block
    <2>3. OneToken'
      BY <2>1, <2>2
    <2>4. FreshTravels'
      BY <2>1, <2>2
    <2>5. QED  BY <2>2, <2>3, <2>4
  <1>5. CASE ReaderExitEmpty(r) \/ ReaderExitFull(r)
    BY <1>5 DEF ReaderExitEmpty, ReaderExitFull, MoveReader
  <1>6. QED  BY <1>1, <1>2, <1>3, <1>4, <1>5 DEF ReaderStep

(* Before the exit the writers hand the token from sem_Empty to sem_Full; the
   first writer that comes to its exit holds the only token then. *)
LEMMA WriterToken ==
  ASSUME TypeOK, NEW w \in Writers, WriterStep(w), ~ExitCondition, OneToken, FreshTravels
  PROVE  Token'
  <1> USE DEF OneToken, FreshTravels, WriterHolds, ReaderHolds, ReaderLeaves
  <1>0. sem_Empty \in Nat /\ sem_Full \in Nat /\ ExitCondition \in BOOLEAN
    BY DEF TypeOK
  <1> SUFFICES \/ ~ExitCondition' /\ OneToken' /\ FreshTravels'
               \/ ExitCondition' /\ ExitToken'
    BY DEF Token
  <1>1. CASE WriterWait(w)
    <2>1. /\ wpc[w] = "ready" /\ wpc'[w] = "check" /\ rpc' = rpc
          /\ \A v \in Writers : v # w => wpc'[v] = wpc[v]
      BY <1>1, WriterMoves DEF WriterWait, WriterPC
    <2>2. /\ sem_Empty = 1 /\ sem_Empty' = 0 /\ sem_Full = 0 /\ sem_Full' = 0
          /\ fresh' = fresh /\ ExitCondition' = ExitCondition
      BY <1>0, <1>1 DEF WriterWait, Wait, block
    <2>3. OneToken'
      BY <2>1, <2>2
    <2>4. FreshTravels'
      BY <2>1, <2>2
    <2>5. QED  BY <2>2, <2>3, <2>4
  <1>2. CASE WriterCheck(w) /\ data <= LastLetter
    <2>0. data \in Nat
      BY DEF TypeOK
    <2>1. /\ wpc[w] = "check" /\ wpc'[w] = "fill" /\ rpc' = rpc
          /\ \A v \in Writers : v # w => wpc'[v] = wpc[v]
      BY <1>2, <2>0, LetterAssumption, WriterMoves DEF WriterCheck, WriterPC
    <2>2. UNCHANGED <<sem_Empty, sem_Full, fresh, ExitCondition>>
      BY <1>2, <2>0, LetterAssumption DEF WriterCheck, sems
    <2>3. OneToken'
      BY <1>0, <2>1, <2>2
    <2>4. FreshTravels'
      BY <1>0, <2>1, <2>2
    <2>5. QED  BY <2>2, <2>3, <2>4
  <1>3. CASE WriterCheck(w) /\ data > LastLetter
    <2>0. data \in Nat
      BY DEF TypeOK
    <2>1. /\ wpc[w] = "check" /\ wpc'[w] = (IF w = N-1 THEN "exitF" ELSE "exitE") /\ rpc' = rpc
          /\ \A v \in Writers : v # w => wpc'[v] = wpc[v]
      <3>1. (IF w = N-1 THEN "exitF" ELSE "exitE") \in WriterPC
        BY DEF WriterPC
      <3>2. MoveWriter(w, "check", IF w = N-1 THEN "exitF" ELSE "exitE")
        BY <1>3, <2>0, LetterAssumption DEF WriterCheck
      <3>3. QED  BY <3>1, <3>2, WriterMoves
    <2>2. UNCHANGED <<sem_Empty, sem_Full, data, lost, fresh>> /\ ExitCondition'
      BY <1>3, <2>0, LetterAssumption DEF WriterCheck, sems, letter, block
    <2>3. /\ sem_Full = 0 /\ ~fresh
          /\ \A r \in Readers : ~ReaderHolds(r) /\ ~ReaderLeaves(r)
          /\ \A v \in Writers : v # w => ~WriterHolds(v)
      BY <1>0, <2>1
    <2>4. N-1 \in Writers
      BY NAssumption DEF Writers
    <2>5. wpc'[N-1] \notin {"exitE", "done"}
      BY <2>1, <2>4
    <2>6. ExitToken'
      BY <1>3, <2>1, <2>2, <2>3 DEF ExitToken
    <2>7. QED  BY <2>2, <2>6
  <1>4. CASE WriterFill(w)
    <2>1. /\ wpc[w] = "fill" /\ wpc'[w] = "update" /\ rpc' = rpc
          /\ \A v \in Writers : v # w => wpc'[v] = wpc[v]
      BY <1>4, WriterMoves DEF WriterFill, WriterPC
    <2>2. UNCHANGED <<sem_Empty, sem_Full, fresh, ExitCondition>>
      BY <1>4 DEF WriterFill, sems
    <2>3. OneToken'
      BY <1>0, <2>1, <2>2
    <2>4. FreshTravels'
      BY <1>0, <2>1, <2>2
    <2>5. QED  BY <2>2, <2>3, <2>4
  <1>5. CASE WriterUpdate(w)
    <2>1. /\ wpc[w] = "update" /\ wpc'[w] = "post" /\ rpc' = rpc
          /\ \A v \in Writers : v # w => wpc'[v] = wpc[v]
      BY <1>5, WriterMoves DEF WriterUpdate, WriterPC
    <2>2. UNCHANGED <<sem_Empty, sem_Full, ExitCondition>> /\ fresh' = TRUE
      BY <1>5 DEF WriterUpdate, sems
    <2>3. OneToken'
      BY <1>0, <2>1, <2>2
    <2>4. sem_Empty = 0
      BY <1>0, <2>1
    <2>5. FreshTravels'
      BY <1>0, <2>1, <2>2, <2>4
    <2>6. QED  BY <2>2, <2>3, <2>5
  <1>6. CASE WriterPost(w)
    <2>1. /\ wpc[w] = "post" /\ wpc'[w] = "load" /\ rpc' = rpc
          /\ \A v \in Writers : v # w => wpc'[v] = wpc[v]
      BY <1>6, WriterMoves DEF WriterPost, WriterPC
    <2>2. /\ sem_Empty = 0 /\ sem_Empty' = 0 /\ sem_Full = 0 /\ sem_Full' = 1
          /\ fresh' = fresh /\ ExitCondition' = ExitCondition
      BY <1>0, <1>6, <2>1 DEF WriterPost, Post, block
    <2>3. OneToken'
      BY <2>1, <2>2
    <2>4. FreshTravels'
      BY <2>1, <2>2
    <2>5. QED  BY <2>2, <2>3, <2>4
  <1>7. CASE WriterLoad(w) \/ WriterStore(w)
    <2>1. /\ wpc[w] \in {"load", "store"} /\ wpc'[w] \in {"store", "ready"} /\ rpc' = rpc
          /\ \A v \in Writers : v # w => wpc'[v] = wpc[v]
      BY <1>7, WriterMoves DEF WriterLoad, WriterStore, WriterPC
    <2>2. UNCHANGED <<sem_Empty, sem_Full, fresh, ExitCondition>>
      BY <1>7 DEF WriterLoad, WriterStore, sems, block
    <2>3. OneToken'
      BY <1>0, <2>1, <2>2
    <2>4. FreshTravels'
      BY <1>0, <2>1, <2>2
    <2>5. QED  BY <2>2, <2>3, <2>4
  <1>8. CASE WriterExitFull(w) \/ WriterExitEmpty(w)
    BY <1>8 DEF WriterExitFull, WriterExitEmpty, MoveWriter
  <1>9. data \in Nat
    BY DEF TypeOK
  <1>10. data <= LastLetter \/ data > LastLetter
    BY <1>9, LetterAssumption
  <1>11. QED  BY <1>1, <1>2, <1>3, <1>4, <1>5, <1>6, <1>7, <1>8, <1>10 DEF WriterStep

(* After the first exit a reader that still finds work takes no block a writer
   fills, and passes the readers' token on when it leaves. *)
LEMMA ReaderExits ==
  ASSUME TypeOK, NEW r \in Readers, ReaderStep(r), ExitCondition, ExitToken
  PROVE  ExitCondition' /\ ExitToken'
  <1> USE DEF ExitToken, ReaderHolds, ReaderLeaves
  <1>0. sem_Empty \in Nat /\ sem_Full \in Nat /\ data \in Nat
    BY DEF TypeOK
  <1>1. CASE ReaderWait(r)
    <2>1. /\ rpc[r] = "ready" /\ rpc'[r] = "check" /\ wpc' = wpc
          /\ \A s \in Readers : s # r => rpc'[s] = rpc[s]
      BY <1>1, ReaderMoves DEF ReaderWait, ReaderPC
    <2>2. /\ sem_Full = 1 /\ sem_Full' = 0
          /\ UNCHANGED <<data, lost, fresh, ExitCondition>>
      BY <1>0, <1>1 DEF ReaderWait, Wait, letter, block
    <2>3. QED  BY <2>1, <2>2
  <1>2. CASE ReaderCheck(r)
    <2>1. /\ rpc[r] = "check" /\ rpc'[r] \in {"get", "exitE", "exitF"} /\ wpc' = wpc
          /\ \A s \in Readers : s # r => rpc'[s] = rpc[s]
          /\ rpc'[r] = "get" => ~EndOfData
      <3>1. (IF ~EndOfData THEN "get" ELSE IF r = M-1 THEN "exitE" ELSE "exitF") \in ReaderPC
        BY DEF ReaderPC
      <3>2. QED  BY <1>2, <3>1, ReaderMoves DEF ReaderCheck
    <2>2. UNCHANGED <<sem_Full, data, lost, fresh, ExitCondition>>
      BY <1>2 DEF ReaderCheck, sems, letter, block
    <2>3. rpc'[r] = "get" => lost
      BY <1>0, <2>1, LetterAssumption DEF EndOfData
    <2>4. sem_Full = 0
      BY <1>0, <2>1
    <2>5. QED  BY <2>1, <2>2, <2>3, <2>4
  <1>3. CASE ReaderGet(r)
    <2>1. /\ rpc[r] = "get" /\ rpc'[r] = "post" /\ wpc' = wpc
          /\ \A s \in Readers : s # r => rpc'[s] = rpc[s]
      BY <1>3, ReaderMoves DEF ReaderGet, ReaderPC
    <2>2. UNCHANGED <<sem_Full, data, lost, ExitCondition>> /\ fresh' = FALSE
      BY <1>3 DEF ReaderGet, sems, letter
    <2>3. QED  BY <1>0, <2>1, <2>2
  <1>4. CASE ReaderPost(r)
    <2>1. /\ rpc[r] = "post" /\ rpc'[r] = "ready" /\ wpc' = wpc
          /\ \A s \in Readers : s # r => rpc'[s] = rpc[s]
      BY <1>4, ReaderMoves DEF ReaderPost, ReaderPC
    <2>2. UNCHANGED <<sem_Full, data, lost, fresh, ExitCondition>>
      BY <1>4 DEF ReaderPost, letter, block
    <2>3. QED  BY <1>0, <2>1, <2>2
  <1>5. CASE ReaderExitEmpty(r)
    <2>1. /\ rpc[r] = "exitE" /\ rpc'[r] = "exitF" /\ wpc' = wpc
          /\ \A s \in Readers : s # r => rpc'[s] = rpc[s]
      BY <1>5, ReaderMoves DEF ReaderExitEmpty, ReaderPC
    <2>2. UNCHANGED <<sem_Full, data, lost, fresh, ExitCondition>>
      BY <1>5 DEF ReaderExitEmpty, letter, block
    <2>3. QED  BY <1>0, <2>1, <2>2
  <1>6. CASE ReaderExitFull(r)
    <2>1. /\ rpc[r] = "exitF" /\ rpc'[r] = "done" /\ wpc' = wpc
          /\ \A s \in Readers : s # r => rpc'[s] = rpc[s]
      BY <1>6, ReaderMoves DEF ReaderExitFull, ReaderPC
    <2>2. /\ sem_Full = 0 /\ sem_Full' = 1
          /\ UNCHANGED <<data, lost, fresh, ExitCondition>>
      BY <1>0, <1>6, <2>1 DEF ReaderExitFull, Post, letter, block
    <2>3. QED  BY <2>1, <2>2
  <1>7. QED  BY <1>1, <1>2, <1>3, <1>4, <1>5, <1>6 DEF ReaderStep

(* After the first exit no writer fills a block, and only the writer N-1 brings
   a token to the readers, once. *)
LEMMA WriterExits ==
  ASSUME TypeOK, NEW w \in Writers, WriterStep(w), ExitCondition, ExitToken
  PROVE  ExitCondition' /\ ExitToken'
  <1> USE DEF ExitToken
  <1>0. /\ sem_Empty \in Nat /\ sem_Full \in Nat /\ data \in Nat
        /\ N-1 \in Writers
    BY NAssumption DEF TypeOK, Writers
  <1>r. ASSUME rpc' = rpc
        PROVE  \A r \in Readers : /\ ReaderHolds(r)' <=> ReaderHolds(r)
                                  /\ ReaderLeaves(r)' <=> ReaderLeaves(r)
    BY <1>r DEF ReaderHolds, ReaderLeaves
  <1>1. CASE WriterWait(w)
    <2>1. /\ wpc[w] = "ready" /\ wpc'[w] = "check" /\ rpc' = rpc
          /\ \A v \in Writers : v # w => wpc'[v] = wpc[v]
      BY <1>1, WriterMoves DEF WriterWait, WriterPC
    <2>2. UNCHANGED <<sem_Full, data, lost, fresh, ExitCondition>>
      BY <1>1 DEF WriterWait, letter, block
    <2>3. QED  BY <1>0, <1>r, <2>1, <2>2
  <1>2. CASE WriterCheck(w)
    <2>1. /\ wpc[w] = "check" /\ wpc'[w] = (IF w = N-1 THEN "exitF" ELSE "exitE") /\ rpc' = rpc
          /\ \A v \in Writers : v # w => wpc'[v] = wpc[v]
      <3>1. (IF w = N-1 THEN "exitF" ELSE "exitE") \in WriterPC
        BY DEF WriterPC
      <3>2. QED  BY <1>2, <3>1, WriterMoves DEF WriterCheck
    <2>2. UNCHANGED <<sem_Full, data, lost, fresh>> /\ ExitCondition'
      BY <1>2 DEF WriterCheck, sems, letter, block
    <2>3. QED  BY <1>0, <1>r, <2>1, <2>2
  <1>3. CASE WriterFill(w) \/ WriterUpdate(w) \/ WriterPost(w)
    BY <1>3 DEF WriterFill, WriterUpdate, WriterPost, MoveWriter
  <1>4. CASE WriterLoad(w)
    <2>1. /\ wpc[w] = "load" /\ wpc'[w] = "store" /\ rpc' = rpc
          /\ \A v \in Writers : v # w => wpc'[v] = wpc[v]
      BY <1>4, WriterMoves DEF WriterLoad, WriterPC
    <2>2. UNCHANGED <<sem_Full, data, lost, fresh, ExitCondition>>
      BY <1>4 DEF WriterLoad, sems, block
    <2>3. QED  BY <1>0, <1>r, <2>1, <2>2
  <1>5. CASE WriterStore(w)
    <2>1. /\ wpc[w] = "store" /\ wpc'[w] = "ready" /\ rpc' = rpc
          /\ \A v \in Writers : v # w => wpc'[v] = wpc[v]
      BY <1>5, WriterMoves DEF WriterStore, WriterPC
    <2>2. /\ UNCHANGED <<sem_Full, fresh, ExitCondition>>
          /\ data' \in Nat /\ (lost' <=> (lost \/ data' <= data))
      <3>1. reg[w] \in Nat
        BY DEF TypeOK
      <3>2. data' \in Nat
        BY <1>5, <3>1 DEF WriterStore
      <3>3. lost' <=> (lost \/ data' <= data)
        BY <1>5 DEF WriterStore
      <3>4. QED  BY <1>5, <3>2, <3>3 DEF WriterStore, sems, block
    <2>3. data' > LastLetter \/ lost'
      BY <1>0, <2>2, LetterAssumption
    <2>4. lost => lost'
      BY <2>2
    <2>5. QED  BY <1>0, <1>r, <2>1, <2>2, <2>3, <2>4
  <1>6. CASE WriterExitFull(w)
    <2>1. /\ wpc[w] = "exitF" /\ wpc'[w] = "exitE" /\ rpc' = rpc
          /\ \A v \in Writers : v # w => wpc'[v] = wpc[v]
      BY <1>6, WriterMoves DEF WriterExitFull, WriterPC
    <2>2. UNCHANGED <<data, lost, fresh, ExitCondition>> /\ sem_Full' = sem_Full + 1
      BY <1>6 DEF WriterExitFull, Post, letter, block
    <2>3. QED  BY <1>0, <1>r, <2>1, <2>2
  <1>7. CASE WriterExitEmpty(w)
    <2>1. /\ wpc[w] = "exitE" /\ wpc'[w] = "done" /\ rpc' = rpc
          /\ \A v \in Writers : v # w => wpc'[v] = wpc[v]
      BY <1>7, WriterMoves DEF WriterExitEmpty, WriterPC
    <2>2. UNCHANGED <<sem_Full, data, lost, fresh, ExitCondition>>
      BY <1>7 DEF WriterExitEmpty, letter, block
    <2>3. QED  BY <1>0, <1>r, <2>1, <2>2
  <1>8. QED  BY <1>1, <1>2, <1>3, <1>4, <1>5, <1>6, <1>7 DEF WriterStep

-----------------------------------------------------------------------------
(* A thread that takes a step was created, has not ended, and neither starts
   nor ends another one. *)
LEMMA ReaderOrder ==
  ASSUME TypeOK, NotYetCreated, Joined, NEW r \in Readers, ReaderStep(r)
  PROVE  NotYetCreated' /\ Joined'
  <1>1. \E from \in ReaderPC \ {"new"}, to \in ReaderPC : MoveReader(r, from, to)
    BY DEF ReaderStep, ReaderWait, ReaderCheck, ReaderGet, ReaderPost, ReaderExitEmpty,
           ReaderExitFull, ReaderPC
  <1>2. /\ wpc' = wpc /\ main' = main /\ next' = next
        /\ rpc[r] # "new" /\ \A s \in Readers : s # r => rpc'[s] = rpc[s]
    BY <1>1, ReaderMoves
  <1>3. QED  BY <1>2 DEF NotYetCreated, Joined

(* The same of a writer. *)
LEMMA WriterOrder ==
  ASSUME TypeOK, NotYetCreated, Joined, NEW w \in Writers, WriterStep(w)
  PROVE  NotYetCreated' /\ Joined'
  <1>1. \E from \in WriterPC \ {"new", "done"}, to \in WriterPC : MoveWriter(w, from, to)
    BY DEF WriterStep, WriterWait, WriterCheck, WriterFill, WriterUpdate, WriterPost, WriterLoad,
           WriterStore, WriterExitFull, WriterExitEmpty, WriterPC
  <1>2. /\ rpc' = rpc /\ main' = main /\ next' = next
        /\ wpc[w] \notin {"new", "done"} /\ \A v \in Writers : v # w => wpc'[v] = wpc[v]
    BY <1>1, WriterMoves
  <1>3. 0 \in Writers
    BY NAssumption DEF Writers
  <1>4. QED  BY <1>2, <1>3 DEF NotYetCreated, Joined

(* The inductive invariant holds at the start. *)
LEMMA InvInit == Init => IInv
  <1> SUFFICES ASSUME Init PROVE IInv
    OBVIOUS
  <1>1. /\ \A r \in Readers : rpc[r] = "new"
        /\ \A w \in Writers : wpc[w] = "new"
    BY DEF Init
  <1>2. NotYetCreated /\ Joined
    BY <1>1 DEF Init, NotYetCreated, Joined
  <1>3. OneToken /\ FreshTravels
    BY <1>1 DEF Init, OneToken, FreshTravels, WriterHolds, ReaderHolds, ReaderLeaves
  <1>4. ~ExitCondition
    BY DEF Init
  <1>5. QED  BY <1>2, <1>3, <1>4, TypeInit DEF IInv

(* Every step keeps the inductive invariant. *)
LEMMA InvStep == IInv /\ [Next]_vars => IInv'
  <1> SUFFICES ASSUME IInv, [Next]_vars PROVE IInv'
    OBVIOUS
  <1>0. TypeOK /\ NotYetCreated /\ Joined /\ Token /\ ExitCondition \in BOOLEAN
    BY DEF IInv, Token, TypeOK
  <1>1. CASE MainStep
    BY <1>0, <1>1, MainStepInv, MainToken DEF IInv, Token
  <1>2. ASSUME NEW r \in Readers, ReaderStep(r) PROVE IInv'
    <2>1. TypeOK' /\ NotYetCreated' /\ Joined'
      BY <1>0, <1>2, ReaderType, ReaderOrder
    <2>2. CASE ExitCondition
      BY <1>0, <1>2, <2>1, <2>2, ReaderExits DEF IInv, Token
    <2>3. CASE ~ExitCondition
      BY <1>0, <1>2, <2>1, <2>3, ReaderToken DEF IInv, Token
    <2>4. QED  BY <2>2, <2>3
  <1>3. ASSUME NEW w \in Writers, WriterStep(w) PROVE IInv'
    <2>1. TypeOK' /\ NotYetCreated' /\ Joined'
      BY <1>0, <1>3, WriterType, WriterOrder
    <2>2. CASE ExitCondition
      BY <1>0, <1>3, <2>1, <2>2, WriterExits DEF IInv, Token
    <2>3. CASE ~ExitCondition
      BY <1>0, <1>3, <2>1, <2>3, WriterToken DEF IInv, Token
    <2>4. QED  BY <2>2, <2>3
  <1>4. CASE UNCHANGED vars
    BY <1>0, <1>4 DEF vars, IInv, TypeOK, NotYetCreated, Joined, Token, OneToken, FreshTravels,
       ExitToken, WriterHolds, ReaderHolds, ReaderLeaves
  <1>5. QED  BY <1>1, <1>2, <1>3, <1>4 DEF Next

(* The inductive invariant holds in every state. *)
LEMMA Invariance == Spec => []IInv
  BY InvInit, InvStep, PTL DEF Spec

-----------------------------------------------------------------------------
(* The writers are finitely many, and those that leave are some of them. *)
LEMMA LeavingFinite == IsFiniteSet(Leaving) /\ Cardinality(Leaving) \in Nat
  <1>1. IsFiniteSet(Writers)
    BY NAssumption, FS_Interval DEF Writers
  <1>2. Leaving \subseteq Writers
    BY DEF Leaving
  <1>3. QED  BY <1>1, <1>2, FS_Subset, FS_CardinalityType

(* A writer that moves comes to those that leave, stays where it was, or is gone. *)
LEMMA LeavingMoves ==
  ASSUME NEW w \in Writers, \A v \in Writers : v # w => wpc'[v] = wpc[v]
  PROVE  /\ w \notin Leaving /\ wpc'[w] \in {"check", "exitF", "exitE"} =>
              Cardinality(Leaving') = Cardinality(Leaving) + 1
         /\ w \in Leaving /\ wpc'[w] \notin {"check", "exitF", "exitE"} =>
              Cardinality(Leaving') = Cardinality(Leaving) - 1
         /\ (w \in Leaving <=> wpc'[w] \in {"check", "exitF", "exitE"}) => Leaving' = Leaving
  <1>1. ASSUME w \notin Leaving, wpc'[w] \in {"check", "exitF", "exitE"}
        PROVE  Leaving' = Leaving \cup {w}
    BY <1>1 DEF Leaving
  <1>2. ASSUME w \in Leaving, wpc'[w] \notin {"check", "exitF", "exitE"}
        PROVE  Leaving' = Leaving \ {w}
    BY <1>2 DEF Leaving
  <1>3. ASSUME w \in Leaving <=> wpc'[w] \in {"check", "exitF", "exitE"}
        PROVE  Leaving' = Leaving
    BY <1>3 DEF Leaving
  <1>4. QED  BY <1>1, <1>2, <1>3, LeavingFinite, FS_AddElement, FS_RemoveElement

(* The step that sets ExitCondition: its writer has the one token. *)
LEMMA FirstExit ==
  ASSUME TypeOK, NEW w \in Writers, WriterCheck(w), ~ExitCondition, ExitCondition', OneToken
  PROVE  PostsToCome'
  <1>0. N-1 \in Writers /\ M-1 \in Readers /\ sem_Empty \in Nat /\ sem_Full \in Nat
    BY MAssumption, NAssumption DEF TypeOK, Readers, Writers
  <1>1. /\ wpc[w] = "check" /\ wpc'[w] = (IF w = N-1 THEN "exitF" ELSE "exitE") /\ rpc' = rpc
        /\ \A v \in Writers : v # w => wpc'[v] = wpc[v]
        /\ sem_Empty' = sem_Empty /\ sem_Full' = sem_Full
    <2>1. MoveWriter(w, "check", IF w = N-1 THEN "exitF" ELSE "exitE") /\ UNCHANGED sems
      BY DEF WriterCheck
    <2>2. (IF w = N-1 THEN "exitF" ELSE "exitE") \in WriterPC
      BY DEF WriterPC
    <2>3. QED  BY <2>1, <2>2, WriterMoves DEF sems
  <1>2. WriterHolds(w)
    BY <1>1 DEF WriterHolds
  <1>3. /\ sem_Empty = 0 /\ sem_Full = 0
        /\ \A r \in Readers : rpc[r] \notin {"check", "get", "post", "exitE", "exitF", "done"}
    <2>1. sem_Empty + sem_Full # 1 /\ sem_Empty + sem_Full <= 1
      BY <1>2 DEF OneToken
    <2>2. \A r \in Readers : ~ReaderHolds(r) /\ ~ReaderLeaves(r) /\ rpc[r] # "done"
      BY <1>2 DEF OneToken
    <2>3. QED  BY <1>0, <2>1, <2>2 DEF ReaderHolds, ReaderLeaves
  <1>4. \A v \in Writers : v # w => wpc[v] \notin {"check", "exitF", "exitE", "done"}
    BY <1>2 DEF OneToken, WriterHolds
  <1>5. Leaving' = {w}
    BY <1>1, <1>4 DEF Leaving
  <1>6. Cardinality(Leaving') = 1
    BY <1>5, FS_Singleton
  <1>7. LastReaderPosts' = 1 /\ LateReaderPosts' = 1
    BY <1>0, <1>1, <1>3, <1>4 DEF LastReaderPosts, LateReaderPosts
  <1>8. QED  BY <1>1, <1>3, <1>6, <1>7 DEF PostsToCome

(* A step of a reader after that: what it posts is no longer to come. *)
LEMMA ReaderPosts ==
  ASSUME TypeOK, NEW r \in Readers, ReaderStep(r), ExitCondition, ExitToken, PostsToCome
  PROVE  PostsToCome'
  <1> DEFINE Busy(s) == ReaderHolds(s) \/ ReaderLeaves(s)
  <1>0. /\ M-1 \in Readers /\ sem_Empty \in Nat /\ sem_Full \in 0..1
        /\ sem_Full = 1 => ~Busy(r)
        /\ \A s \in Readers : Busy(r) /\ Busy(s) => r = s
        /\ wpc[N-1] \notin {"exitE", "done"} => sem_Full = 0 /\ ~Busy(r)
    BY MAssumption DEF TypeOK, Readers, ExitToken
  <1>1. /\ \A s \in Readers : (rpc[s] = "exitE" => s = M-1) /\ (rpc[s] = "post" => lost)
        /\ lost \/ LateReaderPosts = 1
        /\ sem_Empty + Cardinality(Leaving) + LastReaderPosts + LateReaderPosts = 3
        /\ LastReaderPosts \in 0..1 /\ LateReaderPosts \in 0..1 /\ Cardinality(Leaving) \in Nat
    BY LeavingFinite DEF PostsToCome, LastReaderPosts, LateReaderPosts
  <1>2. wpc' = wpc /\ Leaving' = Leaving /\ lost' = lost
    BY DEF ReaderStep, ReaderWait, ReaderCheck, ReaderGet, ReaderPost, ReaderExitEmpty, ReaderExitFull,
       MoveReader, Leaving, letter
  <1>3. ASSUME NEW from \in ReaderPC, NEW to \in ReaderPC, MoveReader(r, from, to)
        PROVE  /\ rpc[r] = from /\ rpc'[r] = to /\ \A s \in Readers : s # r => rpc'[s] = rpc[s]
               /\ \A s \in Readers : s # r => (Busy(s)' <=> Busy(s))
    <2>1. rpc[r] = from /\ rpc'[r] = to /\ \A s \in Readers : s # r => rpc'[s] = rpc[s]
      BY <1>3, ReaderMoves
    <2>2. QED  BY <2>1 DEF ReaderHolds, ReaderLeaves
  <1>4. CASE ReaderWait(r)
    <2>1. /\ rpc[r] = "ready" /\ rpc'[r] = "check" /\ \A s \in Readers : s # r => rpc'[s] = rpc[s]
      BY <1>3, <1>4 DEF ReaderWait, ReaderPC
    <2>2. sem_Full = 1 /\ sem_Empty' = sem_Empty
      BY <1>0, <1>4 DEF ReaderWait, Wait
    <2>3. LastReaderPosts' = LastReaderPosts
      BY <1>0, <2>1 DEF LastReaderPosts
    <2>4. LateReaderPosts' = 1 /\ LateReaderPosts = 1
      BY <2>1, <2>2 DEF LateReaderPosts, ReaderHolds
    <2>5. QED  BY <1>1, <1>2, <2>1, <2>2, <2>3, <2>4 DEF PostsToCome
  <1>5. CASE ReaderCheck(r)
    <2>1. /\ rpc[r] = "check" /\ rpc'[r] \in {"get", "exitE", "exitF"}
          /\ \A s \in Readers : s # r => rpc'[s] = rpc[s]
          /\ rpc'[r] = "exitE" => r = M-1
          /\ rpc'[r] = "exitF" => r # M-1
      <3>1. (IF ~EndOfData THEN "get" ELSE IF r = M-1 THEN "exitE" ELSE "exitF") \in ReaderPC
        BY DEF ReaderPC
      <3>2. QED  BY <1>3, <1>5, <3>1 DEF ReaderCheck, ReaderPC
    <2>2. sem_Empty' = sem_Empty /\ sem_Full' = sem_Full
      BY <1>5 DEF ReaderCheck, sems
    <2>3. LastReaderPosts' = LastReaderPosts
      BY <1>0, <2>1 DEF LastReaderPosts
    <2>4. LateReaderPosts' = 1 /\ LateReaderPosts = 1
      BY <2>1 DEF LateReaderPosts, ReaderHolds, ReaderLeaves
    <2>5. QED  BY <1>1, <1>2, <2>1, <2>2, <2>3, <2>4 DEF PostsToCome
  <1>6. CASE ReaderGet(r)
    <2>1. /\ rpc[r] = "get" /\ rpc'[r] = "post" /\ \A s \in Readers : s # r => rpc'[s] = rpc[s]
      BY <1>3, <1>6 DEF ReaderGet, ReaderPC
    <2>2. sem_Empty' = sem_Empty /\ sem_Full' = sem_Full /\ lost
      BY <1>6, <2>1 DEF ReaderGet, sems, ExitToken
    <2>3. LastReaderPosts' = LastReaderPosts
      BY <1>0, <2>1 DEF LastReaderPosts
    <2>4. LateReaderPosts' = 1 /\ LateReaderPosts = 1
      BY <2>1 DEF LateReaderPosts, ReaderHolds
    <2>5. QED  BY <1>1, <1>2, <2>1, <2>2, <2>3, <2>4 DEF PostsToCome
  <1>7. CASE ReaderPost(r)
    <2>1. /\ rpc[r] = "post" /\ rpc'[r] = "ready" /\ \A s \in Readers : s # r => rpc'[s] = rpc[s]
          /\ \A s \in Readers : s # r => (Busy(s)' <=> Busy(s))
      BY <1>3, <1>7 DEF ReaderPost, ReaderPC
    <2>2. sem_Empty' = sem_Empty + 1 /\ sem_Full' = sem_Full /\ lost
      BY <1>1, <1>7, <2>1 DEF ReaderPost, Post
    <2>3. LastReaderPosts' = LastReaderPosts
      BY <1>0, <2>1 DEF LastReaderPosts
    <2>4. Busy(r) /\ ~Busy(r)'
      BY <2>1 DEF ReaderHolds, ReaderLeaves
    <2>5. \A s \in Readers : ~Busy(s)'
      BY <1>0, <2>1, <2>4
    <2>6. LateReaderPosts = 1
      BY <2>4 DEF LateReaderPosts
    <2>7. LateReaderPosts' = 0
      BY <1>0, <1>2, <2>2, <2>4, <2>5 DEF LateReaderPosts
    <2>8. QED  BY <1>0, <1>1, <1>2, <2>1, <2>2, <2>3, <2>6, <2>7 DEF PostsToCome
  <1>8. CASE ReaderExitEmpty(r)
    <2>1. /\ rpc[r] = "exitE" /\ rpc'[r] = "exitF" /\ \A s \in Readers : s # r => rpc'[s] = rpc[s]
      BY <1>3, <1>8 DEF ReaderExitEmpty, ReaderPC
    <2>2. sem_Empty' = sem_Empty + 1 /\ sem_Full' = sem_Full
      BY <1>8 DEF ReaderExitEmpty, Post
    <2>3. LastReaderPosts = 1 /\ LastReaderPosts' = 0
      BY <1>0, <1>1, <2>1 DEF LastReaderPosts
    <2>4. LateReaderPosts' = 1 /\ LateReaderPosts = 1
      BY <2>1 DEF LateReaderPosts, ReaderLeaves
    <2>5. QED  BY <1>0, <1>1, <1>2, <2>1, <2>2, <2>3, <2>4 DEF PostsToCome
  <1>9. CASE ReaderExitFull(r)
    <2>1. /\ rpc[r] = "exitF" /\ rpc'[r] = "done" /\ \A s \in Readers : s # r => rpc'[s] = rpc[s]
      BY <1>3, <1>9 DEF ReaderExitFull, ReaderPC
    <2>2. sem_Empty' = sem_Empty /\ sem_Full = 0 /\ sem_Full' = 1
      BY <1>0, <1>9, <2>1 DEF ReaderExitFull, Post, ReaderLeaves
    <2>3. LastReaderPosts' = LastReaderPosts
      BY <1>0, <2>1 DEF LastReaderPosts
    <2>4. LateReaderPosts' = 1 /\ LateReaderPosts = 1
      BY <2>1, <2>2 DEF LateReaderPosts, ReaderLeaves
    <2>5. QED  BY <1>1, <1>2, <2>1, <2>2, <2>3, <2>4 DEF PostsToCome
  <1>10. QED  BY <1>4, <1>5, <1>6, <1>7, <1>8, <1>9 DEF ReaderStep

(* The same of a writer, which posts what it took. *)
LEMMA WriterPosts ==
  ASSUME TypeOK, NEW w \in Writers, WriterStep(w), ExitCondition, ExitToken, PostsToCome
  PROVE  PostsToCome'
  <1>0. N-1 \in Writers /\ sem_Empty \in Nat /\ sem_Full \in 0..1
    BY NAssumption DEF TypeOK, Writers, ExitToken
  <1>1. /\ \A s \in Readers : (rpc[s] = "exitE" => s = M-1) /\ (rpc[s] = "post" => lost)
        /\ lost \/ LateReaderPosts = 1
        /\ sem_Empty + Cardinality(Leaving) + LastReaderPosts + LateReaderPosts = 3
        /\ LastReaderPosts \in 0..1 /\ LateReaderPosts \in 0..1 /\ Cardinality(Leaving) \in Nat
    BY LeavingFinite DEF PostsToCome, LastReaderPosts, LateReaderPosts
  <1>2. rpc' = rpc /\ LastReaderPosts' = LastReaderPosts /\ (lost => lost')
    <2>1. rpc' = rpc
      BY DEF WriterStep, WriterWait, WriterCheck, WriterFill, WriterUpdate, WriterPost, WriterLoad,
         WriterStore, WriterExitFull, WriterExitEmpty, MoveWriter
    <2>2. CASE WriterStore(w)
      BY <2>1, <2>2 DEF WriterStore, LastReaderPosts
    <2>3. CASE ~WriterStore(w)
      <3>1. lost' = lost
        BY <2>3 DEF WriterStep, WriterWait, WriterCheck, WriterFill, WriterUpdate, WriterPost, WriterLoad,
           WriterExitFull, WriterExitEmpty, letter
      <3>2. QED  BY <2>1, <3>1 DEF LastReaderPosts
    <2>4. QED  BY <2>2, <2>3
  <1>3. ASSUME NEW from \in WriterPC, NEW to \in WriterPC, MoveWriter(w, from, to)
        PROVE  /\ wpc[w] = from /\ wpc'[w] = to /\ \A v \in Writers : v # w => wpc'[v] = wpc[v]
    BY <1>3, WriterMoves
  <1>4. ASSUME sem_Full' = sem_Full,
               wpc'[N-1] \in {"exitE", "done"} <=> wpc[N-1] \in {"exitE", "done"}
        PROVE  LateReaderPosts' = LateReaderPosts
    BY <1>2, <1>4 DEF LateReaderPosts, ReaderHolds, ReaderLeaves
  <1>5. CASE WriterWait(w)
    <2>1. wpc[w] = "ready" /\ wpc'[w] = "check" /\ \A v \in Writers : v # w => wpc'[v] = wpc[v]
      BY <1>3, <1>5 DEF WriterWait, WriterPC
    <2>2. sem_Full' = sem_Full /\ sem_Empty' = sem_Empty - 1
      BY <1>5 DEF WriterWait, Wait
    <2>3. Cardinality(Leaving') = Cardinality(Leaving) + 1
      BY <2>1, LeavingMoves DEF Leaving
    <2>4. LateReaderPosts' = LateReaderPosts
      BY <1>0, <1>4, <2>1, <2>2
    <2>5. QED  BY <1>0, <1>1, <1>2, <2>2, <2>3, <2>4 DEF PostsToCome
  <1>6. CASE WriterCheck(w)
    <2>1. /\ wpc[w] = "check" /\ wpc'[w] = (IF w = N-1 THEN "exitF" ELSE "exitE")
          /\ \A v \in Writers : v # w => wpc'[v] = wpc[v]
      <3>1. (IF w = N-1 THEN "exitF" ELSE "exitE") \in WriterPC /\ "check" \in WriterPC
        BY DEF WriterPC
      <3>2. QED  BY <1>3, <1>6, <3>1 DEF WriterCheck
    <2>2. sem_Full' = sem_Full /\ sem_Empty' = sem_Empty
      BY <1>6 DEF WriterCheck, sems
    <2>3. Leaving' = Leaving
      BY <2>1, LeavingMoves DEF Leaving
    <2>4. LateReaderPosts' = LateReaderPosts
      BY <1>0, <1>4, <2>1, <2>2
    <2>5. QED  BY <1>1, <1>2, <2>2, <2>3, <2>4 DEF PostsToCome
  <1>7. CASE WriterFill(w) \/ WriterUpdate(w) \/ WriterPost(w)
    BY <1>7 DEF WriterFill, WriterUpdate, WriterPost, MoveWriter, ExitToken
  <1>8. CASE WriterLoad(w) \/ WriterStore(w)
    <2>1. /\ wpc[w] \in {"load", "store"} /\ wpc'[w] \in {"store", "ready"}
          /\ \A v \in Writers : v # w => wpc'[v] = wpc[v]
      BY <1>3, <1>8 DEF WriterLoad, WriterStore, WriterPC
    <2>2. sem_Full' = sem_Full /\ sem_Empty' = sem_Empty
      BY <1>8 DEF WriterLoad, WriterStore, sems
    <2>3. Leaving' = Leaving
      BY <2>1, LeavingMoves DEF Leaving
    <2>4. LateReaderPosts' = LateReaderPosts
      BY <1>0, <1>4, <2>1, <2>2
    <2>5. QED  BY <1>1, <1>2, <2>2, <2>3, <2>4 DEF PostsToCome
  <1>9. CASE WriterExitFull(w)
    <2>1. wpc[w] = "exitF" /\ wpc'[w] = "exitE" /\ \A v \in Writers : v # w => wpc'[v] = wpc[v]
      BY <1>3, <1>9 DEF WriterExitFull, WriterPC
    <2>2. w = N-1 /\ sem_Full = 0 /\ sem_Full' = 1 /\ sem_Empty' = sem_Empty
      BY <1>0, <1>9, <2>1 DEF WriterExitFull, Post, ExitToken
    <2>3. Leaving' = Leaving
      BY <2>1, LeavingMoves DEF Leaving
    <2>4. LateReaderPosts' = 1 /\ LateReaderPosts = 1
      BY <2>1, <2>2 DEF LateReaderPosts
    <2>5. QED  BY <1>1, <1>2, <2>2, <2>3, <2>4 DEF PostsToCome
  <1>10. CASE WriterExitEmpty(w)
    <2>1. wpc[w] = "exitE" /\ wpc'[w] = "done" /\ \A v \in Writers : v # w => wpc'[v] = wpc[v]
      BY <1>3, <1>10 DEF WriterExitEmpty, WriterPC
    <2>2. sem_Full' = sem_Full /\ sem_Empty' = sem_Empty + 1
      BY <1>10 DEF WriterExitEmpty, Post
    <2>3. Cardinality(Leaving') = Cardinality(Leaving) - 1
      BY <2>1, LeavingMoves DEF Leaving
    <2>4. LateReaderPosts' = LateReaderPosts
      BY <1>0, <1>4, <2>1, <2>2
    <2>5. QED  BY <1>0, <1>1, <1>2, <2>2, <2>3, <2>4 DEF PostsToCome
  <1>11. QED  BY <1>5, <1>6, <1>7, <1>8, <1>9, <1>10 DEF WriterStep

(* main() posts nothing, and the threads that it starts leave nothing. *)
LEMMA MainPosts ==
  ASSUME TypeOK, NotYetCreated, MainStep, PostsToCome
  PROVE  PostsToCome'
  <1>1. UNCHANGED <<sem_Empty, sem_Full, lost, ExitCondition>>
    BY MainMoves DEF sems, letter, block
  <1>2. /\ \A r \in Readers : rpc'[r] = rpc[r] \/ (rpc[r] = "new" /\ rpc'[r] = "ready")
        /\ \A w \in Writers : wpc'[w] = wpc[w] \/ (wpc[w] = "new" /\ wpc'[w] = "ready")
        /\ M-1 \in Readers /\ N-1 \in Writers
    BY MainMoves, MAssumption, NAssumption DEF Readers, Writers
  <1>3. Leaving' = Leaving
    BY <1>2 DEF Leaving
  <1>4. LastReaderPosts' = LastReaderPosts
    BY <1>2 DEF LastReaderPosts
  <1>5. LateReaderPosts' = LateReaderPosts
    <2>1. \A r \in Readers : (ReaderHolds(r) \/ ReaderLeaves(r))' <=> ReaderHolds(r) \/ ReaderLeaves(r)
      BY <1>2 DEF ReaderHolds, ReaderLeaves
    <2>2. wpc'[N-1] \in {"exitE", "done"} <=> wpc[N-1] \in {"exitE", "done"}
      BY <1>2
    <2>3. QED  BY <1>1, <2>1, <2>2 DEF LateReaderPosts
  <1>6. \A r \in Readers : \A pc \in {"exitE", "post"} : rpc'[r] = pc => rpc[r] = pc
    BY <1>2
  <1>7. QED  BY <1>1, <1>3, <1>4, <1>5, <1>6 DEF PostsToCome

(* The posts add up in every state. *)
LEMMA PostsStep == IInv /\ PostsToCome /\ [Next]_vars => PostsToCome'
  <1> SUFFICES ASSUME IInv, PostsToCome, [Next]_vars PROVE PostsToCome'
    OBVIOUS
  <1>0. TypeOK /\ NotYetCreated /\ ExitCondition \in BOOLEAN
        /\ (~ExitCondition => OneToken) /\ (ExitCondition => ExitToken)
    BY DEF IInv, TypeOK
  <1>1. CASE MainStep
    BY <1>0, <1>1, MainPosts
  <1>2. ASSUME NEW r \in Readers, ReaderStep(r) PROVE PostsToCome'
    <2>1. CASE ExitCondition
      BY <1>0, <1>2, <2>1, ReaderPosts
    <2>2. CASE ~ExitCondition
      <3>1. ~ExitCondition'
        BY <1>2, <2>2 DEF ReaderStep, ReaderWait, ReaderCheck, ReaderGet, ReaderPost, ReaderExitEmpty,
           ReaderExitFull
      <3>2. QED  BY <3>1 DEF PostsToCome
    <2>3. QED  BY <2>1, <2>2
  <1>3. ASSUME NEW w \in Writers, WriterStep(w) PROVE PostsToCome'
    <2>1. CASE ExitCondition
      BY <1>0, <1>3, <2>1, WriterPosts
    <2>2. CASE ~ExitCondition /\ WriterCheck(w) /\ ExitCondition'
      BY <1>0, <2>2, FirstExit
    <2>3. CASE ~ExitCondition /\ ~(WriterCheck(w) /\ ExitCondition')
      <3>1. ~ExitCondition'
        BY <1>3, <2>3 DEF WriterStep, WriterWait, WriterFill, WriterUpdate, WriterPost, WriterLoad,
           WriterStore, WriterExitFull, WriterExitEmpty
      <3>2. QED  BY <3>1 DEF PostsToCome
    <2>4. QED  BY <2>1, <2>2, <2>3
  <1>4. CASE UNCHANGED vars
    BY <1>4 DEF vars, PostsToCome, Leaving, LastReaderPosts, LateReaderPosts, ReaderHolds, ReaderLeaves
  <1>5. QED  BY <1>1, <1>2, <1>3, <1>4 DEF Next

(* Every variable has its type, sem_Full is never above 1, and sem_Empty never
   above 2, or 3 when data++ lost an update: before the exit there is one token,
   and from then on PostsToCome counts the posts. *)
THEOREM SemaphoresStayBounded == Spec => [](TypeOK /\ SemaphoresBounded)
  <1>1. Init => PostsToCome
    BY DEF Init, PostsToCome
  <1>2. IInv /\ PostsToCome => TypeOK /\ SemaphoresBounded
    <2> SUFFICES ASSUME IInv, PostsToCome PROVE TypeOK /\ SemaphoresBounded
      OBVIOUS
    <2>1. TypeOK /\ sem_Empty \in Nat /\ sem_Full \in Nat /\ ExitCondition \in BOOLEAN
      BY DEF IInv, TypeOK
    <2>2. CASE ~ExitCondition
      <3>1. sem_Empty + sem_Full <= 1
        BY <2>2 DEF IInv, OneToken
      <3>2. QED  BY <2>1, <3>1 DEF SemaphoresBounded
    <2>3. CASE ExitCondition
      <3>1. /\ sem_Full <= 1 /\ (lost \/ LateReaderPosts = 1)
            /\ sem_Empty + Cardinality(Leaving) + LastReaderPosts + LateReaderPosts = 3
        BY <2>3 DEF IInv, ExitToken, PostsToCome
      <3>2. LastReaderPosts \in 0..1 /\ LateReaderPosts \in 0..1 /\ Cardinality(Leaving) \in Nat
        BY LeavingFinite DEF LastReaderPosts, LateReaderPosts
      <3>3. sem_Empty <= 3 /\ (~lost => sem_Empty <= 2)
        BY <2>1, <3>1, <3>2
      <3>4. QED  BY <2>1, <3>1, <3>3 DEF SemaphoresBounded
    <2>4. QED  BY <2>1, <2>2, <2>3
  <1>3. QED  BY <1>1, <1>2, InvInit, InvStep, PostsStep, PTL DEF Spec

(* No two threads touch the block at the same time: before the exit they share
   one token, after it only readers touch the block, and share another. *)
THEOREM Exclusive == Spec => []BufferExclusive
  <1>1. IInv => BufferExclusive
    <2> SUFFICES ASSUME IInv PROVE BufferExclusive
      OBVIOUS
    <2>1. \A x, y \in Copying : x = y
      <3> SUFFICES ASSUME NEW x \in Copying, NEW y \in Copying PROVE x = y
        OBVIOUS
      <3>1. CASE ~ExitCondition
        BY <3>1 DEF IInv, OneToken, Copying, WriterHolds, ReaderHolds
      <3>2. CASE ExitCondition
        BY <3>2 DEF IInv, ExitToken, Copying, ReaderHolds
      <3>3. QED  BY <3>1, <3>2
    <2>2. CASE Copying = {}
      BY <2>2, FS_EmptySet DEF BufferExclusive
    <2>3. ASSUME NEW x \in Copying PROVE BufferExclusive
      <3>1. Copying = {x}
        BY <2>1, <2>3
      <3>2. Cardinality(Copying) = 1
        BY <3>1, FS_Singleton
      <3>3. QED  BY <3>2 DEF BufferExclusive
    <2>4. QED  BY <2>2, <2>3
  <1>2. QED  BY <1>1, Invariance, PTL

(* A writer never overwrites a block that no reader has taken. *)
THEOREM NeverOverwrites == Spec => []NoOverwrite
  <1>1. IInv => NoOverwrite
    BY DEF IInv, TypeOK, FreshTravels, ExitToken, NoOverwrite
  <1>2. QED  BY <1>1, Invariance, PTL

(* No block is copied twice, unless data++ lost an update. *)
THEOREM NeverStale == Spec => []NoStaleRead
  <1>1. IInv => NoStaleRead
    BY DEF IInv, TypeOK, FreshTravels, ExitToken, NoStaleRead
  <1>2. QED  BY <1>1, Invariance, PTL

(* The last block is consumed before main returns: the writer 0 has exited, and
   the first writer that exits finds the block consumed. *)
THEOREM LastConsumed == Spec => []AllConsumed
  <1>1. IInv => AllConsumed
    <2> SUFFICES ASSUME IInv, main = "done" PROVE ~fresh
      BY DEF AllConsumed
    <2>1. wpc[0] = "done" /\ 0 \in Writers
      BY NAssumption DEF IInv, Joined, Writers
    <2>2. ExitCondition
      BY <2>1 DEF IInv, TypeOK, OneToken
    <2>3. QED  BY <2>2 DEF IInv, ExitToken
  <1>2. QED  BY <1>1, Invariance, PTL
=============================================================================
