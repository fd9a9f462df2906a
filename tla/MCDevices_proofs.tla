-------------------------- MODULE MCDevices_proofs --------------------------
(***************************************************************************)
(* Theorems about the drivers that share data: signal.c, for any set of    *)
(* applications and any number of interrupts; the device file and the proc *)
(* file of simpleDriver.c, for any processes and any blocks; the threads   *)
(* of the lock drivers, for any number of rounds.                          *)
(***************************************************************************)
EXTENDS MCDevices, FiniteSetTheorems, TLAPS

-----------------------------------------------------------------------------
(* signal.c. *)

Labels == {"ioctl", "outer", "inner", "spin", "reset", "close", "exit", "exited"}

(* The inductive invariant holds at the start. *)
LEMMA InvInit == Init => IInv
  <1> SUFFICES ASSUME Init PROVE IInv
    OBVIOUS
  <1> USE TaskAssumption, IrqsAssumption
  <1>1. \A a \in Apps : pc[a] = "ioctl" /\ done[a] = FALSE /\ check[a] = FALSE
                        /\ reset[a] = FALSE /\ owed[a] = 0
    BY DEF Init
  <1>2. task = NoTask /\ irq = "idle" /\ fault = "none"
    BY DEF Init
  <1>3. TypeOK
    BY DEF Init, TypeOK
  <1>4. FlagsAgree /\ OwedEnough
    BY <1>1 DEF FlagsAgree, OwedEnough, Due
  <1>5. QED  BY <1>2, <1>3, <1>4 DEF IInv, TaskLives, SafeOnOneCpu, HandlerFindsTask

(* The interrupt and its handler keep it. *)
LEMMA KernelInv ==
  ASSUME IInv, RaiseIrq \/ Handler
  PROVE  IInv'
  <1> USE TaskAssumption, IrqsAssumption DEF IInv
  <1>1. UNCHANGED <<smp, hoisted, task, pc, done, check, ctrlC, reset, owed>>
    BY DEF RaiseIrq, Handler, TestTask, LoadTask, SendSigInfo, app
  <1>2. TaskLives' /\ FlagsAgree' /\ OwedEnough'
    BY <1>1 DEF TaskLives, FlagsAgree, OwedEnough, Due
  <1>3. CASE RaiseIrq
    BY <1>1, <1>2, <1>3 DEF RaiseIrq, app, TypeOK, SafeOnOneCpu, HandlerFindsTask
  <1>4. CASE TestTask
    BY <1>1, <1>2, <1>4 DEF TestTask, app, TypeOK, SafeOnOneCpu, HandlerFindsTask
  <1>5. CASE LoadTask
    BY <1>1, <1>2, <1>5 DEF LoadTask, app, TypeOK, SafeOnOneCpu, HandlerFindsTask, TaskLives, Alive
  <1>6. CASE SendSigInfo
    BY <1>1, <1>2, <1>6 DEF SendSigInfo, TypeOK, SafeOnOneCpu, HandlerFindsTask, Alive
  <1>7. QED  BY <1>3, <1>4, <1>5, <1>6 DEF Handler

(* What an application does leaves alone what the others have. *)
LEMMA AppTypes ==
  ASSUME IInv, NEW a \in Apps, Program(a) \/ Signal(a) \/ TypeCtrlC(a)
  PROVE  /\ TypeOK'
         /\ Runs /\ UNCHANGED <<smp, hoisted, irq, target, irqs, fault>>
         /\ \A b \in Apps \ {a} :
              /\ pc'[b] = pc[b] /\ done'[b] = done[b] /\ check'[b] = check[b]
              /\ reset'[b] = reset[b] /\ owed'[b] = owed[b]
  <1> USE DEF IInv, TypeOK, kernel, Goto
  <1>1. CASE Ioctl(a)
    BY <1>1 DEF Ioctl
  <1>2. CASE OuterLoop(a) \/ ResetCheck(a)
    BY <1>2 DEF OuterLoop, ResetCheck
  <1>3. CASE InnerLoop(a)
    BY <1>3 DEF InnerLoop
  <1>4. CASE Close(a)
    BY <1>4 DEF Close, Release
  <1>5. CASE Exit(a)
    BY <1>5 DEF Exit
  <1>6. CASE TypeCtrlC(a)
    BY <1>6 DEF TypeCtrlC
  <1>7. CASE SigEvent(a)
    <2>1. queued' \in [Apps -> Nat] /\ owed' \in [Apps -> Int] /\ check' \in [Apps -> BOOLEAN]
      BY <1>7 DEF SigEvent
    <2>2. QED  BY <1>7, <2>1 DEF SigEvent
  <1>8. CASE SigInt(a)
    <2>1. CASE reset[a]
      <3>1. ctrlC' \in [Apps -> BOOLEAN] /\ pc' \in [Apps -> Labels]
        BY <1>8, <2>1 DEF SigInt, Labels
      <3>2. UNCHANGED <<smp, hoisted, task, irq, target, irqs, fault, done, check, queued, reset, owed>>
        BY <1>8, <2>1 DEF SigInt
      <3>3. TypeOK'
        BY <3>1, <3>2 DEF Labels
      <3>4. Runs /\ \A b \in Apps \ {a} : pc'[b] = pc[b]
        BY <1>8, <2>1 DEF SigInt
      <3>5. QED  BY <3>2, <3>3, <3>4
    <2>2. CASE ~reset[a]
      <3>1. /\ UNCHANGED <<smp, hoisted, task, irq, target, irqs, fault, pc, check, queued>>
            /\ done' = [done EXCEPT ![a] = TRUE] /\ reset' = [reset EXCEPT ![a] = TRUE]
            /\ owed' = [owed EXCEPT ![a] = @ + 1] /\ ctrlC' = [ctrlC EXCEPT ![a] = FALSE] /\ Runs
        BY <1>8, <2>2 DEF SigInt
      <3>2. done' \in [Apps -> BOOLEAN] /\ reset' \in [Apps -> BOOLEAN] /\ ctrlC' \in [Apps -> BOOLEAN]
        BY <3>1
      <3>3. owed' \in [Apps -> Int]
        BY <3>1
      <3>4. TypeOK'
        BY <3>1, <3>2, <3>3
      <3>5. QED  BY <3>1, <3>4
    <2>3. QED  BY <2>1, <2>2
  <1>9. QED  BY <1>1, <1>2, <1>3, <1>4, <1>5, <1>6, <1>7, <1>8 DEF Program, Signal

(* A registration is taken back before its process is gone. *)
LEMMA AppRegistered ==
  ASSUME IInv, NEW a \in Apps, Program(a) \/ Signal(a) \/ TypeCtrlC(a)
  PROVE  TaskLives' /\ SafeOnOneCpu' /\ HandlerFindsTask'
  <1> USE DEF IInv, TypeOK, kernel, Goto
  <1>1. TaskLives'
    <2> USE TaskAssumption, AppTypes DEF TaskLives
    <2>1. CASE Ioctl(a)
      BY <2>1 DEF Ioctl
    <2>2. CASE OuterLoop(a) \/ ResetCheck(a)
      BY <2>2 DEF OuterLoop, ResetCheck
    <2>3. CASE InnerLoop(a)
      BY <2>3 DEF InnerLoop
    <2>4. CASE Close(a)
      BY <2>4 DEF Close, Release
    <2>5. CASE Exit(a)
      BY <2>5 DEF Exit
    <2>6. CASE SigEvent(a) \/ TypeCtrlC(a)
      BY <2>6 DEF SigEvent, TypeCtrlC
    <2>7. CASE SigInt(a)
      BY <2>7 DEF SigInt, InProgram
    <2>8. QED  BY <2>1, <2>2, <2>3, <2>4, <2>5, <2>6, <2>7 DEF Program, Signal
  <1>2. QED  BY <1>1, AppTypes DEF Runs, SafeOnOneCpu, HandlerFindsTask

(* An application takes a signal off for every pass of its inner loop. *)
LEMMA AppOwed ==
  ASSUME IInv, NEW a \in Apps, Program(a) \/ Signal(a) \/ TypeCtrlC(a)
  PROVE  FlagsAgree' /\ OwedEnough'
  <1>1. /\ pc \in [Apps -> Labels] /\ owed \in [Apps -> Int]
        /\ done \in [Apps -> BOOLEAN] /\ check \in [Apps -> BOOLEAN] /\ reset \in [Apps -> BOOLEAN]
        /\ (done[a] <=> reset[a]) /\ owed[a] >= Due(a)
    BY DEF IInv, TypeOK, FlagsAgree, OwedEnough, Labels
  <1>2. (done'[a] <=> reset'[a]) /\ owed'[a] >= Due(a)'
    <2> USE <1>1 DEF kernel, Goto, Due, Labels
    <2>1. CASE Ioctl(a)
      BY <2>1 DEF Ioctl
    <2>2. CASE OuterLoop(a)
      BY <2>2 DEF OuterLoop
    <2>3. CASE InnerLoop(a)
      BY <2>3 DEF InnerLoop
    <2>4. CASE ResetCheck(a)
      BY <2>4 DEF ResetCheck
    <2>5. CASE Close(a)
      BY <2>5 DEF Close
    <2>6. CASE Exit(a)
      BY <2>6 DEF Exit
    <2>7. CASE SigEvent(a) \/ TypeCtrlC(a)
      BY <2>7 DEF SigEvent, TypeCtrlC
    <2>8. CASE SigInt(a)
      BY <2>8 DEF SigInt
    <2>9. QED  BY <2>1, <2>2, <2>3, <2>4, <2>5, <2>6, <2>7, <2>8 DEF Program, Signal
  <1>3. ASSUME NEW b \in Apps \ {a}
        PROVE  (done'[b] <=> reset'[b]) /\ owed'[b] >= Due(b)'
    BY AppTypes DEF IInv, FlagsAgree, OwedEnough, Due
  <1>4. QED  BY <1>2, <1>3 DEF FlagsAgree, OwedEnough

(* The inductive invariant holds in every state. *)
LEMMA Invariance == Spec => []IInv
  <1>1. IInv /\ [Next]_vars => IInv'
    <2> SUFFICES ASSUME IInv, [Next]_vars PROVE IInv'
      OBVIOUS
    <2>1. CASE UNCHANGED vars
      BY <2>1 DEF vars, kernel, app, IInv, TypeOK, TaskLives, SafeOnOneCpu, FlagsAgree, OwedEnough,
                  Due, HandlerFindsTask, Alive
    <2>2. ASSUME NEW a \in Apps, Program(a) \/ Signal(a) \/ TypeCtrlC(a) PROVE IInv'
      BY <2>2, AppTypes, AppRegistered, AppOwed DEF IInv
    <2>3. QED  BY <2>1, <2>2, KernelInv DEF Next
  <1>2. QED  BY <1>1, InvInit, PTL DEF Spec

-----------------------------------------------------------------------------
(* The driver's one task pointer: whoever registers, is interrupted, is signalled
   or ends in whatever order, it names nobody or a process that has not closed the
   file; on one processor the handler never signals a process that is gone; and no
   application passes its wait without a signal. *)
THEOREM SignalAlwaysSafe == Spec => []SignalSafe
  <1>1. IInv => SignalSafe
    <2> SUFFICES ASSUME IInv PROVE RoundsHaveSignals
      BY DEF IInv, SignalSafe
    <2> USE DEF RoundsHaveSignals
    <2> TAKE a \in Apps
    <2>1. owed[a] \in Int /\ owed[a] >= Due(a)
      BY DEF IInv, TypeOK, OwedEnough
    <2>2. QED  BY <2>1 DEF Due
  <1>2. QED  BY <1>1, Invariance, PTL

-----------------------------------------------------------------------------
(* The device file of simpleDriver.c. *)
FileTypes ==
  /\ buffer \in Blocks \cup {Null} /\ live \subseteq Blocks
  /\ content \in [Blocks -> Bytes \cup {Junk}] /\ init \in {"created", "loaded", "oops"}
  /\ clients \in [Clients -> {"closed", "store", "open", "read", "write", "free"}]
  /\ ptr \in [Clients -> Blocks \cup {Null}]
  /\ mine \in [Clients -> Bytes \cup {Junk}]
  /\ shared \in BOOLEAN /\ failed \in BOOLEAN /\ kernelFault \in {"none", "freed", "double free"}

(* A fresh block holds anything, and so does the buffer of who has not written; a
   client has a copy of kernel_buffer between two accesses only. *)
FreshIsJunk ==
  /\ \A b \in Blocks \ live : content[b] = Junk
  /\ \A c \in Clients : clients[c] \in {"closed", "store"} => mine[c] = Junk
  /\ \A c \in Clients : clients[c] \in {"closed", "open"} => ptr[c] = Null

(* Finitely many opens leave finitely many users and blocks, one block for each as
   long as no kmalloc failed. *)
HasPtr == {"read", "write", "free"}
OneForEach ==
  /\ IsFiniteSet(live) /\ IsFiniteSet(Char!Using)
  /\ ~failed => \A c \in Clients :
       /\ clients[c] = "store" \/ clients[c] \in HasPtr => ptr[c] # Null
       /\ clients[c] = "open" \/ clients[c] \in HasPtr => buffer # Null
  /\ kernelFault = "none" /\ ~failed => Cardinality(live) = Cardinality(Char!Using)

(* A client that is alone owns the one block there is, and nobody came before
   hwm_init was through. *)
Owns(c) ==
  /\ Char!Using = {c} /\ init # "created"
  /\ IF clients[c] = "store" THEN live = {ptr[c]} \ {Null} /\ \A b \in live : content[b] = Junk
     ELSE /\ live = {buffer} /\ buffer # Null /\ content[buffer] = mine[c]
          /\ clients[c] \in HasPtr => ptr[c] = buffer
AloneOwns ==
  ~shared =>
    /\ kernelFault = "none"
    /\ init = "created" => buffer = Null
    /\ \/ Char!Using = {} /\ live = {}
       \/ \E c \in Clients : Owns(c)

FileInv == FileTypes /\ FreshIsJunk /\ OneForEach /\ AloneOwns

(* The instance counts the elements of a set as its users do. *)
LEMMA SameCount == \A S : Char!Cardinality(S) = Cardinality(S)
  BY DEF Char!Cardinality, Cardinality

LEMMA FileInit ==
  ASSUME Char!Init
  PROVE  FileInv
  <1> USE DEF Char!Init
  <1>1. Char!Using = {} /\ live = {}
    BY DEF Char!Using
  <1>2. FileTypes
    BY DEF FileTypes
  <1>3. FreshIsJunk /\ AloneOwns
    BY <1>1 DEF FreshIsJunk, AloneOwns
  <1>4. OneForEach
    BY <1>1, FS_EmptySet DEF OneForEach, HasPtr
  <1> QED  BY <1>2, <1>3, <1>4 DEF FileInv

(* Who moves. *)
LEMMA ClientMoves ==
  ASSUME FileTypes, NEW c \in Clients,
         NEW from \in {"closed", "store", "open", "read", "write", "free"},
         NEW to \in {"closed", "store", "open", "read", "write", "free"}, Char!Move(c, from, to)
  PROVE  /\ kernelFault = "none" /\ clients[c] = from /\ clients'[c] = to
         /\ clients' \in [Clients -> {"closed", "store", "open", "read", "write", "free"}]
         /\ \A d \in Clients \ {c} : clients'[d] = clients[d]
         /\ Char!Using' = IF to = "closed" THEN Char!Using \ {c} ELSE Char!Using \cup {c}
         /\ c \in Char!Using <=> from # "closed"
  BY DEF FileTypes, Char!Move, Char!Using

(* A client that is alone is the only one that moves. *)
LEMMA OwnerMoves ==
  ASSUME AloneOwns, ~shared, NEW c \in Char!Using
  PROVE  Owns(c) /\ Char!Using = {c}
  BY DEF AloneOwns, Owns

LEMMA OpenAllocInv ==
  ASSUME FileInv, NEW c \in Clients, Char!OpenAlloc(c)
  PROVE  FileInv'
  <1> USE DEF FileInv
  <1>1. /\ kernelFault = "none" /\ clients[c] = "closed" /\ clients'[c] = "store"
        /\ clients' \in [Clients -> {"closed", "store", "open", "read", "write", "free"}]
        /\ \A d \in Clients \ {c} : clients'[d] = clients[d]
        /\ Char!Using' = Char!Using \cup {c} /\ c \notin Char!Using
    BY ClientMoves DEF Char!OpenAlloc
  <1>2. /\ shared' = (shared \/ Char!Using # {} \/ init = "created")
        /\ UNCHANGED <<buffer, content, init, mine, kernelFault>>
    BY DEF Char!OpenAlloc
  <1>3. \/ \E b \in Blocks \ live :
             ptr' = [ptr EXCEPT ![c] = b] /\ live' = live \cup {b} /\ UNCHANGED failed
        \/ failed' = TRUE /\ UNCHANGED <<ptr, live>>
    BY DEF Char!OpenAlloc
  <1>4. IsFiniteSet(live') /\ IsFiniteSet(Char!Using')
    BY <1>1, <1>3, FS_AddElement DEF OneForEach
  <1>5. FileTypes' /\ FreshIsJunk'
    BY <1>1, <1>2, <1>3 DEF FileTypes, FreshIsJunk
  <1>6. CASE \E b \in Blocks \ live :
               ptr' = [ptr EXCEPT ![c] = b] /\ live' = live \cup {b} /\ UNCHANGED failed
    <2> PICK b \in Blocks \ live :
               ptr' = [ptr EXCEPT ![c] = b] /\ live' = live \cup {b} /\ UNCHANGED failed
      BY <1>6
    <2>1. ptr'[c] = b /\ b # Null /\ \A d \in Clients \ {c} : ptr'[d] = ptr[d]
      BY FilesAssumption DEF FileTypes
    <2>2. /\ Cardinality(live') = Cardinality(live) + 1
          /\ Cardinality(Char!Using') = Cardinality(Char!Using) + 1
      BY <1>1, FS_AddElement DEF OneForEach
    <2>3. OneForEach'
      BY <1>1, <1>2, <1>4, <2>1, <2>2 DEF OneForEach, HasPtr
    <2>4. ASSUME ~shared' PROVE Owns(c)'
      <3>1. Char!Using = {} /\ live = {} /\ init # "created"
        BY <1>2, <2>4 DEF AloneOwns, Owns, FileTypes
      <3>2. live' = {ptr'[c]} \ {Null} /\ content'[b] = Junk
        BY <1>2, <2>1, <3>1 DEF FreshIsJunk
      <3> QED  BY <1>1, <1>2, <2>1, <3>1, <3>2 DEF Owns
    <2>5. AloneOwns'
      BY <1>1, <1>2, <2>4 DEF AloneOwns, FileTypes
    <2> QED  BY <1>5, <2>3, <2>5
  <1>7. CASE failed' = TRUE /\ UNCHANGED <<ptr, live>>
    <2>1. OneForEach'
      BY <1>4, <1>7 DEF OneForEach
    <2>2. ASSUME ~shared' PROVE Owns(c)'
      <3>1. Char!Using = {} /\ live = {} /\ init # "created"
        BY <1>2, <2>2 DEF AloneOwns, Owns, FileTypes
      <3>2. ptr[c] = Null
        BY <1>1 DEF FreshIsJunk
      <3> QED  BY <1>1, <1>2, <1>7, <3>1, <3>2 DEF Owns
    <2>3. AloneOwns'
      BY <1>1, <1>2, <2>2 DEF AloneOwns, FileTypes
    <2> QED  BY <1>5, <2>1, <2>3
  <1> QED  BY <1>3, <1>6, <1>7

LEMMA OpenStoreInv ==
  ASSUME FileInv, NEW c \in Clients, Char!OpenStore(c)
  PROVE  FileInv'
  <1> USE DEF FileInv
  <1>1. /\ kernelFault = "none" /\ clients[c] = "store"
        /\ clients'[c] = IF ptr[c] = Null THEN "closed" ELSE "open"
        /\ clients' \in [Clients -> {"closed", "store", "open", "read", "write", "free"}]
        /\ \A d \in Clients \ {c} : clients'[d] = clients[d]
        /\ Char!Using' = IF ptr[c] = Null THEN Char!Using \ {c} ELSE Char!Using
        /\ c \in Char!Using
    <2>1. CASE ptr[c] = Null
      BY <2>1, ClientMoves DEF Char!OpenStore
    <2>2. CASE ptr[c] # Null
      BY <2>2, ClientMoves DEF Char!OpenStore
    <2> QED  BY <2>1, <2>2
  <1>2. /\ buffer' = ptr[c] /\ ptr' = [ptr EXCEPT ![c] = Null]
        /\ UNCHANGED <<live, content, init, mine, shared, failed, kernelFault>>
    BY DEF Char!OpenStore, Char!Drop
  <1>3. IsFiniteSet(live') /\ IsFiniteSet(Char!Using')
    BY <1>1, <1>2, FS_RemoveElement DEF OneForEach
  <1>4. FileTypes' /\ FreshIsJunk'
    BY <1>1, <1>2 DEF FileTypes, FreshIsJunk
  <1>5. OneForEach'
    BY <1>1, <1>2, <1>3 DEF OneForEach, HasPtr, FileTypes
  <1>6. AloneOwns'
    <2> SUFFICES ASSUME ~shared PROVE AloneOwns'
      BY <1>2 DEF AloneOwns
    <2>1. Owns(c) /\ Char!Using = {c}
      BY <1>1, OwnerMoves
    <2>2. live = {ptr[c]} \ {Null} /\ init # "created"
      BY <1>1, <2>1 DEF Owns
    <2>3. CASE ptr[c] = Null
      BY <1>1, <1>2, <2>1, <2>2, <2>3 DEF AloneOwns
    <2>4. CASE ptr[c] # Null
      <3>1. mine[c] = Junk /\ ptr[c] \in Blocks
        BY <1>1, <2>4 DEF FreshIsJunk, FileTypes
      <3>2. content[ptr[c]] = Junk
        BY <2>1, <2>2, <2>4, <1>1 DEF Owns
      <3> QED  BY <1>1, <1>2, <2>1, <2>2, <2>4, <3>1, <3>2 DEF AloneOwns, Owns, HasPtr
    <2> QED  BY <2>3, <2>4
  <1> QED  BY <1>4, <1>5, <1>6

(* Loading, reading and writing leave the blocks where they are. *)
LEMMA LoadPtrInv ==
  ASSUME FileInv, NEW c \in Clients, NEW label \in {"read", "write", "free"}, Char!Load(c, label)
  PROVE  FileInv'
  <1> USE DEF FileInv
  <1>1. /\ kernelFault = "none" /\ clients[c] = "open" /\ clients'[c] = label
        /\ clients' \in [Clients -> {"closed", "store", "open", "read", "write", "free"}]
        /\ \A d \in Clients \ {c} : clients'[d] = clients[d]
        /\ Char!Using' = Char!Using /\ c \in Char!Using
    BY ClientMoves DEF Char!Load
  <1>2. /\ ptr' = [ptr EXCEPT ![c] = buffer]
        /\ UNCHANGED <<buffer, live, content, init, mine, shared, failed, kernelFault>>
    BY DEF Char!Load
  <1>3. FileTypes' /\ FreshIsJunk'
    BY <1>1, <1>2 DEF FileTypes, FreshIsJunk
  <1>4. OneForEach'
    BY <1>1, <1>2 DEF OneForEach, HasPtr, FileTypes
  <1>5. AloneOwns'
    <2> SUFFICES ASSUME ~shared PROVE AloneOwns'
      BY <1>2 DEF AloneOwns
    <2>1. Owns(c) /\ Char!Using = {c}
      BY <1>1, OwnerMoves
    <2>2. Owns(c)'
      BY <1>1, <1>2, <2>1 DEF Owns, FileTypes
    <2> QED  BY <1>1, <1>2, <2>1, <2>2 DEF AloneOwns, Owns
  <1> QED  BY <1>3, <1>4, <1>5

LEMMA ReadWriteInv ==
  ASSUME FileInv, NEW c \in Clients, Char!Read(c) \/ Char!Write(c)
  PROVE  FileInv'
  <1> USE DEF FileInv
  <1>1. /\ kernelFault = "none" /\ clients[c] \in {"read", "write"} /\ clients'[c] = "open"
        /\ clients' \in [Clients -> {"closed", "store", "open", "read", "write", "free"}]
        /\ \A d \in Clients \ {c} : clients'[d] = clients[d]
        /\ Char!Using' = Char!Using /\ c \in Char!Using
    <2>1. CASE Char!Read(c)
      BY <2>1, ClientMoves DEF Char!Read
    <2>2. CASE Char!Write(c)
      <3>1. Char!Move(c, "write", "open")
        BY <2>2 DEF Char!Write
      <3> QED  BY <3>1, ClientMoves
    <2> QED  BY <2>1, <2>2
  <1>2. /\ ptr' = [ptr EXCEPT ![c] = Null]
        /\ kernelFault' = IF ptr[c] \in live \cup {Null} THEN "none" ELSE "freed"
        /\ UNCHANGED <<buffer, live, init, shared, failed>>
    BY <1>1 DEF Char!Read, Char!Write, Char!Drop
  <1>3. \/ UNCHANGED <<content, mine>>
        \/ \E d \in Bytes :
             /\ content' = (IF ptr[c] \in live THEN [content EXCEPT ![ptr[c]] = d] ELSE content)
             /\ mine' = [mine EXCEPT ![c] = d]
    BY DEF Char!Read, Char!Write
  <1>4. FileTypes'
    <2>1. CASE UNCHANGED <<content, mine>>
      BY <1>1, <1>2, <2>1 DEF FileTypes
    <2>2. ASSUME NEW d \in Bytes, mine' = [mine EXCEPT ![c] = d],
                 content' = (IF ptr[c] \in live THEN [content EXCEPT ![ptr[c]] = d] ELSE content)
          PROVE  FileTypes'
      BY <1>1, <1>2, <2>2 DEF FileTypes
    <2> QED  BY <1>3, <2>1, <2>2
  <1>5. FreshIsJunk'
    BY <1>1, <1>2, <1>3 DEF FileTypes, FreshIsJunk
  <1>6. OneForEach'
    BY <1>1, <1>2 DEF OneForEach, HasPtr, FileTypes
  <1>7. AloneOwns'
    <2> SUFFICES ASSUME ~shared PROVE AloneOwns'
      BY <1>2 DEF AloneOwns
    <2>1. Owns(c) /\ Char!Using = {c}
      BY <1>1, OwnerMoves
    <2>2. live = {buffer} /\ ptr[c] = buffer /\ buffer \in Blocks /\ content[buffer] = mine[c]
      BY <1>1, <2>1 DEF Owns, HasPtr, FileTypes
    <2>3. content'[buffer] = mine'[c]
      BY <1>3, <2>2 DEF FileTypes
    <2>4. Owns(c)'
      BY <1>1, <1>2, <2>1, <2>2, <2>3 DEF Owns, HasPtr
    <2> QED  BY <1>1, <1>2, <2>1, <2>2, <2>4 DEF AloneOwns, Owns
  <1> QED  BY <1>4, <1>5, <1>6, <1>7

LEMMA FreeInv ==
  ASSUME FileInv, NEW c \in Clients, Char!Free(c)
  PROVE  FileInv'
  <1> USE DEF FileInv
  <1>1. /\ kernelFault = "none" /\ clients[c] = "free" /\ clients'[c] = "closed"
        /\ clients' \in [Clients -> {"closed", "store", "open", "read", "write", "free"}]
        /\ \A d \in Clients \ {c} : clients'[d] = clients[d]
        /\ Char!Using' = Char!Using \ {c} /\ c \in Char!Using
    BY ClientMoves DEF Char!Free
  <1>2. /\ ptr' = [ptr EXCEPT ![c] = Null] /\ mine' = [mine EXCEPT ![c] = Junk]
        /\ kernelFault' = IF ptr[c] \in live \cup {Null} THEN "none" ELSE "double free"
        /\ live' = live \ {ptr[c]}
        /\ content' = [x \in Blocks |-> IF x = ptr[c] THEN Junk ELSE content[x]]
        /\ UNCHANGED <<buffer, init, shared, failed>>
    BY <1>1 DEF Char!Free, Char!Drop, Char!Cleared
  <1>3. FileTypes' /\ FreshIsJunk'
    BY <1>1, <1>2 DEF FileTypes, FreshIsJunk
  <1>4. IsFiniteSet(live') /\ IsFiniteSet(Char!Using')
    BY <1>1, <1>2, FS_RemoveElement DEF OneForEach
  <1>5. OneForEach'
    <2>1. CASE kernelFault' = "none" /\ ~failed
      <3>1. ptr[c] \in live
        BY <1>1, <1>2, <2>1 DEF OneForEach, HasPtr
      <3>2. /\ Cardinality(live') = Cardinality(live) - 1
            /\ Cardinality(Char!Using') = Cardinality(Char!Using) - 1
        BY <1>1, <1>2, <3>1, FS_RemoveElement DEF OneForEach
      <3> QED  BY <1>1, <1>2, <1>4, <2>1, <3>2 DEF OneForEach, HasPtr, FileTypes
    <2>2. CASE ~(kernelFault' = "none" /\ ~failed)
      BY <1>1, <1>2, <1>4, <2>2 DEF OneForEach, HasPtr, FileTypes
    <2> QED  BY <2>1, <2>2
  <1>6. AloneOwns'
    <2> SUFFICES ASSUME ~shared PROVE AloneOwns'
      BY <1>2 DEF AloneOwns
    <2>1. Owns(c) /\ Char!Using = {c}
      BY <1>1, OwnerMoves
    <2>2. live = {buffer} /\ ptr[c] = buffer /\ init # "created"
      BY <1>1, <2>1 DEF Owns, HasPtr
    <2> QED  BY <1>1, <1>2, <2>1, <2>2 DEF AloneOwns
  <1> QED  BY <1>3, <1>5, <1>6

(* The greeting of hwm_init: into the buffer of another, or nowhere. *)
LEMMA GreetInv ==
  ASSUME FileInv, Char!Greet
  PROVE  FileInv'
  <1> USE DEF FileInv
  <1>1. /\ kernelFault = "none" /\ init = "created" /\ init' \in {"oops", "loaded"}
        /\ kernelFault' = IF buffer \in live \cup {Null} THEN "none" ELSE "freed"
        /\ content' = (IF buffer \in live THEN [content EXCEPT ![buffer] = Junk] ELSE content)
        /\ UNCHANGED <<buffer, live, clients, ptr, mine, shared, failed>>
    BY DEF Char!Greet
  <1>2. Char!Using' = Char!Using
    BY <1>1 DEF Char!Using
  <1>3. FileTypes' /\ FreshIsJunk'
    BY <1>1 DEF FileTypes, FreshIsJunk
  <1>4. OneForEach'
    BY <1>1, <1>2 DEF OneForEach
  <1>5. AloneOwns'
    BY <1>1, <1>2 DEF AloneOwns, Owns
  <1> QED  BY <1>3, <1>4, <1>5

LEMMA FileStutter ==
  ASSUME FileInv, UNCHANGED Char!file
  PROVE  FileInv'
  <1> USE DEF Char!file
  <1>1. Char!Using' = Char!Using
    BY DEF Char!Using
  <1> QED  BY <1>1 DEF FileInv, FileTypes, FreshIsJunk, OneForEach, AloneOwns, Owns

LEMMA FileStep ==
  ASSUME FileInv, Char!DeviceFile \/ UNCHANGED Char!file
  PROVE  FileInv'
  BY GreetInv, OpenAllocInv, OpenStoreInv, LoadPtrInv, ReadWriteInv, FreeInv, FileStutter
     DEF Char!DeviceFile, Char!Client

(* What the invariant was for. *)
LEMMA FileSafe ==
  ASSUME FileInv
  PROVE  Char!AloneIsSafe /\ Char!OneBlockEach /\ Char!ReadsOwn
  <1> USE DEF FileInv
  <1>1. Char!AloneIsSafe
    <2> DEFINE Holding == {c \in Char!Using : clients[c] # "store" \/ ptr[c] # Null}
    <2> SUFFICES ASSUME ~shared PROVE kernelFault = "none" /\ Cardinality(live) = Cardinality(Holding)
      BY SameCount DEF Char!AloneIsSafe
    <2>1. CASE Char!Using = {} /\ live = {}
      <3>1. Holding = {}
        BY <2>1
      <3> QED  BY <2>1, <3>1 DEF AloneOwns
    <2>2. ASSUME NEW c \in Clients, Owns(c) PROVE Cardinality(live) = Cardinality(Holding)
      <3>1. CASE clients[c] = "store" /\ ptr[c] = Null
        <4>1. Holding = {} /\ live = {}
          BY <2>2, <3>1 DEF Owns
        <4> QED  BY <4>1
      <3>2. CASE clients[c] # "store" \/ ptr[c] # Null
        <4>1. Holding = {c} /\ \E b : live = {b}
          BY <2>2, <3>2 DEF Owns
        <4> QED  BY <4>1, FS_Singleton
      <3> QED  BY <3>1, <3>2
    <2> QED  BY <2>1, <2>2 DEF AloneOwns
  <1>2. Char!OneBlockEach
    BY SameCount DEF OneForEach, Char!OneBlockEach
  <1>3. Char!ReadsOwn
    <2> SUFFICES ASSUME ~shared, NEW c \in Clients, clients[c] = "read"
                 PROVE  content[ptr[c]] = mine[c]
      BY DEF Char!ReadsOwn
    <2>1. c \in Char!Using
      BY DEF Char!Using
    <2> QED  BY <2>1, OwnerMoves DEF Owns, HasPtr
  <1> QED  BY <1>1, <1>2, <1>3

-----------------------------------------------------------------------------
(* The readers of the proc file. *)
ProcTypes ==
  /\ len \in {0, 1} /\ cat \in [Cats -> {"read", "data", "end", "done"}] /\ found \in [Cats -> Nat]
Done == {c \in Cats : cat[c] = "done"}

(* A reader finds the data again only after another one came to the end, and the
   first one to find them has not yet when nobody has. *)
Budget(c) ==
  LET others == Cardinality(Done \ {c})
  IN /\ found[c] <= 1 + others
     /\ cat[c] = "data" => found[c] <= others
     /\ cat[c] = "read" /\ len = 1 => found[c] <= others
ProcInv ==
  /\ ProcTypes /\ IsFiniteSet(Done)
  /\ \A c \in Cats : Budget(c)
  /\ Done = Cats => len = 1
  /\ (\A c \in Cats : found[c] = 0) => len = 1 /\ \A c \in Cats : cat[c] \in {"read", "data"}

LEMMA ProcInit ==
  ASSUME Char!Init
  PROVE  ProcInv
  <1>1. Done = {} /\ \A c \in Cats : Done \ {c} = {}
    BY DEF Char!Init, Done
  <1>2. Cardinality({}) = 0 /\ IsFiniteSet({})
    BY FS_EmptySet
  <1>3. ProcTypes
    BY DEF Char!Init, ProcTypes
  <1>4. \A c \in Cats : Budget(c)
    BY <1>1, <1>2 DEF Char!Init, Budget
  <1> QED  BY <1>1, <1>2, <1>3, <1>4, FilesAssumption DEF Char!Init, ProcInv

(* The others that are done. *)
LEMMA Others ==
  ASSUME IsFiniteSet(Done)
  PROVE  \A c \in Cats : IsFiniteSet(Done \ {c}) /\ Cardinality(Done \ {c}) \in Nat
  BY FS_RemoveElement, FS_CardinalityType

LEMMA ProcStep ==
  ASSUME ProcInv, NEW k \in Cats, Char!Cat(k)
  PROVE  ProcInv'
  <1> USE DEF ProcInv, ProcTypes
  <1>1. CASE Char!TestLen(k)
    <2> USE <1>1 DEF Char!TestLen
    <2>1. Done' = Done
      BY DEF Done
    <2>2. \A c \in Cats : Budget(c)'
      BY <2>1, Others DEF Budget
    <2> QED  BY <2>1, <2>2 DEF Done
  <1>2. CASE Char!GetData(k)
    <2> USE <1>2 DEF Char!GetData, Char!file
    <2>1. Done' = Done
      BY DEF Done
    <2>2. \A c \in Cats : Budget(c)'
      BY <2>1, Others DEF Budget
    <2> QED  BY <2>1, <2>2 DEF Done
  <1>3. CASE Char!GetEnd(k)
    <2> USE <1>3 DEF Char!GetEnd
    <2>1. Done' = Done \cup {k} /\ k \notin Done
      BY DEF Done
    <2>2. IsFiniteSet(Done')
      BY <2>1, FS_AddElement
    <2>3. ASSUME NEW c \in Cats \ {k}
          PROVE  Cardinality((Done \ {c}) \cup {k}) = Cardinality(Done \ {c}) + 1
      BY <2>1, Others, FS_AddElement
    <2>4. \A c \in Cats \ {k} : Done' \ {c} = (Done \ {c}) \cup {k}
      BY <2>1
    <2>5. Done' \ {k} = Done \ {k}
      BY <2>1
    <2>6. ASSUME NEW c \in Cats PROVE Budget(c)'
      <3>1. CASE c = k
        BY <2>5, <3>1 DEF Budget
      <3>2. CASE c # k
        <4>1. Cardinality(Done' \ {c}) = Cardinality(Done \ {c}) + 1
          BY <2>3, <2>4, <3>2
        <4>2. Cardinality(Done \ {c}) \in Nat /\ found'[c] = found[c] /\ cat'[c] = cat[c]
          BY <3>2, Others
        <4> QED  BY <4>1, <4>2 DEF Budget
      <3> QED  BY <3>1, <3>2
    <2>7. ~\A c \in Cats : found[c] = 0
      OBVIOUS
    <2> QED  BY <2>2, <2>6, <2>7
  <1> QED  BY <1>1, <1>2, <1>3 DEF Char!Cat

LEMMA ProcStutter ==
  ASSUME ProcInv, UNCHANGED Char!proc
  PROVE  ProcInv'
  <1>1. Done' = Done
    BY DEF Char!proc, Done
  <1> QED  BY <1>1 DEF Char!proc, ProcInv, ProcTypes, Budget

LEMMA ProcSafe ==
  ASSUME ProcInv
  PROVE  Char!CatsShare
  BY SameCount, FilesAssumption DEF ProcInv, ProcTypes, Budget, Done, Char!CatsShare

-----------------------------------------------------------------------------
(* The lock drivers. *)
At(t) == thread[t].pc
Inside(t) == At(t) \in {"load", "store", "unlock"} /\ ~Locks!Optimistic(t)

(* Each driver has its own kind of threads. *)
ThreadKinds ==
  /\ \A t \in Locks!Threads :
       /\ Inside(t) => drv \in {"mutex", "spinlock", "rdwrlock", "seqlock"}
       /\ At(t) = "flip" => drv = "atomic_ops"
       /\ At(t) = "retry" => Locks!Optimistic(t)
       /\ Locks!Optimistic(t) => At(t) \in {"sleep", "load", "retry"}
  /\ loader = "seqlock_init" => drv = "seqlock"
  /\ loader \in {"thread1", "thread2", "seqlock_init"} => late = {}

(* Who increments does so alone, under the lock it took; the threads of seqlock.c may
   have lost theirs to the initialisation, but only one of them writes. *)
LockHeld ==
  /\ drv # "seqlock" => /\ \A t \in Locks!Threads : Inside(t) => t \in holders
                        /\ \A t, u \in holders : Locks!Exclusive(t) => u = t
  /\ drv = "seqlock" => /\ "thread2" \notin holders
                        /\ "thread1" \notin late => (Inside("thread1") <=> "thread1" \in holders)
ValueKept == \A t \in Locks!Threads : At(t) = "store" => thread[t].val = var

(* The reader of seqlock.c began at an even number, and has the current value as long
   as the number is the one it began with. *)
ReaderInv ==
  drv = "seqlock" /\ late = {} =>
    /\ At("thread2") \in {"load", "retry"} =>
         thread["thread2"].seq % 2 = 0 /\ thread["thread2"].seq <= seq
    /\ At("thread2") = "retry" /\ thread["thread2"].seq = seq => thread["thread2"].val = var

LocksInv == Locks!LocksCount /\ ThreadKinds /\ LockHeld /\ ValueKept /\ ReaderInv

(* The lemmas about parity that the solver needs. *)
LEMMA Parity ==
  ASSUME NEW n \in Nat
  PROVE  /\ n % 2 \in {0, 1}
         /\ (n + 1) % 2 = 1 - (n % 2)
         /\ (n + 2) % 2 = n % 2
  OBVIOUS

(* What a step does to the record of its thread. *)
LEMMA PcMoves ==
  ASSUME Locks!TypeOK, NEW t \in Locks!Threads, NEW p \in Locks!Steps,
         thread' = [thread EXCEPT ![t].pc = p]
  PROVE  /\ thread' \in [Locks!Threads -> [pc : Locks!Steps, val : Nat, seq : Nat]]
         /\ thread'[t].pc = p /\ thread'[t].val = thread[t].val /\ thread'[t].seq = thread[t].seq
         /\ \A u \in Locks!Threads \ {t} : thread'[u] = thread[u]
  BY DEF Locks!TypeOK

LEMMA ValMoves ==
  ASSUME Locks!TypeOK, NEW t \in Locks!Threads, NEW p \in Locks!Steps,
         thread' = [thread EXCEPT ![t].pc = p, ![t].val = var]
  PROVE  /\ thread' \in [Locks!Threads -> [pc : Locks!Steps, val : Nat, seq : Nat]]
         /\ thread'[t].pc = p /\ thread'[t].val = var /\ thread'[t].seq = thread[t].seq
         /\ \A u \in Locks!Threads \ {t} : thread'[u] = thread[u]
  BY DEF Locks!TypeOK

LEMMA SeqMoves ==
  ASSUME Locks!TypeOK, NEW t \in Locks!Threads, NEW p \in Locks!Steps,
         thread' = [thread EXCEPT ![t].pc = p, ![t].seq = seq]
  PROVE  /\ thread' \in [Locks!Threads -> [pc : Locks!Steps, val : Nat, seq : Nat]]
         /\ thread'[t].pc = p /\ thread'[t].val = thread[t].val /\ thread'[t].seq = seq
         /\ \A u \in Locks!Threads \ {t} : thread'[u] = thread[u]
  BY DEF Locks!TypeOK

LEMMA LocksInit ==
  ASSUME Locks!Init
  PROVE  LocksInv
  <1> USE LocksAssumption DEF Locks!Init, Locks!Threads, Locks!Steps
  <1>1. Locks!TypeOK
    BY DEF Locks!TypeOK
  <1>2. Locks!CountExact /\ Locks!OddWhileWriting /\ Locks!BitFollows
    BY DEF Locks!CountExact, Locks!OddWhileWriting, Locks!BitFollows, Locks!Between
  <1>3. ThreadKinds /\ LockHeld /\ ValueKept /\ ReaderInv
    BY DEF ThreadKinds, LockHeld, ValueKept, ReaderInv, At, Inside, Locks!Optimistic, Locks!Exclusive
  <1> QED  BY <1>1, <1>2, <1>3 DEF LocksInv, Locks!LocksCount

(* hwm_init. *)
LEMMA LoaderInv ==
  ASSUME LocksInv, Locks!Loader
  PROVE  LocksInv'
  <1> USE DEF LocksInv, Locks!LocksCount, Locks!Threads, Locks!threadVars
  <1>1. CASE Locks!CreateThread \/ Locks!Discard
    <2>1. /\ UNCHANGED <<drv, late, thread, holders, seq, var, bit, rounds, added>>
          /\ loader' \in {"thread2", "return", "freed"} \/ (loader' = "seqlock_init" /\ drv = "seqlock")
          /\ alive' \subseteq Locks!Threads
      BY <1>1 DEF Locks!CreateThread, Locks!Discard, Locks!After, Locks!TypeOK
    <2>2. Locks!TypeOK'
      BY <2>1 DEF Locks!TypeOK
    <2>3. Locks!CountExact' /\ Locks!OddWhileWriting' /\ Locks!BitFollows'
      BY <2>1 DEF Locks!CountExact, Locks!OddWhileWriting, Locks!BitFollows, Locks!Between
    <2>4. ThreadKinds'
      <3>1. loader \in {"thread1", "thread2", "seqlock_init"} \/ loader' = "freed"
        BY <1>1 DEF Locks!CreateThread, Locks!Discard
      <3> QED  BY <2>1, <3>1 DEF ThreadKinds, At, Inside, Locks!Optimistic
    <2>5. LockHeld' /\ ValueKept' /\ ReaderInv'
      BY <2>1 DEF LockHeld, ValueKept, ReaderInv, At, Inside, Locks!Optimistic, Locks!Exclusive
    <2> QED  BY <2>2, <2>3, <2>4, <2>5
  <1>2. CASE Locks!SeqlockInit
    <2> USE <1>2 DEF Locks!SeqlockInit
    <2>1. drv = "seqlock" /\ late = {} /\ seq' = 0
      BY DEF ThreadKinds
    <2>2. Locks!TypeOK'
      BY DEF Locks!TypeOK
    <2>3. Locks!CountExact' /\ Locks!OddWhileWriting' /\ Locks!BitFollows'
      BY <2>1 DEF Locks!CountExact, Locks!OddWhileWriting, Locks!BitFollows
    <2>4. ThreadKinds' /\ ValueKept'
      BY DEF ThreadKinds, ValueKept, At, Inside, Locks!Optimistic
    <2>5. LockHeld'
      BY <2>1 DEF LockHeld, At, Inside, Locks!Optimistic
    <2>6. ReaderInv'
      BY <2>1 DEF ReaderInv, At
    <2> QED  BY <2>2, <2>3, <2>4, <2>5, <2>6
  <1> QED  BY <1>1, <1>2 DEF Locks!Loader

(* A thread takes a lock. *)
LEMMA LockInv ==
  ASSUME LocksInv, NEW t \in Locks!Threads, Locks!LockWrite(t) \/ Locks!LockRead(t)
  PROVE  LocksInv'
  <1> USE DEF LocksInv, Locks!LocksCount, Locks!dataVars
  <1>1. /\ thread' = [thread EXCEPT ![t].pc = "load"] /\ At(t) = "sleep"
        /\ Locks!Exclusive(t) \/ Locks!Shared(t)
        /\ UNCHANGED <<drv, loader, alive, late, var, bit, added>>
        /\ rounds' \in [Locks!Threads -> 0..MaxRounds]
    BY LocksAssumption DEF Locks!LockWrite, Locks!LockRead, Locks!Begin, Locks!At, Locks!To, At,
                           Locks!TypeOK
  <1>2. /\ thread' \in [Locks!Threads -> [pc : Locks!Steps, val : Nat, seq : Nat]]
        /\ At(t)' = "load" /\ \A u \in Locks!Threads \ {t} : thread'[u] = thread[u]
    BY <1>1, PcMoves DEF At, Locks!Steps
  <1>3. \/ Locks!Exclusive(t) /\ holders = {} /\ holders' = {t} /\ seq' = Locks!Counts
        \/ /\ Locks!Shared(t) /\ holders' = holders \cup {t} /\ seq' = seq
           /\ \A u \in holders : ~Locks!Exclusive(u)
    BY DEF Locks!LockWrite, Locks!LockRead
  <1> USE DEF Locks!Threads, Locks!Exclusive, Locks!Shared, Locks!Optimistic
  <1>4. Locks!TypeOK'
    BY <1>1, <1>2, <1>3 DEF Locks!TypeOK, Locks!Counts
  <1>5. Locks!CountExact' /\ Locks!BitFollows'
    BY <1>1, <1>3 DEF Locks!CountExact, Locks!BitFollows
  <1>6. Locks!OddWhileWriting'
    <2> SUFFICES ASSUME drv = "seqlock", "thread1" \notin late PROVE Locks!OddWhileWriting'
      BY <1>1 DEF Locks!OddWhileWriting
    <2>1. t = "thread1" /\ holders = {} /\ holders' = {t} /\ seq' = seq + 1
      BY <1>1, <1>3 DEF Locks!Counts
    <2>2. seq % 2 = 0 /\ (seq + 1) % 2 = 1
      BY <2>1, Parity DEF Locks!OddWhileWriting, Locks!TypeOK
    <2> QED  BY <2>1, <2>2 DEF Locks!OddWhileWriting
  <1>7. ThreadKinds'
    BY <1>1, <1>2 DEF ThreadKinds, At, Inside
  <1>8. LockHeld'
    BY <1>1, <1>2, <1>3 DEF LockHeld, At, Inside
  <1>9. ValueKept'
    BY <1>1, <1>2 DEF ValueKept, At
  <1>10. ReaderInv'
    BY <1>1, <1>2, <1>3 DEF ReaderInv, At, Locks!Counts, Locks!TypeOK
  <1> QED  BY <1>4, <1>5, <1>6, <1>7, <1>8, <1>9, <1>10

(* A thread reads the variable and stores it. *)
LEMMA LoadInv ==
  ASSUME LocksInv, NEW t \in Locks!Threads, Locks!Load(t)
  PROVE  LocksInv'
  <1> USE DEF LocksInv, Locks!LocksCount, Locks!dataVars
  <1>1. /\ thread' = [thread EXCEPT ![t].pc = "store", ![t].val = var] /\ At(t) = "load"
        /\ ~Locks!Optimistic(t)
        /\ UNCHANGED <<drv, loader, alive, late, holders, seq, rounds, var, bit, added>>
    BY DEF Locks!Load, Locks!At, At
  <1>2. /\ thread' \in [Locks!Threads -> [pc : Locks!Steps, val : Nat, seq : Nat]]
        /\ At(t)' = "store" /\ thread'[t].val = var
        /\ \A u \in Locks!Threads \ {t} : thread'[u] = thread[u]
    BY <1>1, ValMoves DEF At, Locks!Steps
  <1> USE DEF Locks!Threads, Locks!Exclusive, Locks!Optimistic
  <1>3. Locks!TypeOK'
    BY <1>1, <1>2 DEF Locks!TypeOK
  <1>4. Locks!CountExact' /\ Locks!OddWhileWriting'
    BY <1>1 DEF Locks!CountExact, Locks!OddWhileWriting
  <1>5. Locks!BitFollows'
    BY <1>1, <1>2 DEF Locks!BitFollows, ThreadKinds, Inside, At
  <1>6. ThreadKinds' /\ LockHeld'
    BY <1>1, <1>2 DEF ThreadKinds, LockHeld, At, Inside
  <1>7. ValueKept' /\ ReaderInv'
    BY <1>1, <1>2 DEF ValueKept, ReaderInv, ThreadKinds, Inside, At
  <1> QED  BY <1>3, <1>4, <1>5, <1>6, <1>7

LEMMA StoreInv ==
  ASSUME LocksInv, NEW t \in Locks!Threads, Locks!Store(t)
  PROVE  LocksInv'
  <1> USE DEF LocksInv, Locks!LocksCount
  <1>1. /\ thread' = [thread EXCEPT ![t].pc = "unlock"] /\ At(t) = "store"
        /\ var' = var + 1 /\ added' = added + 1
        /\ UNCHANGED <<drv, loader, alive, late, holders, seq, rounds, bit>>
    BY DEF Locks!Store, Locks!At, Locks!To, At, ValueKept
  <1>2. /\ thread' \in [Locks!Threads -> [pc : Locks!Steps, val : Nat, seq : Nat]]
        /\ At(t)' = "unlock" /\ \A u \in Locks!Threads \ {t} : thread'[u] = thread[u]
    BY <1>1, PcMoves DEF At, Locks!Steps
  <1> USE DEF Locks!Threads, Locks!Exclusive, Locks!Optimistic
  <1>3. Inside(t)
    BY <1>1 DEF Inside, At, ThreadKinds
  <1>4. Locks!TypeOK'
    BY <1>1, <1>2 DEF Locks!TypeOK
  <1>5. Locks!CountExact' /\ Locks!OddWhileWriting'
    BY <1>1 DEF Locks!CountExact, Locks!OddWhileWriting
  <1>6. Locks!BitFollows'
    BY <1>1, <1>3 DEF Locks!BitFollows, ThreadKinds
  <1>7. ThreadKinds' /\ LockHeld'
    BY <1>1, <1>2 DEF ThreadKinds, LockHeld, At, Inside
  <1>8. ValueKept'
    <2>1. ASSUME NEW u \in Locks!Threads \ {t} PROVE At(u) # "store"
      <3>1. CASE At(u) = "store"
        <4>1. Inside(u) /\ drv \in {"mutex", "spinlock", "rdwrlock", "seqlock"}
          BY <1>3, <3>1 DEF Inside, At, ThreadKinds
        <4>2. CASE drv = "seqlock"
          BY <1>1, <3>1, <4>2 DEF ThreadKinds, At
        <4>3. CASE drv # "seqlock"
          BY <1>3, <4>1, <4>3 DEF LockHeld
        <4> QED  BY <4>2, <4>3
      <3> QED  BY <3>1
    <2> QED  BY <1>1, <1>2, <2>1 DEF ValueKept, At
  <1>9. ReaderInv'
    <2> SUFFICES ASSUME drv = "seqlock", late = {} PROVE ReaderInv'
      BY <1>1 DEF ReaderInv
    <2>1. t = "thread1" /\ seq % 2 = 1
      BY <1>1, <1>3 DEF ThreadKinds, LockHeld, At, Locks!OddWhileWriting
    <2> QED  BY <1>1, <1>2, <2>1 DEF ReaderInv, At
  <1> QED  BY <1>4, <1>5, <1>6, <1>7, <1>8, <1>9

LEMMA UnlockInv ==
  ASSUME LocksInv, NEW t \in Locks!Threads, Locks!Unlock(t)
  PROVE  LocksInv'
  <1> USE DEF LocksInv, Locks!LocksCount, Locks!dataVars
  <1>1. /\ thread' = [thread EXCEPT ![t].pc = "sleep"] /\ At(t) = "unlock"
        /\ holders' = holders \ {t} /\ seq' = Locks!Counts
        /\ UNCHANGED <<drv, loader, alive, late, rounds, var, bit, added>>
    BY DEF Locks!Unlock, Locks!At, Locks!To, At
  <1>2. /\ thread' \in [Locks!Threads -> [pc : Locks!Steps, val : Nat, seq : Nat]]
        /\ At(t)' = "sleep" /\ \A u \in Locks!Threads \ {t} : thread'[u] = thread[u]
    BY <1>1, PcMoves DEF At, Locks!Steps
  <1> USE DEF Locks!Threads, Locks!Exclusive, Locks!Optimistic
  <1>3. Inside(t)
    BY <1>1 DEF Inside, At, ThreadKinds
  <1>4. Locks!TypeOK'
    BY <1>1, <1>2 DEF Locks!TypeOK, Locks!Counts
  <1>5. Locks!CountExact' /\ Locks!BitFollows'
    BY <1>1, <1>3 DEF Locks!CountExact, Locks!BitFollows, ThreadKinds
  <1>6. Locks!OddWhileWriting'
    <2> SUFFICES ASSUME drv = "seqlock", "thread1" \notin late PROVE Locks!OddWhileWriting'
      BY <1>1 DEF Locks!OddWhileWriting
    <2>1. t = "thread1" /\ "thread1" \in holders /\ seq % 2 = 1
      BY <1>1, <1>3 DEF ThreadKinds, LockHeld, At, Locks!OddWhileWriting
    <2>2. (seq + 1) % 2 = 0
      BY <2>1, Parity DEF Locks!TypeOK
    <2> QED  BY <1>1, <2>1, <2>2 DEF Locks!OddWhileWriting, Locks!Counts
  <1>7. ThreadKinds' /\ ValueKept'
    BY <1>1, <1>2 DEF ThreadKinds, ValueKept, At, Inside
  <1>8. LockHeld'
    BY <1>1, <1>2 DEF LockHeld, At, Inside
  <1>9. ReaderInv'
    BY <1>1, <1>2, <1>3 DEF ReaderInv, At, Locks!Counts, Locks!TypeOK, Inside
  <1> QED  BY <1>4, <1>5, <1>6, <1>7, <1>8, <1>9

(* The reader of seqlock.c. *)
LEMMA ReaderStepInv ==
  ASSUME LocksInv, NEW t \in Locks!Threads,
         Locks!ReadBegin(t) \/ Locks!ReadValue(t) \/ Locks!ReadAgain(t) \/ Locks!ReadEnd(t)
  PROVE  LocksInv'
  <1> USE DEF LocksInv, Locks!LocksCount, Locks!dataVars
  <1>1. /\ t = "thread2" /\ drv = "seqlock"
        /\ UNCHANGED <<drv, loader, alive, holders, seq, var, bit, added>>
        /\ rounds' \in [Locks!Threads -> 0..MaxRounds]
        /\ late' \subseteq late /\ late \subseteq late' \cup {"thread2"}
    <2>1. t = "thread2" /\ drv = "seqlock"
      BY DEF Locks!ReadBegin, Locks!ReadValue, Locks!ReadAgain, Locks!ReadEnd, Locks!At,
             Locks!Optimistic, ThreadKinds, At
    <2>2. rounds' \in [Locks!Threads -> 0..MaxRounds]
      BY LocksAssumption DEF Locks!ReadBegin, Locks!ReadValue, Locks!ReadAgain, Locks!ReadEnd,
                             Locks!Begin, Locks!TypeOK
    <2>3. late' \subseteq late /\ late \subseteq late' \cup {"thread2"}
      BY <2>1 DEF Locks!ReadBegin, Locks!ReadValue, Locks!ReadAgain, Locks!ReadEnd
    <2> QED  BY <2>1, <2>2, <2>3 DEF Locks!ReadBegin, Locks!ReadValue, Locks!ReadAgain, Locks!ReadEnd
  <1>2. /\ thread' \in [Locks!Threads -> [pc : Locks!Steps, val : Nat, seq : Nat]]
        /\ thread'["thread1"] = thread["thread1"]
        /\ \/ /\ At(t)' = "load" /\ thread'[t].seq = seq /\ seq % 2 = 0 /\ late' = late
           \/ /\ At(t) = "load" /\ At(t)' = "retry" /\ thread'[t].val = var
              /\ thread'[t].seq = thread[t].seq /\ late' = late
           \/ At(t)' = "sleep"
    <2> USE <1>1
    <2>1. CASE Locks!ReadBegin(t) \/ Locks!ReadAgain(t)
      BY <2>1, SeqMoves DEF Locks!ReadBegin, Locks!ReadAgain, At, Locks!Steps, Locks!Threads
    <2>2. CASE Locks!ReadValue(t)
      BY <2>2, ValMoves DEF Locks!ReadValue, Locks!At, At, Locks!Steps, Locks!Threads
    <2>3. CASE Locks!ReadEnd(t)
      BY <2>3, PcMoves DEF Locks!ReadEnd, Locks!To, At, Locks!Steps, Locks!Threads
    <2> QED  BY <2>1, <2>2, <2>3
  <1> USE DEF Locks!Threads, Locks!Exclusive, Locks!Optimistic
  <1>3. Locks!TypeOK'
    BY <1>1, <1>2 DEF Locks!TypeOK
  <1>4. Locks!CountExact' /\ Locks!OddWhileWriting' /\ Locks!BitFollows'
    BY <1>1 DEF Locks!CountExact, Locks!OddWhileWriting, Locks!BitFollows
  <1>5. ThreadKinds'
    BY <1>1, <1>2 DEF ThreadKinds, At, Inside
  <1>6. LockHeld'
    BY <1>1, <1>2 DEF LockHeld, At, Inside
  <1>7. ValueKept'
    BY <1>1, <1>2 DEF ValueKept, At
  <1>8. ReaderInv'
    BY <1>1, <1>2 DEF ReaderInv, At, Locks!TypeOK
  <1> QED  BY <1>3, <1>4, <1>5, <1>6, <1>7, <1>8

(* The threads of atomic_ops.c. *)
LEMMA AtomicStepInv ==
  ASSUME LocksInv, NEW t \in Locks!Threads, Locks!AtomicInc(t) \/ Locks!ChangeBit(t)
  PROVE  LocksInv'
  <1> USE DEF LocksInv, Locks!LocksCount
  <1>1. /\ drv = "atomic_ops"
        /\ UNCHANGED <<drv, loader, alive, late, holders, seq>>
        /\ rounds' \in [Locks!Threads -> 0..MaxRounds]
        /\ \/ /\ At(t) = "sleep" /\ thread' = [thread EXCEPT ![t].pc = "flip"]
              /\ var' = var + 1 /\ added' = added + 1 /\ bit' = bit
           \/ /\ At(t) = "flip" /\ thread' = [thread EXCEPT ![t].pc = "sleep"]
              /\ UNCHANGED <<var, added>> /\ bit' = 1 - bit
    <2>1. CASE Locks!AtomicInc(t)
      BY <2>1, LocksAssumption DEF Locks!AtomicInc, Locks!Begin, Locks!At, Locks!To, Locks!Lockless,
                                   Locks!TypeOK, At
    <2>2. CASE Locks!ChangeBit(t)
      BY <2>2 DEF Locks!ChangeBit, Locks!At, Locks!To, Locks!TypeOK, ThreadKinds, At
    <2> QED  BY <2>1, <2>2
  <1>2. /\ thread' \in [Locks!Threads -> [pc : Locks!Steps, val : Nat, seq : Nat]]
        /\ \A u \in Locks!Threads \ {t} : thread'[u] = thread[u]
        /\ At(t)' = IF At(t) = "sleep" THEN "flip" ELSE "sleep"
    <2>1. CASE At(t) = "sleep"
      BY <1>1, <2>1, PcMoves DEF At, Locks!Steps
    <2>2. CASE At(t) = "flip"
      BY <1>1, <2>2, PcMoves DEF At, Locks!Steps
    <2> QED  BY <1>1, <2>1, <2>2
  <1> USE DEF Locks!Threads, Locks!Exclusive, Locks!Optimistic
  <1>3. Locks!TypeOK'
    BY <1>1, <1>2 DEF Locks!TypeOK
  <1>4. Locks!CountExact' /\ Locks!OddWhileWriting'
    BY <1>1 DEF Locks!CountExact, Locks!OddWhileWriting
  <1>5. Locks!BitFollows'
    <2>1. Locks!Between \in Nat /\ var \in Nat /\ bit \in {0, 1}
      BY DEF Locks!Between, Locks!TypeOK
    <2>2. \/ Locks!Between' = Locks!Between + 1 /\ var' = var + 1 /\ bit' = bit
          \/ /\ Locks!Between = Locks!Between' + 1 /\ Locks!Between' \in Nat
             /\ var' = var /\ bit' = 1 - bit
      BY <1>1, <1>2 DEF Locks!Between, At
    <2>3. (var' + Locks!Between') % 2 = bit'
      <3> DEFINE n == var + Locks!Between
                 m == var' + Locks!Between'
      <3>1. n \in Nat /\ m \in Nat /\ n % 2 = bit
        BY <1>1, <2>1, <2>2 DEF Locks!BitFollows
      <3>2. (n + 2) % 2 = n % 2 /\ (m + 1) % 2 = 1 - (m % 2) /\ m % 2 \in {0, 1}
        BY <3>1, Parity
      <3>3. CASE bit' = bit /\ m = n + 2
        BY <3>1, <3>2, <3>3
      <3>4. CASE bit' = 1 - bit /\ n = m + 1
        BY <3>1, <3>2, <3>4
      <3> QED  BY <2>1, <2>2, <3>3, <3>4
    <2> QED  BY <2>3 DEF Locks!BitFollows
  <1>6. ThreadKinds' /\ LockHeld'
    BY <1>1, <1>2 DEF ThreadKinds, LockHeld, At, Inside
  <1>7. ValueKept' /\ ReaderInv'
    BY <1>1, <1>2 DEF ValueKept, ReaderInv, ThreadKinds, Inside, At
  <1> QED  BY <1>3, <1>4, <1>5, <1>6, <1>7

LEMMA LocksStutter ==
  ASSUME LocksInv, UNCHANGED lockVars
  PROVE  LocksInv'
  BY DEF lockVars, LocksInv, Locks!LocksCount, Locks!TypeOK, Locks!CountExact, Locks!OddWhileWriting,
         Locks!BitFollows, Locks!Between, ThreadKinds, LockHeld, ValueKept, ReaderInv, At, Inside,
         Locks!Optimistic, Locks!Exclusive

LEMMA LocksStep ==
  ASSUME LocksInv, Locks!Next \/ UNCHANGED lockVars
  PROVE  LocksInv'
  BY LoaderInv, LockInv, LoadInv, StoreInv, UnlockInv, ReaderStepInv, AtomicStepInv, LocksStutter
     DEF Locks!Next, Locks!ThreadStep

LEMMA ReaderIsCurrent ==
  ASSUME LocksInv, NEW t \in Locks!Threads, Locks!ReadEnd(t)
  PROVE  late \cap {t, "thread1"} # {} \/ thread[t].val = var
  <1>1. t = "thread2" /\ drv = "seqlock" /\ At(t) = "retry" /\ thread[t].seq = seq
    BY DEF Locks!ReadEnd, Locks!At, At, LocksInv, ThreadKinds, Locks!Optimistic
  <1>2. late # {} => late \cap {"thread2", "thread1"} # {}
    BY DEF LocksInv, Locks!LocksCount, Locks!TypeOK, Locks!Threads
  <1> QED  BY <1>1, <1>2 DEF LocksInv, ReaderInv

-----------------------------------------------------------------------------
LEMMA FileProcApart ==
  /\ Char!DeviceFile => UNCHANGED Char!proc
  /\ Char!ProcFile => UNCHANGED Char!file
  <1>1. Char!DeviceFile => UNCHANGED Char!proc
    BY DEF Char!DeviceFile, Char!Greet, Char!Client, Char!OpenAlloc, Char!OpenStore, Char!Load,
           Char!Read, Char!Write, Char!Free
  <1>2. Char!ProcFile => UNCHANGED Char!file
    BY DEF Char!ProcFile, Char!Cat, Char!TestLen, Char!GetData, Char!GetEnd
  <1> QED  BY <1>1, <1>2

LEMMA CharStep ==
  ASSUME FileInv, ProcInv, Char!DeviceFile \/ Char!ProcFile \/ UNCHANGED charVars
  PROVE  FileInv' /\ ProcInv'
  <1>1. CASE Char!DeviceFile
    BY <1>1, FileStep, ProcStutter, FileProcApart
  <1>2. CASE Char!ProcFile
    <2>1. FileInv'
      BY <1>2, FileStep, FileProcApart
    <2>2. ProcInv'
      BY <1>2, ProcStep DEF Char!ProcFile
    <2> QED  BY <2>1, <2>2
  <1>3. CASE UNCHANGED charVars
    <2>1. UNCHANGED Char!file /\ UNCHANGED Char!proc
      BY <1>3 DEF charVars, Char!file, Char!proc
    <2> QED  BY <2>1, FileStep, ProcStutter
  <1> QED  BY <1>1, <1>2, <1>3

(* Through any number of opens, failed allocations, reads, writes and releases, of any
   processes in any order: who is alone with the file neither loses its block nor
   frees it twice and reads what it wrote; there is one block for every open file until
   one is lost; and the readers of the proc file share its contents out as the flag
   lets them. *)
THEOREM CharAlwaysSafe == MCSpec => []CharSafe
  <1> DEFINE Inv == FileInv /\ ProcInv
             AllVars == <<part, vars, charVars, lockVars, loadVars>>
  <1>1. MCInit => Inv
    BY FileInit, ProcInit DEF MCInit
  <1>2. Inv /\ [MCNext]_AllVars => Inv'
    BY CharStep DEF MCNext
  <1>3. Inv => CharSafe
    <2> SUFFICES ASSUME Inv PROVE Char!CharSafe
      BY DEF CharSafe
    <2>1. Char!TypeOK
      BY DEF FileInv, FileTypes, ProcInv, ProcTypes, Char!TypeOK
    <2> QED  BY <2>1, FileSafe, ProcSafe DEF Char!CharSafe
  <1> QED  BY <1>1, <1>2, <1>3, PTL DEF MCSpec

LEMMA LocksInvariance == MCSpec => []LocksInv
  <1>1. MCInit => LocksInv
    BY LocksInit DEF MCInit
  <1>2. LocksInv /\ [MCNext]_<<part, vars, charVars, lockVars, loadVars>> => LocksInv'
    BY LocksStep DEF MCNext
  <1> QED  BY <1>1, <1>2, PTL DEF MCSpec

(* No lock loses an increment, the sequence number of seqlock.c tells whether the writer
   is inside and the bit of atomic_ops.c whether the count is odd, whenever hwm_init
   starts the threads, initialises the lock or returns. *)
THEOREM LocksAlwaysCount == MCSpec => []LocksCount
  <1>1. LocksInv => LocksCount
    BY DEF LocksInv, LocksCount
  <1> QED  BY <1>1, LocksInvariance, PTL

(* The reader of seqlock.c ends with the current value, whatever the writer did in the
   meantime, unless the lock was initialised while one of them used it. *)
THEOREM ReaderAlwaysCurrent == MCSpec => Locks!ReadsCurrent
  <1> DEFINE Current == \A t \in Locks!Threads :
               Locks!ReadEnd(t) => late \cap {t, "thread1"} # {} \/ thread[t].val = var
  <1>1. LocksInv => [Current]_(Locks!vars)
    BY ReaderIsCurrent
  <1>2. MCSpec => [][Current]_(Locks!vars)
    BY <1>1, LocksInvariance, PTL
  <1> QED  BY <1>2 DEF Locks!ReadsCurrent
=============================================================================
