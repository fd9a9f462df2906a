----------------------------- MODULE MCDevices -----------------------------
(***************************************************************************)
(* For TLC: the drivers.  Those whose threads and processes share data,    *)
(* signal.c with its applications, the device file of simpleDriver.c, its  *)
(* proc file and the threads of the lock drivers, and the loading and      *)
(* unloading of each driver have no state in common, so that a behaviour   *)
(* runs one of the five and leaves the others where they are.              *)
(***************************************************************************)
EXTENDS SignalDevice

CONSTANTS Clients, Cats, Blocks, Null, Bytes, Junk, Drivers, MaxRounds

ASSUME FilesAssumption == Null \notin Blocks /\ Cats # {}
ASSUME LocksAssumption == MaxRounds \in Nat

VARIABLES
  part,
  buffer, live, content, init, clients, ptr, mine, shared, failed, kernelFault, len, cat, found,
  drv, loader, alive, thread, holders, seq, var, bit, rounds, added, late,
  module, phase, ip, held, freed, deferred, misuse

charVars == <<buffer, live, content, init, clients, ptr, mine, shared, failed, kernelFault,
              len, cat, found>>
lockVars == <<drv, loader, alive, thread, holders, seq, var, bit, rounds, added, late>>
loadVars == <<module, phase, ip, held, freed, deferred, misuse>>
Char == INSTANCE CharDevice WITH Data <- Bytes, pc <- clients, fault <- kernelFault
Locks == INSTANCE DriverThreads
Loading == INSTANCE DriverModule WITH drv <- module, queued <- deferred

MCInit ==
  /\ part \in {"signal", "file", "proc", "locks", "loading"}
  /\ Init /\ Char!Init /\ Locks!Init /\ Loading!Init
  /\ hoisted => part = "signal" /\ ~smp
  /\ smp => part = "signal"
  /\ part # "locks" => drv = "mutex"
  /\ part # "loading" => module = "gpio"

MCNext ==
  \/ part = "signal" /\ Next /\ UNCHANGED <<part, charVars, lockVars, loadVars>>
  \/ part = "file" /\ Char!DeviceFile /\ UNCHANGED <<part, vars, lockVars, loadVars>>
  \/ part = "proc" /\ Char!ProcFile /\ UNCHANGED <<part, vars, lockVars, loadVars>>
  \/ part = "locks" /\ Locks!Next /\ UNCHANGED <<part, vars, charVars, loadVars>>
  \/ part = "loading" /\ Loading!Next /\ UNCHANGED <<part, vars, charVars, lockVars>>

MCFairness ==
  /\ WF_vars(part = "signal" /\ Handler)
  /\ \A a \in Apps :
       /\ WF_vars(part = "signal" /\ Program(a))
       /\ WF_vars(part = "signal" /\ SigInt(a)) /\ WF_vars(part = "signal" /\ SigEvent(a))
  /\ \A c \in Cats : WF_cat(part = "proc" /\ Char!Cat(c))
  /\ \A t \in Locks!Threads : WF_lockVars(part = "locks" /\ Locks!ThreadStep(t))

MCSpec == MCInit /\ [][MCNext]_<<part, vars, charVars, lockVars, loadVars>> /\ MCFairness

(* The device file and the proc file of simpleDriver.c: see CharDevice. *)
CharSafe == Char!CharSafe

(* The lock drivers: see DriverThreads. *)
LocksCount == Locks!LocksCount

(* Loading and unloading, for every driver: see DriverModule. *)
PhaseHolds == Loading!PhaseHolds
HoldsWhatItReleases == Loading!HoldsWhatItReleases
CodeFindsItsData == Loading!CodeFindsItsData

(* What the processes and threads come to, each as its module says: an application
   ends by ctrl-C, a reader of the proc file comes to its end, and the reader of
   seqlock.c gets a value, which is the current one. *)
Progress ==
  /\ CtrlCEnds
  /\ part = "proc" => Char!CatsEnd
  /\ Locks!ReaderEnds
  /\ Locks!ReadsCurrent
=============================================================================
