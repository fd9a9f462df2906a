---------------------------- MODULE DriverThreads ----------------------------
(***************************************************************************)
(* The lock demonstration drivers of Misc/DD: two kernel threads increment *)
(* g_hwm_var (hwm_global_var) for ever, each under the lock of its driver, *)
(* from the moment the init function starts them.                          *)
(*                                                                         *)
(* All these init functions fall through into their cleanup and return -1: *)
(* the module is discarded with its threads still running, and the next    *)
(* instruction of a thread is a crash.  seqlock.c initialises its lock     *)
(* after it has started the threads that take it.                          *)
(***************************************************************************)
EXTENDS Integers

CONSTANTS
  Drivers,   \* the drivers to consider
  MaxRounds  \* bound: rounds of a thread before the module is discarded

Threads == {"thread1", "thread2"}

VARIABLES
  drv,      \* the driver
  loader,   \* what hwm_init is about to do
  alive,    \* threads that were created
  thread,   \* of each thread: its step, what it read and the sequence number
  holders,  \* threads that hold the lock
  seq,      \* sequence number of hwm_seq_lock
  var,      \* g_hwm_var, hwm_global_var
  bit,      \* bit 1 of hwm_bit_check
  rounds,   \* rounds each thread has begun
  added,    \* ghost: increments
  late      \* ghost: threads in their section when the lock was initialised

vars == <<drv, loader, alive, thread, holders, seq, var, bit, rounds, added, late>>

(* How a thread takes the lock of its driver. *)
Exclusive(t) == drv \in {"mutex", "spinlock"} \/ (drv \in {"rdwrlock", "seqlock"} /\ t = "thread1")
(* Mutant: both threads of rdwrlock.c take the read lock. *)
Shared_Both(t) == drv = "rdwrlock"

Shared(t) == drv = "rdwrlock" /\ t = "thread2"
Optimistic(t) == drv = "seqlock" /\ t = "thread2"
Lockless(t) == drv = "atomic_ops"

Steps == {"sleep", "load", "store", "unlock", "retry", "flip"}

Init ==
  /\ drv \in Drivers
  /\ loader = "thread1" /\ alive = {}
  /\ thread = [t \in Threads |-> [pc |-> "sleep", val |-> 0, seq |-> 0]]
  /\ holders = {} /\ seq = 0
  /\ var = 0 /\ bit = 0
  /\ rounds = [t \in Threads |-> 0]
  /\ added = 0 /\ late = {}

threadVars == <<thread, holders, seq, var, bit, rounds, added>>
dataVars == <<var, bit, added>>

-----------------------------------------------------------------------------
(* hwm_init from the first kthread_run on.  kthread_run answers a failure with
   a pointer that is not NULL and passes the test. *)
After(step) ==
  CASE step = "thread1" -> "thread2"
    [] step = "thread2" -> IF drv = "seqlock" THEN "seqlock_init" ELSE "return"

CreateThread ==
  /\ loader \in Threads
  /\ alive' \in {alive, alive \cup {loader}}
  /\ loader' = After(loader)
  /\ UNCHANGED <<drv, late, threadVars>>

SeqlockInit ==
  /\ loader = "seqlock_init"
  /\ seq' = 0 /\ holders' = {}
  /\ late' = holders \cup {t \in Threads : thread[t].pc \in {"load", "retry"}}
  /\ loader' = "return"
  /\ UNCHANGED <<drv, alive, thread, var, bit, rounds, added>>

(* return -1: the module is freed. *)
Discard ==
  /\ loader = "return"
  /\ loader' = "freed"
  /\ UNCHANGED <<drv, alive, late, threadVars>>

-----------------------------------------------------------------------------
(* The threads.  What one does once the module is freed is not a behaviour of
   the program any more. *)
At(t, pc) == t \in alive /\ thread[t].pc = pc /\ loader # "freed"
To(t, pc) == thread' = [thread EXCEPT ![t].pc = pc]
Begin(t) ==
  /\ At(t, "sleep") /\ rounds[t] < MaxRounds
  /\ rounds' = [rounds EXCEPT ![t] = @ + 1]

(* write_seqlock counts after it has taken the lock. *)
Counts == IF drv = "seqlock" THEN seq + 1 ELSE seq

LockWrite(t) ==
  /\ Exclusive(t) /\ Begin(t)
  /\ holders = {}
  /\ holders' = {t} /\ seq' = Counts
  /\ To(t, "load")
  /\ UNCHANGED <<drv, loader, alive, late, dataVars>>

LockRead(t) ==
  /\ Shared(t) /\ Begin(t)
  /\ ~ \E u \in holders : Exclusive(u)
  /\ holders' = holders \cup {t}
  /\ To(t, "load")
  /\ UNCHANGED <<drv, loader, alive, late, seq, dataVars>>

(* g_hwm_var++ *)
Load(t) ==
  /\ At(t, "load") /\ ~Optimistic(t)
  /\ thread' = [thread EXCEPT ![t].pc = "store", ![t].val = var]
  /\ UNCHANGED <<drv, loader, alive, late, holders, seq, rounds, dataVars>>

Store(t) ==
  /\ At(t, "store")
  /\ var' = thread[t].val + 1 /\ added' = added + 1
  /\ To(t, "unlock")
  /\ UNCHANGED <<drv, loader, alive, late, holders, seq, rounds, bit>>

Unlock(t) ==
  /\ At(t, "unlock")
  /\ holders' = holders \ {t} /\ seq' = Counts
  /\ To(t, "sleep")
  /\ UNCHANGED <<drv, loader, alive, late, rounds, dataVars>>

(* The reader of seqlock.c: read_seqbegin waits for an even number. *)
ReadBegin(t) ==
  /\ Optimistic(t)
  /\ Begin(t)
  /\ seq % 2 = 0
  /\ thread' = [thread EXCEPT ![t].pc = "load", ![t].seq = seq]
  /\ UNCHANGED <<drv, loader, alive, late, holders, seq, dataVars>>

ReadValue(t) ==
  /\ Optimistic(t) /\ At(t, "load")
  /\ thread' = [thread EXCEPT ![t].pc = "retry", ![t].val = var]
  /\ UNCHANGED <<drv, loader, alive, late, holders, seq, rounds, dataVars>>

(* read_seqretry: the number has moved on, or the value is good. *)
ReadAgain(t) ==
  /\ At(t, "retry") /\ thread[t].seq # seq
  /\ seq % 2 = 0
  /\ thread' = [thread EXCEPT ![t].pc = "load", ![t].seq = seq]
  /\ UNCHANGED <<drv, loader, alive, late, holders, seq, rounds, dataVars>>

ReadEnd(t) ==
  /\ At(t, "retry") /\ thread[t].seq = seq
  /\ To(t, "sleep") /\ late' = late \ {t}
  /\ UNCHANGED <<drv, loader, alive, holders, seq, rounds, dataVars>>

(* The threads of atomic_ops.c: atomic_inc, then test_and_change_bit. *)
AtomicInc(t) ==
  /\ Lockless(t) /\ Begin(t)
  /\ var' = var + 1 /\ added' = added + 1
  /\ To(t, "flip")
  /\ UNCHANGED <<drv, loader, alive, late, holders, seq, bit>>

ChangeBit(t) ==
  /\ At(t, "flip")
  /\ bit' = 1 - bit
  /\ To(t, "sleep")
  /\ UNCHANGED <<drv, loader, alive, late, holders, seq, rounds, var, added>>

-----------------------------------------------------------------------------
Loader == CreateThread \/ SeqlockInit \/ Discard

ThreadStep(t) ==
  \/ LockWrite(t) \/ LockRead(t) \/ Load(t) \/ Store(t) \/ Unlock(t)
  \/ ReadBegin(t) \/ ReadValue(t) \/ ReadAgain(t) \/ ReadEnd(t)
  \/ AtomicInc(t) \/ ChangeBit(t)

Next == Loader \/ \E t \in Threads : ThreadStep(t)

(* The threads are scheduled.  Nothing is assumed of the moment when the module
   is discarded. *)
Fairness == \A t \in Threads : WF_vars(ThreadStep(t))

Spec == Init /\ [][Next]_vars /\ Fairness

-----------------------------------------------------------------------------
(* Properties. *)

(* Type invariant. *)
TypeOK ==
  /\ drv \in Drivers
  /\ loader \in Threads \cup {"seqlock_init", "return", "freed"}
  /\ alive \subseteq Threads /\ holders \subseteq Threads
  /\ thread \in [Threads -> [pc : Steps, val : Nat, seq : Nat]]
  /\ seq \in Nat /\ var \in Nat /\ added \in Nat /\ bit \in {0, 1}
  /\ rounds \in [Threads -> 0..MaxRounds]
  /\ late \subseteq Threads

(* No increment of g_hwm_var is lost, whichever lock guards it; in rdwrlock.c one
   of the threads increments under the read lock. *)
CountExact == var = added

(* The sequence number of seqlock.c is odd exactly while the writer is inside,
   unless the lock was initialised under its feet. *)
OddWhileWriting ==
  drv = "seqlock" /\ "thread1" \notin late => (seq % 2 = 1 <=> "thread1" \in holders)

(* In atomic_ops.c the bit tells whether the count is odd, but for the threads
   between their two operations. *)
Between == IF thread["thread1"].pc = "flip"
             THEN IF thread["thread2"].pc = "flip" THEN 2 ELSE 1
             ELSE IF thread["thread2"].pc = "flip" THEN 1 ELSE 0
BitFollows == drv = "atomic_ops" => (var + Between) % 2 = bit

(* What each lock promises for the data it guards. *)
LocksCount == TypeOK /\ CountExact /\ OddWhileWriting /\ BitFollows

(* The reader of seqlock.c never ends with a value that was replaced while it
   read.  The initialisation breaks this for a reader it finds in its section (the
   number it started with may come back) and, if it finds the writer there, for
   ever: the numbers are then even inside the writer's section. *)
ReadsCurrent ==
  [][ \A t \in Threads :
        ReadEnd(t) => late \cap {t, "thread1"} # {} \/ thread[t].val = var ]_vars

(* A reader that has begun gets its value, unless the number stays odd for ever
   because the initialisation found the writer inside (or the module is gone). *)
ReaderEnds ==
  drv = "seqlock" /\ thread["thread2"].pc \in {"load", "retry"}
    ~> (thread["thread2"].pc = "sleep" \/ "thread1" \in late \/ loader = "freed")
-----------------------------------------------------------------------------
=============================================================================
