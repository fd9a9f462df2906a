------------------------------ MODULE WaitQueue ------------------------------
(***************************************************************************)
(* The wait-queue driver of Misc/DD/wait_queue.c between the end of its    *)
(* init function and the end of its exit function.  hwm_read, called by    *)
(* user processes, and hwm_driver_exit leave a value in wait_queue_flag    *)
(* and wake wait_thread; the thread tests the flag, counts the event and   *)
(* resets the flag.  Nothing but the wait queue's own lock protects the    *)
(* flag, so every access is a step.                                        *)
(***************************************************************************)
EXTENDS Naturals, FiniteSets

CONSTANTS
  Users,    \* processes that read the device file
  MaxReads  \* bound: calls of hwm_read

ASSUME UsersAssumption == IsFiniteSet(Users)
ASSUME MaxReadsAssumption == MaxReads \in Nat

VARIABLES
  wait_queue_flag,  \* 0 nothing, 1 a read, 2 the exit function
  read_count,
  tpc,              \* where wait_function is
  upc,              \* where each user is
  epc,              \* where rmmod is
  should_stop,      \* what kthread_should_stop() returns
  reads,            \* ghost: number of calls of hwm_read that set the flag
  wiped             \* ghost: the thread overwrote the exit function's 2

vars == <<wait_queue_flag, read_count, tpc, upc, epc, should_stop, reads, wiped>>

(* "asleep": on the wait queue, to be woken; "nap": in msleep. *)
ThreadPC == {"loop", "wait", "asleep", "test", "count", "reset", "nap", "exited"}
(* "open": has the device file open, "wake": in hwm_read, at the wake_up. *)
UserPC == {"out", "open", "wake"}
ExitPC == {"loaded", "flag", "wake", "stop", "join", "gone", "crashed"}

Init ==
  /\ wait_queue_flag = 0 /\ read_count = 0
  /\ tpc = "loop"
  /\ upc = [u \in Users |-> "out"]
  /\ epc = "loaded"
  /\ should_stop = FALSE
  /\ reads = 0 /\ wiped = FALSE

(* Mutant: no wake_up. *)
Wake_Nobody(pc) == pc

(* wake_up: a thread on the wait queue tests its condition again. *)
Wake(pc) == IF pc = "asleep" THEN "wait" ELSE pc

-----------------------------------------------------------------------------
(* hwm_open pins the module (cdev.owner), hwm_release unpins it. *)
Open(u) ==
  /\ upc[u] = "out" /\ epc = "loaded"
  /\ upc' = [upc EXCEPT ![u] = "open"]
  /\ UNCHANGED <<wait_queue_flag, read_count, tpc, epc, should_stop, reads, wiped>>

Release(u) ==
  /\ upc[u] = "open"
  /\ upc' = [upc EXCEPT ![u] = "out"]
  /\ UNCHANGED <<wait_queue_flag, read_count, tpc, epc, should_stop, reads, wiped>>

ReadFlag(u) ==
  /\ upc[u] = "open" /\ reads < MaxReads
  /\ wait_queue_flag' = 1
  /\ reads' = reads + 1
  /\ upc' = [upc EXCEPT ![u] = "wake"]
  /\ UNCHANGED <<read_count, tpc, epc, should_stop, wiped>>

ReadWake(u) ==
  /\ upc[u] = "wake"
  /\ tpc' = Wake(tpc)
  /\ upc' = [upc EXCEPT ![u] = "open"]
  /\ UNCHANGED <<wait_queue_flag, read_count, epc, should_stop, reads, wiped>>

-----------------------------------------------------------------------------
(* wait_function *)
ThreadLoop ==
  /\ tpc = "loop"
  /\ tpc' = IF should_stop THEN "exited" ELSE "wait"
  /\ UNCHANGED <<wait_queue_flag, read_count, upc, epc, should_stop, reads, wiped>>

(* wait_event_interruptible queues the thread first, then tests the condition:
   a wake_up that comes after the test finds the thread asleep. *)
ThreadWait ==
  /\ tpc = "wait"
  /\ tpc' = IF wait_queue_flag # 0 THEN "test" ELSE "asleep"
  /\ UNCHANGED <<wait_queue_flag, read_count, upc, epc, should_stop, reads, wiped>>

ThreadTest ==
  /\ tpc = "test"
  /\ tpc' = IF wait_queue_flag = 2 THEN "exited" ELSE "count"
  /\ UNCHANGED <<wait_queue_flag, read_count, upc, epc, should_stop, reads, wiped>>

ThreadCount ==
  /\ tpc = "count"
  /\ read_count' = read_count + 1
  /\ tpc' = "reset"
  /\ UNCHANGED <<wait_queue_flag, upc, epc, should_stop, reads, wiped>>

(* Mutant: the flag is not reset. *)
ThreadReset_Keeps ==
  /\ tpc = "reset"
  /\ tpc' = "nap"
  /\ UNCHANGED <<wait_queue_flag, read_count, upc, epc, should_stop, reads, wiped>>

ThreadReset ==
  /\ tpc = "reset"
  /\ wait_queue_flag' = 0
  /\ wiped' = (wiped \/ wait_queue_flag = 2)
  /\ tpc' = "nap"
  /\ UNCHANGED <<read_count, upc, epc, should_stop, reads>>

ThreadNap ==
  /\ tpc = "nap"
  /\ tpc' = "loop"
  /\ UNCHANGED <<wait_queue_flag, read_count, upc, epc, should_stop, reads, wiped>>

ThreadStep ==
  ThreadLoop \/ ThreadWait \/ ThreadTest \/ ThreadCount \/ ThreadReset \/ ThreadNap

-----------------------------------------------------------------------------
(* rmmod succeeds in starting hwm_driver_exit when no file is open. *)
Rmmod ==
  /\ epc = "loaded" /\ \A u \in Users : upc[u] = "out"
  /\ epc' = "flag"
  /\ UNCHANGED <<wait_queue_flag, read_count, tpc, upc, should_stop, reads, wiped>>

ExitFlag ==
  /\ epc = "flag"
  /\ wait_queue_flag' = 2
  /\ epc' = "wake"
  /\ UNCHANGED <<read_count, tpc, upc, should_stop, reads, wiped>>

ExitWake ==
  /\ epc = "wake"
  /\ tpc' = Wake(tpc)
  /\ epc' = "stop"
  /\ UNCHANGED <<wait_queue_flag, read_count, upc, should_stop, reads, wiped>>

(* kthread_stop: tell the thread, wake it, wait until it has returned.  A thread
   that has returned by itself, because it found the 2, may have left nothing of
   its task to be told: the driver holds no reference to it. *)
ExitStop ==
  /\ epc = "stop"
  /\ \/ should_stop' = TRUE /\ tpc' = Wake(tpc) /\ epc' = "join"
     \/ tpc = "exited" /\ epc' = "crashed" /\ UNCHANGED <<should_stop, tpc>>
  /\ UNCHANGED <<wait_queue_flag, read_count, upc, reads, wiped>>

(* Mutant: the exit function does not wait for the thread. *)
ExitJoin_NoWait ==
  /\ epc = "join"
  /\ epc' = "gone"
  /\ UNCHANGED <<wait_queue_flag, read_count, tpc, upc, should_stop, reads, wiped>>

(* The rest of the exit function releases the device and the module. *)
ExitJoin ==
  /\ epc = "join" /\ tpc = "exited"
  /\ epc' = "gone"
  /\ UNCHANGED <<wait_queue_flag, read_count, tpc, upc, should_stop, reads, wiped>>

ExitStep == ExitFlag \/ ExitWake \/ ExitStop \/ ExitJoin

Next ==
  \/ \E u \in Users : Open(u) \/ Release(u) \/ ReadFlag(u) \/ ReadWake(u)
  \/ ThreadStep
  \/ Rmmod \/ ExitStep

(* The kernel runs the thread, a call of hwm_read and rmmod to their ends. *)
Fairness ==
  /\ WF_vars(ThreadStep)
  /\ WF_vars(ExitStep)
  /\ \A u \in Users : WF_vars(ReadWake(u))

Spec == Init /\ [][Next]_vars /\ Fairness

-----------------------------------------------------------------------------
(* Type invariant. *)
TypeOK ==
  /\ wait_queue_flag \in 0..2
  /\ read_count \in Nat /\ reads \in 0..MaxReads
  /\ tpc \in ThreadPC /\ upc \in [Users -> UserPC] /\ epc \in ExitPC
  /\ should_stop \in BOOLEAN /\ wiped \in BOOLEAN

(* The thread is asleep while the flag is set only as long as somebody is
   about to wake it: no wake_up of hwm_read or of the exit function is lost. *)
NoMissedWakeup ==
  (tpc = "asleep" /\ wait_queue_flag # 0) =>
    (\E u \in Users : upc[u] = "wake") \/ epc \in {"wake", "stop"}

(* The thread never counts an event that no call of hwm_read raised, however
   the calls, the resets and the exit function interleave. *)
NoPhantomEvent ==
  read_count + (IF tpc = "count" \/ (tpc = "test" /\ wait_queue_flag # 2) THEN 1 ELSE 0) <= reads

(* The module's code is freed when rmmod is through: nobody runs in it.  The one
   way to fail is that the thread answered the exit function's flag before
   kthread_stop came to it; a thread that overwrote the flag is still there. *)
NothingRunsUnloaded ==
  /\ epc \in {"gone", "crashed"} => tpc = "exited" /\ \A u \in Users : upc[u] = "out"
  /\ epc = "crashed" => wait_queue_flag = 2 /\ ~should_stop

(* The inductive invariant the proofs rest on.  A flag of 1 that the thread has
   still to look at stands for a read that is not counted, and once rmmod is
   under way no user has the device open. *)
Uncounted ==
  /\ read_count <= reads
  /\ wait_queue_flag = 1 /\ tpc # "reset" => read_count < reads
  /\ tpc = "count" => read_count < reads
  /\ tpc = "test" => wait_queue_flag # 0

NobodyInside == epc # "loaded" => \A u \in Users : upc[u] = "out"

(* The thread returns when it finds the 2, which only the exit function leaves, or
   when it has been told to stop. *)
Returned ==
  /\ wait_queue_flag = 2 => epc \notin {"loaded", "flag"}
  /\ should_stop => epc \in {"join", "gone"}
  /\ tpc = "exited" => should_stop \/ wait_queue_flag = 2

IInv == TypeOK /\ NoMissedWakeup /\ Uncounted /\ NobodyInside /\ Returned /\ NothingRunsUnloaded

(* A read is acted upon: the flag it set does not stay.  rmmod ends, well or not,
   unless the thread wiped the exit function's flag: the only way to hang in
   kthread_stop is the race of wait_function's reset. *)
Progress ==
  /\ (wait_queue_flag = 1) ~> (wait_queue_flag # 1)
  /\ (epc = "flag") ~> (epc \in {"gone", "crashed"} \/ wiped)
=============================================================================
