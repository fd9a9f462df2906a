---------------------------- MODULE SignalDevice ----------------------------
(***************************************************************************)
(* Misc/DD/signal.c with its application signalapp.c, from the creation of *)
(* the device to its removal (DriverModule says when that is).  An         *)
(* application registers itself through ioctl and spins until the          *)
(* interrupt handler of the driver signals it or the user types ctrl-C.    *)
(* A step is one access to task, or one step of an application between two *)
(* points where a signal handler can run.                                  *)
(***************************************************************************)
EXTENDS Integers, FiniteSets

CONSTANTS
  Apps,      \* processes that run signalapp
  NoTask,    \* NULL
  MaxIrqs    \* bound: interrupts raised

ASSUME TaskAssumption == NoTask \notin Apps
ASSUME IrqsAssumption == MaxIrqs \in Nat

VARIABLES
  smp,       \* whether processes run while the interrupt handler does
  hoisted,   \* whether the compiler reads done and check once for the inner loop
  task,      \* the registered process
  irq,       \* where the interrupt handler is
  target,    \* the argument of send_sig_info
  irqs,      \* interrupts so far
  fault,     \* what stopped the kernel
  pc, done, check,   \* of every application
  queued,    \* SIGHWM sent to an application and not delivered
  ctrlC,     \* SIGINT pending
  reset,     \* the SIGINT handler was taken away by SA_RESETHAND
  owed       \* signals handled and not followed by a pass of the inner loop

kernel == <<task, irq, target, irqs, fault>>
app == <<pc, done, check, queued, ctrlC, reset, owed>>
vars == <<smp, hoisted, kernel, app>>

(* The applications have installed their handlers and opened the file. *)
Init ==
  /\ smp \in BOOLEAN /\ hoisted \in BOOLEAN
  /\ task = NoTask /\ irq = "idle" /\ target = NoTask /\ irqs = 0 /\ fault = "none"
  /\ pc = [a \in Apps |-> "ioctl"]
  /\ done = [a \in Apps |-> FALSE] /\ check = [a \in Apps |-> FALSE]
  /\ queued = [a \in Apps |-> 0] /\ ctrlC = [a \in Apps |-> FALSE]
  /\ reset = [a \in Apps |-> FALSE]
  /\ owed = [a \in Apps |-> 0]

(* A process runs, but not below the interrupt handler on the only processor. *)
Runs == fault = "none" /\ (smp \/ irq = "idle")
Alive(a) == pc[a] # "exited"
Goto(a, label) == pc' = [pc EXCEPT ![a] = label]

-----------------------------------------------------------------------------
(* hwm_read of another process, or a device that shares the line. *)
RaiseIrq ==
  /\ fault = "none" /\ irq = "idle" /\ irqs < MaxIrqs
  /\ irqs' = irqs + 1 /\ irq' = "test"
  /\ UNCHANGED <<smp, hoisted, task, target, fault, app>>

TestTask ==
  /\ fault = "none" /\ irq = "test"
  /\ irq' = (IF task = NoTask THEN "idle" ELSE "load")
  /\ UNCHANGED <<smp, hoisted, task, target, irqs, fault, app>>

(* task is read again for the call, with a printk in between. *)
LoadTask ==
  /\ fault = "none" /\ irq = "load"
  /\ target' = task /\ irq' = "send"
  /\ UNCHANGED <<smp, hoisted, task, irqs, fault, app>>

SendSigInfo ==
  /\ fault = "none" /\ irq = "send"
  /\ IF target # NoTask /\ Alive(target)
     THEN /\ queued' = [queued EXCEPT ![target] = @ + 1] /\ irq' = "idle"
          /\ UNCHANGED fault
     ELSE fault' = (IF target = NoTask THEN "null" ELSE "freed") /\ UNCHANGED <<irq, queued>>
  /\ target' = NoTask
  /\ UNCHANGED <<smp, hoisted, task, irqs, pc, done, check, ctrlC, reset, owed>>

-----------------------------------------------------------------------------
(* hwm_ioctl falls off its end: the application takes what it returns for
   success or for failure. *)
Ioctl(a) ==
  /\ Runs /\ pc[a] = "ioctl"
  /\ task' = a
  /\ \E label \in {"outer", "close"} : Goto(a, label)
  /\ UNCHANGED <<smp, hoisted, irq, target, irqs, fault, done, check, queued, ctrlC, reset, owed>>

OuterLoop(a) ==
  /\ Runs /\ pc[a] = "outer"
  /\ Goto(a, IF done[a] THEN "close" ELSE "inner")
  /\ UNCHANGED <<smp, hoisted, kernel, done, check, queued, ctrlC, reset, owed>>

(* Mutant: the loop waits for the signal only. *)
InnerLoop_CheckOnly(a) ==
  /\ Runs
  /\ \/ pc[a] = "inner"
     \/ pc[a] = "spin" /\ ~hoisted
  /\ IF check[a] THEN Goto(a, "reset") /\ owed' = [owed EXCEPT ![a] = @ - 1]
     ELSE Goto(a, "spin") /\ UNCHANGED owed
  /\ UNCHANGED <<smp, hoisted, kernel, done, check, queued, ctrlC, reset>>

(* while (!done && !check); the flags are not volatile: a compiler that reads
   them once makes the loop endless if they are down at its first test. *)
InnerLoop(a) ==
  /\ Runs
  /\ \/ pc[a] = "inner"
     \/ pc[a] = "spin" /\ ~hoisted
  /\ IF done[a] \/ check[a]
     THEN Goto(a, "reset") /\ owed' = [owed EXCEPT ![a] = @ - 1]
     ELSE Goto(a, "spin") /\ UNCHANGED owed
  /\ UNCHANGED <<smp, hoisted, kernel, done, check, queued, ctrlC, reset>>

ResetCheck(a) ==
  /\ Runs /\ pc[a] = "reset"
  /\ check' = [check EXCEPT ![a] = FALSE] /\ Goto(a, "outer")
  /\ UNCHANGED <<smp, hoisted, kernel, done, queued, ctrlC, reset, owed>>

(* Mutant: the registration outlives the file. *)
Release_Keeps(a) == task' = task

(* hwm_release, in the process that closes the file. *)
Release(a) == task' = (IF task = a THEN NoTask ELSE task)

(* Also the end of a process that a signal kills: the kernel closes its files. *)
Close(a) ==
  /\ Runs /\ pc[a] = "close"
  /\ Release(a) /\ Goto(a, "exit")
  /\ UNCHANGED <<smp, hoisted, irq, target, irqs, fault, done, check, queued, ctrlC, reset, owed>>

(* The variables of the process and what was pending are gone. *)
Exit(a) ==
  /\ Runs /\ pc[a] = "exit"
  /\ Goto(a, "exited")
  /\ queued' = [queued EXCEPT ![a] = 0] /\ ctrlC' = [ctrlC EXCEPT ![a] = FALSE]
  /\ done' = [done EXCEPT ![a] = FALSE] /\ check' = [check EXCEPT ![a] = FALSE]
  /\ reset' = [reset EXCEPT ![a] = FALSE]
  /\ owed' = [owed EXCEPT ![a] = 0]
  /\ UNCHANGED <<smp, hoisted, kernel>>

-----------------------------------------------------------------------------
(* A signal is handled when its process returns to its program. *)
InProgram(a) == pc[a] \in {"ioctl", "outer", "inner", "spin", "reset"}

TypeCtrlC(a) ==
  /\ Runs /\ InProgram(a) /\ ~ctrlC[a]
  /\ ctrlC' = [ctrlC EXCEPT ![a] = TRUE]
  /\ UNCHANGED <<smp, hoisted, kernel, pc, done, check, queued, reset, owed>>

(* sig_event_handler: si_int is 1. *)
SigEvent(a) ==
  /\ Runs /\ InProgram(a) /\ queued[a] > 0
  /\ queued' = [queued EXCEPT ![a] = @ - 1] /\ owed' = [owed EXCEPT ![a] = @ + 1]
  /\ check' = [check EXCEPT ![a] = TRUE]
  /\ UNCHANGED <<smp, hoisted, kernel, pc, done, ctrlC, reset>>

(* ctrl_c_handler the first time, the default action after that. *)
SigInt(a) ==
  /\ Runs /\ InProgram(a) /\ ctrlC[a]
  /\ ctrlC' = [ctrlC EXCEPT ![a] = FALSE]
  /\ IF reset[a] THEN Goto(a, "close") /\ UNCHANGED <<done, reset, owed>>
     ELSE /\ done' = [done EXCEPT ![a] = TRUE] /\ reset' = [reset EXCEPT ![a] = TRUE]
          /\ owed' = [owed EXCEPT ![a] = @ + 1] /\ UNCHANGED pc
  /\ UNCHANGED <<smp, hoisted, kernel, check, queued>>

Handler == TestTask \/ LoadTask \/ SendSigInfo
Program(a) == Ioctl(a) \/ OuterLoop(a) \/ InnerLoop(a) \/ ResetCheck(a) \/ Close(a) \/ Exit(a)
Signal(a) == SigEvent(a) \/ SigInt(a)

Next ==
  \/ RaiseIrq \/ Handler
  \/ \E a \in Apps : Program(a) \/ Signal(a) \/ TypeCtrlC(a)

(* The kernel runs every process and delivers every signal; nobody has to type. *)
Fairness ==
  /\ WF_vars(Handler)
  /\ \A a \in Apps : WF_vars(Program(a)) /\ WF_vars(SigInt(a)) /\ WF_vars(SigEvent(a))
Spec == Init /\ [][Next]_vars /\ Fairness

-----------------------------------------------------------------------------
(* Type invariant. *)
TypeOK ==
  /\ smp \in BOOLEAN /\ hoisted \in BOOLEAN
  /\ task \in Apps \cup {NoTask} /\ target \in Apps \cup {NoTask}
  /\ irq \in {"idle", "test", "load", "send"} /\ irqs \in 0..MaxIrqs
  /\ fault \in {"none", "null", "freed"}
  /\ pc \in [Apps -> {"ioctl", "outer", "inner", "spin", "reset", "close", "exit", "exited"}]
  /\ done \in [Apps -> BOOLEAN] /\ check \in [Apps -> BOOLEAN]
  /\ ctrlC \in [Apps -> BOOLEAN] /\ reset \in [Apps -> BOOLEAN]
  /\ queued \in [Apps -> Nat] /\ owed \in [Apps -> Int]

(* The registered process has the file open, whoever registered after whom and
   however the others ended: a process that ends takes its registration back. *)
TaskLives ==
  task # NoTask => pc[task] \in {"outer", "inner", "spin", "reset", "close"}

(* On one processor the handler signals only a process that is there.  On more,
   the process may close its file between the test of task and the call. *)
SafeOnOneCpu == fault # "none" => smp

(* An application passes its wait once for a signal, or for ctrl-C at the end;
   signals that come before the next wait are merged. *)
RoundsHaveSignals ==
  \A a \in Apps : owed[a] >= (IF check[a] /\ pc[a] # "reset" THEN 1 ELSE 0)

(* What the driver and its applications keep between them, at every step. *)
SignalSafe == TypeOK /\ TaskLives /\ SafeOnOneCpu /\ RoundsHaveSignals

(* The inductive invariant the proofs rest on: done goes up with the handler taken
   away, an application has signals left for what it has still to notice, and an
   interrupt handler that no process can interrupt has a living process to signal. *)
FlagsAgree == \A a \in Apps : done[a] <=> reset[a]

Due(a) ==
  (IF check[a] /\ (pc[a] # "reset" \/ reset[a]) THEN 1 ELSE 0)
  + (IF done[a] /\ pc[a] \in {"inner", "spin"} THEN 1 ELSE 0)
OwedEnough == \A a \in Apps : owed[a] >= Due(a)

HandlerFindsTask ==
  ~smp => /\ irq = "load" => task # NoTask
          /\ irq = "send" => target # NoTask /\ Alive(target)

IInv == TypeOK /\ TaskLives /\ SafeOnOneCpu /\ FlagsAgree /\ OwedEnough /\ HandlerFindsTask

(* ctrl-C ends an application whose flags are read in every round; a compiler
   that reads them once leaves it to the second ctrl-C. *)
CtrlCEnds ==
  \A a \in Apps :
    (~hoisted /\ done[a]) \/ (reset[a] /\ ctrlC[a]) ~> ~Alive(a) \/ fault # "none"
=============================================================================
