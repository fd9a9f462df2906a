----------------------------- MODULE DeferredWork -----------------------------
(***************************************************************************)
(* The interrupt drivers of Misc/DD once they are loaded: the interrupt    *)
(* handler, the work it defers to a softirq, a tasklet, a thread or a      *)
(* workqueue, and the file operations, each on a CPU of its own.           *)
(*                                                                         *)
(* The GPIO drivers toggle an LED.  Their handler debounces: it compares   *)
(* jiffies, which wrap, with the jiffies of the last interrupt it took.    *)
(* The other drivers are interrupted by a read of their own file and by    *)
(* the devices that share the line.                                        *)
(***************************************************************************)
EXTENDS Integers

CONSTANTS
  Drivers,  \* the drivers to consider
  Cpus,     \* CPUs that take the interrupt
  Wrap,     \* number of values of jiffies
  Boot,     \* jiffies when the driver is loaded
  Debounce, \* 20 jiffies in the code
  MaxTime,  \* bound: jiffies that pass
  MaxIrqs   \* bound: interrupts

ASSUME WrapAssumption ==
  /\ Debounce \in Nat \ {0} /\ Wrap \in Nat /\ Debounce < Wrap
  /\ Boot \in 0..(Wrap - 1)
ASSUME BoundAssumption == MaxTime \in Nat /\ MaxIrqs \in Nat

(* A driver: does its handler debounce, who runs its work, what is the work. *)
Row(debounces, runner, work) ==
  [debounces |-> debounces, runner |-> runner, work |-> work]

Interrupts == Row(FALSE, "nobody", "none")
Tasklet == Row(FALSE, "tasklet", "log")
Workqueue == Row(FALSE, "worker", "log")
CreateWorkqueue == Row(FALSE, "worker", "log")
CreateList == Row(FALSE, "worker", "append")
Softirqs == Row(TRUE, "softirq", "toggle")
Threadedirqs == Row(TRUE, "thread", "toggle")
GpioIrq == Row(TRUE, "handler", "toggle")
Gpio == Row(FALSE, "nobody", "led")

DriverTable ==
  [interrupts |-> Interrupts, tasklet |-> Tasklet, workqueue |-> Workqueue,
   create_workqueue |-> CreateWorkqueue, create_list |-> CreateList,
   softirqs |-> Softirqs, threadedirqs |-> Threadedirqs, gpio_irq |-> GpioIrq,
   gpio |-> Gpio]

ASSUME DriversAssumption == Drivers \subseteq DOMAIN DriverTable

VARIABLES
  drv,        \* the driver
  time,       \* jiffies since the driver was loaded
  old_jiffy,
  irq,        \* the handler: idle, or at a step on a CPU
  pending,    \* places where deferred work waits to run
  fn,         \* the deferred function in each place: its step and its led_toggle
  led_toggle,
  led,        \* level of GPIO_21_OUT
  nodes,      \* nodes of the list that starts at Head_Node
  walk,       \* how many of them hwm_read has passed, or NoWalk
  oops,       \* the work wrote through a NULL pointer
  irqs,       \* ghost: interrupts that came
  stamp,      \* ghost: time when old_jiffy was set, or Never
  owed,       \* ghost: places where an interrupt was taken and no run has started since
  merged,     \* ghost: interrupts that found the work pending already
  parity,     \* ghost: toggles so far, modulo 2
  overlap,    \* ghost: two runs were in the deferred function at once
  wrote       \* ghost: the level of the LED comes from hwm_write

vars == <<drv, time, old_jiffy, irq, pending, fn, led_toggle, led, nodes, walk, oops,
          irqs, stamp, owed, merged, parity, overlap, wrote>>

Driver == DriverTable[drv]
Deferred == Driver.runner \notin {"nobody", "handler"}

(* Softirqs run on the CPU that raised them, everything else in one place. *)
NoCpu == "anywhere"
Places == Cpus \cup {NoCpu}
PlaceOf(cpu) == IF Driver.runner = "softirq" THEN cpu ELSE NoCpu

Never == -1
NoWalk == -1
Idle == [pc |-> "idle", cpu |-> "none"]
IdleFn == [pc |-> "idle", toggle |-> 0]
Jiffies == (Boot + time) % Wrap

Init ==
  /\ drv \in Drivers
  /\ time = 0 /\ old_jiffy = 0
  /\ irq = Idle
  /\ pending = {} /\ fn = [p \in Places |-> IdleFn]
  /\ led_toggle = 0 /\ led = 0 /\ nodes = 0 /\ walk = NoWalk /\ oops = FALSE
  /\ irqs = 0 /\ stamp = Never /\ owed = {} /\ merged = 0
  /\ parity = 0 /\ overlap = FALSE /\ wrote = FALSE

ledVars == <<led_toggle, led, parity, overlap, wrote>>
clockVars == <<time, old_jiffy, stamp>>
workVars == <<pending, fn, merged, nodes, oops>>

-----------------------------------------------------------------------------
Tick ==
  /\ Driver.debounces /\ time < MaxTime
  /\ time' = time + 1
  /\ UNCHANGED <<drv, walk, old_jiffy, irq, irqs, stamp, owed, ledVars, workVars>>

(* Mutant: jiffies < old_jiffy + 20. *)
Diff_Signed == Jiffies - old_jiffy

(* Unsigned subtraction: jiffies - old_jiffy. *)
Diff == (Jiffies - old_jiffy) % Wrap

Arrives == irq = Idle /\ irqs < MaxIrqs /\ irqs' = irqs + 1

Owe(cpu) == owed' = IF Deferred THEN owed \cup {PlaceOf(cpu)} ELSE owed

(* A rising edge too soon after the last one: the handler returns. *)
Reject(cpu) ==
  /\ Driver.debounces /\ Arrives
  /\ Diff < Debounce
  /\ UNCHANGED <<drv, walk, irq, owed, clockVars, ledVars, workVars>>

Accept(cpu) ==
  /\ Driver.debounces /\ Arrives
  /\ Diff >= Debounce
  /\ irq' = [pc |-> "stamp", cpu |-> cpu] /\ Owe(cpu)
  /\ UNCHANGED <<drv, walk, clockVars, ledVars, workVars>>

(* jiffies is read again and may have moved on. *)
Stamp ==
  /\ irq.pc = "stamp"
  /\ old_jiffy' = Jiffies /\ stamp' = time
  /\ irq' = [irq EXCEPT !.pc = IF Deferred THEN "raise" ELSE "toggle"]
  /\ UNCHANGED <<drv, walk, time, irqs, owed, ledVars, workVars>>

(* hwm_read of create_list walks the list, without a lock, while the worker may
   append.  list_add_tail links the new node with its last write, so that the
   walk sees a node whole or not at all. *)
ReadBegin ==
  /\ Driver.work = "append" /\ walk = NoWalk
  /\ walk' = 0
  /\ UNCHANGED <<drv, irq, irqs, owed, clockVars, ledVars, workVars>>

ReadNode ==
  /\ walk # NoWalk /\ walk < nodes
  /\ walk' = walk + 1
  /\ UNCHANGED <<drv, irq, irqs, owed, clockVars, ledVars, workVars>>

(* hwm_read, at the end of the list if there is one, raises interrupt 11; so does
   any device that shares it, and the walk stays where it is. *)
HwmRead(cpu) ==
  /\ Driver.work \in {"none", "log", "append"} /\ Arrives
  /\ irq' = IF Deferred THEN [pc |-> "raise", cpu |-> cpu] ELSE Idle
  /\ walk' = walk \/ (walk = nodes /\ walk' = NoWalk)
  /\ Owe(cpu)
  /\ UNCHANGED <<drv, clockVars, ledVars, workVars>>

(* Mutant: work is not queued while it runs. *)
Raise_Busy ==
  /\ irq.pc = "raise"
  /\ LET place == PlaceOf(irq.cpu)
     IN  /\ pending' = IF fn[place].pc # "idle" THEN pending ELSE pending \cup {place}
         /\ merged' = IF place \in pending THEN merged + 1 ELSE merged
  /\ irq' = Idle
  /\ UNCHANGED <<drv, walk, clockVars, irqs, owed, fn, nodes, oops, ledVars>>

(* raise_softirq, tasklet_schedule, schedule_work, queue_work, IRQ_WAKE_THREAD:
   work that waits already is not queued again. *)
Raise ==
  /\ irq.pc = "raise"
  /\ LET place == PlaceOf(irq.cpu)
     IN  /\ pending' = pending \cup {place}
         /\ merged' = IF place \in pending THEN merged + 1 ELSE merged
  /\ irq' = Idle
  /\ UNCHANGED <<drv, walk, clockVars, irqs, owed, fn, nodes, oops, ledVars>>

(* Mutant: led_toggle = 0x01 | led_toggle. *)
HandlerToggle_Or ==
  /\ irq.pc = "toggle"
  /\ led_toggle' = 1 /\ parity' = 1 - parity
  /\ irq' = [irq EXCEPT !.pc = "set"]
  /\ UNCHANGED <<drv, walk, clockVars, irqs, owed, led, overlap, wrote, workVars>>

(* gpio_irq toggles in the handler, with the interrupts of its CPU disabled. *)
HandlerToggle ==
  /\ irq.pc = "toggle"
  /\ led_toggle' = 1 - led_toggle /\ parity' = 1 - parity
  /\ irq' = [irq EXCEPT !.pc = "set"]
  /\ UNCHANGED <<drv, walk, clockVars, irqs, owed, led, overlap, wrote, workVars>>

HandlerSet ==
  /\ irq.pc = "set"
  /\ led' = led_toggle /\ wrote' = FALSE
  /\ irq' = Idle
  /\ UNCHANGED <<drv, walk, clockVars, irqs, owed, led_toggle, parity, overlap, workVars>>

-----------------------------------------------------------------------------
(* The deferred function runs in one place at a time, except for softirqs, and
   an interrupt handler on the same CPU suspends it. *)
At(p, pc) == fn[p].pc = pc /\ irq.cpu # p /\ ~oops
Running(p) == fn[p].pc # "idle"

(* The run begins; the mark is cleared first, so that an interrupt from here on
   asks for another run.  led_toggle is read. *)
Start(p) ==
  /\ p \in pending /\ At(p, "idle")
  /\ pending' = pending \ {p}
  /\ owed' = owed \ {p}
  /\ fn' = [fn EXCEPT ![p] = [pc |-> Driver.work, toggle |-> led_toggle]]
  /\ overlap' = (overlap \/ \E q \in Places \ {p} : Running(q))
  /\ UNCHANGED <<drv, walk, clockVars, irq, irqs, merged, nodes, oops, led_toggle, led, parity, wrote>>

Finish(p) == fn' = [fn EXCEPT ![p] = IdleFn]

Log(p) ==
  /\ At(p, "log")
  /\ Finish(p)
  /\ UNCHANGED <<drv, walk, clockVars, irq, irqs, pending, owed, merged, nodes, oops, ledVars>>

(* kmalloc may return NULL, which is not looked at. *)
AppendNode(p) ==
  /\ At(p, "append")
  /\ \/ nodes' = nodes + 1 /\ UNCHANGED oops /\ Finish(p)
     \/ oops' = TRUE /\ UNCHANGED <<nodes, fn>>
  /\ UNCHANGED <<drv, walk, clockVars, irq, irqs, pending, owed, merged, ledVars>>

Toggle(p) ==
  /\ At(p, "toggle")
  /\ led_toggle' = 1 - fn[p].toggle /\ parity' = 1 - parity
  /\ fn' = [fn EXCEPT ![p] = [pc |-> "set", toggle |-> led_toggle']]
  /\ UNCHANGED <<drv, walk, clockVars, irq, irqs, pending, owed, merged, nodes, oops,
                 led, overlap, wrote>>

(* The compiler may read led_toggle again or keep the value it has. *)
SetLed(p) ==
  /\ At(p, "set")
  /\ led' \in {led_toggle, fn[p].toggle} /\ wrote' = FALSE
  /\ Finish(p)
  /\ UNCHANGED <<drv, walk, clockVars, irq, irqs, pending, owed, merged, nodes, oops,
                 led_toggle, parity, overlap>>

(* Writing '0' or '1' sets the GPIO and leaves led_toggle alone. *)
HwmWrite(level) ==
  /\ Driver.work \in {"toggle", "led"}
  /\ led' = level /\ wrote' = TRUE
  /\ UNCHANGED <<drv, walk, clockVars, irq, irqs, owed, led_toggle, parity, overlap, workVars>>

-----------------------------------------------------------------------------
Handler == Stamp \/ Raise \/ HandlerToggle \/ HandlerSet
Run(p) == Start(p) \/ Log(p) \/ AppendNode(p) \/ Toggle(p) \/ SetLed(p)

Next ==
  \/ Tick
  \/ \E cpu \in Cpus : Reject(cpu) \/ Accept(cpu) \/ HwmRead(cpu)
  \/ ReadBegin \/ ReadNode
  \/ Handler
  \/ \E p \in Places : Run(p)
  \/ \E level \in {0, 1} : HwmWrite(level)

(* A handler that has begun goes on, and so does work that is pending; nothing
   else has to happen. *)
Fairness == WF_vars(Handler) /\ \A p \in Places : WF_vars(Run(p))

Spec == Init /\ [][Next]_vars /\ Fairness

-----------------------------------------------------------------------------
(* Properties. *)

(* Type invariant. *)
TypeOK ==
  /\ drv \in Drivers
  /\ time \in 0..MaxTime /\ old_jiffy \in 0..(Wrap - 1)
  /\ irq \in [pc : {"idle", "stamp", "raise", "toggle", "set"}, cpu : Cpus \cup {"none"}]
  /\ pending \subseteq Places
  /\ fn \in [Places -> [pc : {"idle", "log", "append", "toggle", "set"}, toggle : {0, 1}]]
  /\ led_toggle \in {0, 1} /\ led \in {0, 1} /\ oops \in BOOLEAN
  /\ irqs \in 0..MaxIrqs /\ nodes \in Nat
  /\ owed \subseteq Places /\ merged \in Nat
  /\ stamp \in 0..MaxTime \cup {Never}
  /\ parity \in {0, 1} /\ overlap \in BOOLEAN /\ wrote \in BOOLEAN

(* led_toggle counts the runs of the deferred function: no toggle is lost, unless
   the softirq ran on two CPUs at once, which its one variable does not survive.
   The tasklet, thread, worker and handler variants are safe. *)
TogglesCounted == led_toggle = parity \/ (overlap /\ Driver.runner = "softirq")

(* With nothing under way the LED shows led_toggle, unless the last to set it was
   hwm_write (or softirqs overlapped). *)
Quiet == irq = Idle /\ \A p \in Places : ~Running(p)
LedShowsToggle == Quiet => led = led_toggle \/ wrote \/ overlap

(* create_list appends exactly one node per interrupt but for those that came
   while its work was waiting. *)
NodesCounted ==
  Driver.work = "append" =>
    irqs = nodes + merged + (IF NoCpu \in pending THEN 1 ELSE 0)
           + (IF Running(NoCpu) THEN 1 ELSE 0) + (IF irq = Idle THEN 0 ELSE 1)

(* A read that walks the list of create_list never leaves it, whatever is appended
   meanwhile. *)
WalkInList == walk \in NoWalk..nodes

(* No interrupt and no run of deferred work is lost or counted twice in what the
   drivers keep: the toggle, the LED, the list. *)
WorkCounted == TypeOK /\ TogglesCounted /\ LedShowsToggle /\ NodesCounted /\ WalkInList

(* The inductive invariant the proofs rest on.  A handler does what its driver has
   it do, and so does a deferred function, which is in one place but for the
   softirqs; two places at once are remembered in overlap; a run keeps the toggle
   of its driver; and an LED that does not show it is about to be set. *)
HandlerFits ==
  /\ irq = Idle \/ (irq.pc # "idle" /\ irq.cpu \in Cpus)
  /\ irq.pc = "stamp" => Driver.debounces
  /\ irq.pc = "raise" => Deferred
  /\ irq.pc \in {"toggle", "set"} => ~Deferred /\ Driver.debounces

RunFits ==
  /\ ~Deferred => pending = {} /\ \A p \in Places : ~Running(p)
  /\ Driver.runner # "softirq" =>
       /\ pending \subseteq {NoCpu} /\ ~overlap
       /\ \A p \in Places : Running(p) => p = NoCpu
  /\ \A p \in Places :
       Running(p) => fn[p].pc = Driver.work \/ (Driver.work = "toggle" /\ fn[p].pc = "set")

OverlapSeen == \A p, q \in Places : p # q /\ Running(p) /\ Running(q) => overlap

ToggleKept ==
  \A p \in Places : fn[p].pc \in {"toggle", "set"} => fn[p].toggle = led_toggle \/ overlap

LedFollows ==
  \/ led = led_toggle \/ wrote \/ overlap \/ irq.pc = "set"
  \/ \E p \in Places : fn[p].pc = "set"

IInv ==
  /\ TypeOK /\ HandlerFits /\ RunFits /\ OverlapSeen /\ ToggleKept /\ LedFollows
  /\ TogglesCounted /\ NodesCounted

(* What Debounced rests on besides: old_jiffy is what jiffies were at stamp, and an
   LED that is about to be set shows the old toggle. *)
ClockKept ==
  IF stamp = Never THEN old_jiffy = 0
  ELSE stamp <= time /\ old_jiffy = (Boot + stamp) % Wrap

LedBehind ==
  irq.pc = "set" \/ (\E p \in Places : fn[p].pc = "set") =>
    led # led_toggle \/ wrote \/ overlap

(* The handlers of softirqs, threadedirqs and gpio_irq compare jiffies, which
   wrap: they never take two interrupts less than the debounce time apart, and
   drop one only if the last one was taken less than the debounce time before, or
   a full round of jiffies or more (and, before the first one, while jiffies are
   near 0, which old_jiffy starts with).  Each set of the LED by a handler or by
   deferred work, which may stand for several interrupts, flips it, unless a write
   was the last to set it or two runs of the softirq have overlapped. *)
TakesApart == \A cpu \in Cpus : Accept(cpu) => stamp = Never \/ time - stamp >= Debounce
DropsOnlyBounces ==
  \A cpu \in Cpus : Reject(cpu) =>
    \/ stamp = Never /\ Jiffies < Debounce
    \/ stamp # Never /\ (time - stamp < Debounce \/ time - stamp >= Wrap)
Flips == (HandlerSet \/ \E p \in Places : SetLed(p)) => led' # led \/ wrote \/ overlap
Debounced == [][TakesApart /\ DropsOnlyBounces /\ Flips]_vars

(* Work that an interrupt asked for runs: a run starts after it, whatever was
   pending or running when it came (unless the worker has crashed). *)
InterruptServed == \A p \in Places : p \in owed ~> (p \notin owed \/ oops)
=============================================================================
