-------------------------- MODULE DeferredWork_proofs --------------------------
(* Theorems about DeferredWork, for any CPUs, any width of jiffies and any number of
   interrupts. *)
EXTENDS DeferredWork, TLAPS

IrqSteps == {"idle", "stamp", "raise", "toggle", "set"}
FnSteps == {"idle", "log", "append", "toggle", "set"}

(* What the rows of DriverTable have in common. *)
LEMMA DriverFacts ==
  ASSUME drv \in Drivers
  PROVE  /\ Driver.work \in {"none", "log", "append", "toggle", "led"}
         /\ Deferred => Driver.work \in FnSteps \ {"idle", "set"}
         /\ Driver.work = "append" => Driver.runner = "worker" /\ Deferred
         /\ Driver.debounces => Driver.work = "toggle"
         /\ Driver.work = "toggle" => Driver.debounces
         /\ Driver.runner = "softirq" => Driver.work = "toggle" /\ Deferred
         /\ Driver.debounces \in BOOLEAN
  <1> DEFINE Names == {"interrupts", "tasklet", "workqueue", "create_workqueue", "create_list",
                       "softirqs", "threadedirqs", "gpio_irq", "gpio"}
  <1>1. drv \in Names
    BY DriversAssumption DEF DriverTable
  <1>2. Driver \in {Interrupts, Tasklet, Workqueue, CreateWorkqueue, CreateList, Softirqs,
                     Threadedirqs, GpioIrq, Gpio}
    <2>1. CASE drv = "interrupts"
      BY <2>1 DEF Driver, DriverTable
    <2>2. CASE drv = "tasklet"
      BY <2>2 DEF Driver, DriverTable
    <2>3. CASE drv = "workqueue"
      BY <2>3 DEF Driver, DriverTable
    <2>4. CASE drv = "create_workqueue"
      BY <2>4 DEF Driver, DriverTable
    <2>5. CASE drv = "create_list"
      BY <2>5 DEF Driver, DriverTable
    <2>6. CASE drv = "softirqs"
      BY <2>6 DEF Driver, DriverTable
    <2>7. CASE drv = "threadedirqs"
      BY <2>7 DEF Driver, DriverTable
    <2>8. CASE drv = "gpio_irq"
      BY <2>8 DEF Driver, DriverTable
    <2>9. CASE drv = "gpio"
      BY <2>9 DEF Driver, DriverTable
    <2>10. QED  BY <1>1, <2>1, <2>2, <2>3, <2>4, <2>5, <2>6, <2>7, <2>8, <2>9
  <1> USE DEF Deferred, FnSteps, Row
  <1>3. CASE Driver = Interrupts
    BY <1>3 DEF Interrupts
  <1>4. CASE Driver = Tasklet
    BY <1>4 DEF Tasklet
  <1>5. CASE Driver = Workqueue
    BY <1>5 DEF Workqueue
  <1>6. CASE Driver = CreateWorkqueue
    BY <1>6 DEF CreateWorkqueue
  <1>7. CASE Driver = CreateList
    BY <1>7 DEF CreateList
  <1>8. CASE Driver = Softirqs
    BY <1>8 DEF Softirqs
  <1>9. CASE Driver = Threadedirqs
    BY <1>9 DEF Threadedirqs
  <1>10. CASE Driver = GpioIrq
    BY <1>10 DEF GpioIrq
  <1>11. CASE Driver = Gpio
    BY <1>11 DEF Gpio
  <1>12. QED  BY <1>2, <1>3, <1>4, <1>5, <1>6, <1>7, <1>8, <1>9, <1>10, <1>11

(* jiffies stay below their wrap. *)
LEMMA JiffiesType ==
  ASSUME time \in Nat
  PROVE  Jiffies \in 0..(Wrap - 1)
  <1>1. Wrap \in Nat /\ Wrap > 0 /\ Boot \in Nat
    BY WrapAssumption
  <1>2. QED  BY <1>1 DEF Jiffies

(* The inductive invariant holds at the start. *)
LEMMA InvInit == Init => IInv
  <1> SUFFICES ASSUME Init PROVE IInv
    OBVIOUS
  <1> USE DEF Init
  <1>1. TypeOK
    <2>1. fn \in [Places -> [pc : FnSteps, toggle : {0, 1}]] /\ irq \in [pc : IrqSteps, cpu : Cpus \cup {"none"}]
      BY DEF IdleFn, Idle, FnSteps, IrqSteps
    <2>2. time \in 0..MaxTime /\ irqs \in 0..MaxIrqs /\ old_jiffy \in 0..(Wrap - 1)
      BY WrapAssumption, BoundAssumption
    <2>3. QED  BY <2>1, <2>2 DEF TypeOK, FnSteps, IrqSteps
  <1>2. irq.pc = "idle" /\ \A p \in Places : fn[p].pc = "idle" /\ ~Running(p)
    BY DEF Running, IdleFn, Idle
  <1>3. HandlerFits /\ RunFits /\ OverlapSeen /\ ToggleKept /\ LedFollows /\ TogglesCounted
    BY <1>2 DEF HandlerFits, RunFits, OverlapSeen, ToggleKept, LedFollows, TogglesCounted
  <1>4. NodesCounted
    BY <1>2 DEF NodesCounted, Places
  <1>5. QED  BY <1>1, <1>3, <1>4 DEF IInv

(* The row of the driver does not change. *)
LEMMA SameDriver ==
  ASSUME drv' = drv
  PROVE  Driver' = Driver /\ (Deferred' <=> Deferred)
  BY DEF Driver, Deferred

(* The passing of time, the walk of hwm_read and hwm_write touch neither the handler
   nor the work. *)
LEMMA QuietInv ==
  ASSUME IInv,
         \/ Tick \/ ReadBegin \/ ReadNode
         \/ (\E level \in {0, 1} : HwmWrite(level)) \/ UNCHANGED vars
  PROVE  IInv'
  <1>1. /\ drv' = drv /\ Driver' = Driver /\ (Deferred' <=> Deferred)
        /\ UNCHANGED <<irq, irqs, owed, pending, fn, merged, nodes, oops, old_jiffy, stamp,
                       led_toggle, parity, overlap>>
    BY SameDriver DEF Tick, ReadBegin, ReadNode, HwmWrite, ledVars, workVars, clockVars, vars
  <1>2. TypeOK /\ HandlerFits /\ RunFits /\ OverlapSeen /\ ToggleKept /\ LedFollows
        /\ TogglesCounted /\ NodesCounted
    BY DEF IInv
  <1>3. time' \in 0..MaxTime /\ led' \in {0, 1} /\ wrote' \in BOOLEAN
        /\ ((led' = led /\ wrote' = wrote) \/ wrote')
    <2>1. time \in 0..MaxTime /\ led \in {0, 1} /\ wrote \in BOOLEAN /\ MaxTime \in Nat
      BY <1>2, BoundAssumption DEF TypeOK
    <2>2. CASE Tick
      BY <2>1, <2>2 DEF Tick, ledVars
    <2>3. CASE \E level \in {0, 1} : HwmWrite(level)
      BY <2>1, <2>3 DEF HwmWrite, clockVars
    <2>4. CASE UNCHANGED vars
      BY <2>1, <2>4 DEF vars
    <2>5. CASE ReadBegin \/ ReadNode
      BY <2>1, <2>5 DEF ReadBegin, ReadNode, clockVars, ledVars
    <2>6. QED  BY <2>2, <2>3, <2>4, <2>5
  <1>4. TypeOK'
    BY <1>1, <1>2, <1>3 DEF TypeOK
  <1>5. HandlerFits' /\ RunFits' /\ OverlapSeen' /\ ToggleKept' /\ TogglesCounted' /\ NodesCounted'
    BY <1>1, <1>2 DEF HandlerFits, RunFits, OverlapSeen, ToggleKept, TogglesCounted, NodesCounted, Running
  <1>6. LedFollows'
    BY <1>1, <1>2, <1>3 DEF LedFollows
  <1>7. QED  BY <1>4, <1>5, <1>6 DEF IInv

(* An interrupt that comes finds no handler at work. *)
LEMMA ArrivalInv ==
  ASSUME IInv, NEW cpu \in Cpus, Reject(cpu) \/ Accept(cpu) \/ HwmRead(cpu)
  PROVE  IInv'
  <1>1. /\ drv' = drv /\ Driver' = Driver /\ (Deferred' <=> Deferred)
        /\ UNCHANGED <<fn, pending, nodes, merged, oops, led_toggle, led, parity, overlap, wrote>>
    BY SameDriver DEF Reject, Accept, HwmRead, ledVars, workVars
  <1>2. TypeOK /\ drv \in Drivers
    BY DEF IInv, TypeOK
  <1>3. /\ (Driver.debounces => Driver.work = "toggle")
        /\ (Driver.work = "append" => Deferred)
    BY <1>2, DriverFacts
  <1>4. /\ irq' \in [pc : IrqSteps, cpu : Cpus \cup {"none"}] /\ owed' \subseteq Places
        /\ HandlerFits'
        /\ irq.pc = "set" <=> irq'.pc = "set"
        /\ irqs' \in 0..MaxIrqs /\ irqs' = irqs + (IF irqs' = irqs THEN 0 ELSE 1)
    <2> USE <1>1 DEF HandlerFits, Idle, IrqSteps
    <2>1. irq \in [pc : IrqSteps, cpu : Cpus \cup {"none"}] /\ owed \subseteq Places /\ HandlerFits
          /\ irqs \in 0..MaxIrqs /\ MaxIrqs \in Nat
      BY BoundAssumption DEF IInv, TypeOK
    <2>2. CASE Reject(cpu)
      BY <2>1, <2>2 DEF Reject, Arrives
    <2>3. CASE Accept(cpu)
      BY <2>1, <2>3 DEF Accept, Arrives, Owe, PlaceOf, Places
    <2>4. CASE HwmRead(cpu)
      BY <2>1, <2>4 DEF HwmRead, Arrives, Owe, PlaceOf, Places
    <2>5. QED  BY <2>2, <2>3, <2>4
  <1>5. time' \in 0..MaxTime /\ old_jiffy' \in 0..(Wrap - 1) /\ stamp' \in 0..MaxTime \cup {Never}
    BY <1>2, BoundAssumption DEF TypeOK, Reject, Accept, HwmRead, clockVars
  <1>6. TypeOK'
    BY <1>1, <1>2, <1>4, <1>5 DEF TypeOK, IrqSteps
  <1>7. RunFits' /\ OverlapSeen' /\ ToggleKept' /\ TogglesCounted'
    BY <1>1 DEF IInv, RunFits, OverlapSeen, ToggleKept, TogglesCounted, Running
  <1>8. LedFollows'
    BY <1>1, <1>4 DEF IInv, LedFollows
  <1>9. NodesCounted'
    <2>1. CASE Driver.work # "append"
      BY <1>1, <2>1 DEF NodesCounted
    <2>2. CASE Driver.work = "append"
      <3>1. HwmRead(cpu)
        BY <1>3, <2>2 DEF Reject, Accept, HwmRead
      <3>2. irq = Idle /\ irq' # Idle /\ irqs' = irqs + 1
        BY <1>3, <2>2, <3>1 DEF HwmRead, Arrives, Idle
      <3>3. QED  BY <1>1, <1>2, <3>2 DEF IInv, NodesCounted, TypeOK, Running
    <2>3. QED  BY <2>1, <2>2
  <1>10. QED  BY <1>4, <1>6, <1>7, <1>8, <1>9 DEF IInv

(* A handler goes on to what its driver has it do. *)
LEMMA HandlerInv ==
  ASSUME IInv, Handler
  PROVE  IInv'
  <1>1. /\ drv' = drv /\ Driver' = Driver /\ (Deferred' <=> Deferred)
        /\ UNCHANGED <<fn, nodes, oops, overlap, irqs, owed, time>>
    BY SameDriver DEF Handler, Stamp, Raise, HandlerToggle, HandlerSet, ledVars, workVars, clockVars
  <1>2. TypeOK /\ HandlerFits /\ RunFits /\ OverlapSeen /\ ToggleKept /\ LedFollows
        /\ TogglesCounted /\ NodesCounted
    BY DEF IInv
  <1>3. irq \in [pc : IrqSteps, cpu : Cpus \cup {"none"}] /\ time \in Nat /\ drv \in Drivers
    BY <1>2, BoundAssumption DEF TypeOK, IrqSteps
  <1>4. CASE Stamp
    <2>1. UNCHANGED <<pending, merged, led_toggle, led, parity, wrote>>
      BY <1>4 DEF Stamp, ledVars, workVars
    <2>2. irq.pc = "stamp" /\ irq' \in [pc : IrqSteps, cpu : Cpus \cup {"none"}]
          /\ irq'.pc = (IF Deferred THEN "raise" ELSE "toggle") /\ irq'.cpu = irq.cpu
      BY <1>3, <1>4 DEF Stamp, IrqSteps
    <2>3. HandlerFits'
      BY <1>1, <1>2, <2>2 DEF HandlerFits, Idle
    <2>4. old_jiffy' \in 0..(Wrap - 1) /\ stamp' = time
      BY <1>3, <1>4, JiffiesType DEF Stamp
    <2>5. TypeOK'
      BY <1>1, <1>2, <2>1, <2>2, <2>4 DEF TypeOK, IrqSteps
    <2>6. RunFits' /\ OverlapSeen' /\ ToggleKept' /\ TogglesCounted' /\ LedFollows'
      BY <1>1, <1>2, <2>1, <2>2 DEF RunFits, OverlapSeen, ToggleKept, TogglesCounted, Running, LedFollows
    <2>7. NodesCounted'
      BY <1>1, <1>2, <1>3, <2>1, <2>2, DriverFacts DEF HandlerFits, NodesCounted
    <2>8. QED  BY <2>3, <2>5, <2>6, <2>7 DEF IInv
  <1>5. CASE Raise
    <2> DEFINE place == PlaceOf(irq.cpu)
    <2>1. UNCHANGED <<led_toggle, led, parity, wrote, old_jiffy, stamp>> /\ irq' = Idle
          /\ irq.pc = "raise" /\ irq # Idle /\ Deferred
          /\ pending' = pending \cup {place}
          /\ merged' = (IF place \in pending THEN merged + 1 ELSE merged)
      BY <1>2, <1>5 DEF Raise, ledVars, clockVars, HandlerFits, Idle
    <2>2. place \in Places /\ (Driver.runner # "softirq" => place = NoCpu)
      BY <1>2, <2>1 DEF PlaceOf, Places, HandlerFits
    <2>3. HandlerFits'
      BY <2>1 DEF HandlerFits, Idle
    <2>4. TypeOK'
      BY <1>1, <1>2, <2>1, <2>2 DEF TypeOK, Idle
    <2>5. RunFits'
      BY <1>1, <1>2, <2>1, <2>2 DEF RunFits, Running
    <2>6. OverlapSeen' /\ ToggleKept' /\ TogglesCounted' /\ LedFollows'
      BY <1>1, <1>2, <2>1 DEF OverlapSeen, ToggleKept, TogglesCounted, Running, LedFollows
    <2>7. NodesCounted'
      <3>1. Driver.work = "append" => place = NoCpu
        BY <1>3, <2>2, DriverFacts
      <3>2. QED  BY <1>1, <1>2, <2>1, <3>1 DEF NodesCounted, TypeOK, Running
    <2>8. QED  BY <2>3, <2>4, <2>5, <2>6, <2>7 DEF IInv
  <1>6. CASE HandlerToggle
    <2>1. UNCHANGED <<pending, merged, led, wrote, old_jiffy, stamp>>
          /\ irq.pc = "toggle" /\ ~Deferred /\ Driver.debounces
          /\ irq' \in [pc : IrqSteps, cpu : Cpus \cup {"none"}]
          /\ irq'.pc = "set" /\ irq'.cpu = irq.cpu /\ irq.cpu \in Cpus
          /\ led_toggle' = 1 - led_toggle /\ parity' = 1 - parity
      BY <1>2, <1>3, <1>6 DEF HandlerToggle, HandlerFits, Idle, workVars, clockVars, IrqSteps
    <2>2. \A p \in Places : fn[p].pc = "idle"
      BY <1>2, <2>1 DEF RunFits, Running
    <2>3. HandlerFits'
      BY <1>1, <2>1 DEF HandlerFits, Idle
    <2>4. led_toggle' \in {0, 1} /\ parity' \in {0, 1}
      BY <1>2, <2>1 DEF TypeOK
    <2>5. TypeOK'
      BY <1>1, <1>2, <2>1, <2>4 DEF TypeOK, IrqSteps
    <2>6. RunFits' /\ OverlapSeen' /\ ToggleKept' /\ LedFollows'
      BY <1>1, <1>2, <2>1, <2>2 DEF RunFits, OverlapSeen, ToggleKept, LedFollows, Running
    <2>7. TogglesCounted'
      BY <1>1, <1>2, <2>1 DEF TogglesCounted, TypeOK
    <2>8. NodesCounted'
      BY <1>1, <1>3, <2>1, DriverFacts DEF NodesCounted
    <2>9. QED  BY <2>3, <2>5, <2>6, <2>7, <2>8 DEF IInv
  <1>7. CASE HandlerSet
    <2>1. UNCHANGED <<pending, merged, led_toggle, parity, old_jiffy, stamp>>
          /\ irq.pc = "set" /\ ~Deferred /\ Driver.debounces /\ irq' = Idle
          /\ led' = led_toggle /\ wrote' = FALSE
      BY <1>2, <1>7 DEF HandlerSet, HandlerFits, workVars, clockVars
    <2>2. HandlerFits'
      BY <2>1 DEF HandlerFits, Idle
    <2>3. TypeOK'
      BY <1>1, <1>2, <2>1 DEF TypeOK, Idle
    <2>4. RunFits' /\ OverlapSeen' /\ ToggleKept' /\ LedFollows' /\ TogglesCounted'
      BY <1>1, <1>2, <2>1 DEF RunFits, OverlapSeen, ToggleKept, LedFollows, TogglesCounted, Running
    <2>5. NodesCounted'
      BY <1>1, <1>3, <2>1, DriverFacts DEF NodesCounted
    <2>6. QED  BY <2>2, <2>3, <2>4, <2>5 DEF IInv
  <1>8. QED  BY <1>4, <1>5, <1>6, <1>7 DEF Handler

(* Work that starts takes the only place its driver runs it in, or overlaps. *)
LEMMA StartInv ==
  ASSUME IInv, NEW p \in Places, Start(p)
  PROVE  IInv'
  <1>1. /\ drv' = drv /\ Driver' = Driver /\ (Deferred' <=> Deferred)
        /\ UNCHANGED <<irq, irqs, merged, nodes, oops, led_toggle, led, parity, wrote, time, old_jiffy, stamp>>
    BY SameDriver DEF Start, clockVars
  <1>2. TypeOK /\ HandlerFits /\ RunFits /\ OverlapSeen /\ ToggleKept /\ LedFollows
        /\ TogglesCounted /\ NodesCounted /\ drv \in Drivers
    BY DEF IInv, TypeOK
  <1>3. p \in pending /\ fn[p].pc = "idle" /\ pending' = pending \ {p} /\ owed' = owed \ {p}
        /\ fn' = [fn EXCEPT ![p] = [pc |-> Driver.work, toggle |-> led_toggle]]
        /\ overlap' = (overlap \/ \E q \in Places \ {p} : Running(q))
    BY DEF Start, At
  <1>4. fn \in [Places -> [pc : FnSteps, toggle : {0, 1}]] /\ led_toggle \in {0, 1}
    BY <1>2 DEF TypeOK, FnSteps
  <1>5. Deferred /\ Driver.work \in FnSteps \ {"idle", "set"}
    BY <1>2, <1>3, DriverFacts DEF RunFits
  <1>6. fn' \in [Places -> [pc : FnSteps, toggle : {0, 1}]]
        /\ fn'[p].pc = Driver.work /\ fn'[p].toggle = led_toggle
        /\ \A q \in Places \ {p} : fn'[q] = fn[q]
    BY <1>3, <1>4, <1>5
  <1>7. Running(p)' /\ ~Running(p) /\ \A q \in Places \ {p} : Running(q)' <=> Running(q)
    BY <1>3, <1>5, <1>6 DEF Running
  <1>8. overlap' \in BOOLEAN /\ (overlap => overlap')
        /\ \A q \in Places \ {p} : Running(q) => overlap'
    BY <1>2, <1>3 DEF TypeOK
  <1>9. TypeOK'
    BY <1>1, <1>2, <1>3, <1>6, <1>8 DEF TypeOK, FnSteps
  <1>10. HandlerFits' /\ OverlapSeen'
    <2>1. HandlerFits'
      BY <1>1, <1>2 DEF HandlerFits
    <2>2. OverlapSeen'
      BY <1>2, <1>7, <1>8 DEF OverlapSeen
    <2>3. QED  BY <2>1, <2>2
  <1>11. RunFits'
    <2>1. ASSUME Driver.runner # "softirq"
          PROVE  p = NoCpu /\ ~overlap'
      BY <2>1, <1>2, <1>3 DEF RunFits
    <2>2. QED  BY <1>1, <1>2, <1>3, <1>5, <1>6, <1>7, <2>1 DEF RunFits
  <1>12. ToggleKept'
    BY <1>1, <1>2, <1>6, <1>8 DEF ToggleKept
  <1>13. TogglesCounted'
    BY <1>1, <1>2, <1>8 DEF TogglesCounted
  <1>14. LedFollows'
    BY <1>1, <1>2, <1>3, <1>6, <1>8 DEF LedFollows
  <1>15. NodesCounted'
    <2>1. CASE Driver.work # "append"
      BY <1>1, <2>1 DEF NodesCounted
    <2>2. CASE Driver.work = "append"
      <3>1. p = NoCpu
        BY <1>2, <1>3, <2>2, DriverFacts DEF RunFits
      <3>2. NoCpu \in pending /\ NoCpu \notin pending' /\ ~Running(NoCpu) /\ Running(NoCpu)'
        BY <1>3, <1>7, <3>1
      <3>3. QED  BY <1>1, <1>2, <2>2, <3>2 DEF NodesCounted, TypeOK
    <2>3. QED  BY <2>1, <2>2
  <1>16. QED  BY <1>9, <1>10, <1>11, <1>12, <1>13, <1>14, <1>15 DEF IInv

(* Work that goes on or ends leaves the marks alone, and keeps its toggle. *)
LEMMA WorkInv ==
  ASSUME IInv, NEW p \in Places, Log(p) \/ AppendNode(p) \/ Toggle(p) \/ SetLed(p)
  PROVE  IInv'
  <1>1. /\ drv' = drv /\ Driver' = Driver /\ (Deferred' <=> Deferred)
        /\ UNCHANGED <<irq, irqs, pending, owed, merged, overlap, time, old_jiffy, stamp>>
    BY SameDriver DEF Log, AppendNode, Toggle, SetLed, ledVars, clockVars
  <1>2. TypeOK /\ HandlerFits /\ RunFits /\ OverlapSeen /\ ToggleKept /\ LedFollows
        /\ TogglesCounted /\ NodesCounted /\ drv \in Drivers
    BY DEF IInv, TypeOK
  <1>3. fn \in [Places -> [pc : FnSteps, toggle : {0, 1}]] /\ led_toggle \in {0, 1}
        /\ parity \in {0, 1} /\ led \in {0, 1} /\ nodes \in Nat
    BY <1>2 DEF TypeOK, FnSteps
  <1>4. HandlerFits'
    BY <1>1, <1>2 DEF HandlerFits
  <1>5. Running(p)
    BY DEF Log, AppendNode, Toggle, SetLed, At, Running
  (* What is left to show when the run ends. *)
  <1>6. ASSUME fn' = [fn EXCEPT ![p] = IdleFn]
        PROVE  /\ fn' \in [Places -> [pc : FnSteps, toggle : {0, 1}]]
               /\ ~Running(p)' /\ (\A q \in Places \ {p} : fn'[q] = fn[q])
               /\ fn'[p].pc = "idle"
               /\ RunFits' /\ OverlapSeen'
    <2>1. /\ fn' \in [Places -> [pc : FnSteps, toggle : {0, 1}]]
          /\ fn'[p].pc = "idle" /\ \A q \in Places \ {p} : fn'[q] = fn[q]
      BY <1>3, <1>6 DEF IdleFn, FnSteps
    <2>2. ~Running(p)' /\ \A q \in Places : Running(q)' => Running(q) /\ fn'[q] = fn[q]
      BY <2>1 DEF Running
    <2>3. RunFits'
      BY <1>1, <1>2, <2>2 DEF RunFits
    <2>4. OverlapSeen'
      BY <1>1, <1>2, <2>2 DEF OverlapSeen
    <2>5. QED  BY <2>1, <2>2, <2>3, <2>4
  <1>7. CASE Log(p)
    <2>1. fn' = [fn EXCEPT ![p] = IdleFn] /\ fn[p].pc = "log"
          /\ UNCHANGED <<nodes, oops, led_toggle, led, parity, wrote>>
      BY <1>7 DEF Log, Finish, At, ledVars
    <2>2. TypeOK'
      BY <1>1, <1>2, <1>6, <2>1 DEF TypeOK, FnSteps
    <2>3. ToggleKept' /\ TogglesCounted' /\ LedFollows'
      BY <1>1, <1>2, <1>6, <2>1 DEF ToggleKept, TogglesCounted, LedFollows
    <2>4. Driver.work = "log"
      BY <1>2, <1>5, <2>1 DEF RunFits
    <2>5. NodesCounted'
      BY <1>1, <2>4 DEF NodesCounted
    <2>6. QED  BY <1>4, <1>6, <2>1, <2>2, <2>3, <2>5 DEF IInv
  <1>8. CASE AppendNode(p)
    <2>1. fn[p].pc = "append" /\ UNCHANGED <<led_toggle, led, parity, wrote>>
          /\ \/ nodes' = nodes + 1 /\ oops' = oops /\ fn' = [fn EXCEPT ![p] = IdleFn]
             \/ oops' = TRUE /\ nodes' = nodes /\ fn' = fn
      BY <1>8 DEF AppendNode, Finish, At, ledVars
    <2>2. CASE fn' = fn /\ oops' = TRUE /\ nodes' = nodes
      <3>1. TypeOK'
        BY <1>1, <1>2, <2>1, <2>2 DEF TypeOK
      <3>2. RunFits' /\ OverlapSeen' /\ ToggleKept' /\ TogglesCounted' /\ LedFollows' /\ NodesCounted'
        BY <1>1, <1>2, <2>1, <2>2
           DEF RunFits, OverlapSeen, ToggleKept, TogglesCounted, LedFollows, NodesCounted, Running
      <3>3. QED  BY <1>4, <3>1, <3>2 DEF IInv
    <2>3. CASE nodes' = nodes + 1 /\ oops' = oops /\ fn' = [fn EXCEPT ![p] = IdleFn]
      <3>1. TypeOK'
        BY <1>1, <1>2, <1>6, <2>1, <2>3 DEF TypeOK, FnSteps
      <3>2. ToggleKept' /\ TogglesCounted' /\ LedFollows'
        BY <1>1, <1>2, <1>6, <2>1, <2>3 DEF ToggleKept, TogglesCounted, LedFollows
      <3>3. Driver.work = "append"
        BY <1>2, <1>5, <2>1 DEF RunFits
      <3>4. p = NoCpu
        BY <1>2, <1>5, <3>3, DriverFacts DEF RunFits
      <3>5. Running(NoCpu) /\ ~Running(NoCpu)'
        BY <1>5, <1>6, <2>3, <3>4
      <3>6. NodesCounted'
        BY <1>1, <1>2, <2>3, <3>5 DEF NodesCounted, TypeOK
      <3>7. QED  BY <1>4, <1>6, <2>3, <3>1, <3>2, <3>6 DEF IInv
    <2>4. QED  BY <2>1, <2>2, <2>3
  <1>9. CASE Toggle(p)
    <2>1. /\ fn[p].pc = "toggle" /\ UNCHANGED <<nodes, oops, led, wrote>>
          /\ led_toggle' = 1 - fn[p].toggle /\ parity' = 1 - parity
          /\ fn' = [fn EXCEPT ![p] = [pc |-> "set", toggle |-> led_toggle']]
      BY <1>9 DEF Toggle, At
    <2>2. /\ fn[p].toggle \in {0, 1} /\ led_toggle' \in {0, 1} /\ parity' \in {0, 1}
          /\ fn[p].toggle = led_toggle => led_toggle' = 1 - led_toggle
      BY <1>3, <2>1
    <2>3. fn' \in [Places -> [pc : FnSteps, toggle : {0, 1}]]
          /\ fn'[p].pc = "set" /\ fn'[p].toggle = led_toggle'
          /\ \A q \in Places \ {p} : fn'[q] = fn[q]
      BY <1>3, <2>1, <2>2 DEF FnSteps
    <2>4. TypeOK'
      BY <1>1, <1>2, <2>1, <2>2, <2>3 DEF TypeOK, FnSteps
    <2>5. Driver.work = "toggle"
      BY <1>2, <1>5, <1>3, <2>1 DEF RunFits
    <2>6. \A q \in Places : Running(q)' <=> Running(q)
      BY <1>5, <2>3 DEF Running
    <2>7. RunFits' /\ OverlapSeen'
      BY <1>1, <1>2, <2>3, <2>5, <2>6 DEF RunFits, OverlapSeen
    <2>8. ToggleKept'
      <3>1. \A q \in Places \ {p} : fn[q].pc \in {"toggle", "set"} => overlap
        BY <1>2, <1>5 DEF OverlapSeen, Running
      <3>2. QED  BY <1>1, <2>3, <3>1 DEF ToggleKept
    <2>9. TogglesCounted'
      <3>1. CASE overlap
        <4>1. Driver.runner = "softirq"
          BY <1>2, <3>1 DEF RunFits
        <4>2. QED  BY <1>1, <3>1, <4>1 DEF TogglesCounted
      <3>2. CASE ~overlap
        <4>1. fn[p].toggle = led_toggle /\ led_toggle = parity
          BY <1>2, <2>1, <3>2 DEF ToggleKept, TogglesCounted
        <4>2. led_toggle' = parity'
          BY <2>1, <2>2, <4>1
        <4>3. QED  BY <4>2 DEF TogglesCounted
      <3>3. QED  BY <3>1, <3>2
    <2>10. LedFollows'
      BY <2>3 DEF LedFollows
    <2>11. NodesCounted'
      BY <1>1, <2>5 DEF NodesCounted
    <2>12. QED  BY <1>4, <2>4, <2>7, <2>8, <2>9, <2>10, <2>11 DEF IInv
  <1>10. CASE SetLed(p)
    <2>1. /\ fn[p].pc = "set" /\ UNCHANGED <<nodes, oops, led_toggle, parity>>
          /\ led' \in {led_toggle, fn[p].toggle} /\ wrote' = FALSE
          /\ fn' = [fn EXCEPT ![p] = IdleFn]
      BY <1>10 DEF SetLed, Finish, At
    <2>2. led' \in {0, 1} /\ (led' = led_toggle \/ overlap)
      BY <1>2, <1>3, <2>1 DEF ToggleKept
    <2>3. TypeOK'
      BY <1>1, <1>2, <1>6, <2>1, <2>2 DEF TypeOK, FnSteps
    <2>4. ToggleKept' /\ TogglesCounted' /\ LedFollows'
      BY <1>1, <1>2, <1>6, <2>1, <2>2 DEF ToggleKept, TogglesCounted, LedFollows
    <2>5. Driver.work # "append"
      BY <1>2, <1>5, <2>1, DriverFacts DEF RunFits
    <2>6. NodesCounted'
      BY <1>1, <2>5 DEF NodesCounted
    <2>7. QED  BY <1>4, <1>6, <2>1, <2>3, <2>4, <2>6 DEF IInv
  <1>11. QED  BY <1>7, <1>8, <1>9, <1>10

(* The inductive invariant holds in every state. *)
LEMMA Invariance == Spec => []IInv
  <1>1. IInv /\ [Next]_vars => IInv'
    BY QuietInv, ArrivalInv, HandlerInv, StartInv, WorkInv DEF Next, Run
  <1>2. QED  BY <1>1, InvInit, PTL DEF Spec

(* The walk of hwm_read goes to the last node at most, and the list only grows. *)
LEMMA WalkInv ==
  ASSUME IInv, WalkInList, [Next]_vars
  PROVE  WalkInList'
  <1>1. nodes \in Nat /\ walk \in -1..nodes
    BY DEF IInv, TypeOK, WalkInList, NoWalk
  <1>2. CASE ReadBegin \/ ReadNode
    <2>1. nodes' = nodes /\ walk' \in -1..nodes
      BY <1>1, <1>2 DEF ReadBegin, ReadNode, NoWalk, workVars
    <2>2. QED  BY <2>1 DEF WalkInList, NoWalk
  <1>3. CASE \E cpu \in Cpus : HwmRead(cpu)
    <2>1. nodes' = nodes /\ walk' \in {walk, -1}
      BY <1>3 DEF HwmRead, NoWalk, workVars
    <2>2. QED  BY <1>1, <2>1 DEF WalkInList, NoWalk
  <1>4. ASSUME walk' = walk, nodes' = nodes \/ nodes' = nodes + 1 PROVE WalkInList'
    BY <1>1, <1>4 DEF WalkInList, NoWalk
  <1>5. CASE Tick \/ UNCHANGED vars
    BY <1>4, <1>5 DEF Tick, vars, workVars
  <1>6. CASE \E cpu \in Cpus : Reject(cpu) \/ Accept(cpu)
    BY <1>4, <1>6 DEF Reject, Accept, workVars
  <1>7. CASE Handler
    BY <1>4, <1>7 DEF Handler, Stamp, Raise, HandlerToggle, HandlerSet, workVars
  <1>8. CASE \E p \in Places : Run(p)
    BY <1>4, <1>8 DEF Run, Start, Log, AppendNode, Toggle, SetLed
  <1>9. CASE \E level \in {0, 1} : HwmWrite(level)
    BY <1>4, <1>9 DEF HwmWrite, workVars
  <1>10. QED  BY <1>2, <1>3, <1>5, <1>6, <1>7, <1>8, <1>9 DEF Next

-----------------------------------------------------------------------------
(* No interrupt and no run of deferred work is lost or counted twice. *)
THEOREM AlwaysCounted == Spec => []WorkCounted
  <1>1. IInv /\ WalkInList => WorkCounted
    <2> SUFFICES ASSUME IInv, WalkInList PROVE WorkCounted
      OBVIOUS
    <2>1. TypeOK /\ TogglesCounted /\ NodesCounted /\ LedFollows
      BY DEF IInv
    <2>2. LedShowsToggle
      BY <2>1 DEF LedFollows, LedShowsToggle, Quiet, Running, Idle
    <2>3. QED  BY <2>1, <2>2 DEF WorkCounted
  <1>2. Init => WalkInList
    BY DEF Init, WalkInList, NoWalk
  <1>3. IInv /\ WalkInList /\ [Next]_vars => WalkInList'
    BY WalkInv
  <1>4. QED  BY <1>1, <1>2, <1>3, Invariance, PTL DEF Spec

(* Division with remainder. *)
LEMMA Division ==
  ASSUME NEW x \in Int, NEW w \in Nat, w > 0
  PROVE  x % w \in 0..(w - 1) /\ x = (w * (x \div w)) + (x % w) /\ x \div w \in Int
  OBVIOUS

(* A multiple of w is 0, or w at least, or -w at most. *)
LEMMA Multiples ==
  ASSUME NEW w \in Nat, w > 0, NEW k \in Int
  PROVE  k = 0 \/ w * k >= w \/ w * k <= -w
  <1>1. ASSUME NEW a \in Nat, NEW b \in Nat PROVE a * b \in Nat
    OBVIOUS
  <1>2. CASE k >= 1
    <2>1. w * (k - 1) >= 0
      BY <1>1, <1>2
    <2>2. w * k = w * (k - 1) + w
      OBVIOUS
    <2>3. w * (k - 1) \in Int /\ w * k \in Int
      OBVIOUS
    <2>4. QED  BY <2>1, <2>2, <2>3
  <1>3. CASE k <= -1
    <2>1. w * (-1 - k) >= 0
      BY <1>1, <1>3
    <2>2. w * k = -w - w * (-1 - k)
      OBVIOUS
    <2>3. w * (-1 - k) \in Int /\ w * k \in Int
      OBVIOUS
    <2>4. QED  BY <2>1, <2>2, <2>3
  <1>4. QED  BY <1>2, <1>3

(* The difference of two counters that wrap, taken modulo their width, is the time
   between them, or that much less whole rounds. *)
LEMMA WrappedDifference ==
  ASSUME NEW w \in Nat, w > 0, NEW a \in Int, NEW b \in Int, b <= a
  PROVE  LET d == ((a % w) - (b % w)) % w
         IN  d \in 0..(w - 1) /\ d <= a - b /\ (d = a - b \/ a - b >= w)
  <1> DEFINE r == a % w
             s == b % w
             d == (r - s) % w
             k == a \div w
             m == b \div w
             n == (r - s) \div w
  <1>1. r \in 0..(w - 1) /\ a = w * k + r /\ k \in Int
    BY Division
  <1>2. s \in 0..(w - 1) /\ b = w * m + s /\ m \in Int
    BY Division
  <1>3. r - s \in Int
    BY <1>1, <1>2
  <1>4. d \in 0..(w - 1) /\ r - s = w * n + d /\ n \in Int
    BY <1>3, Division
  <1> HIDE DEF r, s, d, k, m, n
  <1> DEFINE rounds == k - m + n
  <1>5. rounds \in Int
    BY <1>1, <1>2, <1>4
  <1>6. a - b = w * rounds + d
    <2>1. a - b = w * k - w * m + (r - s)
      BY <1>1, <1>2
    <2>2. a - b = w * k - w * m + w * n + d
      BY <1>1, <1>2, <1>4, <2>1
    <2>3. w * rounds = w * k - w * m + w * n
      BY <1>1, <1>2, <1>4
    <2>4. QED  BY <1>1, <1>2, <1>4, <2>2, <2>3
  <1> HIDE DEF rounds
  <1>7. rounds = 0 \/ w * rounds >= w \/ w * rounds <= -w
    BY <1>5, Multiples
  <1>8. w * rounds \in Int /\ (rounds = 0 => w * rounds = 0)
    BY <1>5
  <1>9. d <= a - b /\ (d = a - b \/ a - b >= w)
    BY <1>4, <1>6, <1>7, <1>8
  <1>10. d = ((a % w) - (b % w)) % w
    BY DEF d, r, s
  <1>11. QED  BY <1>4, <1>9, <1>10

(* old_jiffy stays what jiffies were when it was set. *)
LEMMA ClockInv ==
  ASSUME IInv, ClockKept, [Next]_vars
  PROVE  ClockKept'
  <1>1. time \in Nat /\ stamp \in Nat \cup {Never}
    BY BoundAssumption DEF IInv, TypeOK
  <1>2. CASE Tick
    BY <1>1, <1>2 DEF Tick, ClockKept, Never
  <1>3. CASE Stamp
    BY <1>1, <1>3 DEF Stamp, ClockKept, Jiffies, Never
  <1>4. CASE UNCHANGED <<time, old_jiffy, stamp>>
    BY <1>4 DEF ClockKept
  <1>5. ASSUME ~Tick, ~Stamp PROVE UNCHANGED <<time, old_jiffy, stamp>>
    <2>1. CASE \E cpu \in Cpus : Reject(cpu) \/ Accept(cpu) \/ HwmRead(cpu)
      BY <2>1 DEF Reject, Accept, HwmRead, clockVars
    <2>2. CASE Raise \/ HandlerToggle \/ HandlerSet
      BY <2>2 DEF Raise, HandlerToggle, HandlerSet, clockVars
    <2>3. CASE \E p \in Places : Run(p)
      BY <2>3 DEF Run, Start, Log, AppendNode, Toggle, SetLed, clockVars
    <2>4. CASE \E level \in {0, 1} : HwmWrite(level)
      BY <2>4 DEF HwmWrite, clockVars
    <2>5. CASE UNCHANGED vars
      BY <2>5 DEF vars
    <2>6. CASE ReadBegin \/ ReadNode
      BY <2>6 DEF ReadBegin, ReadNode, clockVars
    <2>7. QED  BY <1>5, <2>1, <2>2, <2>3, <2>4, <2>5, <2>6 DEF Next, Handler
  <1>6. QED  BY <1>2, <1>3, <1>4, <1>5

(* An LED that is about to be set shows the old toggle. *)
LEMMA BehindInv ==
  ASSUME IInv, LedBehind, [Next]_vars
  PROVE  LedBehind'
  <1>1. TypeOK /\ HandlerFits /\ RunFits /\ OverlapSeen /\ ToggleKept /\ LedFollows
    BY DEF IInv
  <1>2. led \in {0, 1} /\ led_toggle \in {0, 1}
        /\ fn \in [Places -> [pc : FnSteps, toggle : {0, 1}]]
        /\ irq \in [pc : IrqSteps, cpu : Cpus \cup {"none"}]
    BY <1>1 DEF TypeOK, FnSteps, IrqSteps
  <1>3. ASSUME UNCHANGED <<fn, led_toggle, led, overlap, wrote>>, irq'.pc = "set" => irq.pc = "set"
        PROVE  LedBehind'
    BY <1>3 DEF LedBehind
  <1>4. CASE Tick \/ ReadBegin \/ ReadNode \/ UNCHANGED vars
    BY <1>3, <1>4 DEF Tick, ReadBegin, ReadNode, vars, ledVars, workVars
  <1>5. CASE \E cpu \in Cpus : Reject(cpu) \/ Accept(cpu) \/ HwmRead(cpu)
    BY <1>3, <1>5 DEF Reject, Accept, HwmRead, Idle, ledVars, workVars
  <1>6. CASE \E level \in {0, 1} : HwmWrite(level)
    BY <1>6 DEF HwmWrite, LedBehind
  <1>7. CASE Stamp
    <2>1. irq'.pc \in {"raise", "toggle"}
      BY <1>2, <1>7 DEF Stamp
    <2>2. QED  BY <1>3, <1>7, <2>1 DEF Stamp, ledVars, workVars
  <1>8. CASE Raise
    BY <1>3, <1>8 DEF Raise, Idle, ledVars
  <1>9. CASE HandlerToggle
    <2>1. irq.pc = "toggle" /\ ~Deferred /\ led_toggle' = 1 - led_toggle
          /\ UNCHANGED <<led, overlap, wrote>>
      BY <1>1, <1>9 DEF HandlerToggle, HandlerFits
    <2>2. \A p \in Places : fn[p].pc = "idle"
      BY <1>1, <2>1 DEF RunFits, Running
    <2>3. led = led_toggle \/ wrote \/ overlap
      BY <1>1, <2>1, <2>2 DEF LedFollows
    <2>4. led = led_toggle => led # led_toggle'
      BY <1>2, <2>1
    <2>5. QED  BY <2>1, <2>3, <2>4 DEF LedBehind
  <1>10. CASE HandlerSet
    <2>1. irq.pc = "set" /\ irq' = Idle /\ fn' = fn
      BY <1>10 DEF HandlerSet, workVars
    <2>2. \A p \in Places : fn[p].pc = "idle"
      BY <1>1, <2>1 DEF HandlerFits, RunFits, Running
    <2>3. QED  BY <2>1, <2>2 DEF LedBehind, Idle
  <1>11. ASSUME NEW p \in Places, Start(p) \/ Log(p) \/ AppendNode(p) PROVE LedBehind'
    <2>1. UNCHANGED <<irq, led_toggle, led, wrote>> /\ (overlap => overlap')
      <3>1. UNCHANGED <<irq, led_toggle, led, wrote>>
        BY <1>11 DEF Start, Log, AppendNode, ledVars
      <3>2. CASE Start(p)
        BY <3>1, <3>2, Zenon DEF Start
      <3>3. CASE Log(p) \/ AppendNode(p)
        BY <3>1, <3>3 DEF Log, AppendNode, ledVars
      <3>4. QED  BY <1>11, <3>1, <3>2, <3>3
    <2>2. fn[p].pc # "set" /\ fn'[p].pc # "set" /\ \A q \in Places \ {p} : fn'[q] = fn[q]
      <3>1. CASE Start(p)
        <4>1. /\ fn[p].pc = "idle" /\ fn' = [fn EXCEPT ![p] = [pc |-> Driver.work, toggle |-> led_toggle]]
              /\ p \in pending
          BY <3>1 DEF Start, At
        <4>2. Driver.work # "set"
          BY <4>1, <1>1, DriverFacts DEF RunFits, TypeOK
        <4>3. QED  BY <1>2, <4>1, <4>2
      <3>2. CASE Log(p) \/ AppendNode(p)
        BY <1>2, <3>2 DEF Log, AppendNode, At, Finish, IdleFn
      <3>3. QED  BY <1>11, <3>1, <3>2
    <2>3. QED  BY <2>1, <2>2 DEF LedBehind
  <1>12. ASSUME NEW p \in Places, Toggle(p) PROVE LedBehind'
    <2>1. /\ fn[p].pc = "toggle" /\ UNCHANGED <<irq, led, wrote, overlap>>
          /\ led_toggle' = 1 - fn[p].toggle
      BY <1>12 DEF Toggle, At
    <2>2. CASE ~overlap
      <3>1. \A q \in Places \ {p} : fn[q].pc = "idle"
        BY <1>1, <2>1, <2>2 DEF OverlapSeen, Running
      <3>2. irq.pc # "set"
        BY <1>1, <2>1 DEF HandlerFits, RunFits, Running
      <3>3. led = led_toggle \/ wrote
        BY <1>1, <2>1, <2>2, <3>1, <3>2 DEF LedFollows
      <3>4. fn[p].toggle = led_toggle
        BY <1>1, <2>1, <2>2 DEF ToggleKept
      <3>5. led = led_toggle => led # led_toggle'
        BY <1>2, <2>1, <3>4
      <3>6. QED  BY <2>1, <3>3, <3>5 DEF LedBehind
    <2>3. QED  BY <2>1, <2>2 DEF LedBehind
  <1>13. ASSUME NEW p \in Places, SetLed(p) PROVE LedBehind'
    <2>1. /\ fn[p].pc = "set" /\ UNCHANGED <<irq, overlap>>
          /\ fn' = [fn EXCEPT ![p] = IdleFn]
      BY <1>13 DEF SetLed, At, Finish
    <2>2. irq'.pc # "set"
      BY <1>1, <2>1 DEF HandlerFits, RunFits, Running
    <2>3. CASE ~overlap
      <3>1. \A q \in Places \ {p} : fn[q].pc = "idle"
        BY <1>1, <2>1, <2>3 DEF OverlapSeen, Running
      <3>2. \A q \in Places : fn'[q].pc = "idle"
        BY <1>2, <2>1, <3>1 DEF IdleFn
      <3>3. QED  BY <2>2, <3>2 DEF LedBehind
    <2>4. QED  BY <2>1, <2>3 DEF LedBehind
  <1>14. QED  BY <1>4, <1>5, <1>6, <1>7, <1>8, <1>9, <1>10, <1>11, <1>12, <1>13
             DEF Next, Handler, Run

(* The handlers never take two interrupts less than the debounce time apart and drop
   only bounces (or those a full round of jiffies later), and each set of the LED
   by a handler or a deferred function flips it, unless hwm_write was the last to
   set it or two runs of the softirq have overlapped: for any width of jiffies and
   any start. *)
THEOREM AlwaysDebounced == Spec => Debounced
  <1>1. Init => ClockKept /\ LedBehind
    BY DEF Init, ClockKept, LedBehind, Never, Idle, IdleFn
  <1>2. ASSUME IInv, ClockKept, LedBehind PROVE TakesApart /\ DropsOnlyBounces /\ Flips
    <2>1. /\ Wrap \in Nat /\ Wrap > 0 /\ Boot \in Nat /\ Debounce \in Nat
          /\ time \in Nat /\ stamp \in Nat \cup {Never}
      BY <1>2, WrapAssumption, BoundAssumption DEF IInv, TypeOK
    <2>2. ASSUME stamp # Never
          PROVE  Diff \in Nat /\ Diff <= time - stamp /\ (Diff = time - stamp \/ time - stamp >= Wrap)
      <3>1. stamp \in Nat /\ stamp <= time /\ old_jiffy = (Boot + stamp) % Wrap
        BY <1>2, <2>1, <2>2 DEF ClockKept
      <3>2. Boot + time \in Int /\ Boot + stamp \in Int /\ Boot + stamp <= Boot + time
            /\ (Boot + time) - (Boot + stamp) = time - stamp
        BY <2>1, <3>1
      <3>3. Diff = (((Boot + time) % Wrap) - ((Boot + stamp) % Wrap)) % Wrap
        BY <3>1 DEF Diff, Jiffies
      <3>4. /\ Diff \in 0..(Wrap - 1) /\ Diff <= (Boot + time) - (Boot + stamp)
            /\ Diff = (Boot + time) - (Boot + stamp) \/ (Boot + time) - (Boot + stamp) >= Wrap
        BY <2>1, <3>2, <3>3, WrappedDifference
      <3>5. QED  BY <2>1, <3>1, <3>2, <3>4
    <2>3. ASSUME stamp = Never PROVE Diff = Jiffies
      <3>1. old_jiffy = 0 /\ Jiffies \in 0..(Wrap - 1)
        BY <1>2, <2>1, <2>3, JiffiesType DEF ClockKept
      <3>2. QED  BY <2>1, <3>1 DEF Diff
    <2>4. TakesApart
      BY <2>1, <2>2 DEF TakesApart, Accept
    <2>5. DropsOnlyBounces
      BY <2>1, <2>2, <2>3 DEF DropsOnlyBounces, Reject
    <2>6. Flips
      <3>1. ASSUME HandlerSet PROVE led' # led \/ wrote \/ overlap
        BY <1>2, <3>1 DEF HandlerSet, LedBehind
      <3>2. ASSUME NEW p \in Places, SetLed(p) PROVE led' # led \/ wrote \/ overlap
        BY <1>2, <3>2 DEF SetLed, At, LedBehind, IInv, ToggleKept
      <3>3. QED  BY <3>1, <3>2 DEF Flips
    <2>7. QED  BY <2>4, <2>5, <2>6
  <1>3. IInv /\ ClockKept /\ LedBehind => [TakesApart /\ DropsOnlyBounces /\ Flips]_vars
    BY <1>2
  <1>4. IInv /\ ClockKept /\ LedBehind /\ [Next]_vars => ClockKept' /\ LedBehind'
    BY ClockInv, BehindInv
  <1>5. QED  BY <1>1, <1>3, <1>4, Invariance, PTL DEF Spec, Debounced
=============================================================================
