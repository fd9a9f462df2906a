----------------------------- MODULE DriverModule -----------------------------
(***************************************************************************)
(* The life of one kernel module of Misc/DD: insmod runs its init function *)
(* (DriverLadders), any call of which may fail, and either keeps the       *)
(* module or frees it; rmmod runs its exit function and frees the module.  *)
(* Meanwhile the code the module registered, interrupt handlers, timers,   *)
(* threads, deferred work and file operations, runs whenever it can.       *)
(*                                                                         *)
(* A call that releases or relies on something the driver does not hold is *)
(* recorded in misuse and the run goes on; a crash would end it there.     *)
(***************************************************************************)
EXTENDS DriverLadders, FiniteSets

VARIABLES
  drv,     \* the driver
  phase,   \* what the module loader does with it
  ip,      \* next call of the init or exit function
  held,    \* what the driver has acquired or initialised, and not released
  freed,   \* what it has released
  queued,  \* deferred code that will run
  misuse   \* ghost: what it released or relied on without holding it

vars == <<drv, phase, ip, held, freed, queued, misuse>>

Phases == {"init", "live", "exit", "failed", "removed"}
Body == IF phase = "exit" THEN Ladder[drv].exit ELSE Ladder[drv].init
Running == phase \in {"init", "exit"} /\ ip <= Len(Body)
Current(op) == Running /\ Body[ip].op = op
Arg == Body[ip].res

(* What a jump leads to: after the label, past the end if there is none. *)
Target(to) ==
  IF \E i \in 1..Len(Body) : Body[i].op = "label" /\ Body[i].to = to
    THEN CHOOSE i \in 1..Len(Body) : Body[i].op = "label" /\ Body[i].to = to
    ELSE IF to = "next" THEN ip + 1 ELSE Len(Body) + 1

(* Data of the module itself, which nobody releases. *)
Data == {"work", "taskletFn", "wq_hwm", "softirq", "completion", "mutex", "seqlock",
         "kernel_buffer", "list"}

(* Releasing one of these is harmless when there is nothing to release. *)
Forgiving == {"region", "cdev", "class", "device", "kobj", "proc", "nodes"}

(* The release call goes through this one. *)
Parent(r) == CASE r = "device" -> {"class"} [] r = "sysfs" -> {"kobj"} [] OTHER -> {}

(* The directory of a kobject goes with its files. *)
With(r) == IF r = "kobj" THEN {"kobj", "sysfs"} ELSE {r}

(* destroy_workqueue waits for the work on its queue, which acquires what it
   does. *)
Waits(r) == IF r = "wq" THEN {"ownRun"} ELSE {}

Does(c) == IF c.uses \subseteq held THEN c.gets ELSE {}
GetsOfWaited(r) ==
  UNION {Does(c) : c \in {d \in Ladder[drv].code : d.on \in queued \cap Waits(r)}}

Init ==
  /\ drv \in DOMAIN Ladder
  /\ phase = "init" /\ ip = 1
  /\ held = {} /\ freed = {} /\ queued = {}
  /\ misuse = {}

-----------------------------------------------------------------------------
(* A file needs its kobject, a device its class. *)
Acquire ==
  /\ Current("get") \/ Current("do")
  /\ Parent(Arg) \subseteq held
  /\ held' = held \cup {Arg} /\ freed' = freed \ {Arg}
  /\ ip' = ip + 1
  /\ UNCHANGED <<drv, phase, queued, misuse>>

(* The call fails; so does a test of a GPIO number. *)
Fail ==
  /\ Current("get") \/ Current("check")
  /\ ip' = Target(Body[ip].to)
  /\ UNCHANGED <<drv, phase, held, freed, queued, misuse>>

(* A test that succeeds, or a label control falls through. *)
Pass ==
  /\ Current("check") \/ Current("label")
  /\ ip' = ip + 1
  /\ UNCHANGED <<drv, phase, held, freed, queued, misuse>>

(* Control leaves a function or goes round its releases. *)
Skip ==
  /\ Current("jump")
  /\ ip' = Target(Body[ip].to)
  /\ UNCHANGED <<drv, phase, held, freed, queued, misuse>>

Rely ==
  /\ Current("use")
  /\ misuse' = misuse \cup ({Arg} \ held)
  /\ ip' = ip + 1
  /\ UNCHANGED <<drv, phase, held, freed, queued>>

Release ==
  /\ Current("free")
  /\ LET stray == \/ Arg \in freed
                  \/ Arg \notin held /\ Arg \notin Forgiving
                  \/ Parent(Arg) \cap freed # {}
     IN misuse' = IF stray THEN misuse \cup {Arg} ELSE misuse
  /\ held' = (held \cup GetsOfWaited(Arg)) \ With(Arg)
  /\ freed' = (freed \ GetsOfWaited(Arg)) \cup (held \cap With(Arg))
  /\ queued' = queued \ Waits(Arg)
  /\ ip' = ip + 1
  /\ UNCHANGED <<drv, phase>>

(* tasklet_kill *)
Await ==
  /\ Current("drain")
  /\ queued' = queued \ {Arg}
  /\ ip' = ip + 1
  /\ UNCHANGED <<drv, phase, held, freed, misuse>>

(* return 0 *)
Loaded ==
  /\ Current("done") \/ Current("noreturn")
  /\ phase' = "live" /\ ip' = 1
  /\ UNCHANGED <<drv, held, freed, queued, misuse>>

(* return -1: the loader frees the module. *)
Failed ==
  /\ phase = "init"
  /\ ip > Len(Body) \/ Current("noreturn")
  /\ phase' = "failed" /\ ip' = 1
  /\ UNCHANGED <<drv, held, freed, queued, misuse>>

Rmmod ==
  /\ phase = "live"
  /\ phase' = "exit" /\ ip' = 1
  /\ UNCHANGED <<drv, held, freed, queued, misuse>>

Removed ==
  /\ phase = "exit" /\ ip > Len(Body)
  /\ phase' = "removed" /\ ip' = 1
  /\ UNCHANGED <<drv, held, freed, queued, misuse>>

(* The module's own code runs, to its end: an opened file, which keeps rmmod
   away, is closed again in the same step. *)
Run(c) ==
  /\ phase \notin {"failed", "removed"}
  /\ c.on \in held \cup queued
  /\ queued' = (queued \ {c.on}) \cup (IF c.uses \subseteq held THEN c.queues ELSE {})
  /\ held' = held \cup Does(c) /\ freed' = freed \ Does(c)
  /\ UNCHANGED <<drv, phase, ip, misuse>>

Next ==
  \/ Acquire \/ Fail \/ Pass \/ Skip \/ Rely \/ Release \/ Await
  \/ Loaded \/ Failed \/ Rmmod \/ Removed
  \/ \E c \in Ladder[drv].code : Run(c)

Spec == Init /\ [][Next]_vars
-----------------------------------------------------------------------------
Items == {"workRun", "ownRun", "taskletRun", "softirqRun"}

Resources ==
  {"region", "region0", "cdev", "class", "device", "kobj", "sysfs", "proc", "irq", "irqFn",
   "gpioOut", "gpioIn", "wq", "tasklet", "timer", "thread1", "thread2", "misc", "usb",
   "i2cAdapter", "adapterRef", "client", "i2cDriver", "nodes"}

Left == held \cap Resources

TypeOK ==
  /\ drv \in DOMAIN Ladder /\ phase \in Phases /\ ip \in 1..Len(Body)+1
  /\ held \subseteq Resources \cup Data /\ freed \subseteq Resources \cup {"list"}
  /\ held \cap freed = {}
  /\ queued \subseteq Items
  /\ misuse \subseteq Resources \cup Data

(* The drivers by the defects of their ladders. *)
ListDrivers == {"create_list", "create_list_static"}
SysfsLadders == {"sysfs", "interrupts", "workqueue", "tasklet"} \cup ListDrivers
LockDrivers == {"mutex", "spinlock", "rdwrlock", "seqlock"}
FallThrough == {"timers", "hirestimers", "signal", "completion", "atomic_ops"} \cup LockDrivers
WrongCookie == {"softirqs", "threadedirqs"}

(* What a failed init function may leave behind: the cdev and, without a
   device_destroy, the device of the ladders that begin at r_class; what the
   drivers without a return 0 have started; the output pin of a pair whose
   input pin is no valid GPIO; the pins of the bit-bang bus. *)
Leaks ==
  CASE drv \in SysfsLadders -> {"cdev", "device"}
    [] drv \in {"create_workqueue", "wait_queue"} -> {"cdev"}
    [] drv \in LockDrivers -> {"region", "class", "device", "thread1", "thread2"}
    [] drv \in {"timers", "hirestimers"} -> {"region0", "device", "timer"}
    [] drv \in {"signal", "completion", "atomic_ops"} ->
         {"region0", "device", "thread1", "thread2"}
    [] drv \in WrongCookie -> {"gpioOut"}
    [] drv = "simpleDriver" -> {"class", "device"}
    [] drv = "i2c_bus_driver_bit" -> {"gpioOut", "gpioIn"}
    [] OTHER -> {}

(* A module whose init function failed, at whatever call, has taken back all
   it registered and started, but for Leaks, and has deferred no work. *)
FailedLeavesNothing == phase = "failed" => Left \subseteq Leaks /\ queued = {}

(* An exit function takes back all that its init function acquired, whatever
   ran meanwhile, but for the pins of the bit-bang bus and the nodes that the
   work of create_list_static appends after the exit function has been through
   the list.  The interrupt of the two drivers that free another cookie than
   they requested always stays, and work deferred to the system's queue, to a
   softirq, or to the tasklet after tasklet_kill may still be queued. *)
RemovedLeavesNothing ==
  phase = "removed" =>
    /\ CASE drv \in WrongCookie -> Left = {"irq"}
         [] drv = "i2c_bus_driver_bit" -> Left \in {{}, {"gpioOut", "gpioIn"}}
         [] drv = "create_list_static" -> Left \subseteq {"nodes"}
         [] OTHER -> Left = {}
    /\ queued # {} => drv \in {"workqueue", "softirqs", "tasklet"}

(* No call releases or relies on what the driver does not hold, except: files
   removed from a kobject that is gone, resources whose own request failed and
   that are released nevertheless, a thread or workqueue whose creation failed
   unnoticed, the other cookie, the buffer simpleDriver has not allocated and
   the second cleanup of the driver whose result is indeterminate. *)
Strays ==
  CASE drv \in ListDrivers \cup {"create_workqueue"} -> {"sysfs", "irq", "wq"}
    [] drv = "sysfs" -> {"sysfs"}
    [] drv \in SysfsLadders -> {"sysfs", "irq"}
    [] drv = "wait_queue" -> {"thread1"}
    [] drv = "gpio" -> {"gpioOut"}
    [] drv = "gpio_irq" -> {"gpioOut", "gpioIn"}
    [] drv \in WrongCookie -> {"gpioOut", "gpioIn", "irqFn"}
    [] drv \in {"hirestimers", "signal"} -> {"irq"}
    [] drv = "simpleDriver" -> {"kernel_buffer"}
    [] drv = "i2c_client" -> {"i2cDriver"}
    [] drv = "driver" -> {"region", "cdev", "class", "device"}
    [] OTHER -> {}

HoldsWhatItReleases == misuse \subseteq Strays

(* Code of the module can run now and would miss something. *)
Exposed ==
  \E c \in Ladder[drv].code : c.on \in held \cup queued /\ ~(c.uses \subseteq held)

(* The handlers, threads and file operations find what they rely on: in a
   loaded module always, except for the work struct and the softirq nobody
   initialises, a workqueue that could not be created and pins that were not
   granted; during insmod except
   where the code is registered before its data; during rmmod except where
   the data is released before the code. *)
CodeFindsItsData ==
  Exposed =>
    CASE drv = "i2c_bus_driver_bit" -> {"gpioOut", "gpioIn"} \cap held = {}
      [] phase = "live" -> drv \in ListDrivers \cup {"create_workqueue", "threadedirqs"}
      [] phase = "exit" ->
           drv \in ListDrivers \cup {"create_workqueue", "threadedirqs", "tasklet"}
      [] phase = "removed" -> drv \in {"threadedirqs", "tasklet"}
      [] OTHER -> drv \in ListDrivers \cup {"create_workqueue", "threadedirqs", "tasklet",
                           "workqueue", "softirqs", "wait_queue", "completion", "seqlock"}

(* What create_list may not hold when its exit function begins: nodes, and the
   region if the answer to its request is not looked at. *)
Unasked == CASE drv = "create_list" -> {"nodes"}
             [] drv = "create_list_static" -> {"nodes", "region"}
             [] OTHER -> {}

(* A module is loaded with everything its exit function will release, except
   for what was requested without looking at the answer; a driver that falls
   through into its cleanup is never loaded. *)
LoadedIsComplete ==
  phase = "live" =>
    /\ drv \notin FallThrough
    /\ drv # "driver" =>
         \A i \in 1..Len(Ladder[drv].exit) :
           LET call == Ladder[drv].exit[i]
           IN call.op = "free" /\ call.res \notin Unasked =>
                call.res \in held \cup {"wq", "thread1", "i2cDriver", "irqFn"}

(* The type invariant, and what a module holds in each phase: nothing after a
   failed insmod and after rmmod, everything while it is loaded. *)
PhaseHolds == TypeOK /\ FailedLeavesNothing /\ LoadedIsComplete /\ RemovedLeavesNothing
=============================================================================
