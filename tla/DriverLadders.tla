---------------------------- MODULE DriverLadders ----------------------------
(***************************************************************************)
(* The init and exit functions of the kernel drivers of Misc/DD, as the    *)
(* lists of the calls that acquire and release something.  An init         *)
(* function is written in its own order: the acquisitions with the label   *)
(* each jumps to when it fails, the return 0 (Done) if it has one, then    *)
(* the labelled releases, through which control falls.  The end of the     *)
(* list is the return -1.                                                  *)
(*                                                                         *)
(* The drivers do not compile as they stand: a misspelt call is read as    *)
(* the kernel function it means, a jump to a label that does not exist as  *)
(* the return -1 (label "end").  STATIC is not defined, but for            *)
(* create_list_static.                                                     *)
(***************************************************************************)
EXTENDS Naturals, Sequences

Call(op, res, to) == [op |-> op, res |-> res, to |-> to]

Get(res, to) == Call("get", res, to)     \* acquire res, or jump
Try(res) == Call("get", res, "next")     \* acquire res, failure goes unnoticed
Check(to) == Call("check", "none", to)   \* gpio_is_valid: go on, or jump
Do(res) == Call("do", res, "next")       \* initialise a datum, cannot fail
Use(res) == Call("use", res, "next")     \* code that relies on res
Free(res) == Call("free", res, "next")
Drain(item) == Call("drain", item, "next")  \* wait for queued work
Jump(to) == Call("jump", "none", to)     \* break, return
Label(to) == Call("label", "none", to)
Done == Call("done", "none", "next")     \* return 0
NoReturn == Call("noreturn", "none", "next")  \* the result is indeterminate

(* Code that runs on its own while "on" is held or queued: it relies on uses,
   queues other code, and Maker acquires gets.  "cdev" stands for the file
   operations. *)
Maker(on, uses, gets) == [on |-> on, uses |-> uses, queues |-> {}, gets |-> gets]
Code(on, uses, queues) == [on |-> on, uses |-> uses, queues |-> queues, gets |-> {}]

-----------------------------------------------------------------------------
(* sysfs, interrupts and the drivers made from them share a ladder.  The
   class fails to the label of the region, so the cdev stays; the file is
   removed from its kobject after the kobject is gone. *)
CdevGets ==
  <<Get("region", "end"), Get("cdev", "r_class"), Get("class", "r_class"),
    Get("device", "r_device")>>
SysfsGets == <<Try("kobj"), Get("sysfs", "r_sysfs")>>
SysfsFrees == <<Label("r_sysfs"), Free("kobj"), Free("sysfs")>>
DeviceFrees == <<Label("r_device"), Free("class"), Label("r_class"), Free("region")>>
IrqFrees == <<Label("irq"), Free("irq")>>

(* Mutant: device_destroy is called after class_destroy. *)
DeviceExit_ClassFirst == <<Free("class"), Free("device"), Free("cdev"), Free("region")>>

DeviceExit == <<Free("device"), Free("class"), Free("cdev"), Free("region")>>
SysfsExit == <<Free("kobj"), Free("sysfs")>> \o DeviceExit

Sysfs ==
  [init |-> CdevGets \o SysfsGets \o <<Done>> \o SysfsFrees \o DeviceFrees,
   exit |-> SysfsExit,
   code |-> {}]

Interrupts ==
  [init |-> CdevGets \o SysfsGets \o <<Get("irq", "irq"), Done>>
              \o IrqFrees \o SysfsFrees \o DeviceFrees,
   exit |-> <<Free("irq")>> \o SysfsExit,
   code |-> {Code("irq", {}, {})}]

(* Mutant: INIT_WORK forgotten. *)
Workqueue_NoInit ==
  [init |-> CdevGets \o SysfsGets \o <<Get("irq", "irq"), Done>>
              \o IrqFrees \o SysfsFrees \o DeviceFrees,
   exit |-> <<Free("irq")>> \o SysfsExit,
   code |-> {Code("irq", {"work"}, {"workRun"}), Code("workRun", {}, {})}]

(* The work struct is initialised after the handler that schedules it. *)
Workqueue ==
  [init |-> CdevGets \o SysfsGets \o <<Get("irq", "irq"), Do("work"), Done>>
              \o IrqFrees \o SysfsFrees \o DeviceFrees,
   exit |-> <<Free("irq")>> \o SysfsExit,
   code |-> {Code("irq", {"work"}, {"workRun"}), Code("workRun", {}, {})}]

(* The work struct is initialised, and the region requested without a look at
   the answer, only if STATIC is defined.  The exit function frees the nodes
   before it destroys the workqueue, without a lock: while it walks the list,
   the list is not one to append to. *)
CreateListWith(region) ==
  [init |-> <<Do("list")>> \o region \o Tail(CdevGets) \o SysfsGets
              \o <<Get("irq", "irq"), Try("wq"), Done>>
              \o IrqFrees \o SysfsFrees \o DeviceFrees,
   exit |-> <<Free("list"), Free("nodes"), Do("list"), Free("wq"), Free("irq")>> \o SysfsExit,
   code |-> {Code("irq", {"wq", "work"}, {"ownRun"}),
             Maker("ownRun", {"wq", "list"}, {"nodes"})}]

CreateList == CreateListWith(<<Head(CdevGets)>>)
CreateListStatic == CreateListWith(<<Do("work"), Try("region")>>)

(* The work struct is never initialised. *)
CreateWorkqueue ==
  [init |-> <<Get("region", "r_unreg"), Get("cdev", "r_class"), Get("class", "r_class"),
              Get("device", "r_device")>>
              \o SysfsGets \o <<Get("irq", "irq"), Try("wq"), Done>>
              \o IrqFrees \o SysfsFrees
              \o <<Label("r_device"), Free("device"), Label("r_class"), Free("class"),
                   Label("r_unreg"), Free("region")>>,
   exit |-> <<Free("wq"), Free("irq")>> \o SysfsExit,
   code |-> {Code("irq", {"wq", "work"}, {"ownRun"}), Code("ownRun", {"wq"}, {})}]

(* tasklet_kill, kfree and only then free_irq. *)
Tasklet ==
  [init |-> CdevGets \o SysfsGets
              \o <<Get("irq", "irq"), Get("tasklet", "irq"), Do("taskletFn"), Done>>
              \o IrqFrees \o SysfsFrees \o DeviceFrees,
   exit |-> <<Drain("taskletRun"), Free("tasklet"), Free("irq")>> \o SysfsExit,
   code |-> {Code("irq", {"tasklet", "taskletFn"}, {"taskletRun"}),
             Code("taskletRun", {"tasklet"}, {})}]

(* kthread_run answers an error pointer, which the test takes for a thread. *)
WaitQueueDriver ==
  [init |-> CdevGets \o <<Do("wq_hwm"), Try("thread1"), Use("thread1"), Done>> \o DeviceFrees,
   exit |-> <<Use("wq_hwm"), Free("thread1")>> \o DeviceExit,
   code |-> {Code("cdev", {"wq_hwm"}, {}), Code("thread1", {"wq_hwm"}, {})}]

-----------------------------------------------------------------------------
(* The GPIO drivers. *)
Gpio ==
  [init |-> <<Get("region", "r_unreg"), Get("cdev", "r_del"), Get("class", "r_class"),
              Get("device", "r_device"), Check("r_device"), Get("gpioOut", "r_gpio"), Done,
              Label("r_gpio"), Free("gpioOut"), Label("r_device"), Free("device"),
              Label("r_class"), Free("class"), Label("r_del"), Free("cdev"),
              Label("r_unreg"), Free("region")>>,
   exit |-> <<Free("gpioOut")>> \o DeviceExit,
   code |-> {}]

(* Mutant: cdev_del forgotten. *)
GpioFrees_KeepsCdev ==
  <<Label("r_gpio_out"), Free("gpioOut"), Label("r_device"), Free("device"),
    Label("r_class"), Free("class"), Label("r_cdev"), Label("r_unreg"), Free("region")>>

GpioFrees ==
  <<Label("r_gpio_out"), Free("gpioOut"), Label("r_device"), Free("device"),
    Label("r_class"), Free("class"), Label("r_cdev"), Free("cdev"),
    Label("r_unreg"), Free("region")>>

GpioIrq ==
  [init |-> <<Get("region", "r_unreg"), Get("cdev", "r_cdev"), Get("class", "r_class"),
              Get("device", "r_device"), Check("r_gpio_out"), Get("gpioOut", "r_gpio_out"),
              Check("r_gpio_in"), Get("gpioIn", "r_gpio_in"), Get("irq", "r_gpio_in"), Done,
              Label("r_gpio_in"), Free("gpioIn")>> \o GpioFrees,
   exit |-> <<Free("irq"), Free("gpioIn"), Free("gpioOut")>> \o DeviceExit,
   code |-> {Code("irq", {}, {})}]

(* The interrupt is requested with the cookie NULL and freed with the cookie
   gpio_irq_handler: that is another interrupt ("irqFn"). *)
GpioPairGets ==
  <<Get("region", "r_unreg"), Get("cdev", "r_cdev"), Get("class", "r_class"),
    Get("device", "r_device"), Check("r_device"), Get("gpioOut", "r_gpio_out"),
    Check("r_device"), Get("gpioIn", "r_gpio_in"), Get("irq", "r_gpio_in")>>
GpioPairFrees == <<Label("r_gpio_in"), Free("gpioIn"), Free("irqFn")>> \o GpioFrees
GpioPairExit == <<Free("irqFn"), Free("gpioIn"), Free("gpioOut")>> \o DeviceExit

Softirqs ==
  [init |-> GpioPairGets \o <<Do("softirq"), Done>> \o GpioPairFrees,
   exit |-> GpioPairExit,
   code |-> {Code("irq", {"softirq"}, {"softirqRun"}), Code("softirqRun", {}, {})}]

(* The top half raises a softirq that this driver never opens. *)
Threadedirqs ==
  [init |-> GpioPairGets \o <<Done>> \o GpioPairFrees,
   exit |-> GpioPairExit,
   code |-> {Code("irq", {"softirq"}, {})}]

-----------------------------------------------------------------------------
(* Drivers whose init function falls through into its own cleanup.  The calls
   alloc_chrdev_region(&dev, 1, 0, ...) have first minor and count swapped:
   they register a region of no minors ("region0"), which the call
   unregister_chrdev_region(dev, 1) does not find. *)
TimerGets ==
  <<Get("region0", "r_unreg"), Get("cdev", "r_cdev"), Get("class", "r_cdev"),
    Get("device", "r_class")>>
TimerFrees ==
  <<Label("r_class"), Free("class"), Label("r_cdev"), Free("cdev"), Free("region"),
    Label("r_unreg")>>

Timers ==
  [init |-> TimerGets \o <<Do("timer")>> \o TimerFrees,
   exit |-> <<Free("timer")>> \o DeviceExit,
   code |-> {Code("timer", {}, {})}]

Hirestimers ==
  [init |-> TimerGets \o <<Get("irq", "irq"), Do("timer")>> \o IrqFrees \o TimerFrees,
   exit |-> <<Free("timer")>> \o DeviceExit,
   code |-> {Code("irq", {}, {}), Code("timer", {}, {})}]

Signal ==
  [init |-> TimerGets \o <<Get("irq", "irq")>> \o IrqFrees \o TimerFrees,
   exit |-> <<Free("irq")>> \o DeviceExit,
   code |-> {Code("irq", {}, {})}]

CompletionDriver ==
  [init |-> TimerGets \o <<Try("thread1"), Do("completion")>> \o TimerFrees,
   exit |-> <<Use("completion")>> \o DeviceExit,
   code |-> {Code("cdev", {"completion"}, {}), Code("thread1", {"completion"}, {})}]

AtomicOps ==
  [init |-> TimerGets \o <<Try("thread1"), Try("thread2")>> \o TimerFrees,
   exit |-> <<Free("thread1"), Free("thread2")>> \o DeviceExit,
   code |-> {Code("thread1", {}, {}), Code("thread2", {}, {})}]

(* Of these only r_device and r_class exist. *)
LockGets ==
  <<Get("region", "end"), Get("cdev", "end"), Get("class", "r_class"),
    Get("device", "r_class")>>
LockFrees ==
  <<Label("r_device"), Free("class"), Label("r_class"), Free("region"), Free("cdev")>>
LockExit == <<Free("thread1"), Free("thread2")>> \o DeviceExit

Mutex ==
  [init |-> LockGets \o <<Do("mutex"), Try("thread1"), Try("thread2")>> \o LockFrees,
   exit |-> LockExit,
   code |-> {Code("thread1", {"mutex"}, {}), Code("thread2", {"mutex"}, {})}]

(* The spinlock is defined statically. *)
Spinlock ==
  [init |-> LockGets \o <<Try("thread1"), Try("thread2")>> \o LockFrees,
   exit |-> LockExit,
   code |-> {Code("thread1", {}, {}), Code("thread2", {}, {})}]

Rdwrlock ==
  [init |-> LockGets \o <<Try("thread1"), Try("thread2")>> \o LockFrees,
   exit |-> LockExit,
   code |-> {Code("thread1", {}, {}), Code("thread2", {}, {})}]

(* The lock is initialised after the threads that take it. *)
Seqlock ==
  [init |-> LockGets \o <<Try("thread1"), Try("thread2"), Do("seqlock")>> \o LockFrees,
   exit |-> LockExit,
   code |-> {Code("thread1", {"seqlock"}, {}), Code("thread2", {"seqlock"}, {})}]

(* class_destroy before device_destroy, and no return statement. *)
HelloDriver ==
  [init |-> <<Get("region", "end"), Get("cdev", "r_class"), Get("class", "r_device"),
              Get("device", "r_class"), Label("r_class"), Free("class"),
              Label("r_device"), Free("device"), Free("cdev"), Free("region"), NoReturn>>,
   exit |-> <<Free("class"), Free("device"), Free("cdev"), Free("region")>>,
   code |-> {}]

-----------------------------------------------------------------------------
(* hwm_open allocates kernel_buffer; the init function copies into it, which
   goes wrong unless a process has opened the file already. *)
SimpleDriver ==
  [init |-> <<Get("region", "end"), Get("cdev", "r_class"), Get("class", "r_device"),
              Get("device", "r_class"), Get("proc", "r_device"), Use("kernel_buffer"), Done,
              Label("r_class"), Free("class"), Label("r_device"), Free("proc"),
              Free("region"), Free("cdev")>>,
   exit |-> <<Free("proc")>> \o DeviceExit,
   code |-> {}]

Misc ==
  [init |-> <<Get("misc", "end"), Done>>, exit |-> <<Free("misc")>>, code |-> {}]

UsbDriver ==
  [init |-> <<Get("usb", "end"), Done>>, exit |-> <<Free("usb")>>, code |-> {}]

I2cBus ==
  [init |-> <<Get("i2cAdapter", "fail"), Done, Label("fail")>>,
   exit |-> <<Free("i2cAdapter")>>,
   code |-> {}]

(* HWM_I2C_Init, whose result the init function does not look at. *)
I2cPins ==
  <<Check("add"), Check("add"), Get("gpioOut", "add"), Get("gpioIn", "sda"), Jump("add"),
    Label("sda"), Free("gpioOut"), Label("add")>>

(* The kernel's bit-bang algorithm drives the pins; the exit function, and an
   init function whose bus was not added, keep them. *)
I2cBusBit ==
  [init |-> I2cPins \o <<Get("i2cAdapter", "fail"), Done, Label("fail")>>,
   exit |-> <<Free("i2cAdapter")>>,
   code |-> {Code("i2cAdapter", {"gpioOut", "gpioIn"}, {})}]

(* i2c_add_driver is not checked; probing and removing write to the display. *)
I2cClient ==
  [init |-> <<Get("adapterRef", "fail"), Get("client", "put"), Try("i2cDriver"),
              Free("adapterRef"), Done,
              Label("put"), Free("adapterRef"), Label("fail")>>,
   exit |-> <<Free("client"), Free("i2cDriver")>>,
   code |-> {Code("i2cDriver", {}, {})}]

Ladder ==
  [sysfs |-> Sysfs, interrupts |-> Interrupts, workqueue |-> Workqueue,
   create_list |-> CreateList, create_list_static |-> CreateListStatic,
   create_workqueue |-> CreateWorkqueue, tasklet |-> Tasklet,
   wait_queue |-> WaitQueueDriver, gpio |-> Gpio, gpio_irq |-> GpioIrq,
   softirqs |-> Softirqs, threadedirqs |-> Threadedirqs, timers |-> Timers,
   hirestimers |-> Hirestimers, signal |-> Signal, completion |-> CompletionDriver,
   atomic_ops |-> AtomicOps, mutex |-> Mutex, spinlock |-> Spinlock,
   rdwrlock |-> Rdwrlock, seqlock |-> Seqlock, driver |-> HelloDriver,
   simpleDriver |-> SimpleDriver, miscdevicedriver |-> Misc, usbdevice |-> UsbDriver,
   i2c_bus |-> I2cBus, i2c_bus_driver_bit |-> I2cBusBit,
   i2c_client |-> I2cClient]
=============================================================================
