SPECIFICATION Spec
CONSTANTS
  Drivers = {"interrupts", "tasklet", "workqueue", "create_workqueue", "create_list", "softirqs", "threadedirqs", "gpio_irq", "gpio"}
  Cpus = {"cpu0", "cpu1"}
  Wrap = 8
  Boot = 6
  Debounce = 2
  MaxTime = 10
  MaxIrqs = 4
INVARIANTS WorkCounted
PROPERTIES Debounced InterruptServed
CHECK_DEADLOCK FALSE
