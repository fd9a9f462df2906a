# Verification of the programs, drivers and lists of C-Basics

C-Basics is a collection of C programs: pthread programs, Linux kernel drivers,
list libraries, IPC demonstrations and many small exercises. It has no tests;
its comments and messages are its only specification. These modules model the
parts that have behaviour worth checking. TLC checks them on small instances,
and TLAPS proves the main invariants for every instance.

## The system: inventory

| part | where | state | hard behaviour | what makes it correct |
|---|---|---|---|---|
| readers/writers monitor | `Threads/rwprob.c` and the older `rwprob.c`, `prob.c` in `Misc/CFILE` | a mutex, two condition variables, `rcnt wcnt waitr waitw`, the shared buffer | signals and late wakeups, a broadcast after the unlock, self-cancelled writers, failed creations | exact counters, no lost wakeup, termination, final content of the buffer |
| semaphore buffer | `Misc/CFILE/writer_reader.c` | two semaphores, one block, `data`, `ExitCondition` | unprotected `data++`, the exit token | exclusive block, no block overwritten or read twice, everybody exits |
| wait-queue driver | `Misc/DD/wait_queue.c` | `wait_queue_flag`, `read_count`, the kernel thread | flag and wakeup in two steps, a reset that may wipe a newer flag, rmmod against the thread, which may answer the flag before it is stopped | no missed wakeup, no invented event, rmmod ends but where named, nothing runs in freed code |
| loading and unloading of the drivers | `init` and `exit` functions of 27 drivers in `Misc/DD` | what the driver has registered | every call may fail; handlers, timers and work run between the calls | a failed init leaves nothing, exit releases everything, handlers find their data |
| interrupts and deferred work | nine drivers in `Misc/DD` | jiffies of the last interrupt, the LED and its toggle, a list, what is pending | interrupt, softirq, tasklet, thread, work and write on several CPUs; jiffies wrap | no toggle or node lost, only bounces dropped, work asked for runs |
| lock demonstrations | `mutex.c`, `spinlock.c`, `rdwrlock.c`, `seqlock.c`, `atomic_ops.c` in `Misc/DD` | a counter, the lock, two threads | a seqlock initialised after its threads run, a module discarded under them | no increment lost, the reader gets a current value |
| signal driver and application | `Misc/DD/signal.c`, `signalapp.c` | the registered task, the flags of each application | interrupt against ioctl, release and exit; signal handlers; a hoisted loop condition | nobody who is gone is signalled, a round needs a signal, ctrl-C ends the program |
| simple driver and its file | `Misc/DD/simpleDriver.c`, `test_app.c` | one buffer pointer, the flag of the proc file | several openers, failed kmalloc, readers that share a flag | one user at a time is safe, readers end |
| I2C bus driver | `Misc/DD/i2c_bus_driver.c` | two GPIO lines, the GPIO requests, the position in the messages | a bit protocol with acknowledge, a slave that may refuse, GPIOs that others hold | the slave gets the bytes, driver and slave agree on every acknowledge, the bus is released |
| OLED client | `Misc/DD/i2c_client.c` | line and column counters | what a byte out of place does is decided by the display | loading only |
| list library | `LinkedList` | a heap of nodes, the callers' heads | pointer surgery at the ends, cycles, shared tails, lists that earlier calls left behind | every function does what it means on sequences; no cycle, no freed node, no sharing |
| numbers as lists | `LinkedList/list.c` | lists of digits | carries, numbers of different length, an uninitialised variable | the sum and the conversions are right |
| older lists | `Misc/Local/ll.c`, `stack.c`, `Misc/CFILE/dlink.c` | a heap of nodes | insertion and removal at the ends, positions beyond the end; a membership test that looks at one list only | as for the list library; prev and next stay inverse |
| list questions | `C-Programming-Questions/Linked_List`, 19 programs | a heap of nodes, two pointers | pointers that walk in step while nodes are relinked and freed, lists whose end is never set | the result is right, no node lost, the inputs that crash are known |
| turns | `Misc/Local/udemysp1.c` | a flag under a mutex, a condition variable | a flag that is never reset, thread ids overwritten by results | the second thread never waits in vain |
| pipes | `Misc/Local/IPC/client-server.c`, `Misc/CFILE/s2.c` | who holds the ends of each pipe | inherited write ends, a failing pipe or fork, select with an own write end | every child gets its message, everybody ends |
| message queue | `Misc/CFILE/cmsg.c`, `msg.c` | the queue behind the name, its messages | unlink and create by several senders, receivers that unlink what they do not own | one message each, lost only where a queue is unlinked |
| other programming questions | `C-Programming-Questions` | none (sequential functions) | boundaries | not modelled |
| language demonstrations, notes, binaries | the rest | none | none | not modelled: they print sizes, values and addresses |

The parts are separate programs and do not interact with each other. Within a
program the threads interact through shared memory (monitor, semaphore buffer),
and a driver interacts with the kernel through the calls of its init and exit
functions and the callbacks it registers.

## Modules

| module | models | checked by |
|---|---|---|
| `RWMonitor` | `Threads/rwprob.c`; with `Cancels` = FALSE the copies in `Misc/CFILE` | `MCRWMonitor` (instances, and the system without spurious wakeups) |
| `RWMonitor_proofs` | theorems about `RWMonitor` | TLAPS |
| `SemBuffer`, `SemBuffer_proofs` | `Misc/CFILE/writer_reader.c` | itself; TLAPS |
| `WaitQueue` | `Misc/DD/wait_queue.c` while loaded, and its exit function | `MCWaiting`; TLAPS |
| `TurnThreads` | `Misc/Local/udemysp1.c` | `MCWaiting`, itself; TLAPS |
| `Pipes` | `Misc/Local/IPC/client-server.c` and `Misc/CFILE/s2.c` | `MCWaiting`; TLAPS |
| `MessageQueue` | `Misc/CFILE/cmsg.c` and `msg.c` | `MCWaiting`; TLAPS |
| `DriverLadders` | the init and exit functions of the drivers, as data | through `DriverModule` |
| `DriverModule` | insmod, rmmod and callbacks, interpreting a ladder | `MCDevices` |
| `DeferredWork`, `DeferredWork_proofs` | interrupt handlers, deferred functions, read and write of nine drivers | itself; TLAPS |
| `DriverThreads` | the threads of the five lock drivers | `MCDevices`; TLAPS |
| `SignalDevice` | `Misc/DD/signal.c` with `signalapp.c` | `MCDevices`; TLAPS |
| `CharDevice` | the device file and the proc file of `Misc/DD/simpleDriver.c` | `MCDevices`; TLAPS |
| `I2CTransfer` | what `hwm_i2c_xfer` of `i2c_bus_driver.c` means, byte by byte | as a property of `I2CBus` |
| `I2CBus`, `I2CBus_proofs` | `hwm_i2c_xfer` and all it calls, write by write, with a slave | `MCI2CBus` (instances); TLAPS |
| `ListSpec` | what the functions of `LinkedList/list.c` mean on sequences | as a property, through `OldListsSpec` |
| `LinkedList` | the functions of `LinkedList/list.c` on a heap of nodes | `MCLinkedList` (symmetry and view) |
| `OldListsSpec` | `ListSpec` with the meaning of `Misc/Local/ll.c` and `stack.c` | as a property of `OldLists` |
| `OldLists` | `LinkedList` with the functions of `ll.c` and `stack.c` | `MCLinkedList` |
| `ListNumbers` | `getSum` and the binary conversions of `LinkedList/list.c` | `MCLists`; TLAPS |
| `ListQuestions` | the nineteen programs of the list questions | `MCLists`; TLAPS |
| `DLink` | `Misc/CFILE/dlink.c` | `MCLists`; TLAPS |
| `MCWaiting_proofs` | theorems about `WaitQueue`, `TurnThreads`, `Pipes` and `MessageQueue` | TLAPS |
| `MCDevices_proofs` | theorems about `SignalDevice`, `CharDevice` and `DriverThreads` | TLAPS |
| `MCLists_proofs` | theorems about `ListNumbers` and `DLink`; induction, and numbers read from a list | TLAPS |
| `ListQuestions_proofs` | theorems about `ListQuestions` | TLAPS |

`MCDevices`, `MCWaiting` and `MCLists` put modules that share no state next to
each other: `part` chooses one of them in the first state, and the others stay in
an initial state. Nothing is composed by that; it saves starting TLC for each.
Their theorem modules are about all the modules put together; the instances
`Turns`, `Pipes`, `Queue`, `Char`, `Locks`, `Numbers` and `Links` are those of the MC modules.

### RWMonitor

The four counters, the buffer (one slot per device) and one program counter per
thread. All shared variables are accessed under `mutexlock` only, so an action
is a section between lock or return from `pthread_cond_wait` and unlock or the
next wait: `BeginReadWait`/`BeginRead`/`ResumeRead` for `beginRead`, `EndRead`,
`BeginWriteWait`/`BeginWrite`/`ResumeWrite` for `beginWrite`, `EndWrite`. The
broadcast of `beginRead` comes after the unlock and is the action
`BroadcastRead`. A thread that is "woken" has been unblocked but has not got the
mutex back yet: other threads may go first. `main` creates and joins in the
order of the code; a creation may fail (it is skipped), and the later join on
the zero `pthread_t` ends the program (`crashed`). Spurious wakeups are steps
without fairness. `Cancels` distinguishes the versions: in `Threads/rwprob.c`
every odd writer cancels itself, in the two older copies none does.

### SemBuffer

The values of `sem_Empty` and `sem_Full`, the letter, `ExitCondition`, the block
and each writer's local block, abstracted to their first and last character.
One action per shared access: the wait, the test, the copy, the post; `data++`
is a load and a store after the post. The first load of `get_external_data`
belongs to the step that leaves the test. `fresh` (the block has not been
consumed) and `lost` (a store of `data++` did not advance `data`) are ghosts.

### WaitQueue

Every access of `wait_queue_flag` is a step of its own. `wait_event` is the test
and the sleep as one step, because the kernel queues the thread before it tests.
An open file keeps rmmod away. `kthread_stop` is: set the stop flag and wake the
thread (`ExitStop`), then wait for it (`ExitJoin`). `wiped` records that the
thread's reset overwrote the exit function's 2.

The exit function sets the flag to 2 and wakes the thread (wait_queue.c:151-152)
before it calls `kthread_stop` (line 153), and a thread that finds the 2 returns
(lines 64-66). The driver holds no reference to the thread's task, so the task may be
gone by then: `ExitStop` then works as on a task that is still there, or ends in
"crashed". `NothingRunsUnloaded` says that this is the one way in which
`kthread_stop` meets a thread that is gone; a thread that wiped the 2 is still
there, and `Progress` says that only this race makes rmmod wait for ever.

### TurnThreads, Pipes and MessageQueue

`TurnThreads` takes a section under the mutex for a step. `main` assigns the
result of `pthread_create` to the thread ids, so its joins get 0 or an error
number: undefined, modelled as a crash or an immediate return. The program then
ends under its threads.

`Pipes` has two halves. In `client-server.c` the parent makes a pipe and forks a
child, five times; a child closes its own write end, but holds those of its elder
siblings' pipes, which the parent had open when it forked. The code takes a failed fork
for a parent: it goes on, and its later write to a pipe without a reader kills it
(SIGPIPE). `writers` tells which processes hold each write end, as a read ends only
when nobody does. In `s2.c` the child waits in `select` before it closes its
write end; `text` is the length of the argument.

In `MessageQueue` every run of `cmsg.c` is a sender and every run of `msg.c` a
receiver, in any number. A queue is known by its creator, since `O_EXCL` gives
every creation a queue of its own; the name refers to one queue at most, and a
queue lives on without its name. `stale` and `replaced` are ghosts.

### DriverLadders and DriverModule

The drivers' init functions are one pattern with 28 variations (27 drivers, one of them twice): a chain of
acquisitions, each with the label it jumps to on failure, then the labelled
releases through which control falls. `DriverLadders` writes each of them as the
list of its calls, in order, and names the callbacks with what they rely on.
`DriverModule` interprets the list, lets any call fail, and runs the callbacks
between any two calls. A call that releases or relies on something not held is
recorded in `misuse`, and the run goes on as if it had no effect; in the kernel
it may crash there. `i2c_bus_driver_bit.c` does not look at the answer of its pin
initialisation; `Jump` and `Try` stand for the inner ladder of that function.

The drivers do not compile as they stand (misspelt calls, missing labels). A
misspelt call is read as the function it means; a jump to a label that does not
exist is read as the return -1. `STATIC` is not defined, except in
`create_list_static`: only with it the work struct of `create_list.c` is
initialised, and only then does its work run and append to the list. A call of a file
operation is one step from open to close. `kthread_run` reports failure by an
error pointer, which the drivers' tests take for a thread; this is a failure
that goes unnoticed.

The exit function of `create_list.c` frees the nodes of its list (lines 252-257)
before it destroys the workqueue and before it frees the interrupt. The walk is three calls
of the ladder: the list is given up, its nodes are freed, the list is usable again.
The work is a `Maker`: it relies on the list and acquires "nodes". It can append
during the walk (`CodeFindsItsData` names the driver) and after it, also when
`destroy_workqueue` waits for it: then `RemovedLeavesNothing` says that nodes, and nothing
else, stay behind.

The defects of the ladders are part of the properties, by name: `Leaks` lists
what a failed init function may leave behind, `Strays` what is released or used
without being held. Everything outside these lists is shown not to happen.

### DeferredWork

One driver out of nine runs, chosen in the first state: `DriverTable` says
whether its handler debounces, who runs the deferred work (softirq, tasklet,
thread, worker, the handler itself) and what the work is (toggle the LED, append
a node, log). The interrupt is taken by some CPU, one handler at a time; a
softirq may run on every CPU that raised it, everything else is in one place
(`NoCpu`). Loads and stores of the toggle and the pin are steps of their own, and
`hwm_write` sets the pin at any moment. `Jiffies` is the time modulo `Wrap`; the
kernel starts it shortly before it wraps, hence `Boot`. The difference of two
jiffies is taken modulo `Wrap`, as unsigned arithmetic does. `kmalloc` in
`create_list.c` may fail and is not tested: `oops`. Its `hwm_read` walks the list
without a lock while the worker appends (`ReadBegin`, `ReadNode`, then `HwmRead` at the
end of the list): `walk` counts the nodes that were passed. `list_add_tail` publishes a
node with its last write, so that an append is one step for the walk, and
`WalkInList` says that the walk stays in the list. The node is complete by then, its data
included: memory ordering is interleaving here. `DeferredWork` takes the work struct of this driver
as initialised, as it is with `STATIC`. Ghosts: `stamp` (the time of
the last interrupt taken), `parity`, `merged`, `owed`, `overlap`, `wrote`.

### DriverThreads

The two threads of `mutex.c`, `spinlock.c`, `rdwrlock.c`, `seqlock.c` and
`atomic_ops.c`: a load and a store of the counter are steps between lock and
unlock. The init function runs beside them: it starts one thread, then the
other, initialises the seqlock afterwards, and falls into its cleanup, so that
the module is discarded (`Discard`) with its threads still running; what a thread
would do next is a crash of the kernel and ends the behaviour. `late` holds the
threads that the initialisation found in their sections.

### SignalDevice

`signal.c` keeps one registered task. Its handler tests it, loads it and sends
the signal: three steps, between which a process of another CPU may run
(`smp`), or none (one CPU). An application registers by `ioctl`, spins in the
inner loop until `check` or `done` is set by its signal handlers, and clears
`check` for the next round. `hoisted` is the compiler's choice to read the two
flags, which are not volatile, once for the inner loop. SIGINT's handler is taken away by
`SA_RESETHAND`, so a second ctrl-C kills. `hwm_release` takes the registration
back, also when a process is killed.

### CharDevice

Each open allocates a block and stores its address in the one `kernel_buffer`,
each release frees what is there: separate steps, as is each load of the pointer
by read and write. The init function copies its greeting into `kernel_buffer`
after the device was created (`Greet`). `shared` records whether two processes
ever had the file open at a time, or one during the init function. The proc file
is read by `cat`s that share `len`.

### ListSpec and LinkedList

`LinkedList` keeps `next` and `data` of every node and two head pointers, the
`head` and `head2` of `ll.c`. Each function of `list.c` is one action, which any
call may follow: the lists are sequential code, and the hard part is what the
earlier calls left behind. A loop over `next` is a recursive operator with the
loop's variables as parameters. `isCyclePresent` is called as `main` does: the
caller links the last node to an earlier one, calls, and cuts the link again;
position 0 stands for the call without a link.

Dereferencing NULL or a pointer that was never set (`Uninit`) is the action
`Crash`, after which nothing happens. The code does not initialise the `next` of
the first node in `addToListAtBegin`: the model takes it to be NULL or the list
to be unusable, which counts as a crash.

`ListSpec` gives each function as a function on sequences, together with the
condition under which it stays within its lists. `ImplementsOldListsSpec` says that
the code does exactly this, and crashes exactly when the condition does not
hold. The conditions are the list of the library's limits: `removeFromListAtEnd`
needs two nodes, `swapPairWise` an even length, `separateEvenOddElements` an even
and an odd element, `movePosToFirst` a position other than the first and the one
behind the last, `findNthFromEnd` a position within the list, and `display`,
`middleList`, `deleteAltNodes`, `isListPalindrome` a node. `isListPalindrome`,
`deleteAltNodes` and `mergeSortedList` do something else than their comments say;
`ListSpec` says what they do.

### OldListsSpec and OldLists

The same for the menu list of `Misc/Local/ll.c` and the linked stack of
`Misc/Local/stack.c`, on the heap and with the conventions of `LinkedList`;
`program` is the program that runs. Positions are typed in, so -1 stands for the
negative ones. `OldListsSpec` extends the list of limits: `insertAtEnd` needs a
node, `removeAtEnd` not exactly one, `insertAtPos` a position of the list; its
new element goes in front of the position, but behind the last; `removeAtPos`
takes every position outside the list for the last; `destroyll` needs two nodes
and keeps one. `LeaksOnlyWhereNamed` lists every call of the three programs that
loses a node.

### DLink

The node's two pointers and the start of each list. A call is a step: the
comments "Disable preemption" and "Enable preemption" at the head and the end of
the functions have no code between them, so that callers on several threads have
to exclude each other; nothing in the repository calls the functions. `*pstart`
and `*pNew` (dlink.c:7, 13, 31) are read as `*pStart` and `pNew`. The ghosts
`order` and `owner` say which list each node should be in and where; `misused` is
set by the calls that the membership test of the code lets pass though it should
not: the only node of one list inserted into another, the first node of one
removed from another, a node reset in a list.

### I2CTransfer and I2CBus

Every write of SCL or SDA is a step. The functions that only write
(`HWM_I2C_Init` after its requests, `HWM_I2C_Sart`, `HWM_I2C_Stop`) are the lists
`Writes`; `SendBit` is the loop of `HWM_I2C_Send_Addr` and `HWM_I2C_Send_Byte`,
`ReadAck` and `TakeAck` are `HWM_I2C_Read_NACK_ACK` and what its callers make of
the answer. A byte is the sequence of its bits, the most significant first.

The slave is external: it follows the I2C rules for START, STOP, sampling and
acknowledge, reacts in the step that makes the edge (the driver waits 5 us after
it), and may refuse any byte. The driver writes 1 actively, which I2C does not
foresee; where the slave pulls the line at the same time, the model takes the
level to be 0. `OtherRequests` and `OtherFrees` are other users of the two GPIOs.

`I2CTransfer` is the meaning: bytes accepted in order, one refused, a result.
`ImplementsTransfer` maps the state only ("stop" with result 0 is a refusal); all
other variables are the same in both. What the code does differently from what
one expects of a bus driver is in `I2CTransfer`: only the first message gets a
START (i2c_client.c:81 says "each msg begins with a START"), so the slave takes
the address byte of the next message for data; and one refusal makes the result
0, whatever was sent before. A transfer without GPIOs still sends its STOP and
frees the GPIOs, also those of another driver (`stolen`).

### ListNumbers

A number is the sequence of its digits. `getSum` adds them digit by digit
(`AddDigits`) and then handles what is left (`AddRest`). Then `main` converts a
number to binary (`NextBit`) and back (`ReverseBits`, `AddBit`); `main` converts
6, the model the first number typed in. `junk` is what the uninitialised `val`
held. `Power` and the functions that read a number from its digits are recursive
functions, so that they can be proved about.

### ListQuestions

The program and its arrays are chosen in the first state, an action is one
iteration of the function's loop, and node 0 is NULL: following it ends the
program in "crashed". Programs that build a copy append to `out`. Three programs
allocate one node too many, whose data is up to malloc (`arg`).

Two programs print a list whose last node never gets its pointer: `fin_list` of
`Add_Numbers_Represented_by_Lists` leaves the `ptr` of its first node as malloc
made it (main.c:72-76), and the deep copy of `Clone_Linked_List_With_Random_Pointer`
ends in a node with neither data nor `next` (main.c:76-77); the prints at lines 45-52 and
83-88 follow it. `loose` is what malloc left in that pointer, NULL or a wild
address: `EndOfPrint` ends the program well or in "crashed". `CrashesExactly` lists
both with the other inputs that crash (every sum but 0, and every list), and
`MeansWhatItSays` speaks of the nodes printed up to there, garbage node included.
What a read through a wild address yields is undefined, and counts as the crash.

The number that `Convert_Binary_List_To_Integer` reads is an unsigned int: it is kept modulo
`UIntSize`, so that the highest bits fall out of it, and the content of the last
node is or-ed to it (`Or`), as `|` does. The bound `SumDigits` keeps the sum of
`addlist` below the size of an int: the multiplier grows with every digit, which is
what the program gets wrong from three digits on.

`StaysInList` is what the pointers do: they keep their distance
(`PointersInStep`), and `CrashesExactly` names the inputs of each program that
follow NULL or a pointer that was never set. `ResultsRight` is what comes out:
no node is lost, or followed once it is freed, except where it is said (`NothingLost`), and `MeansWhatItSays` is the result of each
program as an operator on sequences (`Pick` takes the elements with the given
indices), which says where a program does something else
than its comment.

## Runs

| run | question | result | distinct states |
|---|---|---|---|
| `rwmonitor` | counters, lost wakeups, final state, termination | holds | 53,105 |
| `rwmonitor_alone` | "no active or waiting readers or other writers" (rwprob.c:126) | violated | |
| `sembuffer` | exclusion, handover, exit | holds | 57,377 |
| `sembuffer_readers_exit` | "Signal waiting readers to exit" (writer_reader.c:123) | violated | |
| `waiting` | wakeups, events and unloading of the wait-queue driver; turns, pipes and the message queue; nobody waits for ever | holds | 133,016 |
| `turns_alternate` | "Program should print output A1B2C3D4" (udemysp1.c:2) | violated | |
| `linkedlist` | the functions of the three list programs against sequences, no cycle, no sharing, no leak but the named | holds | 15,333 |
| `linkedlist_merge` | "final list should be sorted" (list.c:438) | violated | |
| `lists` | the list questions, the numbers as lists, the doubly linked lists | holds | 1,313,347 |
| `i2cbus` | bits, acknowledges, release of the bus, GPIOs, meaning of a transfer | holds | 80,641 |
| `deferredwork` | toggles, nodes, debouncing, work that is asked for | holds | 169,706 |
| `devices` | signals and applications, device file, proc file, locks, loading and unloading | holds | 326,428 |

Bounds. `rwmonitor`: three writers, two readers, two turns each. Writers 0 and 2
compete, 1 cancels itself; two turns let a thread come back while another still
waits. The instance without cancellation (`Cancels` = FALSE, 214,613 states)
holds the same properties; the runs keep the smaller one, and the proofs cover
both. `sembuffer`: two readers, two writers, letters 0..2: one writer is the
one that signals the readers, the other is not, and the same for the readers;
three letters let an update of `data` be lost both before and at the end.

`waiting`: two processes and `MaxReads` = 4 reads of the wait-queue driver, so
that reads meet the test, the reset, the nap and the exit function; strings of
four letters as in `udemysp1.c`; three children (the code has five), so that one
has elder and younger siblings; a string of 0 to 2 bytes, which always fits the
pipe (the model's parent does not block in its write; `CopyWrite` writes all of it
in one step, as a pipe does up to PIPE_BUF); three senders and two receivers, so
that a queue can be replaced while it is replaced; a queue that holds one message
(the code asks for five), which makes it stricter that no sender waits.

`linkedlist`: four nodes for both lists together, so lists of length 0 to 4 (odd
and even, at and off every boundary of the loops), three data (two odd, one
even, so that equal and unequal parity and order occur), and positions from 0
(-1 for `ll.c`) to one beyond the end of the longest list. Nodes are
interchangeable (`Symmetry`). `call` and `out` have no influence on later steps,
so `HeapView` leaves them out of the state; they occur in properties of steps
only, which TLC checks on every step.

`lists`: all lists of up to four elements of three values, arguments 0, 1, 2 and
5 (in the list, the value of none, before and behind every position), an unsigned
int of three bits, so that it wraps with five; a pointer that is never set is NULL or wild;
numbers of at most four digits for `addlist` (`SumDigits`), which is every list of the run; all pairs
of numbers up to 120, so lengths that differ by 0, 1 and 2 digits, with and
without a carry at every digit; three nodes and two lists of `dlink.c`, so that a
node has two neighbours and another list to go to.

`i2cbus`: an address of one bit and bytes of two, the shortest with an own and a
foreign address and an order of bits; one message of up to two bytes or two of
up to one, so that a refusal can hit the address, the first or a later byte of
the first or the second message. Transfers follow each other without a bound.

`deferredwork`: two CPUs; four interrupts, so that one is taken, one is a bounce,
one comes while the work is pending and one while it runs; one read that walks the list,
as the walks do not see each other; jiffies of eight values
that start at 6 and wrap after two ticks, a debounce time of 2 and ten ticks, so
that an interrupt can also come a full round after the last.

`devices`: two applications and two interrupts, so that one application registers
over the other and either may be gone when the handler runs; two users of the
device file with three blocks, so that one block can leak while both are open,
and three of the proc file; three rounds of each lock thread; every driver's
ladder is finite and complete. `smp` and `hoisted` are not combined: the
first concerns the interrupt handler, the second the loop of an application, and
their product would be too large.

What the violated runs show:

* `WriterAlone`: the conditions of `beginRead` and `beginWrite` are tested with
  `if`. A woken writer enters although a reader or writer took the monitor
  after the signal. `MCRWMonitor` excludes spurious wakeups here, so the
  cause is the missing second test alone. Nevertheless no wakeup is lost, the
  counters stay exact and the program ends (`rwmonitor`): overlapping writers
  write different slots.
* `ReadersExit`: a lost update of `data++` after `ExitCondition` was set hides
  the end from the readers. The run `sembuffer` shows that this is the only way
  to hang (`Termination`).
* `Alternates`: the first thread never waits, and `done` is never reset. After the
  first letter the order is the scheduler's. `TurnsSafe` says what remains: the
  second thread does not wait once the first has printed, and does not print first.
* `MergeKeepsSorted`: the merge steps over a node of the first list for every
  node it links, so the next node of the second list may come too late, and it
  drops what remains of the second list at the end of the first.

Some differences between code and comments need no run of their own, because a
passing run states exactly what the code does:

* timers.c:153 logs "Device Driver insert..Done" and falls into its cleanup with the
  timer armed (`FallThrough` in `DriverModule`).
* signalapp.c:84 waits for flags that are not volatile: with `hoisted` an
  application may miss its signals and ends by the second ctrl-C only
  (`CtrlCEnds`).
* simpleDriver.c serves one process at a time; `AloneIsSafe` and `OneBlockEach`
  say what is left of it with several.
* seqlock.c initialises its lock under the running threads: `ReadsCurrent` and
  `ReaderEnds` except exactly the threads it finds in their sections.
* cmsg.c:53 "while (5 == done)": one message is sent where five were meant
  (`OneMessageEach`), msg.c:44 correspondingly receives once.
* s2.c:44: with an empty string `select` waits for ever, since the child itself
  holds the write end (`CopyExact`).
* Add_Numbers_Represented_by_Lists/Solution/main.c:65 "function to get final list
  having final result": its first node never gets a `ptr` (72-76), and line 101 prints
  from there on. Clone_Linked_List_With_Random_Pointer/Solution/main.c:14-16: the deep
  copy has a node more than its list, with neither data nor `next` set (76-77), which
  the loop at 83 prints and follows. Whether these programs crash is up to malloc
  (`CrashesExactly`).
* wait_queue.c:65 logs "wait came from exit function" and returns: the exit function
  then calls `kthread_stop` on a thread that may be gone (`NothingRunsUnloaded`).
* create_list.c:254 frees the list while the work may still append to it, and the work
  may append after it (`CodeFindsItsData`, `RemovedLeavesNothing`).
* the questions: `compare` takes a prefix for equal, `getintersection` compares
  elements of the same index, `mergelist` interleaves pairs (`MeansWhatItSays`).
* softirqs.c:313 and threadedirqs.c:274 log "Device Driver remove ...Done", but
  the interrupt is freed with another cookie than it was requested with and
  stays registered: `RemovedLeavesNothing` names these drivers (`WrongCookie`).
* list.c:552 "back to original list": a list that is no palindrome is not
  restored, and its end is lost (`ListSpec!IsListPalindrome`).
* list.c:304 "Delete alternate nodes": the last node of a list of even length
  stays (`ListSpec!WithoutAlternate`).
* list.c:332 "find if cycle is present": in a list of less than two nodes no
  pointer moves, which is taken for a cycle, and NULL is dereferenced
  (`ListSpec!IsCyclePresent`).
* list.c:465 "Add two number represented by the linked list": after the end of
  the shorter number only one digit of the longer is taken. `SumOfSimilar`
  states for which numbers the sum is right.
* `getBinaryToDecimal` adds to an uninitialised `val` (`RoundTrip`).

Deadlock checking is off where the system stops on purpose: after main's return
(`SemBuffer`, `TurnThreads`), after the last exit (`Pipes`, `MessageQueue`), after
rmmod (`WaitQueue`, `DriverModule`), after a crash (`OldLists`, `CharDevice`,
`SignalDevice`, `DriverThreads`), at the end of a program (`ListQuestions`,
`ListNumbers`), and where a bound is used up (`DeferredWork`, `SignalDevice`).
`I2CBus` never stops. `RWMonitor` stutters explicitly at its end and is checked
for deadlock.

## Fairness

Weak fairness for every thread and for `main`: the scheduler runs a thread that
stays runnable. Nothing more is assumed of the mutex, the condition variables
(the choice of the woken thread is free) or the semaphores (`sem_wait` is not
strongly fair). Spurious wakeups have no fairness. In `WaitQueue` a call of
`hwm_read` that began, the thread and the exit function are run to their ends;
nothing makes a user open or read the device, or anybody unload it.
In `I2CBus` the process in a transfer runs on; nobody need start one.
`TurnThreads`: the threads run, main creates them; it need not come out of
`pthread_cond_destroy`. `Pipes` and `MessageQueue`: each process runs on;
`mq_timedreceive` returns. `DeferredWork`: a handler that began ends, and the
kernel runs what was raised, scheduled or queued, in each place; interrupts need
not come. `SignalDevice`: every process runs, signals are delivered; nobody need
type ctrl-C. `CharDevice`: the readers of the proc file run on. `DriverThreads`:
both threads run; nothing is assumed of when the module is discarded.
`ListQuestions`: a sequential program runs on. `DriverModule`, `OldLists`,
`ListNumbers` and `DLink` have safety properties only. The MC modules repeat the
fairness of each module for the part that runs.

## Proofs

`RWMonitor_proofs` proves for every number of readers, writers and turns:

* `TypeCorrect`: `Spec => []TypeOK`
* `CountersCorrect`: `Spec => []CountersExact`
* `ReadersNotStranded`: `Spec => []NoReaderStranded`
* `WritersNotStranded`: `Spec => []NoWriterStranded`

from the assumptions `MAssumption`, `NAssumption`, `LoopAssumption` (positive
numbers), `NoDataAssumption` and `CancelsAssumption`; so they hold for all three
versions of the program. The inductive invariant is `IInv`: types,
`NotYetCreated` (main has not created a thread it has not come to), the exact
counters and the two wakeup chains. The chains need the counters: a thread that
starts to wait has seen `wcnt`, `rcnt` or `waitw`, and only their exactness turns
that number into a thread that will signal. `NotYetCreated` is needed because
`CreateReader` sets a program counter to "ready" and must not do so to a reader
that is inside. The argument is by the groups of threads: each action moves one
thread between `ActiveReaders`, `WaitingReaders`, `ActiveWriters` and
`WaitingWriters` (lemmas `ReaderGroups`, `WriterGroups`, `MainGroups`,
`SpuriousGroups`), and the counters and chains follow from that.

It also proves `EndsRight`: `Spec => []FinalState`. This adds two
invariants to `IInv`: `Turns` (a thread has ended exactly when it has taken its
last turn, and a writer that took one has written its slot) and `Joined` (main
has seen the end of the threads it has joined). When main returns nobody is
inside or waiting, and the exact counters must be 0.

`SemBuffer_proofs` proves for every number of readers, writers and letters
`SemaphoresStayBounded` (`TypeOK` and `SemaphoresBounded`: `sem_Full` is at most 1, and
`sem_Empty` at most 2, or 3 once `data++` has lost an update), `Exclusive` (`BufferExclusive`), `NeverOverwrites`
(`NoOverwrite`), `NeverStale` (`NoStaleRead`) and `LastConsumed`
(`AllConsumed`). The invariant is that there is one token: until the first
thread exits exactly one of `sem_Empty`, `sem_Full`, a writer or a reader holds
it (`OneToken`), and its place tells whether the block is fresh
(`FreshTravels`). From the first exit on no writer fills a block; the writers
hand `sem_Empty` on to each other, writer N-1 brings a `sem_Full` for the
readers, and the readers hand that one on: `ExitToken` says where it may be.
`ExitToken` does not bound `sem_Empty`, which the leaving threads post. `PostsToCome`
counts: from the first exit on the value of `sem_Empty`, the posts of the writers that are
leaving, that of the last reader and the one that a reader makes when it took a block
after the exit began add up to 3, and the last of these is spent only after a lost update.

`MCWaiting_proofs` proves for the wait-queue driver, for every number of processes
and reads, `TypeCorrect`, `WakeupsArrive` (`NoMissedWakeup`), `EventsAreReads`
(`NoPhantomEvent`) and `UnloadIsSafe` (`NothingRunsUnloaded`). `Uncounted` says
that a flag that is set, or an event the thread is about to count, is covered by a
read that has not been counted; `NobodyInside` that the exit function runs with the
device closed; `Returned` that the thread returns only on the exit function's 2 or when it
was told to stop. For the programs next to it, it proves:

* `TurnsAlwaysSafe`: `TurnsSafe` for two strings of any length (`TurnsAssumption`).
  `TurnsInv` adds that a thread that waits has a letter left to print, and that
  nothing is signalled before the first letter.
* `PipesAlwaysSafe`: `PipesSafe` for any number of children and any length of the
  text (`PipesAssumption`: at least one child). `OnlyYoungerHold` is not inductive: a fork
  hands on what the parent holds at that moment, so `LoopInv` says for each
  place of the server's three loops which pipes are made and which are written,
  and `ChildrenInv` that a server that runs still holds the write end of every child it has not
  written to. That the server has reaped every child when it exits is a count:
  the turn of the last loop is one more than the number of children reaped.
  `CopyInv` does the same for `s2.c`.
* `IpcAlwaysSafe`: `MCSpec => []IpcSafe`, the invariant of the run, from these two and
  `QueueAlwaysSafe`.
* `QueueAlwaysSafe`: `QueueSafe` for any senders and receivers (`QueueAssumption`:
  `NoQueue` is no sender). `OwnQueue` says that a sender opens no queue but its own;
  `OnePlace` that its message is in that queue or with one receiver which had opened
  it; `NamesKept` that a queue which has lost its name lost it to a sender, to a
  receiver of another queue, or to one of its own receivers.

`I2CBus_proofs` proves for every address, every width of a byte and every set of
messages (`OwnAssumption`, `MessagesAssumption`: bytes are as long as the address
and the R/W bit, and a caller sends at least one message) `TypeCorrect`
(`TypeOK`), `BitsAlwaysArrive` (`BitsArrive`), `AlwaysReleased`
(`SlaveReleased`), `AlwaysStable` (`StableWhileHigh`), `PinsAlwaysRequested`
(`PinsRequested`) and `BusImplements`, which is `Spec => ImplementsTransfer`.
`BitsArrive` alone is not inductive: the slave's next state depends on the level
of both lines, and the level on what the slave pulls. `IInv` therefore gives for
every point of the program the state of the slave and of the lines: `Waiting`
before the START and after the STOP, `Listening` during a byte, `Acknowledging`
after it; `Position` ties the result to the messages sent. In the refinement
`TakeAck` is the only step at which the slave's answer becomes an `Accept` or a
`Refuse`; every other write changes nothing in `I2CTransfer`. `PinsRequested`
needs an invariant of its own, `Requested`, that does not depend on the lines.

`DeferredWork_proofs` proves for any number of CPUs and interrupts and every width
and start of jiffies (`WrapAssumption`: the debounce time is less than a round)
`AlwaysCounted` (`Spec => []WorkCounted`) and `AlwaysDebounced` (`Spec =>
Debounced`). A toggle is a load and a store, so that `TogglesCounted` is not
inductive: `IInv` adds that a handler and a deferred function do what their driver has
them do (`HandlerFits`, `RunFits`), that only softirqs are in two places at once
and that this is remembered (`OverlapSeen`), that a run keeps the toggle it loaded
(`ToggleKept`), and that an LED behind its toggle is about to be set
(`LedFollows`). `WalkInv`, which needs nothing else, is the walk of `hwm_read`. `AlwaysDebounced` also needs `ClockKept`, which ties `old_jiffy` to
the time of the last interrupt taken, and the lemma `WrappedDifference`: the
difference of two counters that wrap, modulo their width, is the time between
them, unless that is a full round or more. `Flips` is about each set of the LED by a
handler or deferred work, which may stand for several interrupts; it excepts a write that
was the last to set the LED, and overlapping runs of the softirq.

`MCDevices_proofs` proves three invariants of the run `devices`, and an action
property.

* `SignalAlwaysSafe`: `Spec => []SignalSafe` for any set of applications and any
  number of interrupts. `IInv` adds that `done` goes with the handler that is
  taken away (`FlagsAgree`), how many signals an application has still to notice
  (`OwedEnough`: `check` alone does not count the signal that comes while `check`
  is reset), and that on one processor the handler has a living process between
  its test and the signal (`HandlerFindsTask`).
* `CharAlwaysSafe`: `MCSpec => []CharSafe` for any processes and blocks
  (`FilesAssumption`: `Null` is no block, somebody reads the proc file). Who is alone
  with the device owns the one block there is, at every step of open, read, write
  and release (`AloneOwns`); with others there are as many blocks as open
  files, until a kmalloc fails or a block is freed twice (`OneForEach`). The
  readers of the proc file toggle one flag, and `Budget` bounds how often a
  reader may still find the text by the number of others that have come to an end.
* `LocksAlwaysCount` and `ReaderAlwaysCurrent`: `MCSpec => []LocksCount` and `MCSpec
  => Locks!ReadsCurrent` for any number of rounds (`LocksAssumption`). `LocksInv` says
  which steps the threads of each driver take (`ThreadKinds`), who holds the lock at
  which (`LockHeld`), and that the value loaded is still that of the counter
  (`ValueKept`); for the seqlock also that the reader began at an even number,
  and has the current value as long as the number is that one (`ReaderInv`). All
  of it excepts the threads that `seqlock_init` found in their sections.

The modules about lists need induction, over numbers and over the elements of a
list. The library's induction theorems take an operator; `MCLists_proofs` starts with
versions that take a set instead: `LeastNumber` (a set of numbers that is not empty has
a least one, from the theorem on minimal elements of a well-founded relation),
`Induction` (a set that holds a number whenever it holds all smaller ones is `Nat`),
and `Recursion` (a recursive function exists, if the argument of its recursive call
is smaller by some measure). With `Recursion` the definition of a recursive function
becomes the equation it is written as, in place of a CHOOSE: `ValueIs` and
`PowerIs` for numbers, `ChainIs` for the walk of `NodesFrom`, `PickedIs` for `Pick`, and
lemmas on `Or` and the `Digits` of a number.

`MCLists_proofs` proves two invariants of the run `lists`.

* `NumbersAlwaysRight`: `MCSpec => []NumbersRight` for numbers of any size and
  whatever malloc left (`NumbersAssumption`). The invariant `NumbersInv` relates
  the digits done to the digits left (`AddInv`): the value of `l3`, with the carry at
  the power of ten of its length, is the sum of the numbers' low parts, and `t1` and
  `t2` are the digits of their high parts. `SumOfSimilar` follows when at most one
  digit is left after the loop: then `AddRest` takes all there is. The
  conversions (`ToBinaryInv`, `ToDecimalInv`) are the same argument in base 2, with
  `junk` added to `val`.
* `DLinkAlwaysRight`: `MCSpec => []DLinkRight` for any nodes and lists
  (`LinksAssumption`: NULL is neither). `Linked` is inductive once it speaks of
  `owner`: the test of the code sees neighbours and one start, and only `owner`
  tells a node in another list from one in none. For the order, `Once` (no
  node is listed twice, which no misuse changes) and `Listed` (a node that should be
  in a list is) make the place of a node in `order` unique, so that an insertion
  or removal moves exactly the neighbours of that place.

`ListQuestions_proofs` proves the other two, for arrays of any length, any argument
and any size of an unsigned int (`ValuesAssumption`, `LengthAssumption`,
`ArgsAssumption`, `UIntAssumption`).

* `QuestionsStayInList`: `Spec => []StaysInList`. `QuestionsInv` has one conjunct for
  each program that may follow NULL or the pointer that is never set: the links as far as the program has not changed
  them yet, and where its pointers are. In `reverse`, for example, the links from
  the leading pointer on are still those of `createlist`, whatever those behind it
  have become.
* `ResultsAlwaysRight`: `Spec => []ResultsRight`, with the type invariant.
  `ResultsInv` has one conjunct for each program, of the form: so many nodes are
  behind the pointer, and this has been made of them. For `remove_node`, for
  example, the nodes behind the pointer that stay are a sequence `t` of indices in
  their order, each linked to the next, and those that do not stay are freed
  (`KeptSoFar`). TLC found `ResultsInv` to hold on the instance of the run before
  it was proved. The proof goes in four steps. Each program keeps its conjunct (the lemmas
  ending in `Does`; `ResultsStep`). The conjunct says where every pointer and link goes
  (`Sound`), and so the types. `NothingLost` and the lists at the end are
  about `NodesFrom`, which is the longest path from a node: a path in the heap
  is in reach (`PathReach`), a path that ends is the list (`PathEnds`, `ListIs`), and
  a set of nodes that no link leaves holds all that is in reach (`ClosedReach`);
  a program that leaves its links alone has the path of `createlist`
  (`LinksStay`), the other four have a path of their own. Last, the conjunct at
  the end of the program is its promise (the lemmas ending in `Means`): for
  `mergelist` by a bijection between the places in the lists and in their pairs
  (`PairsMixed`), for `partition` and `remove_node` by `Pick` as far as an index.

The type invariants of all modules with theorems are part of these invariants;
`TypeCorrect` states three of them as theorems, `SemaphoresStayBounded` one.

Model-checked only:

* `PhaseHolds`, `HoldsWhatItReleases` and `CodeFindsItsData`: the ladders of the
  drivers are finite data without a parameter, and TLC visits all of it.
* `WellFormed` of `LinkedList`, and that `LinkedList` and `OldLists` implement their
  specifications: a loop over `next` is a RECURSIVE operator there, and a module
  that declares one cannot be proved about.
* All liveness properties, which are out of the prover's reach.

## Plan

Done: everything in the table of modules. Next, in this order:

1. Proofs: `LinkedList` with its loops as actions of their own or as recursive
   functions, and its functions against `ListSpec` with the lemmas about paths of
   `ListQuestions_proofs`.
2. A refinement of `CharDevice` with one user to a file of one block, and of
   `DriverThreads` to an atomic counter.
3. The named pipe pair (`npipe_rd.c`, `npipe_wr.c`) and the socket client and
   server of `Misc/Local`.

## Not modelled

Formatting and printing; the content of the blocks beyond two characters; memory
ordering weaker than interleaving (all unprotected variables are single machine
words); the kernel's internals behind the calls of the drivers. The SSD1306
functions of `i2c_client.c` send bytes to a display whose behaviour is not in the
repository. The timers' callbacks (`timers.c`, `hirestimers.c`) only log and rearm;
that they run is part of `DriverModule`. The array stack of `stack.c` is not
compiled. Some files do not compile as they stand (simpleDriver.c:136,
i2c_client.c, dlink.c); where the intention is plain, the model follows it. The
reasons for whole files are in `PROJECT.json`, "components".
