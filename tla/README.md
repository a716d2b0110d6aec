# Formal models of the SJ-One firmware

The repository is the firmware of the SJ-One board (NXP LPC1758): C and C++ on FreeRTOS, in six layers,
`L0_LowLevel` to `L5_Application`. This directory holds TLA+ models of the parts in which tasks, interrupts,
hardware and failures meet, the TLC configurations that check them on small instances, and proofs that TLAPS checks.
It says what each part promises, where the code keeps the promise, and the seven places where it was found not to.

## 1. Inventory

FreeRTOS (`L1_FreeRTOS`) and FatFs (`L4_IO/fat`) come with the repository and everything rests on them, so the parts of
them this firmware uses are modelled too. newlib, the start-up code and the register headers are not; they appear
as what their users see.

| Component | State | Operations | Interacts with | What is hard |
|---|---|---|---|---|
| FreeRTOS queues (`L1_FreeRTOS/src/queue.c`) | ring of items, two lists of waiting tasks, two lock counts, queue set | send to either end, receive, peek, select, reset, the interrupt's variants | tasks and interrupts at both ends | what an interrupt does between a task's look at the queue and its entry in a list |
| FreeRTOS time (`tasks.c`) | tick count, two delayed lists, pended ticks, task lists | tick, delays, block times, suspension of the scheduler and of tasks | every blocking call | the tick wraps; ticks and events while the scheduler is suspended |
| FreeRTOS mutexes (`queue.c`, `tasks.c`) | holder, priorities, ordered waiting lists, count of held mutexes | take, give, time out, inherit, disinherit | every driver with a bus | priorities that change while lists are ordered by them |
| FreeRTOS event groups (`event_groups.c`) | bits, waiting tasks, each task's event item value | set, clear, wait, rendezvous | the application's watchdog task | many tasks woken by one setting; a wait that ends before its task runs |
| Periodic scheduler (`L5_Application/periodic_scheduler`) | four 8-bit counters, four binary semaphores | dispatch every ms, period tasks, overrun report and reboot | semaphores from the highest priority task to four others | schedule kept by a cascade of counters; overrun told by a semaphore taken early |
| Task framework (`L3_Utils/src/scheduler_task.cpp`) | list of tasks, start-up semaphore, shared objects | add, init all, start, `taskEntry()` of all, `run()` loops, suspend, resume | every application task | a barrier of a counting semaphore, priorities, tasks that fail |
| File logger (`L3_Utils/src/file_logger.c`) | two queues of buffer pointers, file buffer and its two pointers | `logger_log`, `logger_log_raw`, flush request, logger task, writes | any task; FatFs | buffer ownership, blocking with no timeout, split messages, failing writes |
| FatFs (`L4_IO/fat/ff.c`) | sector window, file objects with a sector buffer, FAT, directory, FSINFO | open, read, write, seek, sync, close, unlink, free space, mount | file logger, terminal, SD card and flash | one window for all tables, three kinds of cached data, a power failure between two writes |
| CAN driver (`L2_Drivers/src/can.c`) | rx and tx queue, controller registers | `CAN_tx`, `CAN_rx`, interrupt, `CAN_reset_bus`, filters | tasks against the interrupt | transmit buffer tested in one critical section, queue filled outside it |
| I2C driver (`L2_Drivers/base/i2c_base.cpp`) | transaction record, mutex, completion signal, I2C flags | transfer, interrupt state machine, slave mode | tasks, interrupt, devices | ACK chosen one byte ahead, timeout against a late completion, errors that keep the flag set |
| UART and character devices (`L2_Drivers/base/uart_dev.cpp`, `char_dev.cpp`, `printf_lib.c`) | rx and tx queue, printf()'s semaphore | `putChar`, `getChar`, `flush`, interrupt, `printf` | tasks against the interrupt and the transmitter | start of a transmission against the end of one |
| Wireless mesh (`L4_IO/wireless/src/mesh.c`) | two pending packets, packet history, four routes, sequence number | send, service, receive, forward, acknowledge, retry, route discovery | driver callbacks, wireless service | lost and repeated packets, eviction of pending ones, route repair |
| Wireless service and Nordic stream (`wireless.c`, `L2_Drivers/src/nrf_stream.cpp`) | activity semaphore, two packet queues, stream buffer | service task, get packet, drop the oldest, flush | mesh, radio interrupt, terminal | who wakes the service; a queue that drops while it is read |
| System timer and watchdog (`L0_LowLevel/source/lpc_sys.cpp`) | timer count, overflow count, match registers, watchdog | uptime, timer interrupt | every timeout, infra-red receiver | reading a 64-bit value in two parts; one interrupt with five reasons |
| RTC alarms, linked list (`L3_Utils/src/rtc_alarm.c`, `c_list.c`) | lists of semaphores | create, interrupt | tasks against the interrupt | insertion while the list is walked |
| Containers, strings, timers, command handler, terminal, telemetry, flash and SD card, SPI, Nordic radio, other drivers, application, newlib glue | see `PROJECT.json` | | | mostly sequential, or register I/O |

Correctness of the modelled components, in one sentence each:

* **Queues**: a queue is a bounded sequence, and no task sleeps at it while it could go on, whatever interrupts do.
* **Time**: a delay and a block time end at their tick, not before and not later, across the wrap and any suspension.
* **Mutexes**: who holds a mutex has at least the priority of those who wait for it, and gives up afterwards what it
  inherited.
* **Event groups**: a task sleeps only while its bits are not set, is told bits that satisfy it, and uses each setting of a bit
  once.
* **Periodic scheduler**: each task is activated at exactly its millisecond, no activation is lost or merged, and a
  reboot always has an overrun behind it.
* **Task framework**: no `run()` is called before every `taskEntry()` returned true, and then everyone gets to run.
* **File logger**: a buffer is in one hand at a time and always comes back, nobody waits for ever, and the file is
  the sequence of the logged messages.
* **FatFs**: a file reads as what was written to it, what was synchronised survives a power failure at any moment, and
  the clusters of two files never mix.
* **CAN driver**: a message given to `CAN_tx()` is sent at most once, does not get stuck in the queue, is not sent
  if it was refused, and messages are received in their order of arrival.
* **I2C driver**: `true` means that exactly the requested bytes moved between the caller's buffer and the device,
  the machine works for one caller only and never outside its buffer, and every call returns.
* **UART**: characters leave in the order they were put in, none is lost and none is left behind.
* **Wireless mesh**: the application gets a packet once, a packet to be acknowledged is sent again until it arrives or
  its retries are used up, and the mesh falls silent when nobody sends.
* **Wireless service**: a pending packet is looked after, a successful `flush()` was acknowledged, and the packet just
  received is never the one that is dropped.
* **System timer**: an uptime is a time of the call that reads it, and the watchdog is fed while the system runs.
* **RTC alarms**: in every second exactly the alarms of that second ring.

## 2. Modules

| Module | Models |
|---|---|
| `KernelQueue`, `BoundedQueue` | a FreeRTOS queue, its lists, locks and set; what a queue promises |
| `KernelTime` | ticks, delays, timeouts and suspension |
| `MutexInheritance` | mutexes, priorities and their inheritance |
| `EventGroup` | event groups, in calls that the scheduler does not interrupt |
| `Uart` | the UART driver under `put()`, `printf()`, `flush()` and `getChar()` |
| `SysTimer` | the timer, its interrupt, the uptime, the watchdog |
| `RtcAlarm` | alarms in linked lists |
| `PeriodicDispatcher` | the dispatcher task, the four period tasks, the reboot |
| `TaskFramework` | `scheduler_start()` and the life of its tasks |
| `FileLogger`, `LogStream` | callers, logger task, queues, file buffer, file; the append-only file they promise |
| `FatVolume`, `FileStore` | FatFs on a volume, step by step; the files it promises |
| `CanDriver` | one CAN controller, `CAN_tx`, `CAN_rx`, the interrupt, `CAN_reset_bus` |
| `I2cMaster` | `transfer()`, the master half of the interrupt's state machine, bus and device |
| `Mesh` | the nodes of a mesh, their tables, and the radio between them |
| `Wireless` | the service task, the packet queues, the stream |
| `MCCanDriver`, `MCFileLogger`, `MCFatVolume`, `MCMesh`, `MCPeriodicDispatcher` | values of the constants for TLC; in `MCFileLogger` and `MCFatVolume` also the refinement mappings to `LogStream` and `FileStore` |
| `MCKernel`, `MCDrivers`, `MCTasks`, `MCStorage`, `MCRadio` | the passing runs |
| `KernelProofs` | theorems about `KernelQueue`, `KernelTime`, `MutexInheritance` and `EventGroup` |
| `DeviceProofs` | theorems about `SysTimer`, `RtcAlarm` and `Uart`, and about `MCKernel` as a whole |
| `TaskProofs` | theorems about `PeriodicDispatcher` and `TaskFramework` |
| `DriverProofs` | theorems about `CanDriver` and `I2cMaster` |
| `StorageProofs` | theorems about `FileLogger`, lemmas about `FatVolume` |
| `VolumeProofs`, `FileStoreProofs` | theorems about `FatVolume` and `MCStorage`; that `FatVolume` implements `FileStore` |
| `RadioProofs` | theorems about `Wireless` and `Mesh` |

The last kind of MC module puts the parts of one layer into one run. Its variable `part` chooses, in the initial
state, the part that moves; the others keep their initial state, so a run checks each part in full and no product of
them. Parts that do interact are modelled together, inside one module.

`Mutant_...` operators are not part of a model. Each is a plausible bug in the operator that follows it, and each
property of a passing run is known to fail with the mutant that `PROJECT.json` names for it.

### KernelQueue

A call is a sequence of steps between which interrupts come, and other tasks until the caller suspends the scheduler:
`Call`, the attempt (`Send`, `Receive`, `Peek`, `xQueueSelectFromSet`), and, if it was refused and may block, `Lock`
(`vTaskSuspendAll()` and `prvLockQueue()`), `Test`, `Place`, `UnlockTx`, `UnlockRx` and back to the attempt. `lock[q][s]`
is the lock count -- what the interrupt did meanwhile -- of the side it wakes. `Wake(q, s, n, ran)` is n calls of
`xTaskRemoveFromEventList()`; which of the waiting tasks is woken depends on priorities and is left open. `Announce` is the end of
a post: it wakes a reader, or posts to the queue set and wakes a task there. `woken` is history: the tasks an event woke that
have not run since. `BoundedQueue` is a sequence; the mapping reads it off the ring.

### KernelTime

`tickCount` counts modulo `Wheel`; a task that waits is in `delayed` or, if its time is past the wrap, in `overflowed`, and
`SysTick` swaps the two. While `ktOwner` has suspended the scheduler, ticks are pended and woken tasks go to `pendingReady`;
`ResumePending`, `ResumeTick` and `xTaskResumeAll` make up for them. `xTaskCheckForTimeOut` computes what is left of a block time
with the code's unsigned subtraction and its two tests. `due` is history: the true end of a wait, which does not wrap.

### MutexInheritance

`taskPriority` decides who runs (`IsCurrent`) and the order of `miWaiters`. A task that finds a mutex held suspends
the scheduler in one step and inherits and waits in the next (`Block`), so that the mutex may be given back in between. `Give` wakes the head
of the list, which has to take the mutex again and may come too late. A holder may sleep, take a second mutex, or
itself wait. `blockedAt` is history: the priority a task waited with.

### EventGroup

A call suspends the scheduler and interrupts do not use event groups, so a call is one step, up to where its task blocks; the steps
after that are its own (`ReturnWoken`, `ReturnTimedOut`). `itemValue` is what the task's event list item holds: its priority
(`{}`), the wait, or the bits that woke it. Which woken task runs first, by priority, is left open. A wait or rendezvous without a block time that is
not met does nothing, or what `xEventGroupSetBits` does. `rises` and `used` are history: how often each bit was set, and the calls that returned
with it, each of which was to clear it.

### Uart

`txQueue` is filled by tasks; `putChar()` is `SendChar`, the look at the transmitter (`CheckIdle`), and, if it is idle, the
receive of the oldest character (`PopOldest`) and the write (`WriteOldest`); the interrupt and the transmitter come in between
any two. `thrFifo`, `shift` and `line` are the transmitter; it raises its interrupt when the FIFO becomes empty. `direct` are the tasks that call
`put()` without `printf()`'s semaphore. Before the scheduler runs characters are written by polling.

### SysTimer

`Tick` is a microsecond and raises the interrupts whose match register is reached; `TimerIsr` serves one reason per
entry, in the order of the handler's tests. An interrupt may wait up to `MaxLatency`, and `Tick` respects that: it is
the assumption that interrupts are not masked for longer. `sys_get_uptime_us()` is three reads, between which ticks and interrupts come.

### RtcAlarm

The insertion at the end of a list is modelled write by write (`createStep`), and the interrupt walks the list with
whatever it finds. `overlapped` records that two tasks created alarms at the same time, which nothing prevents.

### PeriodicDispatcher

`counters` and `sems` are the arrays of `prd_dispatcher.cpp`; `Dispatch` is one turn of `run()` with its nested
calls of `handlePeriodicSemaphore()`, `Reached`, `Wraps` and `Overruns` are its conditions; `Begin` and `Finish` are
the loops of the period tasks around the application's callback. `HasCpu` states the priorities: a faster task
preempts a slower one. `phase` and `owed` are history: the schedule, stated without the cascade, and the activations
it made due. After an overrun the dispatcher writes a report, which does I/O and lets the other tasks run; then the
board reboots.

### TaskFramework

`scheduler_start` creates and initialises the tasks or, if one fails, does not start them. One task, that with the largest stack,
calls `taskEntry()` for all and then gives the semaphore once per task; `HasProcessor` states the priorities. When a
`taskEntry()` fails, `vTaskEndScheduler()` does nothing on this port, and all tasks stay at the semaphore.

### FileLogger

One action per place where a task can be interrupted between two operations on shared state: take a buffer, format
into it, send it, print it; for the logger task receive, copy, write, return the buffer. A message is a record of
its caller, number and length; its text is that many *units*, so the cut at the end of the file buffer and the
concatenation in the file are the code's. `WriteToFile` stores all of what it is given or a prefix (a failed open,
seek or write). `LogBeforeOs` is the path taken while the scheduler is not running. `RequestFlush` sends the NULL
pointer; `FlushTimeout` is the receive timeout.

### FatVolume

FatFs serves one call at a time (`_FS_REENTRANT`), so a call is a sequence of steps of one task and the other actor is the
power failure, `Restart`, enabled between any two steps; each step writes to the disk at most once. `fat` and `dir` are what the
code sees through its one window, `disk` what a failure leaves of them. `PutFat` and `PutEntry` move the window, which writes it back
when it is dirty. A file has a sector buffer of its own (`fil[f].buf`), which is dirty until another sector is needed or the
file is synchronised. The order of updates is the code's: a cluster is marked before it is linked, an entry is removed before its
chain, a size is written last. Data is *units*; the unit written by a call is the number of the call, so the model knows who wrote what.
`FileStore` has files, handles and one call in progress, begun and ended in one step each; `kept` is
what is safe.

### CanDriver

A message is its sender and number. `hw` is transmit buffer 1, the only one `CAN_tx_now()` writes to. `mask` is the
task inside `taskENTER_CRITICAL()`: while it is set the controller works on but the interrupt waits, and while an
interrupt is due no other task runs (`Runs`). The interrupt is three actions, so that the controller acts between
its read of ICR, its receive half and its transmit half; tasks do not. `CAN_reset_bus()` aborts the transmission;
the data sheet leaves open whether that raises the transmit interrupt, and so does the model.

### I2cMaster

`Bus` is what the controller and the device do between two interrupts, `stat` the I2STAT code with which it asks for
the next one. There is one `Isr...` action per case of the state machine; the cases that end without clearing SI
leave `si` set, so the interrupt comes again and callers, who need `~ si`, do not run. `trx` is the transaction
record, byte `<<c, i>>` the i-th byte of caller c's transfer, `moved` the bytes stored or sent together with the
register they belong to. The device may acknowledge or not, at each step; it may never answer; another master or
noise may disturb each step. `WaitTimeout` is enabled at any time of the wait, so it races the completion; `late` is history: one
did time out.

### Mesh

`node[n]` holds the static variables of `mesh.c` on node n: routes, history, the pending packets of others and its own,
the sequence number. The operators are named for the functions, take such a record and return it with two more
fields filled in: `out`, the packets handed to the radio, and `up`, what the application gets. `Finish` empties both
into the neighbours' radios, as far as their FIFOs have room, and into the history variables. `Receive` is the first half of
`mesh_service()`, `HandlePending` the second; `Fate` has one line for each branch of `mesh_handle_pnd_pkts_for_arr()`.

Time is abstract: in any `mesh_service()` any set of the pending packets may be due, except one stored just now, whose
timer starts again. The time for which nothing is on the air costs nothing; timeouts that overtake
packets on the air (a late acknowledgement, a slow neighbour) are bounded by `MaxEarly`. Packets on the air are lost one by
one (`Lose`) or because a radio is full; they are not reordered between two neighbours, as radios do not. A
node does not hear itself. `mesh_service()` and `mesh_send()` are one step each. That is coarser than the code, where
`g_locked` is tested only at the start of `mesh_service()`, so that a task of higher priority can call `mesh_send()` in
the middle of it; `Wireless` has the lock, and the two steps of a send, instead.

### Wireless

One node's `wireless_service()` in its steps (look at the signal, sleep or nap on the semaphore, read the radio, look again, clear the
signal, queue the packet, serve what is pending) against a task with a `NordicStream` and readers of the receive queue. The mesh is
reduced to its lock and the retries left of each packet in `pnd`. `SendOnAir` and `AddPending` are the two ends of `mesh_send_formed_pkt()`
between which the service may run. The stream
has one destination, which answers each copy of a packet it takes for new or for a retry, whether this node, a repeater or a new route
brought it (`mesh.c:463`, `494`, `866`). `HearAck` therefore lets an acknowledgement of any packet that was sent arrive at any time and any number of times,
also for a packet nobody waits for any more; one that arrives clears all of the stream's pending packets, since the code compares addresses only.

## 3. Runs

| Run | Shows | Bounds and why they are enough |
|---|---|---|
| `Kernel` | types. *Queue*: no wake-up lost, a member's items stand for events of the set, refinement of `BoundedQueue`. *Time*: ticks wake exactly the due, calls give up in time. *Mutex*: inheritance. *Events*: woken by the right bits, each event used once. *UART*: `printf()`s in order, nothing lost. *Timer*: exact uptime, watchdog. *Alarms*: on time | *Queue*: two tasks and the interrupt, two items in the ring; the tasks send one kind, the interrupt both, so that the ends of the ring differ; one count of lock. *Time*: the tick wraps at 4, waits of 1, 2 and for ever, 5 ticks: waits end before, at and after the wrap. *Mutex*: two mutexes, one task below two equal ones: a holder waits, waiters queue, a woken one comes too late. *Events*: two tasks, two bits set twice each, waits for both, either and one of them, with and without clearing; the proof covers the rest. *UART*: queue and FIFO of two, strings of one or two characters, two characters of one task, one of the other and one before the scheduler. *Timer*: the counter wraps at 5, 9 microseconds, so each period wraps at another place. *Alarms*: three alarms, days of 4 seconds. The timer's bounds are removed by the proof |
| `Drivers` | types. *CAN*: nothing stranded, sent once and not if refused, received in order, queue drains. *I2C*: stays in the transfer, true means moved, transfers return | *CAN*: two senders with 2 and 1 messages, a transmit queue of one so that it fills, a receive queue of two and three arrivals so that it drops, one reset. *I2C*: two tasks and the boot code, two transfers of 0 to 3 bytes, `trxSize` counts modulo 4, a device moves at most four bytes, one more than asked |
| `Tasks` | types. *Periodic*: activations at their milliseconds, reboots only for an overrun, activations are served. *Framework*: no run before the entries, every task gets to run | *Periodic*: cascade 1, 4, 3, 2 in place of 1, 10, 10, 10: the schedule closes after 24 ms, all combinations of wrapped levels occur; the proof covers the rest. *Framework*: three tasks in any order, on two priorities in three ways, delaying or not |
| `Storage` | types. *Logger*: buffer ownership, calls return, cached data is written, refinement of `LogStream`. *Volume*: tables sound at every moment, refinement of `FileStore` | *Logger*: two tasks and the boot code, 2 and 1 and 1 messages, of lengths 1 and 2, 2, and 1, two buffers, a file buffer of two units: full, exactly filled and overflowed; one flush request, one failing write; callers do wait for buffers. *Volume*: two files on three clusters, so that it fills, with the FAT in two sectors, so that the window moves; sectors of two units, clusters of two sectors, writes of 5 units, across a sector and a cluster, to one file also of 1 unit and behind an `f_lseek()` to 0 or 5; four calls, one power failure at any step |
| `Radio` | types. *Mesh*: delivered once, retried until delivered, nothing lost without loss, silence in the end. *Service*: newest packet kept, flush true means acknowledged | *Mesh*: three nodes in a line, the middle one repeats; a packet from end to end and a broadcast of the other end, so the route is known, unknown or learnt on the way; one retry, two losses, one early timeout, two pending slots that do fill, a history of three that does overflow; the radio's FIFO of three. *Service*: a radio of two packets, a receive queue of one so that it drops, two flushes with one retry, two data packets |
| `PeriodicOverrun` | **finding 1** | as `Tasks` |
| `FileLoggerPrint` | **finding 2** | as `Storage`, the other task sends two messages |
| `CanLost` | **finding 3** | transmit queue of three, nothing arrives |
| `I2cNack` | **finding 4** | one transfer |
| `MeshLateAck` | **finding 5** | two packets to a neighbour, the second when the first is no longer pending; two retries, one loss, the code's table sizes |
| `QueueSet` | **finding 6** | one kind of item |
| `WirelessRetry` | **finding 7** | one flush, no data |

Deadlock is not checked, except in `FileLoggerPrint` and `PeriodicOverrun`: the models stop when their bounded callers are done, when the
bounded time is over, or, for I2C, when no device answers; the mesh stops when it is silent. That nobody waits for
ever is what the liveness properties and `NoLostWakeup` say instead.

Every bound is a constant: `MaxCalls`, `MaxFlushes`, `MaxFailures`, `MaxTx`, `MaxArrivals`, `MaxResets`, `MaxBytes`,
`MaxLosses`, `MaxEarly`, `MaxLock`, `MaxWait`, `MaxTicks`, `MaxString`, `MaxChars`, `MaxLatency`, `MaxTime`, `MaxAlarms`,
`MaxSeconds`, `MaxRises`, `MaxFatCalls`, `MaxRestarts`, `MaxData`, the calls of each node in `Calls`, and `MaxOwed` in
`PeriodicDispatcher`, where the history stops counting at 2 because 2 is one too many already.

### Fairness

* Periodic scheduler: `WF(Dispatch)` since the dispatcher has the highest priority and wakes every millisecond,
  `WF(Reboot)` since the report is finite. Nothing about the callbacks.
* Task framework: strong fairness of each task's own steps, since tasks of one priority share the processor by time slices. That tasks
  of higher priorities leave the processor is not assumed of the kernel; it is a premise of `EveryTaskRuns`.
* File logger: weak fairness of the logger task, its timeout included, and of each caller inside a call: a task that
  stays ready is scheduled, and a file operation ends, with or without success. Nobody is made to log or to flush.
* CAN driver: a bus that is on transmits, interrupts are served, a task inside `CAN_tx()` is scheduled. Nobody is made
  to send, receive or reset.
* I2C driver: interrupts are served, callers inside `transfer()` are scheduled. No device is made to answer.
* Mesh: some node with something to do calls `mesh_service()`, which `mesh.h:153` asks to be called periodically; nobody
  is made to send, and packets may be lost up to the bound. What is still due stays due, so this is weaker than
  fairness for each node.
* Wireless service (`WirelessRetry`): both tasks are scheduled, and a pending packet served again and again becomes due.
* The kernel with its event groups, the UART, the timers and the volume: none; their properties are safety properties.

## 4. Findings

1. **Overrun goes unnoticed** (`PeriodicOverrun`). `period_callbacks.cpp:28` says that running over the time slot
   resets the system. The test for it takes the semaphore of the task; but the task took it itself, when its
   callback began. A callback that is still running when its next slot begins leaves the semaphore empty and goes
   unnoticed; only one that delays the *start* of the next callback by a whole period is caught.
2. **Another task's message is printed** (`FileLoggerPrint`). `logger_log()` prints the buffer after it has given it to the
   logger task, which may have written it and handed it to a second task.
3. **An accepted CAN message is lost** (`CanLost`). The transmission of buffer 1 ends while a task is inside the critical
   section of `CAN_tx()`, which refills the buffer. The interrupt, due at the end of the section, takes a message
   from the queue and ignores that `CAN_tx_now()` refuses it. With a queue of one the same property also shows a
   second way: when queueing times out, line 448 overwrites `ok` with the result of sending *somebody else's*
   message, so `CAN_tx()` returns true for a message it neither sent nor queued.
4. **An absent I2C device hangs the system** (`I2cNack`). The cases for a refused address or byte and for a bus error are
   commented "no break", for they fell through to the case that ends the transfer; each has a break. SI stays set, and the
   interrupt is entered for ever. `checkDeviceResponse()`, and the terminal's `i2c discover` with it, relies on them.
5. **A late acknowledgement cancels the next packet's retries** (`MeshLateAck`). `mesh.h:31` says that a packet of type ACK is
   retransmitted if the ACK is not received. A packet that is retried because its acknowledgement is late is
   acknowledged twice. The first response clears it; the sender goes on to its next packet to the same node; the second
   response clears that one, since only the addresses are compared, not the sequence number. If the radio then loses the packet,
   nobody sends it again.
6. **A task sleeps at a queue set that is not empty** (`QueueSet`). `queue.c:195` says that an interrupt that finds a queue
   locked counts instead of touching its lists. `prvNotifyQueueSetContainer()` (line 2396) does not look at the lock of the *set*: an interrupt that posts to a member
   between the task's look at the empty set and its entry in the set's list wakes nobody, and nothing is counted, so
   the task goes to sleep beside its event and stays there until the next one.
7. **A pending packet is never retried** (`WirelessRetry`). `wireless.c:203` says that a send gives the semaphore so that the service task
   carries out the retry logic. It gives it before the mesh has entered the packet as pending. A service task that runs in between consumes the give, finds
   nothing pending, and sleeps without a timeout; the packet is not retried before the next packet is sent.

Some weaknesses are in the hazards list but refute no statement of the repository:

* An I2C transfer that times out goes on in the interrupt with the buffer of a call that returned, and its completion
  is then taken for the next transfer's (`StaysInTransfer` and `TrueMeansMoved` are therefore stated up to the first
  timeout); before the scheduler runs, a transfer that timed out returns true.
* A `putChar()` that finds the transmitter busy (`uart_dev.cpp:89`) can be too late for the interrupt that ends the
  transmission: its character waits until the next `putChar()`. Two tasks that use `put()` without `printf()`'s semaphore can
  swap their characters and overrun the FIFO (`PrintfInOrder` is stated without such tasks).
* The background match register is advanced by `TC` and the period *added to itself* (`lpc_sys.cpp:194`), so the background work of the
  time before the scheduler comes at growing, and after the wrap arbitrary, intervals.
* An inherited priority does not move a task inside the list it waits in. The list then no longer has its most urgent task first; the priority of the holder stays right
  (`PriorityInheritance`).
* Two tasks that create the first alarm of a kind at the same time lose one of the two lists (`AlarmsOnTime` is stated
  without that).
* After a power failure FSINFO's count of free clusters is stale, and `f_getfree()` only counts again when it is out of
  range; clusters allocated since the last synchronisation are lost. With `_FS_LOCK` 0, a file opened twice or removed while open
  is not protected; the model's callers do not do that.
* In the mesh, a repetition that arrives after more packets than the history holds is delivered again (`DeliveredOnce`
  says so); any packet from its destination to its source makes a repeater drop a packet that waits for its way, even
  an unrelated one (`LosslessDelivers` is checked where there is none); and a slot taken from a waiting packet keeps
  its discovery flag, so its new owner is repeated once only.
* `flush()` of the stream takes whatever is in `g_ack_queue` for its packet's acknowledgement (`nrf_stream.cpp:96`). One that is left over is taken for the
  next packet's: a late one, after a `flush()` that timed out, or a second one, when the mesh had already retried the packet that the first one
  acknowledged (`mesh.c:463`; the destination answers every retry, line 866). `FlushTrueMeansAcked` is therefore stated up to the first timeout and
  without second acknowledgements of earlier packets; TLC refutes it without either condition.

## 5. Proofs

The proof modules have the same shape: lemmas about data (queue operations, counters, messages, arithmetic), one lemma for
each action and part of the invariant, an inductive invariant `...IInv`, and one theorem for each property. The assumptions
are the ASSUMEs of the modules: they say of the constants what the code's declarations say, and bounds may be any number.

* **`TaskProofs`**. *Periodic scheduler*: `TypeCorrect`, `Scheduled`, `NoSpuriousReboot`, for every choice of the four
  frequencies in 1..255. `PrdIInv` adds to the types that the counters are the mixed-radix digits of the milliseconds since
  boot (`PhaseIsCount`) and that a given semaphore is an owed activation. The core is arithmetic: a level fires exactly when the
  digits below it all wrap, that is at a multiple of its period.
  *Task framework*: `FrameworkInvariance`, `EntriesBeforeRun`, for any tasks, stacks and priorities. `TfInv` says that one task
  calls all the `taskEntry()` functions and that before the last has succeeded nothing was given, nothing is in its loop and
  no semaphore can be taken; a task whose semaphore is given once more than it waits could else start early.
  `TasksTyped` joins the two for `TasksTypeOK`.
* **`StorageProofs`**. *File logger*: `TypeCorrect`, `BuffersAlwaysKept`, `CacheDoesNotOverflow`, `FileIsTheStream`, for any
  tasks, buffers and lengths.
  The places a buffer can be in (empty queue, write queue, a caller, the logger) are shown to partition the buffers; that
  the return of a buffer never blocks is then a count: if the logger holds one, the empty queue holds no buffer
  twice and misses one, so it is shorter than its capacity.
  `FileIsTheStream`: `FileLogger` implements `LogStream`. The abstract stream in RAM is the file buffer, what the logger task has in hand
  and the messages queued, one after the other; most steps move a piece from one of these to the next and leave the stream as it is
  (`Still`). A message is accepted when it is sent, and units are stored when the file buffer is written. `StreamInv` adds that the buffer a
  caller is about to send holds its next message; that no buffer is shared is what keeps `Format` from changing a message of the
  stream. What `FlattenSeq` gives for a queue with one message more, or without its first, is shown by an induction over places.
* **`VolumeProofs`**, on lemmas in `StorageProofs`: `VolumeInvariance`, `VolumeAlwaysSound`, `VolumeTyped`, for any files,
  sizes of sectors and clusters, number of clusters, calls and power failures (`FatAssumption`). `VolumeIsSound` speaks of the
  clusters that following the FAT from an entry reaches, between calls and on the disk. `FatInv` says instead that there are
  sequences of clusters, one for each file and one that is nobody's, that the FAT links in order, that no two of them meet,
  and that while no power has failed every used cluster is in one (`Chains`, `AccountInv`). Nobody's is the chain
  `remove_chain()` is freeing or the one cluster that `create_chain()` took and has not linked. A step then changes one
  sequence at one end (the lemmas `Family...`), or only the position on it. The FAT and the directory differ from the disk in
  the window only (`WindowInv`, lemmas `Window...`), which is why the disk always holds chains too (`DiskInv`). The other
  parts are each file's position on its chain, one cluster behind or ahead according to the point the call has reached
  (`PosInv`); what the entry may still lack of an open file (`EntryInv`); the progress of the one call (`ProgressInv`); and
  `freeClust`, which is exact until the first restart and afterwards bounded by the clusters that each restart may have lost
  (`CountInv`). That the clusters reached by following links are those of the sequence is an induction over places.
  `StorageTyped` joins logger and volume for `StorageTypeOK`.
* **`FileStoreProofs`**: `VolumeImplementsFiles`, for any files, sectors, clusters, writes, offsets and power failures, with
  the mapping of `MCFatVolume`: between calls the files are what `f_read()` would give, during a call what they were when it
  started. `FilesInvariance` is what it needs. `FatInv` says which clusters are in the chain of a file (`Line`); `FilesInv`
  says which units are in them: `Raw` as they are in the sectors, `Mem` as they are read, where the sector in a dirty buffer
  of the file counts instead of the one on the disk. Its parts: a buffer holds a sector of its own file, that of the position
  where the call relies on it, and agrees with it (`BufferInv`), but for a sector past the end of the file that `f_write()` is
  about to fill (`Fresh`); what was synchronised and not written over since is on the disk and in what is read, in clusters
  that the entry on the disk leads to (`KeptInv`, `Stored`); so is all of a file that was not written since its last
  `f_sync()` (`SettledInv`), which is why a `sync` that finds nothing to do may promise as much as one that writes; and the
  call in progress relates to the files and handles it found as far as it has come (`ViewInv`): of `f_write()`, for one, the
  units between the old position and the present one are its own and all others as they were (`Writing`). That a write or a
  seek ends short only if the volume is full needs that `create_chain()` has looked at every entry of the FAT by the time it
  gives up (`Full`). A step from the start of a call is then `Begin`, the last step of a call is `End` (lemmas `...Ends`),
  `Restart` is `Restart`, and all others change nothing that `FileStore` sees (`StepsUnseen`). A step of a call touches one
  file: a lemma for each kind of step says what it does to `Raw`, `Mem` and the chain of that file, and that the others keep
  theirs since no two chains meet (`LinesApart`). The theorem has no hypothesis on the data: the units that `f_lseek()`
  stretches a file over are whatever was in these clusters. The invariant and the lemmas about data are in `VolumeProofs`, the
  steps in `FileStoreProofs`. These two and `StorageProofs` take longest to prove, ten to fifteen
  minutes each.
* **`DriverProofs`**. *CAN*: `TypeCorrect`, `MessagesNotStranded`, `MessagesSentAsTold`, `ReceivedInOrder`, for any senders and
  queue sizes. `NotStranded` is inductive with the types. The two halves of `SentAsTold` need `OwnIsNew`: a caller's message
  has the highest number of that caller and is nowhere until the caller queues or writes it, which is what makes
  "not ok" mean "never given away" at the second check. `ReceivedInOrder` needs `ArrivalOrder`, which orders the three
  places a received message passes through.
  *I2C*: `BusStaysInTransfer`, `TrueMeansAllMoved`, for any callers and lengths. `TransferInv` says where the bus is
  in the transfer of the caller that waits (`Progress`): starting, addressing, at a byte of the request, turning around for a read, broken or
  ended; in each the status, the byte to come, the bytes moved and those left agree. It is claimed until
  a transfer times out, because after that a state machine may run for a caller that has gone.
  `DriversTyped` joins CAN and I2C for `DriversTypeOK`.
* **`DeviceProofs`**. *System timer*: `UptimeExact`, `WatchdogFed`, for every width of the counter, every period and every interrupt
  latency the assumption allows. `TimerIInv` says of the count of rollovers how far it is from the truth, by whether the rollover's
  interrupt is pending and on which side of the wrap the counter is (`CountIsRight`); of a read in progress what it may
  have seen (`ReadIsRight`); and of the match register how far away the next feed is (`FeedIsDue`). The properties say nothing about
  these; they follow because a task does not run while an interrupt is pending or served, and so never sees a count that is early or late.
  *RTC alarms*: `AlarmsGivenOnTime`, for any tasks, alarms and lengths of minute and hour. The invariant gives the lists their shape:
  every linked node but the head follows one made earlier, and the tail, or the node about to become it, is the
  last (`ListsSound`); so the interrupt's walk, whenever it comes, reaches every linked node. The walk is the least set of nodes that holds the head and is
  closed under the links, and that it holds each node is an induction over the node numbers.
  *UART*: `PrintfKeepsOrder`, `EveryCharOnce`, `UartTyped`, for any tasks, strings and sizes of queue and FIFO. The order is inductive with
  the types and with one more fact: the task of `printf()` that is about to write to the transmitter itself found it idle and holds
  the semaphore, so nobody else writes before it (`Alone`). That every character is in exactly one place holds for `put()` too, where
  nothing orders the callers. `PlacesInv` says that the six places share no character and hold none twice, that a character
  in them has a number its task has given already (so the next one is new), that together they hold all
  that was queued and not cleared, and that the queue is the end of that. A step takes a set of characters out of their place and puts it, or none of it,
  in another (`Moves`); `PlacesMove` says once what such a step keeps.
  `KernelTyped` joins all parts of `MCKernel` for `KernelTypeOK`: a step of the whole is a step of one part and a stutter of the others,
  so the inductive invariants of the parts are one of the whole.
* **`KernelProofs`**. *Queues*: `QueueInvariance`, `NothingLost`, `EventsHeld`, for any tasks, lengths and number of posts while a queue
  is locked. `KqIInv` adds to the types who holds the scheduler and what is locked (`KqControl`), that a task on a list, or woken
  from it, is inside the call that put it there (`KqLists`), and the count the property needs (`Covered`): it holds from the
  moment a task has decided to wait, not only once it waits, because `Test` and `Place` are two steps and interrupts post in between. `Woke`
  says once what waking n tasks does to the lists; every action but `Timeout` and the locked steps uses it.
  `Refinement`: `KernelQueue` implements `BoundedQueue`. The invariant adds that `writeTo` is
  the place after the last item (`StoreOK`); the rest is arithmetic modulo the length (`After`, `Before`, `PlacesDiffer`).
  *Mutexes*: `MutexInvariance`, `PriorityLent`, for any tasks, mutexes and priorities. A waiting task lends its priority once, when it
  blocks, and the list is not sorted again when a task in it inherits. `MiInv` therefore says that no task in a list came with
  a priority above the present one of a task ahead of it (`OrderInv`), and that of a mutex that is free while tasks wait, the task that was
  woken tries to take it and is as urgent as any of them (`WokenInv`).
  *Event groups*: `EventsOnce`, for any tasks, bits and waits. `EgInv` adds what an item value holds in each state of its task
  (`ValueOfWaiting`) and an account of each bit (`Account`): its uses by a task, the use that a woken task has not yet returned
  with, and the bit itself while it is set are no more than the times it was set. `Walk` says once what setting bits does to
  the waiting tasks; the three actions that set bits use it.
  *Time*: `OneListAlways`, `GivesUpAlways`, `TicksWake`, for any tasks and any size of the wheel. `KtIInv` relates what
  the code keeps, ticks that wrap, to the times the properties speak of, which do not: the tick to the ticks processed (`ClockRight`),
  the item value in each of the two delayed lists to the end of that wait (`WakeRight`), and what is left of a block time,
  with the time the call last looked, to its end (`CallRight`). It also needs who holds the scheduler (`OwnerRight`), because ticks are
  pended between a call's look at the tick and its entry in a list. `TimeSince` and `ShouldDelay` say that the tests of
  `xTaskCheckForTimeOut()` and `vTaskDelayUntil()` on wrapped ticks decide what they are meant to. The first is where the
  assumption `MaxTicks < 2 * Wheel` enters: the code asks whether the overflow count changed, not by how much, so a call
  that is kept from running for more than a turn may miss the end of its time; with it the theorems cover the first 2^33 ticks after
  a start, 99 days. `OneListAlways` has its own invariant over the lists, `KtLists`.
* **`RadioProofs`**. *Service*: `ServiceInvariance`, `FlushIsTrue`, `NewestKept`, for any sizes of the queues and numbers of packets. `DataInv` orders the
  data packets over the four places they pass: the radio, the service task's hands, `g_rx_queue` and the packets taken. `AckInv` says that at most one acknowledgement is on
  its way, that of the packet the stream waits for, until a `flush()` has timed out or a packet was acknowledged again. Second acknowledgements of the packet
  that is being flushed do no harm yet, and `FlushIsTrue` allows them: then the packet was acknowledged, and nothing is to be shown.
  *Mesh*: `MeshTyped`, `GivenOnce`, for any nodes, neighbours, calls and sizes of tables. Packets and tables are the same data, so each
  lemma about a function of `mesh.c` says that it keeps all packets in a set `P` that is closed under what nodes do to a packet
  (`Closed`). With all packets for `P` this is `MeshTyped`: fields stay in their bits because a node forwards only below
  the packet's maximal hops and `retries_rem` is taken modulo 8. With the packets whose number their source has given away
  (`Known`), a broadcast among them with all its retries, it says that nobody retries a broadcast. Two more facts give `GivenOnce`: the history has one entry
  for each source and number, and as long as all packets that a node heard fit into it, none of them is missing (`Memory`).
  `GivenOnce` has a hypothesis, `[][NumbersGrow]`: no node's 8-bit sequence number starts over, which it does after 255 packets. The
  code needs it. A packet and a later broadcast of the same source and number would share an entry, and each copy of one would make the next
  copy of the other look like a retry, which a node passes on again if it is a broadcast. In the instance of the run no
  number starts over. `RadioTyped` joins both parts for `RadioTypeOK`.

Only model-checked: everything with fairness, which is beyond the prover; and `RetriedUntilDelivered` and `LosslessDelivers`,
which say of the run's three nodes more than holds of any network: an acknowledgement is matched to a pending packet by the
two addresses alone, so that a late one may end the wait for the next packet (run `MeshLateAck`).

## 6. Not modelled

* Within the modelled components:
  counters, watermarks and statistics, on which nothing depends; the text of messages;
  the failure paths of the logger's initialisation;
  CAN bit timing, acceptance filters and the FullCAN table;
  the slave states of the I2C machine, which move data at addresses the bus chooses, and `disableOperation()`;
  in the mesh route scores and the overwriting of a full table, the version check, a change of address, a restart, and answers of
  applications to `ack_app` packets, which nobody in the repository gives;
  the change of an alarm through the pointer that `rtc_alarm_create()` returns (`rtc_alarm.h:84`, `92`);
  in FatFs the visit of a cluster's own sector before the search for a free one (`ff.c:1041`), subdirectories, long names, `f_rename()`, `f_truncate()`, `f_mkfs()`, disk errors, and files opened twice;
  in the kernel task creation and deletion, recursive mutexes, the deletion of event groups and their variants for interrupts, which the build leaves
  out, the read and write of a priority in `uxTaskResetEventItemValue()`, between which it may change, co-routines, software timers and the port's
  assembly; in the task framework shared objects, telemetry and queue sets.
* The components marked `not_modelled` in `PROJECT.json`, each with its reason: register I/O behind interfaces the models use
  (radio, SPI, flash, SD card), text processing (strings, terminal, telemetry), and wrappers without state (timers, newlib
  glue, other drivers). The application is course exercises over these.
* Third-party and generated code below the surface the firmware uses: CMSIS headers, the kernel's other ports, start-up code.
