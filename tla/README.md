# A TLA+ verification of the turbidity controller firmware

The repository is the firmware of an STM32F103 turbidity controller: the
RT-Thread kernel (`src/src`), its device layer (`src/components`), a FreeModbus
master and slave, and the application (`src/bsp/stm32f10x/applications/my_app`).
There are no tests and no manual; the reference is the code.

## 1. Inventory

| Component | State it keeps | Operations | What is hard | What makes it correct |
|---|---|---|---|---|
| Modbus RTU master (`modbus/mb_m.c`, `modbus/rtu/mbrtu_m.c`, `port/*_m.c`) | semaphore `xMasterRunRes`, event set `xMasterOsEvent`, send and receive buffer, `eRcvState`, `eSndState`, one timer, error type, destination address | a request by any thread; `eMBMasterPoll`; transmit, receive and timer handlers | five actors share nine objects; a resource taken by one thread is released by another; late answers, noise, one timer for three purposes | one request at a time, every request returns its own verdict, no event is lost, no assertion fails |
| Master register callback (`port/user_mb_app_m.c`) | `usMRegHoldBuf` and the application's variables | read and write of address windows | overlapping tests on the address | each address reaches its own buffer |
| Application threads (`main_app.c`) | message queue, pump timers | `modbus-a` reads two windows for ever, `msg_t` writes with retry, the main thread runs the menu and its calibration requests | three requesters with different timeouts; the one of main repeats a request until it succeeds | a write is retried until it succeeded or was abandoned |
| Settings store (`global.c`, `factory_setting.c`, `conf_store.h`) | FRAM contents, RAM copies | `global_init`, factory restore, full reset | power loss between two writes | after any power loss the settings are those of one consistent set |
| Relay alarm and pump (`zhuodu_misc.c`, timers of `main_app.c`) | two relay pins, the pump pin, two timers | one comparison every 10 ms, two timer callbacks | limits, types and times written by the menu and a turbidity written in halves meanwhile; the relay test writes the same pins | an alarm that stands is shown, a cleaning ends |
| Menu frame (`menu_frame.c`, table of `menu_proc.c`) | current item, list of its level, line, two stacks | six keys, password, hand-over to a function and back | one table read in two ways, state restored from a stack and from a string | what is shown is what one moves in; each key does what the tree says |
| Menu functions, number box (`menu_proc.c`, `12864_ui.c`) | the edited value | enter a number, store it | each stores to a copy that other threads read, to the chip, to a timer or to a port | the stored values agree |
| Buttons (`bsp_button.c`) | per key a state, a ring of codes | one sample every 10 ms, read by the menu | the ring has no test for full | no code is lost or duplicated |
| Kernel IPC (`src/src/ipc.c`) | wait lists, semaphore and mutex values, event sets, mailbox and queue rings | take, release, send, receive, with timeouts | wake-up and timeout race; two critical sections in one send; priority inheritance | no lost wake-up, FIFO delivery, exclusion |
| Kernel timers (`src/src/timer.c`) | sorted timer list, tick | start, stop, control, tick handler | tick wrap-around; a timer changed in its own callback | each active timer fires once, at its time |
| Kernel scheduler, threads (`scheduler.c`, `thread.c`) | ready lists and bitmap, thread states | schedule, suspend, resume, time-out | preemption between any two statements | the highest ready thread runs |
| Modbus RTU slave (`modbus/mb.c`, `modbus/rtu/mbrtu.c`, `port/*.c`) | event set, `eRcvState`, `eSndState`, one buffer for request and answer, timer, receive ring | poll, transmit, receive, timer; `eMBInit` again from the menu | two threads and two interrupts share the buffer; noise or a second request before the answer | a request heard is carried out once and answered once, a broadcast never; one that noise spoils is carried out at most once and not answered |
| Serial driver (`serial.c`) | receive ring | interrupt put, thread get | ring full | the bytes read are those received last |
| Memory and objects (`mem.c`, `mempool.c`, `object.c`, `idle.c`) | heap and object lists | allocation at start-up | none at run time: the application allocates only while it starts | |
| Drivers of board, LCD, FRAM bus | device registers | register writes | no protocol of their own | |

How they interact: the application calls the master (function calls under the
semaphore), the master calls the application's register callback in its poll
thread, the serial driver calls the receive handler in the interrupt, the
kernel's tick calls the timer handler in the interrupt.  The menu changes
settings and posts writes for `msg_t`; the alarm reads them.  The Modbus slave
shows the turbidity to the plant and changes nothing of it: what is written to
the slave goes to a buffer of `user_mb_app.c` that nobody else reads.

`PROJECT.json` lists the hazards of all of this, each at its line.

## 2. Modbus master

### Modules

* `MbRequest` — what the master promises its callers: a request is issued,
  waits for its turn, is served alone, is settled, and returns exactly the
  outcome it was settled with.  A request with a finite timeout may give up
  while it is queued.
* `MbMaster` — the implementation, with its properties and the refinement
  mapping `R` to `MbRequest`.
* `MCMbMaster` — the priorities of the application's threads.
* `MbMaster_proofs` — theorems that hold on every bus.
* `MbMasterOneHand` — theorems that hold on a benign bus, all but one of them
  also under the two faults that stop the controller.

### State and actions

| In the model | In the code |
|---|---|
| `rq[t]`, `res[t]` | where requester `t` is in `eMBMasterReq*` and the code it returns; `Request`, `Fill`, `PostFrameSent`, `WaitRequestFinish`, `Return` are the pieces between two points at which it can be preempted visibly; `TakeTimeout` is `rt_sem_take` giving up |
| `fact[t]` | history variable: what became of the request, recorded where the decision falls |
| `xMasterRunRes`, `xMasterOsEvent` | the semaphore and the event set of `portevent_m.c`; `PostInternal` and `PostVerdict` are `rt_event_send`, which hands the bits to a suspended receiver at once |
| `poll`, `pollEv`, `ucMBFrame` | `modbus-m` in `eMBMasterPoll`: `EventGet`, one action per case of its switch, and `RunResRelease` after the verdict.  `PollUndefined` is the missing case of the switch in `xMBMasterPortEventGet` |
| `sndBuf`, `tx`, `sndCount`, `trans`, `transStart`, `rxIrq` | the send buffer, the frame on its way and the thread `master trans`: `TransByte`, `TransTurn` (`vMBMasterPortSerialEnable`), `TransDone` |
| `eRcvState`, `rcvBuf` | the receive interrupt `ReceiveFSM`, driven by `AnswerHead`, `NoiseHead`, `FrameTail` |
| `timerOn`, `eMasterCurTimerMode` | the one timer; `TimerExpired` is the whole handler |
| `slave`, `wire` | the environment: the request a slave has heard, the frame that is half on the line |
| `halted` | `assert_failed` of `startup.c` loops forever |

Bytes are abstracted to the head and the tail of a frame, PDUs to the number of
the request they carry or answer.  The CRC is the `kind` of a frame.  A byte
received while the receive interrupt is off damages the frame.

### Scheduling, faults and fairness

RT-Thread has fixed priorities on one processor: `CanRun(t)` says no thread of
higher priority can take a step.  Threads of equal priority (`modbus-a`,
`master trans`) interleave.  Interrupts come at any time.

The constant `Faults` names what the bus may do.  `Benign` faults are unlimited:
silent slaves, corrupted and over-long answers, other threads that hold up
`modbus-m` as long as a frame takes.  The others are counted by `MaxFaults`:
an answer later than the respond timeout, a pause inside a frame, noise, a byte
that arrives while the line is turned round, a frame of exactly
`MB_SER_PDU_SIZE_MAX` bytes, a requester kept from its wait, a request at boot.
A timing assumption is never hidden in a guard: the guard names the fault that
breaks it.

`FairSpec` assumes strong fairness of each thread's steps, because a thread that
is ready is kept waiting only by threads above it, which all sleep again and
again (`modbus-a` one second after every request, `main_app.c`; `modbus-m` in
its wait while the bus is busy), and weak fairness of the interrupts, of the end
of a frame that has begun and of a finite timeout.  Nothing forces a requester
to issue a request or a noise frame to come.

### Runs

| Run | Instance | Shows |
|---|---|---|
| `master_benign` | `modbus-a` and `msg_t`, addresses 0 (broadcast), 1 and 9 (illegal), two request numbers, two bytes per frame, 16-bit semaphore, benign faults without limit; deadlock checked | type invariant, `OneHand` (the inductive invariant of the proofs), `OwnVerdict`, `SingleEvent`, `AssertsHold`, `FillAtRest`, `RequestReturns`, and that the master implements `MbRequest` |
| `master_faulty` | any two counted faults, one address and one request number | `Watched` and `TransmitEntry` survive every fault.  The semaphore is modulo 3 so that repeated releases would be seen to wrap.  Deadlock is not checked: a failed assertion stops the controller |
| `master_late` | fault `late`, two request numbers | the stale answer: see below |
| `master_noise` | fault `noise`, fairness | two events at once: see below |

The application has three requesters: `modbus-a`, `msg_t`, and main, in the
loops of the calibration menus (`menu_proc.c:1822`, 1835, 1840, 1854, 1867,
1872), with a finite timeout like `msg_t`.  Two of them contend for the resource
and hand it over; the theorems hold for any number.  With main as a third and
the addresses 0 and 1 the safety properties hold as well (114,743 states).
`RequestReturns` is not claimed for three: main and `modbus-a` have the same
priority, where the kernel queues first come first served (`ipc.c:92`), while
`Highest` may choose either and could pass over `modbus-a` for ever.  Nor does
`RequestReturns` say that a loop of main ends: that takes a sensor that answers.

Two request numbers distinguish a request from the one before it, which is the only one whose frame
or answer can still be about; two bytes per frame reach both branches of the
transmitter and the state between them.

### What the violations show

* `master_late`.  Request 1 times out.  Its answer arrives while request 2 is
  posted: `eMBMasterRTUSend` refuses because the receiver is busy, the poll
  thread ignores the status, the frame is complete, its address matches, it is
  executed, and request 2, which was never sent, is reported successful.
* `master_noise`.  A noise frame ends while a request is posted and before
  `modbus-m` has run.  It finds `FRAME_SENT` and `FRAME_RECEIVED` together; the
  switch in `xMBMasterPortEventGet` has no case for that value, both are lost,
  the requester waits forever and the resource is never released.

Two faults of `master_faulty` are worth recording too, as each fails an
assertion, after which the controller loops for ever; `AssertsHold` is claimed
without them.  `early`: `xMBMasterRTUTransmitFSM` runs in a thread and enables
the receive interrupt before it leaves `STATE_M_TX_XMIT` (`mbrtu_m.c:328`,
`329`); a byte in that window fails the assertion of line 238.  `max`: an answer
of exactly `MB_SER_PDU_SIZE_MAX` bytes passes the receiver (line 285), and
`eMBMasterRTUReceive` asserts that it is shorter (line 163); the slave has the
same two tests (`mbrtu.c:156`, `268`).

### What is proved

For every set of requesters, every number of request numbers, frame length and
fault budget:

* `TypeCorrect`, `AlwaysWatched` (`MbMaster_proofs`): on every bus, every
  variable keeps its range, and the timer runs whenever the protocol waits.
* `TransmitterSafe`: on every bus, while the start event is set there is a frame
  to send and the receiver is idle with its interrupt off.  It assumes
  `Prio[Trans] < Prio[Poll]`, which is what makes the window of
  `TransTurn`/`TransDone` closed to `modbus-m`; the priorities are 10 and 13.
* `AlwaysOneHand` and `AssertionsHold` (`MbMasterOneHand`): on a benign bus
  (`Faults \subseteq Benign`).
* `MutualExclusion`, `OneEventAtATime`, `EverySendAccepted`, `SendBufferSafe`:
  on a tolerated bus (`Tolerated == Benign \cup {"early", "max"}`), on which an
  assertion may fail but does nothing worse.  `MutualExclusion` and
  `EverySendAccepted` state what no run repeats: at most one requester is
  between taking and releasing the resource, and the semaphore counts it
  (`RunResBalance`); `eMBMasterRTUSend` never refuses (`SendAccepted`).

The argument: none of these is inductive alone, because each speaks
of one of the shared objects and depends on all others.  `OneHand` therefore
says in which of ten stages the whole master is (`Starting`, `Free`,
`Preparing`, `Queued`, `Sending`, `Turning`, `Awaiting`, `Receiving`,
`Deciding`, `Settled`); in each stage one actor has the request in hand and
everything else is at rest.  The proof has one lemma per group of actions,
each of which shows which stage a step leads to; `master_benign` checks the
same formula as an invariant.  On a tolerated bus the lemmas end in a stage
(`InHand`) or in a failed assertion (`Halts`), which leaves the callers, the
resource and the send buffer as they were and after which nothing moves
(`HaltStops`); so `Sound`, one or the other, always holds.

* `EveryVerdictIsOwn`: the code a call returns is what became of that very
  request (`OwnVerdict`), for any number of requests and on a tolerated bus.
* `RequestServiceImplemented`: on a tolerated bus every step of the master is a
  step of `MbRequest` or invisible to its callers (`R!Safety`).

A verdict reaches its requester through an event set that all share, and is
made from a frame that was received; `OneHand` says that both exist once, not
whose they are.  `Traced` adds that.  `OwnFrames`: while a request is open, the
frame being transmitted, what the slave has heard, the receive buffer and the
PDU under `ucMBFrame` carry the number that is in the send buffer.  `Fates`:
the fate of a request is open until a frame or the timer decides it, and from
then on it is the error type that `modbus-m` will report.  `Traced` is not
inductive without `OneHand` (a second request would overwrite the send buffer)
and falls on other buses with the first late answer, as `master_late` shows.
The refinement needs in addition who owns the resource (`Owned`): the requester
in service, and from its verdict to `RunResRelease` the one that `sndBuf` still
names.

The hypothesis is what the code needs: with any one of the other five faults
(`late`, `stall`, `noise`, `starved`, `boot`) added to those of `master_benign`
and `MaxFaults = 2`, TLC finds `OwnVerdict` violated.

Only model-checked: `RequestReturns` and the fairness of `MbRequest`, which
`ImplementsRequest` of `master_benign` contains; liveness is beyond the prover.

## 3. Settings store

### Modules

* `SettingsStore` — what the store promises: a factory restore takes effect at
  one instant whatever happens to the power, a chip that was never written
  counts as holding the factory settings, an edit changes its bytes one by one
  and may be cut short, and a password that was torn may be mended.
* `ConfStore` — `global_init`, `full_reset_eeprom`, `restore_factory_settings`
  and the menu's edits over a chip that takes one byte at a time, with the
  refinement mapping `Ideal`.
* `MCConfStore` — the layout for TLC.
* `ConfStore_proofs` — the theorems.

### State and actions

| In the model | In the code |
|---|---|
| `magic` | the two bytes of `E2P_TypeDef.eeprom`, in the order in which they are written (little endian); a blank chip holds 0x0000 or 0xFFFF |
| `data` | every other byte of `E2P_TypeDef`: its factory value, what the user entered, or junk |
| `pc`, `job`, `at`, `to`, `value`, `ret` | the main thread: it reads the marker (`ReadMarker`), writes a byte of the marker or of the data (`WriteMarker`, `WriteData`: `fm24clxx_write` sends the bytes in the order of their addresses), checks the password (`Repair`), copies (`LoadIntoRam`) or runs the menu (`Edit`, `MenuRestore`) |
| `ram` | the copies in `struct global` of the settings `global_init` reads back |
| `was` | history variable: the settings when the user last had them; `ResetIsAtomic` compares the chip with it |

Only the main thread writes to the chip: the alarm, the Modbus slave and the
Modbus master touch neither `mb85_bus` nor the copies of these settings.  The
other range checks of `global_init` concern single bytes, which are never torn;
only the password can fail its check once the chip has been initialised.

### Bounds and fairness

The layout has an unedited and an edited setting in the protected block, and in
the unprotected block a loaded and an unloaded one; two of them are two bytes
long, so that a failure can tear them.  Two values tell an old entry from a new
one.  Three failures cut a restore, its recovery and the recovery of that one.
The proofs need none of these bounds.

`FairSpec` assumes that power returns and that the main thread goes on while it
has power (all its writes are loops over finitely many bytes; no other thread
holds the bus).  Nothing obliges the user to edit or to restore.

### Runs

| Run | Shows |
|---|---|
| `conf_store` | `Initialised`: the program never runs on junk.  `ResetIsAtomic`: at the end of a start the settings are those the user had, or those with the whole unprotected block restored, or the factory settings.  `CopiesMatch`: what the program uses is what the next start will load.  `StartsUp`: no marker makes the controller reset itself for ever, and the repair of a password ends.  `ImplementsIdeal`: the marked three-step resets look to the user like one atomic reset |
| `conf_torn` | a factory restore begins by writing 0x6516 over 0x60B6, low byte first.  A failure between the two bytes leaves 0x6016, which the switch of `global_init` does not know; the default case resets everything, the password included, although the block it stands in is the one a restore is to leave alone |

The other three changes of the marker are safe for a reason worth recording:
0x6516 over 0x6A16, 0x6A16 over 0x6516 and 0x60B6 over 0x6066 change a single
byte, and a full reset overwrites everything whatever marker it leaves.

### What is proved

For every layout, every set of values and every number of power failures:
`StoreTypeCorrect`, `AlwaysInitialised`, `ResetsAreAtomic`, `CopiesAlwaysMatch`.

The argument is `StoreInv`.  It says what a *marker* means (`ChipInv`: an
"over" marker or the restore marker vouches for initialised data, an "over"
marker for an atomic outcome, the restore marker for an untouched protected
block), what each *job* has done so far (`FullInv`, `RestoreInv`, `SetInv`: the
cells below `at` hold the value being written; an edit runs only under an
"over" marker), and how the *copies* relate to the chip in the middle of an
edit (`RunInv`).  A power failure keeps `ChipInv` because it changes neither
the marker nor the data, and `ChipInv` is all that `ReadMarker` relies on.

`IdealImplemented`: every step of `ConfStore` is a step of `SettingsStore` or
changes nothing the user sees.  What the user sees as the contents is what the
next start would make of the chip, so it jumps when the *marker* changes, and
the bytes that a reset then writes are already what the mapping says.  Only the
mending of a torn password needs more than `StoreInv`: `SettingsStore` lets a
byte be mended when it differs from another of the password, and `MendInv`
keeps that true from the first byte to the last.

`ProtectedLostOnlyHalfAsked` is the counterpart of `conf_torn`: for every layout,
a byte of the protected block changes when the user edits it, when a torn
password is mended, or when the power fails while the marker is 0x6016, and in
no other way.  The finding is the only one of its kind.

Only model-checked: `StartsUp` (liveness).

## 4. Kernel timers

### Modules

* `TimerService` — what the timers promise: an armed timer fires at the first
  tick at which its delay is over, never before; timers due together fire in the
  order of their deadlines.
* `RtTimer` — `timer.c`: the list, `rt_timer_start` and `rt_timer_stop` in their
  sections, `rt_timer_control`, `rt_tick_increase`, `rt_timer_check`, callbacks.
* `MCRtTimer` — the timers of the application.
* `RtTimer_proofs` — the theorems.

### State and actions

| In the model | In the code |
|---|---|
| `place` | the list `rt_timer_list[0]` (the skip list has one level), as the position of each timer |
| `active` | `RT_TIMER_FLAG_ACTIVATED` |
| `timeout_tick`, `init_tick`, `tick` | the same, modulo `TickMax + 1`.  The timeout of a timer outside the list is not kept, because nothing reads it before it is set again |
| `StartRemove`, `StartStamp`, `StartInsert` | `rt_timer_start` by a thread: an interrupt or another thread may come between any two |
| `StopTest`, `StopRemove`, `StopClear` | `rt_timer_stop` by a thread |
| `IsrStart`, `IsrStop` | the same calls in an interrupt or with interrupts off, as the kernel makes them for the timers of threads |
| `TickIncrease`, `CheckRemove`, `Callback`, `CheckRestart`, `CheckDone` | the tick interrupt.  Other interrupts may come between the first two (the serial interrupts have a higher priority than the tick), nothing after that: `rt_timer_check` runs with interrupts off |
| `arrival` | history variable: the order of the insertions |

### Bounds and fairness

Eleven ticks stand for 2^32: the comparisons are modulo the number of ticks and
the delays lie well below half of it, as in the code, so the tick wraps around
in every long behaviour.  `MaxLate` bounds how long a thread is held up between
computing a timeout and inserting the timer: one tick beyond the deadline makes
the late insertion happen.  `TimerAssumption` asks for
`d + MaxLate + 1 < RT_TICK_MAX / 2`; the assertion of `rt_timer_start` asks only
for `d < RT_TICK_MAX / 2`, which is enough unless a delay of 24 days is combined
with a thread that is held up.

`FairSpec`: the tick goes on, its interrupt ends, a thread in a kernel call goes
on.  Nobody is obliged to start a timer.

### Runs

| Run | Shows |
|---|---|
| `timer_threads` | the timers of the application: `main` starts the periodic timer of the pump, whose callback starts a one-shot that stops itself; `master trans` starts and stops the timer of the master.  `Sorted` (by deadline, and in the order of the insertions among equal ones, as the comment at `timer.c:351` says), `InsertedOnce`, `FlagsMatch`, `AllFire`, `CheckEnds`, and that `RtTimer` implements `TimerService` |
| `timer_shared` | a timer with two callers.  `master trans` starts the master's timer after it has enabled the receive interrupt, which starts the same timer.  Between the two sections of `rt_timer_start` the interrupt inserts the timer, and the thread inserts it again: `rt_list_insert_after` on a linked node corrupts the list (a timer alone in the list is linked to itself, and `rt_timer_check` finds it at the head for ever) |

### What is proved

`NeverInsertedTwice`, `FlagsAlwaysMatch`, `TimerTypeCorrect`, `ListAlwaysSorted`
and `ServiceImplemented`, for any timers, threads, delays and width of the tick,
provided every timer has one caller (`OneCaller`).  None is inductive.
`TimerInv` adds what a thread in the middle of a call knows of its timer (it is
out of the list, without the flag, and not the one that fires) and what the
interrupt knows of the one that fires.  `timer_shared` shows that `OneCaller`
cannot be dropped; in the application only the master's timer violates it.

The order of the list needs `ClockInv`.  The list is ordered by what is *left* of
each delay (`Left`, negative when it is overdue), and the code compares timeout
ticks that wrap around.  The two agree as long as what is left of any two timers
differs by less than half of the ticks; `Deadlines` says so of every timer in
the list and of every thread about to insert one, because no delay is longer
than `TimerAssumption` allows and no timer stays overdue: a thread inserts it at
most `MaxLate` ticks late, and the next tick interrupt takes out all whose time
is over.  `InOrder`
says the same of positions and arrivals, as numberings of the listed timers
without gaps.  From both, `ServiceImplemented` shows each step of `timer.c` to
be one of `TimerService`: what the handler takes from the head is due, and
nothing that is due comes after it.

Only model-checked: `AllFire` and `CheckEnds` (liveness).

## 5. Message queue

### Modules

* `MsgQueue` — what a queue promises its callers: messages are received in the
  order in which the sends linked them, urgent ones from the front, each by one
  receiver, and what the receiver gets is what was sent.
* `RtMsgQueue` — `rt_mq_init`, `rt_mq_send`, `rt_mq_urgent`, `rt_mq_recv`,
  `rt_mq_control` of `ipc.c`, with the refinement mapping `Queue` to `MsgQueue`.
* `MCRtMsgQueue` — the priorities of the receivers.
* `RtMsgQueue_proofs` — the theorems.

### State and actions

| In the model | In the code |
|---|---|
| `next`, `text` | a node of `msg_pool`: `rt_mq_message.next` and the bytes behind it |
| `head`, `tail`, `free`, `entry` | `msg_queue_head`, `msg_queue_tail`, `msg_queue_free`, `entry`; `max_msgs` is computed from the sizes as in `rt_mq_init` |
| `waiting` | `mq->parent.suspend_thread`, by priority or in the order of arrival |
| `pc[t]`, `hold[t]` | where `t` is in its call, and the node in its local `msg`: `SendTake`, `SendFill`, `SendLink` and `RecvCall`/`RecvWake`, `RecvCopy`, `RecvFree` are the pieces between two points at which interrupts are on |
| `urgent[t]` | the send is `rt_mq_urgent`, which links in front and does not clear `msg->next` while it fills the node |
| `timeout[t]`, `error[t]` | the time left to a receiver (a limited time may be over after any wait: `Left`) and `thread->error`, set by `thread_timeout` and by a reset |
| `control_reset` | `RT_IPC_CMD_RESET` under one interrupt lock, whoever is half done; its loop is written as what it leaves behind |
| `order`, `spare` | history variables: the nodes of the queue and of the free list in the order of the links.  `ListsProper` says that the pointers agree with them; no guard reads them.  `control_reset` reads `order` to say which nodes the loop over the pointers visits, which by `ListsProper` are the same |

`-RT_EFULL`, and `-RT_ETIMEOUT` without a waiting time, leave everything as it
is and are no steps.  A message that is too long is refused in the same way.

### Bounds and fairness

Two nodes (41 bytes of pool for messages of 14, so that the rounding of both
divisions matters), two senders and two receivers: enough for the queue to be
empty, full with a node in every hand, and full while a receiver holds one.
The safety properties also hold with three nodes; as the proofs cover every
pool, the run keeps two and has time for the liveness property.  `PRIO` is the
harder case of the waiting list; the application's queue is `FIFO`, which is
the same list without `Before`.  The second receiver does not exist in the
application, where `msg_t` is alone; it makes the races of the kernel's code
happen.  `MaxUrgent` bounds the urgent sends, because an endless stream of them
does keep an ordinary message waiting for ever.

`FairSpec`: a thread that has begun a send or has been woken goes on, and
`msg_t` calls `rt_mq_recv` again and again (the loop of
`messageq_thread_entry`).  No other call is ever obliged to be made.

### What the run shows

`msg_queue`: the pointers are two proper lists whenever interrupts are on
(`ListsProper`); queue, free list and hands partition the pool
(`NodesAccounted`); a receiver stays suspended only while there is no more in
the queue than woken receivers will take (`NoLostWakeup`); every message leaves
the queue (`EveryMessageLeaves`); and the whole is a first-in first-out queue
(`ImplementsQueue`).

### What is proved

For every pool, message size, set of threads and both flags: `QueueTypeCorrect`,
`PointersAlwaysProper`, `NoNodeEverLost` and `QueueImplemented`.  The inductive
invariant `Inv` consists of the two chains, the partition, and what a thread
holds in each place of its call (nothing when it is idle or suspended; a node
that is neither queued nor free in between).  The chains alone are not
inductive: a send writes `next` of the node in its hand, which is harmless only
because the partition says that no list contains it.  The refinement needs the
same fact for `text`: the message being copied cannot be overwritten.  The
bound `entry <= max_msgs` of `TypeOK` is a pigeonhole argument over the queue
as a sequence without repetition.

`NoWakeupEverLost` is a counting argument: while somebody waits, there are at
least as many woken receivers on their way as messages in the queue.  It is
inductive together with `Waiters` (who is in the waiting list is suspended
there, once, and without an error): a send adds one message and wakes one, a
receiver that takes a message uses up at most one of the woken, and one that is
taken out by a timeout or a reset has an error and is never counted as woken.  Counting needs finitely many receivers, which
`QueueAssumption` asks for.

Only model-checked: `EveryMessageLeaves` (liveness).

## 6. Modbus slave

### Modules

* `MbServer` — what the slave promises the bus: a request it has heard is
  carried out once and then, unless it was broadcast, answered once, before the
  next one is heard.  Noise that comes before all of it is done spoils the
  request (`Spoil`): it, or garbage, may still be carried out, once, and nothing
  is sent (`Grope`).
* `MbSlave` — the implementation, with its properties and the refinement
  mapping `Server` to `MbServer`.
* `MbSlave_proofs` — the theorems.

### State and actions

| In the model | In the code |
|---|---|
| `poll`, `pollEv`, `eMBState` | `modbus-s`: `Start` (`eMBInit`, `eMBEnable`), `EventGet`, one action per case of the switch of `eMBPoll`; `PollSend` is `eMBRTUSend` with its test of the receiver.  `PollUndefined` is the missing case of the switch in `xMBPortEventGet` |
| `xSlaveOsEvent` | the event set of `portevent.c` |
| `ucRTUBuf`, `pdu` | request and answer share it: the frame received, the part of it received so far, or the answer.  `pdu` is what stands behind the address byte, which the first byte of a new frame leaves alone and every further one overwrites: what `eMBPoll` executes and answers is what is there at that moment |
| `eRcvState`, `ring`, `rx` | the receive interrupt: `serial_rx_ind` takes one character out of the FIFO of the serial driver and hands it to `xMBRTUReceiveFSM` |
| `eSndState`, `usSndBufferCount`, `trans`, `transStart` | the thread `slave trans`: `TransByte`, `TransTurn` (the last byte, up to the change of direction), `TransDone` |
| `timerOn` | the t3.5 timer; `TimerExpired` is the whole handler |
| `wire` | the frame that is half on the line |
| `heard`, `served`, `spoilt` | history variables: the last request received whole, what has been done about it, in order, and whether noise came before all of it was done |
| `halted`, `strained` | a failed assertion, or a timer list that no longer ends; a fault other than one of the line has occurred |

The character that comes while the receive interrupt is off stays in the data
register and is received when the interrupt is enabled again (`rx = "held"`).
`MbMaster` treats the same character as lost, which damages the frame as well:
on the master's bus nothing is sent to it at that time, so the difference only
concerns its faults.

### Faults, timing and fairness

Faults of the *line* (`corrupt`, `stall`, `noise`) never excuse the slave.
Noise comes at any time, also while `modbus-s` checks or executes a request or
is about to answer it, which takes no delay of `modbus-s`.  The code then loses
the answer: `eMBRTUSend` finds the receiver busy and refuses (`mbrtu.c:191`),
`eMBPoll` ignores the refusal, and the request has been executed and is never
answered.  A master that repeats it has it executed twice.  A second byte of
noise before the execution overwrites the function code, and `eMBPoll` executes
what is there.  The slave promises no more than `MbServer` says of a spoilt
request; that it sends nothing rests on the test in `eMBRTUSend` alone, and the
mutant of `ImplementsServer` is that test left out.

The other faults excuse the slave once they have occurred (`strained`), because
the code does not defend itself against them:

* `outrun`: `modbus-s` is kept from an event for as long as a whole frame or t3.5
  takes;
* `hurry`: the master sends again before it has the answer, which the protocol
  forbids it.  After a broadcast it has to wait for the turnaround delay, and
  the slave is given until its t3.5 to have carried the broadcast out;
* `early`: a byte, of noise too, arrives while an answer is sent or between its
  end and the idle state.  While it is sent the transceiver is switched to
  transmit (`portserial.c:136`) and hears nothing; after that
  `xMBRTUReceiveFSM` asserts an idle transmitter, and fails;
* `max`: a frame of 256 bytes passes the receiver's test and fails the
  assertion of `eMBRTUReceive`;
* `burst`: two characters before the interrupt is served.  `serial_rx_ind`
  reads one per interrupt (`portserial.c:219`), so the receiver runs one
  character behind from then on, and the tail of a frame comes with the next;
* `reinit`: the menu changes the port settings and calls `eMBInit`
  (`menu_proc.c:1941`), which sets up the event, the timer and the state
  machine again under the threads that use them and never enables the slave
  again;
* `boot`: `modbus-s` waits 10 ms and reads the settings, loaded or not.

As on the master, a timing assumption is a fault named in the guard that would
otherwise exclude the case, never a silent guard.  `Fairness`: the two threads
go on while they are the highest that are ready, a frame that has begun ends,
and the timer interrupt comes.  No request ever has to be sent.

### Run

`slave`: two addresses besides the broadcast, two request numbers, two bytes
per answer (both branches of the transmitter), a FIFO of three (so that it
overruns), and any two faults, of all ten kinds.  It checks `AssertsHold`,
`SingleEvent` and `ImplementsServer` up to the first fault that is not of the
line, and `Watched` under every fault: the timer runs exactly while the
receiver is not idle.  `RequestServed`: every request that is heard is carried
out and answered in the end, unless noise comes first; it too is claimed only
until the first fault that is not of the line.

### What is proved

For every address, number of requests, frame length, FIFO size and fault
budget: `TypeCorrect`, `TransmitterSafe` (whenever `slave trans` may run its
state machine it finds an answer to send and a receiver at rest),
`ReceiverWatched`, and, up to the first fault that is not of the line,
`SlaveAsserts`, `SlaveSingleEvent`, `SlaveImplementsServer`.  The first three
hold under all faults and need only `TypeOK` and what the transmitter and the
timer know of the receiver.  The last three rest on an invariant of the form of
`OneHand`: a formula for each stage of the exchange says where the request is
(line, buffer, event, `modbus-s`, `slave trans`) and what all others hold; the
shared buffer is the reason none of the three is inductive.  The stages are
`Unserved` (heard, and untouched up to its execution), `Unanswered` (executed,
and its answer not yet accepted or not yet sent), `Done`, and `Spoilt`, which says
what noise cannot break: `modbus-s` has at most one execution before it, and
with the receiver at work `eMBRTUSend` refuses.  When `modbus-s` comes to answer
a request and finds the receiver at rest, nothing came in between, so what it
sends is the answer to what it heard.  `RequestServed` is
liveness and stays with TLC.

## 7. The panel: menu, alarm and pump

### Modules

* `MenuTree` — what the menu promises its user: a walk over a tree.
* `MenuFrame` — `menu_frame.c` with `menu_main_disp`, `pass_proc` and `leaf_exit`
  of `menu_proc.c`, and the refinement mapping `Tree` to `MenuTree`.
* `MCMenu` — the whole table `s_Menu` of `menu_proc.c`, with the code's
  `STAGE_MAX`, `INDEX_MAX` and `LINE_MAX`.
* `MenuFrame_proofs`, `Panel_proofs` — the theorems.
* `Relays` — `zhuodu_alarm`, the callbacks of the two pump timers, the store of
  the turbidity, and what the functions of the menu do to them.
* `Panel` — the composition: an edit happens when its function in `MenuFrame`
  ends, the thread `key`, `modbus-m` and the tick go on meanwhile, and a power
  failure restarts both.
* `MCPanel` — a small table for it.

### State and actions

| In the model | In the code |
|---|---|
| `s_Menu` | the table, an index string as the sequence of its numbers.  `WellFormed` is what the frame relies on: the entries of a list follow one another in the table and are numbered from 0, no list is longer than `INDEX_MAX`, an item with a list has no function.  Nothing in the code checks it; TLC evaluates it on the whole table |
| `psMenuCurr`, `s_CurrNodeList`, `s_nSubNode`, `s_CurrIndex`, `s_CurrLine`, the two stacks | the same; a pointer is a position in the table.  The list keeps what it held beyond the entries of the level |
| `s_MenuStatus`, `reload` | the same: who has the keys |
| `KeyUp`, `KeyDown`, `KeyOk`, `KeyMenu` | `node_proc` by key, with `update_node_list`, `menu_back` and `menu_default` |
| `MainOk`, `MainMenuAndOk`, `PasswordRight`, `PasswordWrong`, `LeafExit` | what the functions of the items do to the frame |
| `Garbage` | the index that `menu_back` leaves uninitialised for the main display, whose string has one number |
| `turbidimeter`, `arriving` | the float that the register callback stores as two words, low first |
| `relay`, `pump` | the pins; `is_relay_test` is stored but read by nobody that runs |
| `left`, `init_tick` | the two timers, as the ticks they have left; `RtTimer` shows that the kernel's timers are that |

`sscanf` with `%3d` into a byte writes three bytes beyond it, in the same word
of the stack frame as the compiler lays it out, where nothing is kept; the
model leaves this out.  Pin 36, the pump, is made an output only in
`clean_thread_entry`, which no thread runs; `pump` is what the code writes to
the pin.

The titles of `menu_clean_interval` and `menu_clean_time` say seconds, the
start-up code multiplies by `RT_TICK_PER_SECOND` (`main_app.c:52`), the menu
passes the number to `rt_timer_control` as it is (`menu_proc.c:507`).  The
model has both: the same setting lasts shorter by that factor from an edit until
the next start, and editing one of the two times can make the cleaning longer
than the interval, in which case the one-shot is restarted before it ends and
the pump never stops.  `PumpStops` therefore has the condition `Short`, a
comparison of the times the timers are set to.  Of the settings as their titles
give them, in seconds, it does not hold: with an interval of 2 s, a time of 1 s
and 3 ticks to the second, an edit of the interval alone, to the same number,
sets the timers to 2 and 3 ticks.

A restart keeps the settings of `Relays` whole; what a power failure does to
their bytes on the chip is the subject of `ConfStore`.  A torn `clean_interval`
is not composed with the timers: 1 changed to 256 and cut after the low byte
leaves 0, and `main_app.c:52` then starts a timer of 0 ticks.

### Bounds and fairness

`menu` has no bound but `Garbage`, and that is every value of a byte.  `panel`
uses a table with the four functions that touch the alarm and the pump and one
behind the password; one relay (the two share nothing); turbidities of two bits,
a bit for each half, so that a torn value can be both above and below any
limit; two limits without hysteresis between them (hysteresis 0 is the harder
case, as the relay then follows every value); intervals of 2 and 3, a time
of 1, and 2 ticks per second, so that edited and initial times cross over and
`Short` is sometimes false.

`FairSpec`: `key` compares again and again, `modbus-m` completes a store it has
begun, time passes.  No key is ever pressed by obligation.

### Runs

| Run | Shows |
|---|---|
| `menu` | `Shown`: on whatever way the user came, each line of the display shows the entry that is that far from the current one.  `ImplementsTree`: each key does in the tree what `MenuTree` says |
| `panel` | `AlarmComes`: a turbidity that stays beyond its limit switches the relay, whatever the test or an edit did.  `PumpStops`: every cleaning ends, and so does what the relay test switched on |

`KeyByKey`, of which `ImplementsTree` is made, says of each action which step of
the tree it is: a refinement of the next-state relations alone would let UP do
what DOWN should.

### What is proved

For every well-formed table, every depth and length of its lists and every set
of values of the uninitialised byte, with four lines (`node_proc` has a 4 where
it means `LINE_MAX`, so the theorems assume `LINE_MAX = 4`):
`MenuTypeCorrect`, `AlwaysShown`, `MenuImplementsTree`.

The inductive invariant is `MenuInv`.  Outside the main display the list, the
index and the line are those of the current item (`InList`): the list of
pointers holds exactly the entries of its level at their numbers, and the
window of lines around the current one stays inside it (`Window`).  That alone
is not inductive, because MENU restores line and item from the stacks:
`WayBack` says that the stack holds, at depth d, the item whose path is the
first d numbers of the current one, with a line that fitted there; that is also
why `push` never finds a stack full.  `Adjacent` is the lemma about the table
on which the display rests: in one list, number and position in the table
differ by the same amount for all entries.

`PanelIsMenu` shows that every behaviour of `Panel` is one of `MenuFrame`, so
both results hold there as well (`PanelImplementsTree`).  `PanelTypeCorrect`
adds the ranges of relays and timers for every set of relays, limits and times;
`Halves` is its arithmetic: two halves of different turbidities make a
turbidity.

`AlarmComes` and `PumpStops` are liveness and stay with TLC.

## 8. Not modelled

* The share of the tree that is modelled is small by lines, because most of it
  is not this program: the vendor's headers and peripheral library, CMSIS, the
  parts of RT-Thread that are not built, and copies of application files left
  beside them (`menu_proc - 副本*.c`), which are not compiled.  Of what the
  application runs, the modules have the protocol stacks, the timers, the queue,
  the settings, the menu frame, the alarm and the pump.
* Buttons: `MenuFrame` takes any key at any time, so what it shows does not
  depend on them.  That a full ring loses all its codes
  (`bsp_button.c:105`) is listed as a hazard without a property.
* The number box, digit by digit: its functions store a value between the
  limits, which is how `Relays` and `ConfStore` see them.
* Register windows: single words stored at addresses; the unreachable branch of
  `user_mb_app_m.c:128` can be seen without a model.
* A torn read of the turbidity by the slave (`user_mb_app.c:76`): immediate from
  its two reads; the alarm's is modelled.
* Settings that are written to the chip and never read back: the temperature
  compensation (`menu_proc.c:2235`), the serial number (2296) and the address of
  the sensor (1898).  `global_init` does not load them; the unloaded setting of
  `MCConfStore` stands for them.
* A torn password that is still at most 999999 (`menu_proc.c:2327`) is accepted
  by the check of `global_init`; `SettingsStore` allows it as a cut-off edit.
* The mutex of `ipc.c` and the ready lists of the scheduler: planned, see below.
* Bus errors of the FRAM: the callers of `rt_device_write` ignore its result.
* `eMBMasterDisable`, `eMBMasterClose`, `eMBDisable`, `eMBClose`, the ASCII and
  TCP variants of Modbus: the application does not call them.
* Mailboxes, which nobody uses, and the deletion of a message queue, which
  nobody calls.
* Memory and object management: used only while the system starts, before
  anything runs concurrently.
* LCD, GPIO, ADC, RTC and watchdog drivers: register accesses without a
  protocol; fonts and drawing are pure output.

Out of the prover's reach and left to TLC: liveness under fairness, `ENABLED`,
and what recursive definitions compute for every input.

## 9. What is left

1. `Buttons` (`bsp_button.c`): the debouncing of the combination of two keys and
   the ring that forgets everything when it is full.
2. `RtMutex` (`ipc.c`): nested take, priority inheritance, timeout of a waiter,
   which leaves the owner at the inherited priority.  Theorem: at most one
   owner, hold count zero exactly when there is none.
3. `RegMap` (`user_mb_app_m.c`, `main_app.c`): address windows and the retries of
   `msg_t`.
4. Proofs: every invariant of a passing run and the safety part of every
   refinement is proved.  What could still be weakened is `OneCaller`: how much
   of the timer list survives the one timer of the application that has two
   callers.
