# TVC-Hopper in TLA+

A verification development for the TVC hopper: a small vehicle whose motor and
four thrust vanes are driven by a flight controller (FreeRTOS on an i.MX RT1010),
commanded and observed from a ground station over an XBee serial radio. The
modules are translated from the C and C++ source; paths below are relative to
the repository's root.

## The system

| Component | Source | State it keeps | Operations |
|---|---|---|---|
| SPP host engine | `spp/src-host/spp.c` | connection state, clients and their ranges in `defs_buffer`, tokens of pending requests, streams | connect, get, set, start stream, handle a message |
| SPP client engine | `spp/src-client/spp.c` | property list, stream table, duplicate flag | broadcast, send the property list, answer get and set, take stream requests, serve streams |
| Telemetry server | `tools/telemetry_viewer/src/telemetry_comms.cpp` | one SPP host, serial port, value cache, viewer sockets | start, listen on the line, carry out viewer commands |
| STCP framing | `stcp/src/stcp.c` | two static buffers | escape, unescape, write, handle a frame |
| Receive loops | `src/app_hal_xconnect.c`, `telemetry_comms.cpp` | the bytes of the next frame | cut the byte stream into frames |
| Command and control comms | `src/modules/command_control_comms.c` | the SPP client and STCP engine of the vehicle | stream service task; get and set of each property |
| Hover control | `src/modules/lqr_control.c` | stop flag and its mutex, start semaphore, reference, integrators, flight phase | start, stop, set reference and parameters, the control loop, auto-landing |
| Actuators | `src/hw/esc.c`, `src/hw/thrust_vanes.c`, `src/hw/hw.c` | limit, last output, buffered PWM registers | set output or position, alone or batched, load |
| Control inputs | `src/modules/control_inputs.c`, `src/hw/lidar.c`, `src/hw/imu.c` | newest distance and attitude, each under a mutex | capture task, notify, read |
| Sensor drivers | `drivers/src/tfl_i2c.c`, `drivers/src/bno085_i2c.c` | transfer buffers | register access, packet reassembly |
| Vehicle serial port | `src/app_hal_xconnect.c`, `fslhal/src/fsl_lpuart*.c` | driver handle, ring of received bytes, transmit mutex and event bits | send and wait, receive, interrupt handler |
| FreeRTOS kernel | `freertos/freertos_kernel/queue.c`, `tasks.c` | counts, holders and event lists of semaphores, priorities | take with a timeout, give, give from an interrupt |
| Circular buffer | `circbuf/src/cbuf.c` | ring, head, tail, size | push, pop, peek |

How they interact:

- The **viewer** sends commands to the **telemetry server**, which calls the SPP
  host engine; the engine hands messages to STCP and the serial port. A listener
  thread reads the port, cuts frames and hands messages to the engine. A mutex
  (`stcp_mx_`) serialises the engine's calls.
- In the **vehicle** the uart listener task (priority 5) reads bytes, cuts frames
  and runs the SPP client's handler, and with it the callback that carries out a
  `set`: start, stop, esc_pwm and so on run in that task. The cc_comms task
  (priority 3) broadcasts the vehicle's presence once and then serves streams.
- The **hover task** (priority 1) waits for a start, then reads the control
  inputs, computes and writes vanes and motor, and asks for the next capture.
  It shares `stop_flag`, the start semaphore and the ESC's limit with the uart
  task, which may preempt it anywhere.
- The **control inputs task** (priority 2) captures lidar and IMU when notified and
  publishes distance and attitude under a mutex each. The uart task reads the same
  lidar, with the same driver structure, to answer a GET of `raw_lidar`, and so does
  cc_comms for a stream of it; both also read the IMU (`raw_imu`) and the published
  attitude (`telem_data`).
- Both the uart and the cc_comms task write messages through one escape buffer and
  one **serial port**; its interrupt handler passes bytes on in both directions.
- Every mutex and semaphore above is a queue of the **FreeRTOS kernel**.

What is hard: the two SPP engines restart independently and keep no record of
each other's restarts; the radio loses bytes and so messages; a request's token
is a reused 8-bit number without a timeout; the framing must find back after a
lost byte; start and stop preempt a task in the middle of taking and giving
semaphores; outputs pass through a limit, buffer registers and load flags that other
commands also touch; sensors, drivers and buffers are shared by tasks whose
priorities are their only protection; and the kernel's takes and gives interleave
with interrupts and expiring waits. `PROJECT.json` lists each hazard at
its line.

What makes each component correct:

- *SPP host*: window count and slots agree; a token still in use is given out again
  only when the line is as full as there are tokens, so an answer retires its own request;
  lookups read what was written; a client has one entry and nobody else's
  messages change its range; READY means the list is complete and is reached.
- *SPP client and both together*: after any start order the list arrives; a
  stream's values reach the property they belong to; stream tables suffice.
- *STCP and receive loop*: without noise messages arrive once, in order; with
  noise only the neighbours of the damage suffer; the buffer needed is bounded.
- *Hover control and motor*: no start is lost; after start control goes on; stop
  ends a flight with the motor off; pulse widths stay in the ESC's range; a flight
  does not go to the target of the last one.
- *Outputs*: the outputs of one control step take effect together; none stays in
  its buffer.
- *Control inputs*: a control step gets inputs of one capture each, not too far
  apart; requests for a capture are not lost; what a reader gets of the lidar is damaged
  by tasks more urgent than itself and by failed transfers only.
- *Serial port*: a message is damaged by an overlapping one only, every write
  returns, a request is handled whole or not at all, and the listener stops only after
  a byte was lost.
- *Kernel*: records match what tasks did, a holder runs at the priority of its
  waiters and not longer, no wake-up is lost, and takes and gives are atomic to
  the tasks.

## Modules

| Module | Models | State to code |
|---|---|---|
| `SppProto` | messages, limits, the link | `toHost[c]`, `toClient[c]`: whole messages in flight per vehicle and direction; `fault`: the first access outside of an array, which ends a behaviour |
| `SppHost` | the host engine and how the server starts it | variables have the names of `SppHostEngine_t`'s members; `client_count` is `Len(clients)`, `defs_buffer_used` is `Len(defs_buffer)` |
| `SppClient` | the client engine per vehicle | `client_streams` is `streams` with `stream_count = Len`; `sending` is the loop index of `SppSendPropertyList`, because sending blocks and the cc_comms task can run in between |
| `SppLink` | both engines, power, losses | one action per thread or task step; `host_boots` and `client_boots` bound restarts |
| `HoverControl` | hover task, start, stop and target, motor and vane outputs | `hover` and `uart` are the places of the two tasks; `pulse`, `buffer`, `motor` follow a value from `HwEsc_SetOutput` to the ESC; `ldok` is the set of submodules with LDOK set, `unloaded` the outputs not yet in force; `target` tells a height asked for since the last stop from an older one |
| `ControlInputs` | capture task, control step's reads, GetValue for GETs and stream values, lidar driver and I2C bus with transfers that fail | `pc` is the place of each of the four tasks, `owner` the mutexes, `bus` the transfer that runs; a byte of the lidar carries the register, the reader and the reading it belongs to, and stays in `buffer` when a transfer fails |
| `VehicleUart` | two writers, escape buffer, RTOS wrapper, LPUART driver with interrupts, ring and the overrun of the port, listener loop | names of the driver's handle (`tx_left` is `txDataSize`, `rx_wanted` that `rxDataSize` is not 0); each interrupt is an action |
| `RtosSemaphores` | mutexes and binary semaphores of the kernel | `count` is `uxMessagesWaiting`; `pc` is the place in `xQueueSemaphoreTake`; `cTxLock` the queue lock |
| `Semaphores` | what tasks rely on: the abstract specification of the same | `available`, `owner`, `calling` |
| `Stcp` | framing and the receive loop, one direction | `line` carries bytes, each tagged with its frame for the properties; `msg_buffer` is `uart_msg_buffer` up to `msg_rcv_idx` |
| `SppLinkProofs`, `HoverControlProofs`, `ControlInputsProofs`, `VehicleUartProofs`, `RtosSemaphoresProofs`, `StcpProofs` | theorems about the module of that name | |
| `SppSessionProofs`, `SppAnswersProofs` | theorems about `SppLink` until a side restarts, and while nothing is lost | |
| `MCSppLink`, `MCHoverControl`, `MCStcp`, `MCControlInputs`, `MCVehicleUart`, `MCRtosSemaphores` | instances for TLC | |

How the code is abstracted:

- A handler that runs under `stcp_mx_` is one action of `SppLink`. In
  `SppClient` a handler is split where it blocks on sending more than once.
- A property is its id and the value of a property is represented by the
  property it was read from, so a value that is booked under another property
  can be told apart. Names, types, sizes and values themselves are left out.
- `toClient[c]` holds what the radio of vehicle `c` receives. The client takes the
  address out of a message and compares it with nothing (`spp/src-client/spp.c:167`);
  that a radio delivers to its addressee only is the XBee's work.
- Losing a message stands for every damage the framing does not repair; `Stcp`
  models that layer byte by byte.
- In `HoverControl` the uart task preempts the hover task between any two
  accesses to shared state and gives way only while it waits for input or for
  the mutex (`HoverRuns`), which is what the priorities in `src/main.c:25-30`
  say. `ControlInputs` and `VehicleUart` schedule their tasks in the same way. A
  control step asks for any pulse width of `Demands`, and of the vanes' angles only
  matters whether they are in force. Mutex waits of the application have a timeout of
  65535 ticks whose result is ignored; the holder always gives within a few
  instructions or one bus transfer, so there the timeout is left out. In
  `RtosSemaphores` any wait may run out at any time.
- PWM submodules run in step, and the control loop has their period, 5 ms
  (`bsp/flight-controller/src/peripherals.c:169`, `CONTROL_LOOP_INTERVAL`), so
  `Reload` comes anywhere and the load of one step may still be pending in the next.
- `RtosSemaphores` is one step per critical section. Its tasks keep the order of the
  vehicle's code: who holds a mutex takes no other but the inner one under it (the
  driver's mutex under `i2c_mx`, `fsl_lpi2c_freertos.c:106`) and gives that back
  first. Ticks appear as expiring waits only. `ControlInputs` and `HoverControl`
  use mutexes and semaphores as `Semaphores` describes them, which
  `RtosSemaphores` is shown to implement; `VehicleUart` keeps the owner of the
  transmit mutex and the event bits of the port in the same way.
- In `VehicleUart` bytes are numbered, not spelled; lengths of frames are
  parameters, and a request is complete after `RequestLen` bytes.

## Runs

Every passing run explores its instance completely.

| Run | Instance and bounds | What it shows |
|---|---|---|
| `spp_session` | one vehicle, reliable line, 2 server starts, window of 2, 3 tokens, 5 messages in flight | more requests than slots and tokens: the window overflows, tokens roll over and are given out again while in use; `ReuseNeedsFullLine`, `PendingIsInFlight`; until a vehicle restarts `ReadyMeansAllReceived`; under fairness `ConnectingEnds` |
| `spp_restarts` | one vehicle with two properties, lossy line, 2 starts of each side, streams of both properties, an unknown property | `TypeOK`, `PendingCountExact`, `RangesAreWritten`; before the first server restart also `FirstRunStreamsMatch` and `FirstRunStreamTablesSuffice` |
| `spp_server_restart` | one vehicle, 3 server starts | under fairness `PropertyListArrives` |
| `spp_fleet` | three vehicles of one kind and one of another, table for three, 2 starts each, symmetric in the vehicles of one kind | `RegisteredOnce`, `OnlyLastRangeIsExposed`; until a vehicle restarts `SameListSameRange` |
| `hover` | control law asks for pulse widths below, in and above the ESC's range, unbounded commands of every kind | `TypeOK`, `MutexIsHeld`, `StartNotLost`, `NoTakeoffOnOldTarget`, `StepIsWhole`, `NoOutputLeftBehind`; under fairness `StartedRuns`, `StopEndsFlight` |
| `inputs` | 4 events in any order: captures asked for, a GET, a stream value, transfers that fail | `UndisturbedReadingsExact`, `TransferAsAsked`, `AttitudeWhole`, `SkewBounded`; under fairness `FreshInputsArrive` |
| `uart` | answers of 2 and stream values of 3 bytes, a ring of 2 places, 3 requests of 2 bytes with 0 or 1 answer, 1 stream value; the ring and the port may overrun at any byte | `TypeOK`, `OnlyOverlapDamages`, `FreeMeansIdle`, `HandledAsSent`, `SuspendedOnlyAfterLoss`; under fairness `WritesReturn` |
| `rtos` | three tasks of different priorities, `i2c_mx` with the driver's mutex, one signal, all timeouts, unbounded | `MutexAccounting`, `HolderInherits`, `PriorityReturned`, `NoLostWakeup`; the refinement `ImplementsSemaphores` |
| `stcp` | 3 frames of every message of 1 or 2 bytes over header, escape, footer and data, 2 lost bytes | `DeliveredAsSent`, `Resynchronises`, `BufferBounded` |

Why these bounds suffice: the window, token space, connection table, stream table
and definitions buffer are each small enough to overflow or roll over within a
run; two starts of a side give every order of old and new messages around one
restart, and the third server start adds that of a restart during recovery. Three
vehicles are the fewest in which a duplicate, its original and a bystander meet,
and the fourth fills the table. Two-byte messages contain every special byte
first, last, doubled and next to every other; three frames are a damaged one, its
neighbour and a healthy one, and two losses can hit both bytes of a footer.
A ring of two places holds one byte, so that it overruns by one byte more, in
every state of the listener; two requests let an overrun meet the second while the first is
answered, and the third comes after. Four events are three captures (one in progress, one
pending and one that finds the semaphore taken) with a request in any of them, or a
capture, an answer and a stream value inside one another with a failure in one of the
three, or with failures of both bytes of a reading. Three tasks are the holder, a waiter and one between
them, or two waiters of which one gives up; the vehicle nests mutexes two deep.
`MaxRequests`, `MaxStreamed`, `MaxEvents`, `MaxGets`, `MaxInFlight`,
`MaxHostBoots`, `MaxClientBoots`, `MaxFrames` and `MaxLosses` are bounds of the model; everything else is a size of the code, made smaller. Deadlock
is checked in `hover`. In the other runs it is not: the bounds end every behaviour,
and in `rtos` a failed assertion stops the vehicle.

Runs that TLC must find violated, each for what a document or comment of the
repository says:

| Run | What happens |
|---|---|
| `spp_v_vehicle_restart` | the vehicle restarts while its list is transferred; the host answers BUSY, the vehicle never asks again, and the host stays CONNECTING (README: either side may be restarted) |
| `hover_v_wait` | a stop between the take and the give of the start semaphore: the task never waits again ("so that we wait again for start flag") |
| `rtos_v_assert` | a waiter whose wait runs out just as the mutex is given, and that then loses it to another task, meets the assertion of `queue.c:1554` with an inherited priority ("an adjusted timeout cannot become 0"); `configASSERT` halts the vehicle. With the application's 65535 ticks this takes a minute of waiting |

### Fairness

`SppLink!Fairness`: both programs are switched on (`PowerOn...`), and while on
they read their line, finish a list and broadcast, each in a thread or task of its
own that blocks only on its input: weak fairness. Viewer commands, stream
messages, losses and power-offs are never forced.

`HoverControl!Fairness`: the uart task has the highest priority, so a command
it began continues (weak fairness); the PWM unit reloads every cycle
(`bsp/flight-controller/src/peripherals.c:169`; weak fairness). The hover task
runs whenever all others block; commands can interrupt it any number of times but
arrive over a serial line slower than the processor: strong fairness.

`ControlInputs!Fairness` and that of `VehicleUart`: a task that has the processor
runs, a transfer ends, well or not, interrupts that are enabled happen, time passes: weak
fairness suffices because requests and bytes are bounded. That a byte comes or is lost,
a transfer fails, a GET arrives or a stream value is due is never forced; captures are
asked for by the control steps, which go on with time. `RtosSemaphores` has safety
properties only.

## Proofs

`tlapm` checks the eight proof modules completely. A theorem
holds for every value of the constants that the named assumptions of its module
admit, where a run has one instance: any number of clients, tasks, frames,
requests, losses and restarts. The bounds that keep TLC finite (`Max...`) are
numbers no proof depends on, except that `SppAnswersProofs` assumes that no vehicle is
switched on twice (`MaxClientBoots <= 1`). Each inductive invariant was checked by TLC on the
component's run before it was proved.

**`SppLinkProofs`** proves for every set of clients, property lists, table sizes,
token width, losses and restarts:

- `TypeCorrect`: `Spec => []TypeOK`
- `WindowExact`: `Spec => []PendingCountExact`
- `NoDoubleEntry`: `Spec => []RegisteredOnce`
- `LookupsInWritten`: `Spec => []RangesAreWritten`
- `OthersKeepTheirRange`: `Spec => OnlyLastRangeIsExposed`, an action property

The inductive invariant is `IInv`: the parts of `TypeOK` in the groups the actions
change (`Window`, `Table` and so on), with `PendingCountExact`, `RegisteredOnce`
and `RangesInside`. `RangesAreWritten` speaks of registered clients only and is
not inductive: `SppConnectToClient` copies the range of one entry to another that
may just have come into use. `RangesInside` says that every entry, used or not,
lies inside the written part of `defs_buffer`; a copy preserves it because the
source satisfies it, and a definition because it extends the range and the buffer
by one. `PendingCountExact` needs that tokens in messages are never the reserved
one (`LinkTypeOK`): a response that carried it would free a free slot. The
assumptions are those named in the modules: sizes are positive, list ids are
numbers, and every client has a property list that is not empty (a client
without properties would send nothing and leave the host CONNECTING).

**`HoverControlProofs`** proves for every ESC range, control law and set of
commands:

- `TypeCorrect`: `Spec => []TypeOK`
- `MutexKept`: `Spec => []MutexIsHeld`
- `NoStartLost`: `Spec => []StartNotLost`
- `NoOldTarget`: `Spec => []NoTakeoffOnOldTarget`
- `StepLoadedWhole`: `Spec => []StepIsWhole`
- `NothingLeftBehind`: `Spec => []NoOutputLeftBehind`

The first four follow from `IInv`. `StartKept`: while the stop flag is clear the
semaphore is available, or the hover task has just taken it and will return it, or the
start that cleared the flag is about to give it; and a stop past its assignment left
the flag set. `OldTargetKept`: an old target is met only between the test of the stop
flag and `ResetControls`. The last two follow from `OutInv`, proved on top of `IInv`:
`NoLoadPending` (while an undisturbed step writes, no submodule has LDOK set, so a
reload point takes nothing) and `WillBeLoaded` (an output that is not in force has its
submodule's LDOK set, or was written by a task that is going to set it).

**`SppSessionProofs`** proves what the two engines achieve together:

- `OneListOneRange`: `[]SameListSameRange`, if the server is started without a
  default address (`DefaultClient = NoClient`)
- `ReadyListsComplete`: `[]ReadyMeansAllReceived`, if in addition all vehicles are
  of one kind (`OneKind`) and the line loses nothing (`~Lossy`)
- `FirstRunStreamsRight`: `[]FirstRunStreamsMatch`, without hypotheses
- `FirstRunStreamsFit`: before the first server restart no stream value and no
  stream request goes past the end of a stream table, without hypotheses
- `FirstRunTablesSuffice`: `[]FirstRunStreamTablesSuffice` for vehicles of one kind

`SameListSameRange` and `ReadyMeansAllReceived` speak of the time before any client
restarts (`NoClientRestarted`); that was found while looking for their inductive
invariants. Afterwards they are false: a client that reconnects while it is not the one
registered last has the range of its kind copied to the last client, of whatever kind
(`src/spp/src-host/spp.c:86`; the comment at line 84, "already just added this client",
is not true of a reconnection), and when both sides restart the host can be READY with
properties missing. Each other hypothesis is needed, too,
and TLC shows a counterexample without it. With a default address the server's
`start` connects without going to CONNECTING, so the host is READY from the boot on.
With two kinds of vehicle the second's properties are looked up among the
definitions of the first, because `property_def_start` stays 0 (`:384`). On a lossy
line a lost `PROP_DEF` is not noticed.

The invariants extend `IInv` of `SppLinkProofs`. For lists (`ListInv`): a client asks
once, is asked for its list once, and sends nothing of it behind the last definition
(`LineKept`); only the client the host is CONNECTING to, the newest entry, sends its
list (`EntryKept`), and it is the first of its list (`LastIsNew`); so entries of one
list share one range (`Shared`). For completeness (`ReceivedInv`): what is in the table and what is still in
the line make up the whole list (`ListCovered`). For streams (`StreamInv`): each
stream of a client, each request and each value in the line has the id under
which the host booked its property (`EntriesBooked`, `RequestsBooked`,
`ValuesBooked`); a server restart starts the ids again and ends this.

**`SppAnswersProofs`** proves that what the host waits for is on its way, as long as
nothing is lost and a vehicle that was switched on stays on (`NothingLost`), and the
server is started without a default address:

- `AnswersToldApart`: `[]ReuseNeedsFullLine`, for one vehicle (`OneVehicle`) and a
  viewer that gets and sets but starts no stream (`StreamProps = {}`), for any number
  of messages under way
- `SlotsAreAnswered`: `[]PendingIsInFlight`, for any number of vehicles and of messages
  under way, if no stream is asked for
- `ListsAreOwed`: a CONNECTING host is owed the end of the list by the client it asked:
  the question is before the client, the client is sending, or the last definition is on
  the line. This holds for any number of vehicles and needs none of the other hypotheses.

A token is given out again after a rollover (`spp/src-host/spp.c:152`), whoever still
waits with it. Nothing in the code keeps it from that: when the window is full
`SppInsertToken` refuses the slot but the request is sent all the same (`:344`, where the
limit is compared with `>`), so any number of requests can be under way, and in
`spp_session` tokens in use do come again. What `ReuseNeedsFullLine` says is when: the
token that comes next is that of a waiting request only while the line holds at least
as many messages as there are tokens, 255 in the code. The invariant (`RequestFacts`)
gives each pending request an age, the number of tokens given out since. The
messages to the client and back are one line (`Line`), the next one to arrive at the host
in front, and there is an injection of the occupied slots into it: each slot has
a message with its token, and behind that one at least as many as its age (`InOrder`,
`Queued`). Every token given out adds a message at the end, an answer takes the place of
the request it answers, and the ages stay counted though a token is given out twice: an
answer frees the first slot with its token, and the slot that lost its message takes
over that of the one freed, which has the same token and age (`LeftByAnswer`). A token
comes next at the age of all tokens but one, and its own message makes up the rest, so
the bound is tight: with `>` TLC finds it violated.

That every slot is waiting for something is true even of tokens given out twice. It is
not inductive as it stands: an answer frees one slot with its token, and if two slots
wait with this token, the message of the other could have been the one just taken. The
invariant (`EachHasItsOwn`) says more: there is an injection of the occupied slots into
the messages on all lines, requests and answers, each with the token of its slot. A
request that is answered hands its slot over to the answer (`HandedOver`), and when an
answer frees another slot with the same token, the message of that one goes to the slot
which is still waiting (`AnswerTaken`). TLC agrees where tokens are shared: with two tokens and
two slots, and one vehicle or two, it finds such an injection in every state.

Every hypothesis is needed, and TLC shows it on small instances: both properties are
violated on a lossy line (the slot of a lost answer stays), with a second start of the
vehicle, with a default address (its connection is one more request) and with one
stream request (never answered). `ReuseNeedsFullLine` alone is violated with a second
vehicle (an answer of one overtakes that of the other). `ListOwed` is
violated by one loss and by one restart of a vehicle, as in `spp_v_vehicle_restart`.

**`StcpProofs`** proves for every set of messages over any bytes:

- `CompleteAtTheEnd`: behind anything that is not complete itself, a frame is complete
  with its last byte, or with the one before if its message ends in a footer byte
- `FrameUnEscaped`: `StcpUnEscape` gives back what `StcpEscape` framed, with the
  header in front when a footer byte was left over
- `FramesReadBack`: `Spec => []DeliveredAsSent`
- `NoiseStaysLocal`: `Spec => []Resynchronises`
- `BufferNeedsOneFrame`: `Spec => []BufferBounded`

The first two are inductions over the message. The library's induction theorems take an
operator and cannot be used, so induction is stated for a set (`NatSetInduction`: a set
of natural numbers with 0 and all successors is `Nat`), the recursive function of
`StcpUnEscape` is given its value from the frame's end backwards (`UnEscapeValue`),
and the fold in `FlattenSeq` a sequence of partial concatenations (`FlattenSeqValue`). The
inductive invariant says what the receiver holds of the newest frame. If that frame
is unharmed, the buffer is what the frames before left behind, followed by the bytes that have
left the line (`Arriving`), or the frame is complete (`Arrived`); if it lost a byte,
buffer and line together are within the room of the losses so far (`Damaged`).
What the frames before left is exactly one footer byte or nothing as soon as two
frames in a row lost nothing, which is why only two frames suffer. The assumption:
messages are sequences of bytes, not empty, and one of them is the longest.

**`RtosSemaphoresProofs`** proves for every set of tasks, priorities, mutexes and
signals:

- `RecordsExact`, `NoPriorityInversion`, `InheritanceEnds`, `WakeupsKept`:
  `MutexAccounting`, `HolderInherits`, `PriorityReturned` and `NoLostWakeup` always hold
- `ImplementsOneStepSemaphores`: `Spec => ImplementsSemaphores`, the refinement

The inductive invariant adds the order of nested mutexes (`TakenInOrder`), who has
the scheduler suspended (`QueueLocked`), which lists a task may be in
(`ListsWaiting`), event lists sorted by priority (`MutexListsSorted`) and the wake-up of a mutex
(`MutexWake`). That the inner mutex is only taken under the outer one
is what makes inheritance work here: nobody waits for it, so who waits for a mutex holds
none and has its own priority. In the refinement `CallTake` is `Call`,
`TakeAvailable` is `Take`, the refusals and the wait that ends with the semaphore taken away
are `Refuse`, the gives are `Give` and `Signal`; locking, waiting and waking stutter.

**`ControlInputsProofs`** proves `TransferAsAsked` (`TransfersAsAsked`),
`UndisturbedReadingsExact` (`OnlyUrgentTasksAndFailuresMix`), `AttitudeWhole`
(`AttitudeNeverTorn`) and `SkewBounded` (`SkewAtMostTwo`). The invariant says who owns
which mutex and the bus at which place (`MutexesOwned`, `BusOwned`), what the driver
structure holds for a reader that nobody more urgent interrupted and no transfer failed
(`LidarRead`), what a reader has copied (`AttitudeCopied`) and how far the capture task
is ahead of the control step (`CapturesAhead`). The mutex is held for one transfer and a
reading takes two, with the byte taken out of the shared structure after its release. The
priorities close that gap (`TakesUndisturbed`): a less urgent task runs in it only while it
holds a mutex for a more urgent one, which then is about to use the bus itself.
`NoMutexDeadlock` adds, for any number of captures and requests, that whoever has a mutex
is ready or waits for a transfer that is running.

**`VehicleUartProofs`** proves `TypeOK` (`TypesKept`), `OnlyOverlapDamages`
(`OnlyOverlapsDamage`), `FreeMeansIdle` (`FreeMutexMeansIdleDriver`), `HandledAsSent`
(`MessagesHandledAsSent`) and `SuspendedOnlyAfterLoss` (`StopsOnlyAfterLoss`). The
invariant relates the driver to the owner of the transmit mutex (`TxOwned`), the escape
buffer to the writer that has it alone (`FramesKept`), and the ring and the
interrupt's state to the listener's place (`RingHolds`, `BytesInOrder`). No proof uses the tasks'
priorities, so the results hold under any scheduling of the two. `WritersAreServed` adds
that a task waiting for the end of its transfer has an interrupt enabled that brings the
end nearer, or the event already set, and that no task outside `StcpWrite` has the mutex.

Only model-checked are the liveness properties (`ConnectingEnds`, `PropertyListArrives`,
`StartedRuns`, `StopEndsFlight`, `FreshInputsArrive`, `WritesReturn`): the prover handles
neither ENABLED nor the measures that such an argument decreases. What each needs of every
single state is proved where it is not obvious: `ListsAreOwed` for `ConnectingEnds`,
`NoMutexDeadlock` for `FreshInputsArrive`, `WritersAreServed` for `WritesReturn`,
`NoStartLost` for `StartedRuns`.

## Known deviations of the code

Beyond the violated runs, met while modelling and listed as hazards: a request
that finds the window full is sent all the same (`spp/src-host/spp.c:344`); tokens
still in use are given out again after a rollover (`:152`); a second client with a
list of its own searches the definitions of the first as well (`:384`);
`defs_buffer` fills up by vehicle restarts and is written past its end (`:48`);
the connection table has no limit check (`:109`); a stream request is never
answered, although `tests/spp/test_spp.cpp:210-222` expects it; a `get` of a
property the vehicle does not have uses an unset pointer
(`spp/src-client/spp.c:186`); a message that ends in the footer byte shifts the
header byte into the next message (stated exactly by `DeliveredAsSent`); the
auto-landing task suspends itself for ever (`src/modules/lqr_control.c:114`); a lost
`PROP_DEF` leaves the host READY with a property missing (`spp/src-host/spp.c:64`);
a client that reconnects as a duplicate overwrites the range of the client
registered last (`:86`; `OnlyLastRangeIsExposed` says no other is affected); after a
server restart the streams of its last run are booked under the properties of new
ones (`spp/src-client/spp.c:240`); an ESC output set by hand outlives a stop, which
lowers only the maximum (`src/hw/esc.c:45`); when the last load is still pending, or a
servo or ESC command falls into a control step, outputs of two steps are loaded
together (`StepIsWhole` says when not); a target set before the start has been
carried out is erased (`src/modules/lqr_control.c:171`), and the first step
that is not flying sets the spin-up rate limit to the normal one for good (`:237`); a
GET or a stream value of `raw_lidar` during a capture can give the control loop a distance
with bytes of both readings, or with the low byte in the place of the high one, and a
stream value is damaged in the same way by a GET; the status of a transfer is ignored
(`drivers/src/tfl_i2c.c:38`), so after a failed one the byte read last, for whichever task
and register, becomes part of a distance (`UndisturbedReadingsExact` says that
nothing else does); a byte lost in the port or in its ring stops the uart listener for good.
After an access out of bounds nothing is claimed: `fault` ends the behaviour.

## Plan

Done: `SppProto`, `SppHost`, `SppClient`, `SppLink`, `HoverControl` with all outputs
and the target, `Stcp`, `VehicleUart`, `ControlInputs`, `Semaphores` and
`RtosSemaphores` with the refinement between them.

Proved: every safety and action property that the passing runs check, the refinement of
`Semaphores`, and the safety part of three liveness properties.

What could follow:

1. An abstract specification of the framing (a channel that loses a damaged message and
   the one behind it) and `Stcp` shown to implement it.
2. Stream timing (`SppProcessStreams` with periods), BNO085 packet reassembly, flight phases
   and rate limits, the viewer side of the server, as far as worth it.

## Not modelled

- The viewer side of the telemetry server: the cache of values, filled by two threads
  without a common mutex, the counter of streams and the viewer's sockets. Races on a
  `std::map` have no outcomes to enumerate.
- The numbers of the control law, its parameters, rate limits and flight phases: any
  pulse width may be asked for, which is weaker than what the law computes.
- The auto-landing task, which never runs past its suspension.
- The BNO085 driver and the sensor-hub library above it; an IMU reading is one transfer, and
  what `raw_imu` answers is left out.
- What the sensors are when the set-up task still runs: `ControlInputs` begins after a start.
- A transfer on the sensor bus that never ends: `LPI2C_RTOS_Transfer` waits for it without
  a timeout, and the property about fresh inputs assumes that the driver reports an end.
- Noise, framing and parity errors of the port, for which no interrupt is enabled: `Stcp`
  loses such bytes.
- `circbuf`, which no program of the repository uses besides its tests.
- Vendored and generated code (CMSIS, device, bsp, most of fslhal and of the FreeRTOS
  kernel, sensor-hub, the TCP library), of which the used behaviour appears in
  `RtosSemaphores`, `VehicleUart` and `ControlInputs` or as external definitions.
- MATLAB scripts, Simulink models, the emulator and generators; `batt_monitor.c` and
  `rs232.c` (plain I/O).
