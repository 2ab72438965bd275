---------------------------- MODULE ControlInputs -----------------------------
(***************************************************************************)
(* How the distance and the attitude get from the sensors to the control   *)
(* loop (control_inputs.c, lidar.c, tfl_i2c.c, the I2C functions of        *)
(* app_hal_xconnect.c), after the hover task was started.                  *)
(*                                                                         *)
(* Four tasks: hover reads both values in a control step and asks for the  *)
(* next capture; inputs captures lidar and IMU when asked and publishes    *)
(* each under a mutex; uart for GET requests and cc for stream values call *)
(* GetValue, which reads the lidar or the IMU itself (raw_lidar, raw_imu)  *)
(* or copies the attitude (telem_data).  All read the lidar with one       *)
(* TfLidar_t, a register at a time over the bus that i2c_mx guards.  A     *)
(* transfer may be refused or fail, which no reader notices.  Preemption   *)
(* can come between any two accesses to shared state.  The mutexes behave  *)
(* as in module Semaphores, which RtosSemaphores implements, and pass      *)
(* priorities on.                                                          *)
(*                                                                         *)
(* A byte of the lidar is represented by the register it was read from,    *)
(* the task that asked for it and the number of that task's reading; what  *)
(* a capture publishes by the number of the capture.  What a task copied   *)
(* for itself and the parameters of a transfer are cleared when nobody     *)
(* reads them again.  The IMU's packets are one transfer, and what         *)
(* GetValue gets of it for raw_imu is left out.                            *)
(***************************************************************************)
EXTENDS Integers

CONSTANTS
  MaxEvents,     \* bound of the model: captures asked for, calls of GetValue and transfers
                 \* that fail, together
  MaxGets        \* bound of the model: calls of GetValue in a task

ASSUME BoundsAssumption == MaxEvents \in Nat \ {0} /\ MaxGets \in Nat

VARIABLES
  pc,
  reading,                 \* what each task reads over the bus: "low", "high" or "imu"
  owner,                   \* the task that has each mutex, or "none"
  start_capture_sem,
  LPI2C1_masterTransfer,   \* the parameters of the next transfer
  bus,                     \* the transfer that runs and who waits for it, or Idle
  buffer, reply_reg,       \* of the one TfLidar_t
  distance_bytes,          \* the local distance of each reader of the lidar
  lidar_distance,
  imu_data_proc,
  imu,                     \* what GetIMU copied, per task
  lidar,                   \* what GetLidar copied in the hover task
  (* for the properties *)
  notified,                \* how often a capture was asked for
  captures,                \* how many captures have begun
  gets,                    \* how many calls of GetValue have, per task
  asked,                   \* what notified was when the capture in progress began
  failures,                \* how many transfers have failed
  undisturbed              \* the reading of a task has missed no byte and no more
                           \* urgent task has used the bus during it

bus_vars == <<reading, LPI2C1_masterTransfer, bus>>
lidar_vars == <<buffer, reply_reg, distance_bytes>>
published_vars == <<lidar_distance, imu_data_proc>>
step_vars == <<imu, lidar>>
ghost_vars == <<notified, captures, gets, asked, failures, undisturbed>>
vars == <<pc, owner, start_capture_sem, bus_vars, lidar_vars, published_vars, step_vars, ghost_vars>>

Tasks == {"hover", "inputs", "cc", "uart"}
Readers == {"inputs", "cc", "uart"}
Getters == {"cc", "uart"}
Copiers == {"hover", "cc", "uart"}
Mutexes == {"i2c_mx", "lidar_data_mx", "imu_data_proc_mx"}

\* Faulty variant: the listener has the lowest priority.
PriorityListenerLast(t) ==
  CASE t = "hover" -> 1 [] t = "inputs" -> 2 [] t = "cc" -> 3 [] t = "uart" -> 0

Priority(t) == CASE t = "hover" -> 1 [] t = "inputs" -> 2 [] t = "cc" -> 3 [] t = "uart" -> 5

\* The mutex a task is about to take.
Wanted(t) ==
  CASE pc[t] = "bus" -> "i2c_mx"
    [] pc[t] \in {"get_imu", "put_imu"} -> "imu_data_proc_mx"
    [] pc[t] \in {"get_lidar", "put_lidar"} -> "lidar_data_mx"
    [] OTHER -> "none"

Free(m) == owner[m] = "none"

Ready(t) ==
  /\ pc[t] \notin {"delay", "idle", "transfer"}
  /\ pc[t] = "wait" => start_capture_sem > 0
  /\ Wanted(t) # "none" => Free(Wanted(t))
  /\ pc[t] = "start" => bus.by = "none"

\* A task runs with the priority of every task that waits for a mutex it has.
Urgent(t, u) ==
  \/ Priority(t) >= Priority(u)
  \/ \E m \in Mutexes : owner[m] = t /\ \E w \in Tasks : Wanted(w) = m /\ Priority(w) >= Priority(u)

Runs(t) == Ready(t) /\ \A u \in Tasks \ {t} : Ready(u) => Urgent(t, u)

Goto(t, l) == pc' = [pc EXCEPT ![t] = l]
Take(t, m) == Free(m) /\ owner' = [owner EXCEPT ![m] = t]
Give(m) == owner' = [owner EXCEPT ![m] = "none"]

NoTransfer == [of |-> "none", what |-> "none"]
Idle == [by |-> "none", of |-> "none", what |-> "none"]
NoByte == [register |-> "none", by |-> "none", reading |-> 0]
NoBytes == [low |-> NoByte, high |-> NoByte]

\* There may be one more event.
MayGoOn == notified + gets["cc"] + gets["uart"] + failures < MaxEvents

Init ==
  /\ pc = [t \in Tasks |-> CASE t = "hover" -> "notify" [] t = "inputs" -> "wait" [] OTHER -> "idle"]
  /\ reading = [t \in Readers |-> "none"]
  /\ owner = [m \in Mutexes |-> "none"]
  /\ start_capture_sem = 0
  /\ LPI2C1_masterTransfer = NoTransfer
  /\ bus = Idle
  /\ buffer = NoByte /\ reply_reg = NoByte
  /\ distance_bytes = [t \in Readers |-> NoBytes]
  /\ lidar_distance = 0
  /\ imu_data_proc = [attitude |-> 0, gyro |-> 0, asked |-> 0]
  /\ imu = [t \in Copiers |-> [attitude |-> 0, gyro |-> 0]]
  /\ lidar = 0
  /\ notified = 0 /\ captures = 0 /\ asked = 0 /\ failures = 0
  /\ gets = [t \in Getters |-> 0]
  /\ undisturbed = [t \in Readers |-> TRUE]

-----------------------------------------------------------------------------
(* One transfer: XCCb_I2CRegisterRead for the lidar, XCCb_I2CRead for the  *)
(* IMU.                                                                    *)

UsesBus(t) == pc[t] \in {"bus", "start", "transfer", "release", "reply", "keep"}

\* The readers that are meant to go before a task.
MoreUrgent(t) == CASE t = "inputs" -> {"cc", "uart"} [] t = "cc" -> {"uart"} [] t = "uart" -> {}

\* For the properties: what it means for every reading that t begins one.
BeginsReading(t) ==
  undisturbed' = [u \in Readers |->
    IF u = t THEN \A w \in MoreUrgent(t) : ~UsesBus(w)
             ELSE undisturbed[u] /\ ~(UsesBus(u) /\ t \in MoreUrgent(u))]

\* For the properties: the reading of t misses a byte.
MissesByte(t) ==
  /\ MayGoOn
  /\ failures' = failures + 1
  /\ undisturbed' = [undisturbed EXCEPT ![t] = FALSE]

\* Faulty variant: the bus is used without its mutex.
BusTakenUnguarded(t) == UNCHANGED owner

BusTaken(t) == Take(t, "i2c_mx")

\* Take i2c_mx and fill in the parameters.
FillTransfer(t) ==
  /\ pc[t] = "bus"
  /\ Runs(t)
  /\ BusTaken(t)
  /\ LPI2C1_masterTransfer' = [of |-> t, what |-> reading[t]]
  /\ Goto(t, "start")
  /\ UNCHANGED <<start_capture_sem, reading, bus, lidar_vars, published_vars, step_vars, ghost_vars>>

\* LPI2C_RTOS_Transfer up to its wait for the end of the transfer.
StartTransfer(t) ==
  /\ pc[t] = "start"
  /\ Runs(t)
  /\ bus' = [by |-> t, of |-> LPI2C1_masterTransfer.of, what |-> LPI2C1_masterTransfer.what]
  /\ LPI2C1_masterTransfer' = NoTransfer
  /\ Goto(t, "transfer")
  /\ UNCHANGED <<owner, start_capture_sem, reading, lidar_vars, published_vars, step_vars, ghost_vars>>

\* The driver refuses the transfer, and LPI2C_RTOS_Transfer returns at once.
TransferRefused(t) ==
  /\ pc[t] = "start"
  /\ Runs(t)
  /\ MissesByte(t)
  /\ LPI2C1_masterTransfer' = NoTransfer
  /\ Goto(t, "release")
  /\ UNCHANGED <<owner, start_capture_sem, reading, bus, lidar_vars, published_vars, step_vars,
                 notified, captures, gets, asked>>

ReadingOf(t) == IF t = "inputs" THEN captures ELSE gets[t]

\* The interrupt at the end: the byte is in the buffer and the task goes on.
TransferDone ==
  /\ bus.by # "none"
  /\ buffer' = IF bus.what = "imu" THEN buffer
               ELSE [register |-> bus.what, by |-> bus.of, reading |-> ReadingOf(bus.of)]
  /\ bus' = Idle
  /\ Goto(bus.by, "release")
  /\ UNCHANGED <<owner, start_capture_sem, reading, LPI2C1_masterTransfer, reply_reg, distance_bytes,
                 published_vars, step_vars, ghost_vars>>

\* It ends with an error: the task goes on as well, with the buffer as it was.
TransferFailed ==
  /\ bus.by # "none"
  /\ MissesByte(bus.by)
  /\ bus' = Idle
  /\ Goto(bus.by, "release")
  /\ UNCHANGED <<owner, start_capture_sem, reading, LPI2C1_masterTransfer, lidar_vars, published_vars,
                 step_vars, notified, captures, gets, asked>>

AfterTransfer(t) ==
  CASE reading[t] # "imu" -> "reply"
    [] reading[t] = "imu" /\ t = "inputs" -> "put_imu"
    [] OTHER -> "send"

ReleaseBus(t) ==
  /\ pc[t] = "release"
  /\ Runs(t)
  /\ Give("i2c_mx")
  /\ Goto(t, AfterTransfer(t))
  /\ UNCHANGED <<start_capture_sem, bus_vars, lidar_vars, published_vars, step_vars, ghost_vars>>

-----------------------------------------------------------------------------
(* Tfl_GetDistance                                                         *)

\* Tfl_ReadRegister: what is in the buffer goes to the struct, read or not.
ReadReply(t) ==
  /\ pc[t] = "reply"
  /\ Runs(t)
  /\ reply_reg' = buffer
  /\ Goto(t, "keep")
  /\ UNCHANGED <<owner, start_capture_sem, bus_vars, buffer, distance_bytes, published_vars, step_vars,
                 ghost_vars>>

\* The byte that becomes part of the distance.
ByteRead(t) == reply_reg

\* The low register first, then the high one.
KeepByte(t) ==
  /\ pc[t] = "keep"
  /\ Runs(t)
  /\ distance_bytes' = [distance_bytes EXCEPT ![t][reading[t]] = ByteRead(t)]
  /\ \/ /\ reading[t] = "low"
        /\ reading' = [reading EXCEPT ![t] = "high"]
        /\ Goto(t, "bus")
     \/ /\ reading[t] = "high"
        /\ Goto(t, IF t = "inputs" THEN "put_lidar" ELSE "send")
        /\ UNCHANGED reading
  /\ UNCHANGED <<owner, start_capture_sem, LPI2C1_masterTransfer, bus, buffer, reply_reg,
                 published_vars, step_vars, ghost_vars>>

-----------------------------------------------------------------------------
(* ControlsInputs_Task                                                     *)

BeginCapture ==
  /\ pc["inputs"] = "wait"
  /\ Runs("inputs")
  /\ start_capture_sem > 0
  /\ start_capture_sem' = start_capture_sem - 1
  /\ reading' = [reading EXCEPT !["inputs"] = "low"]
  /\ captures' = captures + 1
  /\ asked' = notified
  /\ BeginsReading("inputs")
  /\ Goto("inputs", "bus")
  /\ UNCHANGED <<owner, LPI2C1_masterTransfer, bus, lidar_vars, published_vars, step_vars,
                 notified, gets, failures>>

TakeLidarMutex ==
  /\ pc["inputs"] = "put_lidar"
  /\ Runs("inputs")
  /\ Take("inputs", "lidar_data_mx")
  /\ Goto("inputs", "publish_lidar")
  /\ UNCHANGED <<start_capture_sem, bus_vars, lidar_vars, published_vars, step_vars, ghost_vars>>

\* The new distance; then the IMU is read.
PublishLidar ==
  /\ pc["inputs"] = "publish_lidar"
  /\ Runs("inputs")
  /\ lidar_distance' = captures
  /\ Give("lidar_data_mx")
  /\ reading' = [reading EXCEPT !["inputs"] = "imu"]
  /\ distance_bytes' = [distance_bytes EXCEPT !["inputs"] = NoBytes]
  /\ undisturbed' = [undisturbed EXCEPT !["inputs"] = TRUE]
  /\ Goto("inputs", "bus")
  /\ UNCHANGED <<start_capture_sem, LPI2C1_masterTransfer, bus, buffer, reply_reg, imu_data_proc,
                 step_vars, notified, captures, gets, asked, failures>>

TakeImuMutex ==
  /\ pc["inputs"] = "put_imu"
  /\ Runs("inputs")
  /\ Take("inputs", "imu_data_proc_mx")
  /\ Goto("inputs", "publish_attitude")
  /\ UNCHANGED <<start_capture_sem, bus_vars, lidar_vars, published_vars, step_vars, ghost_vars>>

PublishAttitude ==
  /\ pc["inputs"] = "publish_attitude"
  /\ Runs("inputs")
  /\ imu_data_proc' = [imu_data_proc EXCEPT !.attitude = captures]
  /\ Goto("inputs", "publish_gyro")
  /\ UNCHANGED <<owner, start_capture_sem, bus_vars, lidar_vars, lidar_distance, step_vars, ghost_vars>>

PublishGyro ==
  /\ pc["inputs"] = "publish_gyro"
  /\ Runs("inputs")
  /\ imu_data_proc' = [imu_data_proc EXCEPT !.gyro = captures, !.asked = asked]
  /\ Give("imu_data_proc_mx")
  /\ reading' = [reading EXCEPT !["inputs"] = "none"]
  /\ undisturbed' = [undisturbed EXCEPT !["inputs"] = TRUE]
  /\ Goto("inputs", "wait")
  /\ UNCHANGED <<start_capture_sem, LPI2C1_masterTransfer, bus, lidar_vars, lidar_distance,
                 step_vars, notified, captures, gets, asked, failures>>

-----------------------------------------------------------------------------
(* ControlsInputs_GetIMU, of the control step and of telem_data: a memcpy. *)

\* Faulty variant: a control step copies the distance first.
NextInputSwapped(place) ==
  CASE place = "delay" -> "get_lidar" [] place = "copy_lidar" -> "get_imu" [] place = "copy_gyro" -> "notify"

\* A control step copies the attitude, then the distance, and asks for the next capture.
NextInput(place) ==
  CASE place = "delay" -> "get_imu" [] place = "copy_gyro" -> "get_lidar" [] place = "copy_lidar" -> "notify"

\* Faulty variant: the attitude is copied without the mutex.
GetImuTakenNot(t) == UNCHANGED owner

GetImuTaken(t) == Take(t, "imu_data_proc_mx")

BeginGetIMU(t) ==
  /\ pc[t] = "get_imu"
  /\ Runs(t)
  /\ GetImuTaken(t)
  /\ Goto(t, "copy_attitude")
  /\ UNCHANGED <<start_capture_sem, bus_vars, lidar_vars, published_vars, step_vars, ghost_vars>>

CopyAttitude(t) ==
  /\ pc[t] = "copy_attitude"
  /\ Runs(t)
  /\ imu' = [imu EXCEPT ![t].attitude = imu_data_proc.attitude]
  /\ Goto(t, "copy_gyro")
  /\ UNCHANGED <<owner, start_capture_sem, bus_vars, lidar_vars, published_vars, lidar, ghost_vars>>

CopyGyro(t) ==
  /\ pc[t] = "copy_gyro"
  /\ Runs(t)
  /\ imu' = [imu EXCEPT ![t].gyro = imu_data_proc.gyro]
  /\ Give("imu_data_proc_mx")
  /\ Goto(t, IF t = "hover" THEN NextInput("copy_gyro") ELSE "send")
  /\ UNCHANGED <<start_capture_sem, bus_vars, lidar_vars, published_vars, lidar, ghost_vars>>

-----------------------------------------------------------------------------
(* The hover task: ExecuteControlStep up to the request for the next       *)
(* capture, and the wait for the next step.                                *)

\* Faulty variant: a request is noticed only by a task that waits for it.
SemaphoreGivenToWaiting == IF pc["inputs"] = "wait" THEN 1 ELSE start_capture_sem

\* A give to a binary semaphore that is available changes nothing.
SemaphoreGiven == 1

ControlsInputs_NotifyStart ==
  /\ pc["hover"] = "notify"
  /\ Runs("hover")
  /\ MayGoOn
  /\ start_capture_sem' = SemaphoreGiven
  /\ notified' = notified + 1
  /\ Goto("hover", "delay")
  /\ UNCHANGED <<owner, bus_vars, lidar_vars, published_vars, step_vars, captures, gets, asked, failures,
                 undisturbed>>

\* vTaskDelay after a start, xTaskDelayUntil after a step; the next step writes over
\* what the last one copied.
NextStep ==
  /\ pc["hover"] = "delay"
  /\ imu' = [imu EXCEPT !["hover"] = [attitude |-> 0, gyro |-> 0]]
  /\ lidar' = 0
  /\ Goto("hover", NextInput("delay"))
  /\ UNCHANGED <<owner, start_capture_sem, bus_vars, lidar_vars, published_vars, ghost_vars>>

BeginGetLidar ==
  /\ pc["hover"] = "get_lidar"
  /\ Runs("hover")
  /\ Take("hover", "lidar_data_mx")
  /\ Goto("hover", "copy_lidar")
  /\ UNCHANGED <<start_capture_sem, bus_vars, lidar_vars, published_vars, step_vars, ghost_vars>>

CopyLidar ==
  /\ pc["hover"] = "copy_lidar"
  /\ Runs("hover")
  /\ lidar' = lidar_distance
  /\ Give("lidar_data_mx")
  /\ Goto("hover", NextInput("copy_lidar"))
  /\ UNCHANGED <<start_capture_sem, bus_vars, lidar_vars, published_vars, imu, ghost_vars>>

-----------------------------------------------------------------------------
(* GetValue, called for a GET request in the uart task and for a stream    *)
(* value that is due in the cc task.                                       *)

BeginGet(t) ==
  /\ pc[t] = "idle"
  /\ MayGoOn
  /\ gets[t] < MaxGets
  /\ gets' = [gets EXCEPT ![t] = @ + 1]

GetRawLidar(t) ==
  /\ BeginGet(t)
  /\ reading' = [reading EXCEPT ![t] = "low"]
  /\ BeginsReading(t)
  /\ Goto(t, "bus")
  /\ UNCHANGED <<owner, start_capture_sem, LPI2C1_masterTransfer, bus, lidar_vars, published_vars,
                 step_vars, notified, captures, asked, failures>>

GetRawImu(t) ==
  /\ BeginGet(t)
  /\ reading' = [reading EXCEPT ![t] = "imu"]
  /\ BeginsReading(t)
  /\ Goto(t, "bus")
  /\ UNCHANGED <<owner, start_capture_sem, LPI2C1_masterTransfer, bus, lidar_vars, published_vars,
                 step_vars, notified, captures, asked, failures>>

GetTelemetry(t) ==
  /\ BeginGet(t)
  /\ reading' = [reading EXCEPT ![t] = "none"]
  /\ Goto(t, "get_imu")
  /\ UNCHANGED <<owner, start_capture_sem, LPI2C1_masterTransfer, bus, lidar_vars, published_vars,
                 step_vars, notified, captures, asked, failures, undisturbed>>

\* The answer or the stream value is written to the port.
SendValue(t) ==
  /\ pc[t] = "send"
  /\ Runs(t)
  /\ Goto(t, "idle")
  /\ reading' = [reading EXCEPT ![t] = "none"]
  /\ distance_bytes' = [distance_bytes EXCEPT ![t] = NoBytes]
  /\ imu' = [imu EXCEPT ![t] = [attitude |-> 0, gyro |-> 0]]
  /\ undisturbed' = [undisturbed EXCEPT ![t] = TRUE]
  /\ UNCHANGED <<owner, start_capture_sem, LPI2C1_masterTransfer, bus, buffer, reply_reg,
                 published_vars, lidar, notified, captures, gets, asked, failures>>

-----------------------------------------------------------------------------
BusStep(t) ==
  \/ FillTransfer(t) \/ StartTransfer(t) \/ TransferRefused(t)
  \/ ReleaseBus(t) \/ ReadReply(t) \/ KeepByte(t)

GetImuStep(t) == BeginGetIMU(t) \/ CopyAttitude(t) \/ CopyGyro(t)

InputsStep ==
  \/ BeginCapture \/ BusStep("inputs") \/ TakeLidarMutex \/ PublishLidar
  \/ TakeImuMutex \/ PublishAttitude \/ PublishGyro

HoverStep == ControlsInputs_NotifyStart \/ GetImuStep("hover") \/ BeginGetLidar \/ CopyLidar

GetterStep(t) == BusStep(t) \/ GetImuStep(t) \/ SendValue(t)

GetBegins(t) == GetRawLidar(t) \/ GetRawImu(t) \/ GetTelemetry(t)

TransferEnds == TransferDone \/ TransferFailed

TaskStep == InputsStep \/ HoverStep \/ \E t \in Getters : GetterStep(t)

Next == TaskStep \/ TransferEnds \/ NextStep \/ \E t \in Getters : GetBegins(t)

Spec == Init /\ [][Next]_vars

\* The processor runs a task that may run, transfers end, well or not, and time passes.
Fairness == WF_vars(TaskStep) /\ WF_vars(TransferEnds) /\ WF_vars(NextStep)

FairSpec == Spec /\ Fairness

-----------------------------------------------------------------------------
Byte == [register : {"none", "low", "high"}, by : Readers \cup {"none"}, reading : Nat]

TypeOK ==
  /\ pc \in [Tasks -> {"notify", "delay", "get_imu", "copy_attitude", "copy_gyro", "get_lidar",
                       "copy_lidar", "wait", "bus", "start", "transfer", "release", "reply", "keep",
                       "put_lidar", "publish_lidar", "put_imu", "publish_attitude", "publish_gyro",
                       "send", "idle"}]
  /\ reading \in [Readers -> {"none", "low", "high", "imu"}]
  /\ owner \in [Mutexes -> Tasks \cup {"none"}]
  /\ start_capture_sem \in {0, 1}
  /\ buffer \in Byte /\ reply_reg \in Byte
  /\ captures <= notified

ReadFor(d, t, n) ==
  \A r \in {"low", "high"} : d[r] = [register |-> r, by |-> t, reading |-> n]

\* A distance has the two registers, in order and read for the call that gets it,
\* unless one of its own transfers failed or a more urgent task used the sensor bus
\* meanwhile: nothing a less urgent task does with the same driver structure damages
\* it.  So an answer of the uart task is damaged by failed transfers only, a stream
\* value also by answers, and a distance the control loop gets by either.
UndisturbedReadingsExact ==
  \A t \in Readers :
    pc[t] \in {"put_lidar", "send"} /\ reading[t] = "high" /\ undisturbed[t] =>
      ReadFor(distance_bytes[t], t, ReadingOf(t))

\* The transfer a task waits for is the one it asked for: nobody changes
\* LPI2C1_masterTransfer between filling it in and the start.
TransferAsAsked == bus.by # "none" => bus.of = bus.by /\ bus.what = reading[bus.by]

\* Attitude and rates were always published by one capture, also when the copy is
\* interrupted by the task that writes them.
AttitudeWhole ==
  \A t \in Copiers :
    pc[t] \notin {"copy_attitude", "copy_gyro"} => imu[t].attitude = imu[t].gyro

\* The distance a control step uses was published by the capture of its attitude or
\* by one of the next two: one may be in progress when the attitude is read and one
\* more asked for.  (After a failed transfer a capture publishes older values.)
SkewBounded ==
  pc["hover"] = "notify" => lidar - imu["hover"].attitude \in 0 .. 2

\* The inputs catch up with the requests for a capture, the last one included: one that
\* comes while a capture is in progress, or while transfers fail, is not lost, and the
\* attitude that arrives is of a capture that began after it.  (The requests end at the
\* bound; a stream of them that never ends may stay one ahead.)
FreshInputsArrive == []<>(imu_data_proc.asked = notified)
=============================================================================
