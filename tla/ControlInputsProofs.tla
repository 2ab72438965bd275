------------------------- MODULE ControlInputsProofs -------------------------
(***************************************************************************)
(* Proofs about ControlInputs: transfers are started as they were asked    *)
(* for, what a reader gets from the lidar is mixed by failed transfers and *)
(* more urgent readers only, the attitude is copied whole, and distance    *)
(* and attitude of a control step are at most two captures apart, for any  *)
(* number of captures, requests, stream values and failures.               *)
(***************************************************************************)
EXTENDS ControlInputs, TLAPS

BusPlaces == {"bus", "start", "transfer", "release", "reply", "keep"}
ImuPlaces == {"get_imu", "copy_attitude", "copy_gyro"}
HoverPlaces == ImuPlaces \cup {"notify", "delay", "get_lidar", "copy_lidar"}
GetterPlaces == BusPlaces \cup ImuPlaces \cup {"idle", "send"}
InputsPlaces == BusPlaces \cup {"wait", "put_lidar", "publish_lidar", "put_imu", "publish_attitude", "publish_gyro"}

\* Where each task can be, and what it reads there.
Places ==
  /\ pc \in [Tasks -> HoverPlaces \cup GetterPlaces \cup InputsPlaces]
  /\ pc["hover"] \in HoverPlaces /\ pc["inputs"] \in InputsPlaces
  /\ \A t \in Getters : pc[t] \in GetterPlaces
  /\ reading \in [Readers -> {"none", "low", "high", "imu"}]
  /\ \A t \in Readers :
       /\ pc[t] \in BusPlaces => reading[t] # "none"
       /\ pc[t] \in {"reply", "keep"} => reading[t] # "imu"
  /\ pc["inputs"] \in {"put_lidar", "publish_lidar"} => reading["inputs"] = "high"
  /\ pc["inputs"] \in {"put_imu", "publish_attitude", "publish_gyro"} => reading["inputs"] = "imu"

\* The types of what the tasks share.
Values ==
  /\ owner \in [Mutexes -> Tasks \cup {"none"}]
  /\ start_capture_sem \in {0, 1}
  /\ captures \in Nat /\ notified \in Nat /\ asked \in Nat
  /\ gets \in [Getters -> Nat] /\ DOMAIN undisturbed = Readers
  /\ DOMAIN distance_bytes = Readers
  /\ \A t \in Readers : distance_bytes[t] = [low |-> distance_bytes[t].low, high |-> distance_bytes[t].high]
  /\ lidar_distance \in Nat
  /\ imu_data_proc \in [attitude : Nat, gyro : Nat, asked : Nat]
  /\ imu \in [Copiers -> [attitude : Nat, gyro : Nat]]
  /\ lidar \in Nat

\* A mutex is with the task that is between taking and giving it.
Holds(t, m) ==
  CASE m = "i2c_mx" -> pc[t] \in {"start", "transfer", "release"}
    [] m = "imu_data_proc_mx" -> pc[t] \in {"copy_attitude", "copy_gyro", "publish_attitude", "publish_gyro"}
    [] m = "lidar_data_mx" -> pc[t] \in {"copy_lidar", "publish_lidar"}

MutexesOwned == \A m \in Mutexes : \A t \in Tasks : owner[m] = t <=> Holds(t, m)

\* The parameters of a transfer, and the transfer that runs, are of the task that
\* has the bus; none runs while a task that reads undisturbed is about to take its
\* byte.
BusOwned ==
  /\ \A t \in Readers : pc[t] = "start" => LPI2C1_masterTransfer = [of |-> t, what |-> reading[t]]
  /\ \A t \in Readers : pc[t] = "transfer" <=> bus.by = t
  /\ bus.by # "none" => bus.by \in Readers /\ bus.of = bus.by /\ bus.what = reading[bus.by]
  /\ \A t \in Readers : pc[t] = "reply" /\ undisturbed[t] => bus.by = "none"

ByteOf(t, register, n) == [register |-> register, by |-> t, reading |-> n]

\* How far a task has got that reads the lidar undisturbed, the n-th time.
ReadsUndisturbed(t, n) ==
  /\ pc[t] \in {"release", "reply"} /\ reading[t] # "imu" => buffer = ByteOf(t, reading[t], n)
  /\ pc[t] = "keep" => reply_reg = ByteOf(t, reading[t], n)
  /\ reading[t] = "high" => distance_bytes[t].low = ByteOf(t, "low", n)
  /\ reading[t] = "high" /\ pc[t] \notin BusPlaces => distance_bytes[t].high = ByteOf(t, "high", n)

\* Who reads the lidar undisturbed has its bytes, and no more urgent task the bus.
LidarRead ==
  \A t \in Readers : undisturbed[t] =>
    /\ ReadsUndisturbed(t, ReadingOf(t))
    /\ UsesBus(t) /\ reading[t] # "imu" => \A w \in MoreUrgent(t) : ~ UsesBus(w)

\* The two parts of the attitude differ only while the task that writes, or one that
\* copies, is between them.
AttitudeCopied ==
  /\ pc["inputs"] # "publish_gyro" => imu_data_proc.attitude = imu_data_proc.gyro
  /\ \A t \in Copiers :
       /\ pc[t] = "copy_gyro" => imu[t].attitude = imu_data_proc.attitude
       /\ pc[t] \notin {"copy_attitude", "copy_gyro"} => imu[t].attitude = imu[t].gyro

\* What is published of the capture in progress, and how far the captures can get
\* ahead of a control step that has copied its attitude.
CapturesAhead ==
  /\ pc["inputs"] \in {"wait", "publish_gyro"} => imu_data_proc.attitude = captures
  /\ pc["inputs"] \notin {"wait", "publish_gyro"} => imu_data_proc.attitude = captures - 1
  /\ reading["inputs"] = "imu" \/ pc["inputs"] = "wait" => lidar_distance = captures
  /\ reading["inputs"] # "imu" /\ pc["inputs"] # "wait" => lidar_distance = captures - 1
  /\ pc["hover"] \in {"copy_gyro", "get_lidar", "copy_lidar"} =>
       /\ captures + start_capture_sem <= imu["hover"].attitude + 2
       /\ imu["hover"].attitude <= lidar_distance
  /\ pc["hover"] = "notify" => lidar - imu["hover"].attitude \in 0 .. 2

\* The inductive invariant.
IInv == Places /\ Values /\ MutexesOwned /\ BusOwned /\ LidarRead /\ AttitudeCopied /\ CapturesAhead

-----------------------------------------------------------------------------
(* A task that may run is kept waiting only by one that holds a mutex for  *)
(* a more urgent task.                                                     *)

LEMMA WaitsForHolder ==
  ASSUME NEW t \in Readers, NEW u \in Readers \ {t}, Runs(u), Ready(t), u \notin MoreUrgent(t)
  PROVE  \E m \in Mutexes : owner[m] = u /\ \E w \in Tasks : Wanted(w) = m /\ Priority(w) >= Priority(t)
<1>1. Urgent(u, t)
  BY DEF Runs, Tasks, Readers
<1>2. ~ Priority(u) >= Priority(t)
  BY DEF Priority, MoreUrgent, Readers
<1>3. QED
  BY <1>1, <1>2 DEF Urgent

\* While one task reads undisturbed and has to take its byte, no other is about to
\* start a transfer or to take one and runs.
LEMMA TakesUndisturbed ==
  ASSUME Places, MutexesOwned, LidarRead,
         NEW t \in Readers, NEW u \in Readers \ {t}, Runs(u), undisturbed[t], pc[t] \in {"reply", "keep"}
  PROVE  pc[u] \notin {"start", "reply"}
<1>1. SUFFICES ASSUME pc[u] \in {"start", "reply"}
               PROVE  FALSE
  OBVIOUS
<1>2. Ready(t)
  BY DEF Ready, Wanted
<1>3. \A w \in MoreUrgent(t) : ~ UsesBus(w)
  BY DEF LidarRead, UsesBus, Places
<1>4. u \notin MoreUrgent(t)
  BY <1>1, <1>3 DEF UsesBus
<1>5. PICK m \in Mutexes, w \in Tasks : owner[m] = u /\ Wanted(w) = m /\ Priority(w) >= Priority(t)
  BY <1>2, <1>4, WaitsForHolder
<1>6. m = "i2c_mx"
  <2>1. Holds(u, m)
    BY <1>5 DEF MutexesOwned, Tasks, Readers
  <2>2. QED
    BY <1>1, <2>1 DEF Holds, Mutexes
<1>7. pc[w] = "bus"
  BY <1>5, <1>6 DEF Wanted
<1>8. w # t
  BY <1>7
<1>9. w \in MoreUrgent(t)
  <2>1. w # "hover"
    BY <1>7 DEF Places, HoverPlaces, ImuPlaces
  <2>2. QED
    BY <1>5, <1>8, <2>1 DEF Priority, MoreUrgent, Tasks, Readers
<1>10. QED
  BY <1>3, <1>7, <1>9 DEF UsesBus

-----------------------------------------------------------------------------
(* Every step keeps the invariant.                                         *)

LEMMA Starts ==
  ASSUME Init
  PROVE  IInv
<1>1. Places
  BY DEF Init, Places, Tasks, Readers, Getters, Copiers, BusPlaces, ImuPlaces, HoverPlaces, GetterPlaces, InputsPlaces
<1>2. Values
  BY DEF Init, Values, NoBytes, Tasks, Readers, Getters, Copiers, Mutexes
<1>3. MutexesOwned
  BY DEF Init, MutexesOwned, Holds, Tasks, Mutexes
<1>4. BusOwned
  BY DEF Init, BusOwned, Idle, Tasks, Readers, Getters, Copiers
<1>5. LidarRead
  BY DEF Init, LidarRead, ReadsUndisturbed, ReadingOf, UsesBus, MoreUrgent, Tasks, Readers, Getters, Copiers
<1>6. AttitudeCopied
  BY DEF Init, AttitudeCopied, Tasks, Copiers
<1>7. CapturesAhead
  BY DEF Init, CapturesAhead, Tasks, Readers, Getters, Copiers
<1>8. QED
  BY <1>1, <1>2, <1>3, <1>4, <1>5, <1>6, <1>7 DEF IInv

USE DEF Tasks, Readers, Getters, Copiers, Mutexes, Free, Goto, Take, Give, Idle,
        bus_vars, lidar_vars, published_vars, step_vars, ghost_vars,
        BusPlaces, ImuPlaces, HoverPlaces, GetterPlaces, InputsPlaces

\* A step of a task that neither takes nor gives a mutex.
LEMMA OwnersKept ==
  ASSUME MutexesOwned, NEW t \in Tasks, UNCHANGED owner, \A u \in Tasks \ {t} : pc'[u] = pc[u],
         \A m \in Mutexes : Holds(t, m)' <=> Holds(t, m)
  PROVE  MutexesOwned'
<1>1. \A u \in Tasks, m \in Mutexes : Holds(u, m)' <=> Holds(u, m)
  BY DEF Holds
<1>2. QED
  BY <1>1 DEF MutexesOwned

\* A task takes a mutex.
LEMMA OwnersTaken ==
  ASSUME MutexesOwned, owner \in [Mutexes -> Tasks \cup {"none"}],
         NEW t \in Tasks, NEW m \in Mutexes, Take(t, m), Holds(t, m)',
         \A u \in Tasks \ {t} : pc'[u] = pc[u],
         \A n \in Mutexes \ {m} : Holds(t, n)' <=> Holds(t, n)
  PROVE  MutexesOwned'
<1>1. \A u \in Tasks \ {t}, n \in Mutexes : Holds(u, n)' <=> Holds(u, n)
  BY DEF Holds
<1>2. \A u \in Tasks : ~ Holds(u, m)
  BY DEF MutexesOwned
<1>3. /\ \A u \in Tasks, n \in Mutexes \ {m} : owner'[n] = u <=> owner[n] = u
      /\ owner'[m] = t
  OBVIOUS
<1>4. QED
  BY <1>1, <1>2, <1>3 DEF MutexesOwned

\* A task gives back a mutex.
LEMMA OwnersGiven ==
  ASSUME MutexesOwned, owner \in [Mutexes -> Tasks \cup {"none"}],
         NEW t \in Tasks, NEW m \in Mutexes, Give(m), Holds(t, m), ~ Holds(t, m)',
         \A u \in Tasks \ {t} : pc'[u] = pc[u],
         \A n \in Mutexes \ {m} : Holds(t, n)' <=> Holds(t, n)
  PROVE  MutexesOwned'
<1>1. \A u \in Tasks \ {t}, n \in Mutexes : Holds(u, n)' <=> Holds(u, n)
  BY DEF Holds
<1>2. \A u \in Tasks \ {t} : ~ Holds(u, m)
  BY DEF MutexesOwned
<1>3. /\ \A u \in Tasks, n \in Mutexes \ {m} : owner'[n] = u <=> owner[n] = u
      /\ owner'[m] = "none"
  OBVIOUS
<1>4. QED
  BY <1>1, <1>2, <1>3 DEF MutexesOwned

LEMMA FillTransferKeeps ==
  ASSUME IInv, NEW t \in Readers, FillTransfer(t)
  PROVE  IInv'
<1>1. Places'
  BY DEF IInv, Places, FillTransfer, BusTaken
<1>2. Values'
  BY DEF IInv, Places, Values, FillTransfer, BusTaken
<1>3. MutexesOwned'
  <2>1. \A u \in Tasks \ {t} : pc'[u] = pc[u]
    BY DEF IInv, Places, FillTransfer
  <2>2. \A m \in Mutexes \ {"i2c_mx"} : Holds(t, m)' <=> Holds(t, m)
    BY DEF IInv, Places, Holds, FillTransfer
  <2>3. QED
    BY <2>1, <2>2, OwnersTaken DEF IInv, Places, Values, Holds, FillTransfer, BusTaken
<1>4. BusOwned'
  BY DEF IInv, Places, BusOwned, MutexesOwned, Holds, FillTransfer, BusTaken
<1>5. LidarRead'
  BY DEF IInv, Places, Values, LidarRead, ReadsUndisturbed, ReadingOf, UsesBus, MoreUrgent, FillTransfer, BusTaken
<1>6. AttitudeCopied'
  BY DEF IInv, Places, Values, AttitudeCopied, FillTransfer, BusTaken
<1>7. CapturesAhead'
  BY DEF IInv, Places, Values, CapturesAhead, FillTransfer, BusTaken
<1>8. QED
  BY <1>1, <1>2, <1>3, <1>4, <1>5, <1>6, <1>7 DEF IInv

LEMMA StartTransferKeeps ==
  ASSUME IInv, NEW t \in Readers, StartTransfer(t)
  PROVE  IInv'
<1>1. \A u \in Readers \ {t} : undisturbed[u] => pc[u] \notin {"reply", "keep"}
  BY TakesUndisturbed DEF IInv, StartTransfer
<1>2. Places'
  BY DEF IInv, Places, StartTransfer
<1>3. Values'
  BY DEF IInv, Places, Values, StartTransfer
<1>4. MutexesOwned'
  <2>1. \A u \in Tasks \ {t} : pc'[u] = pc[u]
    BY DEF IInv, Places, StartTransfer
  <2>2. \A m \in Mutexes : Holds(t, m)' <=> Holds(t, m)
    BY DEF IInv, Places, Holds, StartTransfer
  <2>3. QED
    BY <2>1, <2>2, OwnersKept DEF IInv, StartTransfer
<1>5. BusOwned'
  BY <1>1 DEF IInv, Places, BusOwned, MutexesOwned, Holds, StartTransfer
<1>6. LidarRead'
  BY <1>1 DEF IInv, Places, Values, LidarRead, ReadsUndisturbed, ReadingOf, UsesBus, MoreUrgent, StartTransfer
<1>7. AttitudeCopied'
  BY DEF IInv, Places, Values, AttitudeCopied, StartTransfer
<1>8. CapturesAhead'
  BY DEF IInv, Places, Values, CapturesAhead, StartTransfer
<1>9. QED
  BY <1>2, <1>3, <1>4, <1>5, <1>6, <1>7, <1>8 DEF IInv

LEMMA TransferRefusedKeeps ==
  ASSUME IInv, NEW t \in Readers, TransferRefused(t)
  PROVE  IInv'
<1>1. Places'
  BY DEF IInv, Places, TransferRefused, MissesByte
<1>2. Values'
  BY DEF IInv, Places, Values, TransferRefused, MissesByte
<1>3. MutexesOwned'
  <2>1. \A u \in Tasks \ {t} : pc'[u] = pc[u]
    BY DEF IInv, Places, TransferRefused, MissesByte
  <2>2. \A m \in Mutexes : Holds(t, m)' <=> Holds(t, m)
    BY DEF IInv, Places, Holds, TransferRefused, MissesByte
  <2>3. QED
    BY <2>1, <2>2, OwnersKept DEF IInv, TransferRefused, MissesByte
<1>4. BusOwned'
  BY DEF IInv, Places, BusOwned, TransferRefused, MissesByte
<1>5. LidarRead'
  BY DEF IInv, Places, Values, LidarRead, ReadsUndisturbed, ReadingOf, UsesBus, MoreUrgent, TransferRefused, MissesByte
<1>6. AttitudeCopied'
  BY DEF IInv, Places, Values, AttitudeCopied, TransferRefused, MissesByte
<1>7. CapturesAhead'
  BY DEF IInv, Places, Values, CapturesAhead, TransferRefused, MissesByte
<1>8. QED
  BY <1>1, <1>2, <1>3, <1>4, <1>5, <1>6, <1>7 DEF IInv

LEMMA TransferDoneKeeps ==
  ASSUME IInv, TransferDone
  PROVE  IInv'
<1>1. PICK t \in Readers : bus.by = t /\ pc[t] = "transfer"
  BY DEF IInv, BusOwned, TransferDone
<1>2. Places'
  BY <1>1 DEF IInv, Places, TransferDone, ReadingOf
<1>3. Values'
  BY <1>1 DEF IInv, Places, Values, TransferDone, ReadingOf
<1>4. MutexesOwned'
  <2>1. \A u \in Tasks \ {t} : pc'[u] = pc[u]
    BY <1>1 DEF IInv, Places, TransferDone
  <2>2. \A m \in Mutexes : Holds(t, m)' <=> Holds(t, m)
    BY <1>1 DEF IInv, Places, Holds, TransferDone
  <2>3. QED
    BY <1>1, <2>1, <2>2, OwnersKept DEF IInv, TransferDone, ReadingOf
<1>5. BusOwned'
  BY <1>1 DEF IInv, Places, BusOwned, TransferDone, ReadingOf
<1>6. LidarRead'
  BY <1>1 DEF IInv, Places, Values, LidarRead, ReadsUndisturbed, ReadingOf, UsesBus, MoreUrgent, BusOwned, MutexesOwned, Holds,
              ByteOf, TransferDone, ReadingOf
<1>7. AttitudeCopied'
  BY <1>1 DEF IInv, Places, Values, AttitudeCopied, TransferDone, ReadingOf
<1>8. CapturesAhead'
  BY <1>1 DEF IInv, Places, Values, CapturesAhead, TransferDone, ReadingOf
<1>9. QED
  BY <1>2, <1>3, <1>4, <1>5, <1>6, <1>7, <1>8 DEF IInv

LEMMA TransferFailedKeeps ==
  ASSUME IInv, TransferFailed
  PROVE  IInv'
<1>1. PICK t \in Readers : bus.by = t /\ pc[t] = "transfer"
  BY DEF IInv, BusOwned, TransferFailed
<1>2. Places'
  BY <1>1 DEF IInv, Places, TransferFailed, MissesByte
<1>3. Values'
  BY <1>1 DEF IInv, Places, Values, TransferFailed, MissesByte
<1>4. MutexesOwned'
  <2>1. \A u \in Tasks \ {t} : pc'[u] = pc[u]
    BY <1>1 DEF IInv, Places, TransferFailed
  <2>2. \A m \in Mutexes : Holds(t, m)' <=> Holds(t, m)
    BY <1>1 DEF IInv, Places, Holds, TransferFailed
  <2>3. QED
    BY <1>1, <2>1, <2>2, OwnersKept DEF IInv, TransferFailed, MissesByte
<1>5. BusOwned'
  BY <1>1 DEF IInv, Places, BusOwned, TransferFailed, MissesByte
<1>6. LidarRead'
  BY <1>1 DEF IInv, Places, Values, LidarRead, ReadsUndisturbed, ReadingOf, UsesBus, MoreUrgent, BusOwned, MutexesOwned, Holds,
              TransferFailed, MissesByte
<1>7. AttitudeCopied'
  BY <1>1 DEF IInv, Places, Values, AttitudeCopied, TransferFailed, MissesByte
<1>8. CapturesAhead'
  BY <1>1 DEF IInv, Places, Values, CapturesAhead, TransferFailed, MissesByte
<1>9. QED
  BY <1>2, <1>3, <1>4, <1>5, <1>6, <1>7, <1>8 DEF IInv

LEMMA ReleaseBusKeeps ==
  ASSUME IInv, NEW t \in Readers, ReleaseBus(t)
  PROVE  IInv'
<1>1. /\ reading[t] # "imu" => AfterTransfer(t) = "reply"
      /\ reading[t] = "imu" => AfterTransfer(t) = IF t = "inputs" THEN "put_imu" ELSE "send"
  BY DEF AfterTransfer
<1>2. Places'
  BY <1>1 DEF IInv, Places, ReleaseBus
<1>3. Values'
  BY <1>1 DEF IInv, Places, Values, ReleaseBus
<1>4. MutexesOwned'
  <2>1. \A u \in Tasks \ {t} : pc'[u] = pc[u]
    BY <1>1 DEF IInv, Places, ReleaseBus
  <2>2. \A m \in Mutexes \ {"i2c_mx"} : Holds(t, m)' <=> Holds(t, m)
    BY <1>1 DEF IInv, Places, Holds, ReleaseBus
  <2>3. QED
    BY <1>1, <2>1, <2>2, OwnersGiven DEF IInv, Places, Values, Holds, ReleaseBus
<1>5. BusOwned'
  BY <1>1 DEF IInv, Places, BusOwned, MutexesOwned, Holds, ReleaseBus
<1>6. LidarRead'
  BY <1>1 DEF IInv, Places, Values, LidarRead, ReadsUndisturbed, ReadingOf, UsesBus, MoreUrgent, ReleaseBus
<1>7. AttitudeCopied'
  BY <1>1 DEF IInv, Places, Values, AttitudeCopied, ReleaseBus
<1>8. CapturesAhead'
  BY <1>1 DEF IInv, Places, Values, CapturesAhead, ReleaseBus
<1>9. QED
  BY <1>2, <1>3, <1>4, <1>5, <1>6, <1>7, <1>8 DEF IInv

LEMMA ReadReplyKeeps ==
  ASSUME IInv, NEW t \in Readers, ReadReply(t)
  PROVE  IInv'
<1>1. \A u \in Readers \ {t} : undisturbed[u] => pc[u] \notin {"reply", "keep"}
  BY TakesUndisturbed DEF IInv, ReadReply
<1>2. Places'
  BY DEF IInv, Places, ReadReply
<1>3. Values'
  BY DEF IInv, Places, Values, ReadReply
<1>4. MutexesOwned'
  <2>1. \A u \in Tasks \ {t} : pc'[u] = pc[u]
    BY DEF IInv, Places, ReadReply
  <2>2. \A m \in Mutexes : Holds(t, m)' <=> Holds(t, m)
    BY DEF IInv, Places, Holds, ReadReply
  <2>3. QED
    BY <2>1, <2>2, OwnersKept DEF IInv, ReadReply
<1>5. BusOwned'
  BY <1>1 DEF IInv, Places, BusOwned, ReadReply
<1>6. LidarRead'
  BY <1>1 DEF IInv, Places, Values, LidarRead, ReadsUndisturbed, ReadingOf, UsesBus, MoreUrgent, ByteOf, ReadReply
<1>7. AttitudeCopied'
  BY DEF IInv, Places, Values, AttitudeCopied, ReadReply
<1>8. CapturesAhead'
  BY DEF IInv, Places, Values, CapturesAhead, ReadReply
<1>9. QED
  BY <1>2, <1>3, <1>4, <1>5, <1>6, <1>7, <1>8 DEF IInv

LEMMA KeepByteKeeps ==
  ASSUME IInv, NEW t \in Readers, KeepByte(t)
  PROVE  IInv'
<1>1. Places'
  BY DEF IInv, Places, KeepByte, ByteRead
<1>2. Values'
  BY DEF IInv, Places, Values, KeepByte, ByteRead
<1>3. MutexesOwned'
  <2>1. \A u \in Tasks \ {t} : pc'[u] = pc[u]
    BY DEF IInv, Places, KeepByte
  <2>2. \A m \in Mutexes : Holds(t, m)' <=> Holds(t, m)
    BY DEF IInv, Places, Holds, KeepByte
  <2>3. QED
    BY <2>1, <2>2, OwnersKept DEF IInv, KeepByte, ByteRead
<1>4. BusOwned'
  BY DEF IInv, Places, BusOwned, KeepByte, ByteRead
<1>5. LidarRead'
  BY DEF IInv, Places, Values, LidarRead, ReadsUndisturbed, ReadingOf, UsesBus, MoreUrgent, ByteOf, KeepByte, ByteRead
<1>6. AttitudeCopied'
  BY DEF IInv, Places, Values, AttitudeCopied, KeepByte, ByteRead
<1>7. CapturesAhead'
  BY DEF IInv, Places, Values, CapturesAhead, KeepByte, ByteRead
<1>8. QED
  BY <1>1, <1>2, <1>3, <1>4, <1>5, <1>6, <1>7 DEF IInv

\* A task begins to read.
LEMMA LidarReadBegun ==
  ASSUME LidarRead, pc \in [Tasks -> HoverPlaces \cup GetterPlaces \cup InputsPlaces],
         reading \in [Readers -> {"none", "low", "high", "imu"}],
         NEW t \in Readers, NEW what \in {"low", "imu"}, BeginsReading(t),
         pc' = [pc EXCEPT ![t] = "bus"], reading' = [reading EXCEPT ![t] = what],
         UNCHANGED lidar_vars, \A u \in Readers \ {t} : ReadingOf(u)' = ReadingOf(u)
  PROVE  LidarRead'
<1>1. ASSUME NEW u \in Readers \ {t}, undisturbed'[u]
      PROVE  /\ ReadsUndisturbed(u, ReadingOf(u))'
             /\ UsesBus(u)' /\ reading'[u] # "imu" => \A w \in MoreUrgent(u) : ~ UsesBus(w)'
  <2>1. undisturbed[u] /\ ~ (UsesBus(u) /\ t \in MoreUrgent(u))
    BY <1>1 DEF BeginsReading
  <2>2. \A w \in Readers \ {t} : pc'[w] = pc[w] /\ reading'[w] = reading[w] /\ (UsesBus(w)' <=> UsesBus(w))
    BY DEF UsesBus
  <2>3. ReadsUndisturbed(u, ReadingOf(u))'
    BY <2>1, <2>2 DEF LidarRead, ReadsUndisturbed
  <2>4. MoreUrgent(u) \subseteq Readers
    BY DEF MoreUrgent
  <2>5. QED
    BY <2>1, <2>2, <2>3, <2>4 DEF LidarRead
<1>2. ASSUME undisturbed'[t]
      PROVE  /\ ReadsUndisturbed(t, ReadingOf(t))'
             /\ UsesBus(t)' /\ reading'[t] # "imu" => \A w \in MoreUrgent(t) : ~ UsesBus(w)'
  <2>1. \A w \in MoreUrgent(t) : ~ UsesBus(w)
    BY <1>2 DEF BeginsReading
  <2>2. \A w \in MoreUrgent(t) : w # t /\ pc'[w] = pc[w]
    BY DEF MoreUrgent
  <2>3. ReadsUndisturbed(t, ReadingOf(t))'
    BY DEF ReadsUndisturbed
  <2>4. QED
    BY <2>1, <2>2, <2>3 DEF UsesBus
<1>3. QED
  BY <1>1, <1>2 DEF LidarRead

LEMMA BeginCaptureKeeps ==
  ASSUME IInv, BeginCapture
  PROVE  IInv'
<1>1. Places'
  BY DEF IInv, Places, BeginCapture, BeginsReading
<1>2. Values'
  BY DEF IInv, Places, Values, BeginCapture, BeginsReading
<1>3. MutexesOwned'
  <2>1. \A u \in Tasks \ {"inputs"} : pc'[u] = pc[u]
    BY DEF IInv, Places, BeginCapture, BeginsReading
  <2>2. \A m \in Mutexes : Holds("inputs", m)' <=> Holds("inputs", m)
    BY DEF IInv, Places, Holds, BeginCapture, BeginsReading
  <2>3. QED
    BY <2>1, <2>2, OwnersKept DEF IInv, BeginCapture, BeginsReading
<1>4. BusOwned'
  BY DEF IInv, Places, BusOwned, BeginCapture, BeginsReading
<1>5. LidarRead'
  BY LidarReadBegun DEF IInv, Places, ReadingOf, BeginCapture
<1>6. AttitudeCopied'
  BY DEF IInv, Places, Values, AttitudeCopied, BeginCapture, BeginsReading
<1>7. CapturesAhead'
  BY DEF IInv, Places, Values, CapturesAhead, BeginCapture, BeginsReading
<1>8. QED
  BY <1>1, <1>2, <1>3, <1>4, <1>5, <1>6, <1>7 DEF IInv

LEMMA TakeLidarMutexKeeps ==
  ASSUME IInv, TakeLidarMutex
  PROVE  IInv'
<1>1. Places'
  BY DEF IInv, Places, TakeLidarMutex
<1>2. Values'
  BY DEF IInv, Places, Values, TakeLidarMutex
<1>3. MutexesOwned'
  <2>1. \A u \in Tasks \ {"inputs"} : pc'[u] = pc[u]
    BY DEF IInv, Places, TakeLidarMutex
  <2>2. \A m \in Mutexes \ {"lidar_data_mx"} : Holds("inputs", m)' <=> Holds("inputs", m)
    BY DEF IInv, Places, Holds, TakeLidarMutex
  <2>3. QED
    BY <2>1, <2>2, OwnersTaken DEF IInv, Places, Values, Holds, TakeLidarMutex
<1>4. BusOwned'
  BY DEF IInv, Places, BusOwned, TakeLidarMutex
<1>5. LidarRead'
  BY DEF IInv, Places, Values, LidarRead, ReadsUndisturbed, ReadingOf, UsesBus, MoreUrgent, TakeLidarMutex
<1>6. AttitudeCopied'
  BY DEF IInv, Places, Values, AttitudeCopied, TakeLidarMutex
<1>7. CapturesAhead'
  BY DEF IInv, Places, Values, CapturesAhead, TakeLidarMutex
<1>8. QED
  BY <1>1, <1>2, <1>3, <1>4, <1>5, <1>6, <1>7 DEF IInv

LEMMA PublishLidarKeeps ==
  ASSUME IInv, PublishLidar
  PROVE  IInv'
<1>1. Places'
  BY DEF IInv, Places, PublishLidar
<1>2. Values'
  BY DEF IInv, Places, Values, NoBytes, PublishLidar
<1>3. MutexesOwned'
  <2>1. \A u \in Tasks \ {"inputs"} : pc'[u] = pc[u]
    BY DEF IInv, Places, PublishLidar
  <2>2. \A m \in Mutexes \ {"lidar_data_mx"} : Holds("inputs", m)' <=> Holds("inputs", m)
    BY DEF IInv, Places, Holds, PublishLidar
  <2>3. QED
    BY <2>1, <2>2, OwnersGiven DEF IInv, Places, Values, Holds, PublishLidar
<1>4. BusOwned'
  BY DEF IInv, Places, BusOwned, PublishLidar
<1>5. LidarRead'
  BY DEF IInv, Places, Values, LidarRead, ReadsUndisturbed, ReadingOf, UsesBus, MoreUrgent, ReadFor, ByteOf, PublishLidar
<1>6. AttitudeCopied'
  BY DEF IInv, Places, Values, AttitudeCopied, PublishLidar
<1>7. CapturesAhead'
  BY DEF IInv, Places, Values, CapturesAhead, PublishLidar
<1>8. QED
  BY <1>1, <1>2, <1>3, <1>4, <1>5, <1>6, <1>7 DEF IInv

LEMMA TakeImuMutexKeeps ==
  ASSUME IInv, TakeImuMutex
  PROVE  IInv'
<1>1. Places'
  BY DEF IInv, Places, TakeImuMutex
<1>2. Values'
  BY DEF IInv, Places, Values, TakeImuMutex
<1>3. MutexesOwned'
  <2>1. \A u \in Tasks \ {"inputs"} : pc'[u] = pc[u]
    BY DEF IInv, Places, TakeImuMutex
  <2>2. \A m \in Mutexes \ {"imu_data_proc_mx"} : Holds("inputs", m)' <=> Holds("inputs", m)
    BY DEF IInv, Places, Holds, TakeImuMutex
  <2>3. QED
    BY <2>1, <2>2, OwnersTaken DEF IInv, Places, Values, Holds, TakeImuMutex
<1>4. BusOwned'
  BY DEF IInv, Places, BusOwned, TakeImuMutex
<1>5. LidarRead'
  BY DEF IInv, Places, Values, LidarRead, ReadsUndisturbed, ReadingOf, UsesBus, MoreUrgent, TakeImuMutex
<1>6. AttitudeCopied'
  BY DEF IInv, Places, Values, AttitudeCopied, TakeImuMutex
<1>7. CapturesAhead'
  BY DEF IInv, Places, Values, CapturesAhead, TakeImuMutex
<1>8. QED
  BY <1>1, <1>2, <1>3, <1>4, <1>5, <1>6, <1>7 DEF IInv

LEMMA PublishAttitudeKeeps ==
  ASSUME IInv, PublishAttitude
  PROVE  IInv'
<1>1. Places'
  BY DEF IInv, Places, PublishAttitude
<1>2. Values'
  BY DEF IInv, Places, Values, PublishAttitude
<1>3. MutexesOwned'
  <2>1. \A u \in Tasks \ {"inputs"} : pc'[u] = pc[u]
    BY DEF IInv, Places, PublishAttitude
  <2>2. \A m \in Mutexes : Holds("inputs", m)' <=> Holds("inputs", m)
    BY DEF IInv, Places, Holds, PublishAttitude
  <2>3. QED
    BY <2>1, <2>2, OwnersKept DEF IInv, PublishAttitude
<1>4. BusOwned'
  BY DEF IInv, Places, BusOwned, PublishAttitude
<1>5. LidarRead'
  BY DEF IInv, Places, Values, LidarRead, ReadsUndisturbed, ReadingOf, UsesBus, MoreUrgent, PublishAttitude
<1>6. AttitudeCopied'
  BY DEF IInv, Places, Values, AttitudeCopied, MutexesOwned, Holds, PublishAttitude
<1>7. CapturesAhead'
  BY DEF IInv, Places, Values, CapturesAhead, PublishAttitude
<1>8. QED
  BY <1>1, <1>2, <1>3, <1>4, <1>5, <1>6, <1>7 DEF IInv

LEMMA PublishGyroKeeps ==
  ASSUME IInv, PublishGyro
  PROVE  IInv'
<1>1. Places'
  BY DEF IInv, Places, PublishGyro
<1>2. Values'
  BY DEF IInv, Places, Values, PublishGyro
<1>3. MutexesOwned'
  <2>1. \A u \in Tasks \ {"inputs"} : pc'[u] = pc[u]
    BY DEF IInv, Places, PublishGyro
  <2>2. \A m \in Mutexes \ {"imu_data_proc_mx"} : Holds("inputs", m)' <=> Holds("inputs", m)
    BY DEF IInv, Places, Holds, PublishGyro
  <2>3. QED
    BY <2>1, <2>2, OwnersGiven DEF IInv, Places, Values, Holds, PublishGyro
<1>4. BusOwned'
  BY DEF IInv, Places, BusOwned, PublishGyro
<1>5. LidarRead'
  BY DEF IInv, Places, Values, LidarRead, ReadsUndisturbed, ReadingOf, UsesBus, MoreUrgent, PublishGyro
<1>6. AttitudeCopied'
  BY DEF IInv, Places, Values, AttitudeCopied, CapturesAhead, PublishGyro
<1>7. CapturesAhead'
  BY DEF IInv, Places, Values, CapturesAhead, PublishGyro
<1>8. QED
  BY <1>1, <1>2, <1>3, <1>4, <1>5, <1>6, <1>7 DEF IInv

LEMMA BeginGetIMUKeeps ==
  ASSUME IInv, NEW t \in Copiers, BeginGetIMU(t)
  PROVE  IInv'
<1>1. Places'
  BY DEF IInv, Places, BeginGetIMU, GetImuTaken
<1>2. Values'
  BY DEF IInv, Places, Values, BeginGetIMU, GetImuTaken
<1>3. MutexesOwned'
  <2>1. \A u \in Tasks \ {t} : pc'[u] = pc[u]
    BY DEF IInv, Places, BeginGetIMU
  <2>2. \A m \in Mutexes \ {"imu_data_proc_mx"} : Holds(t, m)' <=> Holds(t, m)
    BY DEF IInv, Places, Holds, BeginGetIMU
  <2>3. QED
    BY <2>1, <2>2, OwnersTaken DEF IInv, Places, Values, Holds, BeginGetIMU, GetImuTaken
<1>4. BusOwned'
  BY DEF IInv, Places, BusOwned, BeginGetIMU, GetImuTaken
<1>5. LidarRead'
  BY DEF IInv, Places, Values, LidarRead, ReadsUndisturbed, ReadingOf, UsesBus, MoreUrgent, BeginGetIMU, GetImuTaken
<1>6. AttitudeCopied'
  BY DEF IInv, Places, Values, AttitudeCopied, BeginGetIMU, GetImuTaken
<1>7. CapturesAhead'
  BY DEF IInv, Places, Values, CapturesAhead, BeginGetIMU, GetImuTaken
<1>8. QED
  BY <1>1, <1>2, <1>3, <1>4, <1>5, <1>6, <1>7 DEF IInv

LEMMA CopyAttitudeKeeps ==
  ASSUME IInv, NEW t \in Copiers, CopyAttitude(t)
  PROVE  IInv'
<1>1. Places'
  BY DEF IInv, Places, CopyAttitude
<1>2. Values'
  BY DEF IInv, Places, Values, CopyAttitude
<1>3. MutexesOwned'
  <2>1. \A u \in Tasks \ {t} : pc'[u] = pc[u]
    BY DEF IInv, Places, CopyAttitude
  <2>2. \A m \in Mutexes : Holds(t, m)' <=> Holds(t, m)
    BY DEF IInv, Places, Holds, CopyAttitude
  <2>3. QED
    BY <2>1, <2>2, OwnersKept DEF IInv, CopyAttitude
<1>4. BusOwned'
  BY DEF IInv, Places, BusOwned, CopyAttitude
<1>5. LidarRead'
  BY DEF IInv, Places, Values, LidarRead, ReadsUndisturbed, ReadingOf, UsesBus, MoreUrgent, CopyAttitude
<1>6. AttitudeCopied'
  BY DEF IInv, Places, Values, AttitudeCopied, MutexesOwned, Holds, CopyAttitude
<1>7. CapturesAhead'
  BY DEF IInv, Places, Values, CapturesAhead, MutexesOwned, Holds, CopyAttitude
<1>8. QED
  BY <1>1, <1>2, <1>3, <1>4, <1>5, <1>6, <1>7 DEF IInv

LEMMA CopyGyroKeeps ==
  ASSUME IInv, NEW t \in Copiers, CopyGyro(t)
  PROVE  IInv'
<1>1. Places'
  BY DEF IInv, Places, CopyGyro, NextInput
<1>2. Values'
  BY DEF IInv, Places, Values, CopyGyro, NextInput
<1>3. MutexesOwned'
  <2>1. \A u \in Tasks \ {t} : pc'[u] = pc[u]
    BY DEF IInv, Places, CopyGyro, NextInput
  <2>2. \A m \in Mutexes \ {"imu_data_proc_mx"} : Holds(t, m)' <=> Holds(t, m)
    BY DEF IInv, Places, Holds, CopyGyro, NextInput
  <2>3. QED
    BY <2>1, <2>2, OwnersGiven DEF IInv, Places, Values, Holds, CopyGyro, NextInput
<1>4. BusOwned'
  BY DEF IInv, Places, BusOwned, CopyGyro, NextInput
<1>5. LidarRead'
  BY DEF IInv, Places, Values, LidarRead, ReadsUndisturbed, ReadingOf, UsesBus, MoreUrgent, CopyGyro, NextInput
<1>6. AttitudeCopied'
  BY DEF IInv, Places, Values, AttitudeCopied, MutexesOwned, Holds, CopyGyro, NextInput
<1>7. CapturesAhead'
  BY DEF IInv, Places, Values, CapturesAhead, CopyGyro, NextInput
<1>8. QED
  BY <1>1, <1>2, <1>3, <1>4, <1>5, <1>6, <1>7 DEF IInv

LEMMA NotifyStartKeeps ==
  ASSUME IInv, ControlsInputs_NotifyStart
  PROVE  IInv'
<1>1. Places'
  BY DEF IInv, Places, ControlsInputs_NotifyStart, SemaphoreGiven
<1>2. Values'
  BY DEF IInv, Places, Values, ControlsInputs_NotifyStart, SemaphoreGiven
<1>3. MutexesOwned'
  <2>1. \A u \in Tasks \ {"hover"} : pc'[u] = pc[u]
    BY DEF IInv, Places, ControlsInputs_NotifyStart
  <2>2. \A m \in Mutexes : Holds("hover", m)' <=> Holds("hover", m)
    BY DEF IInv, Places, Holds, ControlsInputs_NotifyStart
  <2>3. QED
    BY <2>1, <2>2, OwnersKept DEF IInv, ControlsInputs_NotifyStart, SemaphoreGiven
<1>4. BusOwned'
  BY DEF IInv, Places, BusOwned, ControlsInputs_NotifyStart, SemaphoreGiven
<1>5. LidarRead'
  BY DEF IInv, Places, Values, LidarRead, ReadsUndisturbed, ReadingOf, UsesBus, MoreUrgent, ControlsInputs_NotifyStart,
         SemaphoreGiven
<1>6. AttitudeCopied'
  BY DEF IInv, Places, Values, AttitudeCopied, ControlsInputs_NotifyStart, SemaphoreGiven
<1>7. CapturesAhead'
  BY DEF IInv, Places, Values, CapturesAhead, ControlsInputs_NotifyStart, SemaphoreGiven
<1>8. QED
  BY <1>1, <1>2, <1>3, <1>4, <1>5, <1>6, <1>7 DEF IInv

LEMMA NextStepKeeps ==
  ASSUME IInv, NextStep
  PROVE  IInv'
<1>1. Places'
  BY DEF IInv, Places, NextStep, NextInput
<1>2. Values'
  BY DEF IInv, Places, Values, NextStep, NextInput
<1>3. MutexesOwned'
  <2>1. \A u \in Tasks \ {"hover"} : pc'[u] = pc[u]
    BY DEF IInv, Places, NextStep, NextInput
  <2>2. \A m \in Mutexes : Holds("hover", m)' <=> Holds("hover", m)
    BY DEF IInv, Places, Holds, NextStep, NextInput
  <2>3. QED
    BY <2>1, <2>2, OwnersKept DEF IInv, NextStep, NextInput
<1>4. BusOwned'
  BY DEF IInv, Places, BusOwned, NextStep, NextInput
<1>5. LidarRead'
  BY DEF IInv, Places, Values, LidarRead, ReadsUndisturbed, ReadingOf, UsesBus, MoreUrgent, NextStep, NextInput
<1>6. AttitudeCopied'
  BY DEF IInv, Places, Values, AttitudeCopied, NextStep, NextInput
<1>7. CapturesAhead'
  BY DEF IInv, Places, Values, CapturesAhead, NextStep, NextInput
<1>8. QED
  BY <1>1, <1>2, <1>3, <1>4, <1>5, <1>6, <1>7 DEF IInv

LEMMA BeginGetLidarKeeps ==
  ASSUME IInv, BeginGetLidar
  PROVE  IInv'
<1>1. Places'
  BY DEF IInv, Places, BeginGetLidar
<1>2. Values'
  BY DEF IInv, Places, Values, BeginGetLidar
<1>3. MutexesOwned'
  <2>1. \A u \in Tasks \ {"hover"} : pc'[u] = pc[u]
    BY DEF IInv, Places, BeginGetLidar
  <2>2. \A m \in Mutexes \ {"lidar_data_mx"} : Holds("hover", m)' <=> Holds("hover", m)
    BY DEF IInv, Places, Holds, BeginGetLidar
  <2>3. QED
    BY <2>1, <2>2, OwnersTaken DEF IInv, Places, Values, Holds, BeginGetLidar
<1>4. BusOwned'
  BY DEF IInv, Places, BusOwned, BeginGetLidar
<1>5. LidarRead'
  BY DEF IInv, Places, Values, LidarRead, ReadsUndisturbed, ReadingOf, UsesBus, MoreUrgent, BeginGetLidar
<1>6. AttitudeCopied'
  BY DEF IInv, Places, Values, AttitudeCopied, BeginGetLidar
<1>7. CapturesAhead'
  BY DEF IInv, Places, Values, CapturesAhead, BeginGetLidar
<1>8. QED
  BY <1>1, <1>2, <1>3, <1>4, <1>5, <1>6, <1>7 DEF IInv

LEMMA CopyLidarKeeps ==
  ASSUME IInv, CopyLidar
  PROVE  IInv'
<1>1. Places'
  BY DEF IInv, Places, CopyLidar, NextInput
<1>2. Values'
  BY DEF IInv, Places, Values, CopyLidar, NextInput
<1>3. MutexesOwned'
  <2>1. \A u \in Tasks \ {"hover"} : pc'[u] = pc[u]
    BY DEF IInv, Places, CopyLidar, NextInput
  <2>2. \A m \in Mutexes \ {"lidar_data_mx"} : Holds("hover", m)' <=> Holds("hover", m)
    BY DEF IInv, Places, Holds, CopyLidar, NextInput
  <2>3. QED
    BY <2>1, <2>2, OwnersGiven DEF IInv, Places, Values, Holds, CopyLidar, NextInput
<1>4. BusOwned'
  BY DEF IInv, Places, BusOwned, CopyLidar, NextInput
<1>5. LidarRead'
  BY DEF IInv, Places, Values, LidarRead, ReadsUndisturbed, ReadingOf, UsesBus, MoreUrgent, CopyLidar, NextInput
<1>6. AttitudeCopied'
  BY DEF IInv, Places, Values, AttitudeCopied, CopyLidar, NextInput
<1>7. CapturesAhead'
  BY DEF IInv, Places, Values, CapturesAhead, CopyLidar, NextInput
<1>8. QED
  BY <1>1, <1>2, <1>3, <1>4, <1>5, <1>6, <1>7 DEF IInv

LEMMA GetRawLidarKeeps ==
  ASSUME IInv, NEW t \in Getters, GetRawLidar(t)
  PROVE  IInv'
<1>1. Places'
  BY DEF IInv, Places, GetRawLidar, BeginGet, BeginsReading
<1>2. Values'
  BY DEF IInv, Places, Values, GetRawLidar, BeginGet, BeginsReading
<1>3. MutexesOwned'
  <2>1. \A u \in Tasks \ {t} : pc'[u] = pc[u]
    BY DEF IInv, Places, GetRawLidar, BeginGet, BeginsReading
  <2>2. \A m \in Mutexes : Holds(t, m)' <=> Holds(t, m)
    BY DEF IInv, Places, Holds, GetRawLidar, BeginGet, BeginsReading
  <2>3. QED
    BY <2>1, <2>2, OwnersKept DEF IInv, GetRawLidar, BeginGet, BeginsReading
<1>4. BusOwned'
  BY DEF IInv, Places, BusOwned, GetRawLidar, BeginGet, BeginsReading
<1>5. LidarRead'
  BY LidarReadBegun DEF IInv, Places, Values, ReadingOf, GetRawLidar, BeginGet
<1>6. AttitudeCopied'
  BY DEF IInv, Places, Values, AttitudeCopied, GetRawLidar, BeginGet, BeginsReading
<1>7. CapturesAhead'
  BY DEF IInv, Places, Values, CapturesAhead, GetRawLidar, BeginGet, BeginsReading
<1>8. QED
  BY <1>1, <1>2, <1>3, <1>4, <1>5, <1>6, <1>7 DEF IInv

LEMMA GetRawImuKeeps ==
  ASSUME IInv, NEW t \in Getters, GetRawImu(t)
  PROVE  IInv'
<1>1. Places'
  BY DEF IInv, Places, GetRawImu, BeginGet, BeginsReading
<1>2. Values'
  BY DEF IInv, Places, Values, GetRawImu, BeginGet, BeginsReading
<1>3. MutexesOwned'
  <2>1. \A u \in Tasks \ {t} : pc'[u] = pc[u]
    BY DEF IInv, Places, GetRawImu, BeginGet, BeginsReading
  <2>2. \A m \in Mutexes : Holds(t, m)' <=> Holds(t, m)
    BY DEF IInv, Places, Holds, GetRawImu, BeginGet, BeginsReading
  <2>3. QED
    BY <2>1, <2>2, OwnersKept DEF IInv, GetRawImu, BeginGet, BeginsReading
<1>4. BusOwned'
  BY DEF IInv, Places, BusOwned, GetRawImu, BeginGet, BeginsReading
<1>5. LidarRead'
  BY LidarReadBegun DEF IInv, Places, Values, ReadingOf, GetRawImu, BeginGet
<1>6. AttitudeCopied'
  BY DEF IInv, Places, Values, AttitudeCopied, GetRawImu, BeginGet, BeginsReading
<1>7. CapturesAhead'
  BY DEF IInv, Places, Values, CapturesAhead, GetRawImu, BeginGet, BeginsReading
<1>8. QED
  BY <1>1, <1>2, <1>3, <1>4, <1>5, <1>6, <1>7 DEF IInv

LEMMA GetTelemetryKeeps ==
  ASSUME IInv, NEW t \in Getters, GetTelemetry(t)
  PROVE  IInv'
<1>1. Places'
  BY DEF IInv, Places, GetTelemetry, BeginGet
<1>2. Values'
  BY DEF IInv, Places, Values, GetTelemetry, BeginGet
<1>3. MutexesOwned'
  <2>1. \A u \in Tasks \ {t} : pc'[u] = pc[u]
    BY DEF IInv, Places, GetTelemetry, BeginGet
  <2>2. \A m \in Mutexes : Holds(t, m)' <=> Holds(t, m)
    BY DEF IInv, Places, Holds, GetTelemetry, BeginGet
  <2>3. QED
    BY <2>1, <2>2, OwnersKept DEF IInv, GetTelemetry, BeginGet
<1>4. BusOwned'
  BY DEF IInv, Places, BusOwned, GetTelemetry, BeginGet
<1>5. LidarRead'
  BY DEF IInv, Places, Values, LidarRead, ReadsUndisturbed, ReadingOf, UsesBus, MoreUrgent, GetTelemetry, BeginGet
<1>6. AttitudeCopied'
  BY DEF IInv, Places, Values, AttitudeCopied, GetTelemetry, BeginGet
<1>7. CapturesAhead'
  BY DEF IInv, Places, Values, CapturesAhead, GetTelemetry, BeginGet
<1>8. QED
  BY <1>1, <1>2, <1>3, <1>4, <1>5, <1>6, <1>7 DEF IInv

LEMMA SendValueKeeps ==
  ASSUME IInv, NEW t \in Getters, SendValue(t)
  PROVE  IInv'
<1>1. Places'
  BY DEF IInv, Places, SendValue
<1>2. Values'
  BY DEF IInv, Places, Values, SendValue, NoBytes
<1>3. MutexesOwned'
  <2>1. \A u \in Tasks \ {t} : pc'[u] = pc[u]
    BY DEF IInv, Places, SendValue
  <2>2. \A m \in Mutexes : Holds(t, m)' <=> Holds(t, m)
    BY DEF IInv, Places, Holds, SendValue
  <2>3. QED
    BY <2>1, <2>2, OwnersKept DEF IInv, SendValue
<1>4. BusOwned'
  BY DEF IInv, Places, BusOwned, SendValue
<1>5. LidarRead'
  BY DEF IInv, Places, Values, LidarRead, ReadsUndisturbed, ReadingOf, UsesBus, MoreUrgent, SendValue
<1>6. AttitudeCopied'
  BY DEF IInv, Places, Values, AttitudeCopied, SendValue
<1>7. CapturesAhead'
  BY DEF IInv, Places, Values, CapturesAhead, SendValue
<1>8. QED
  BY <1>1, <1>2, <1>3, <1>4, <1>5, <1>6, <1>7 DEF IInv

LEMMA BusStepKeeps ==
  ASSUME IInv, NEW t \in Readers, BusStep(t)
  PROVE  IInv'
BY FillTransferKeeps, StartTransferKeeps, TransferRefusedKeeps, ReleaseBusKeeps, ReadReplyKeeps, KeepByteKeeps
   DEF BusStep

LEMMA GetImuStepKeeps ==
  ASSUME IInv, NEW t \in Copiers, GetImuStep(t)
  PROVE  IInv'
BY BeginGetIMUKeeps, CopyAttitudeKeeps, CopyGyroKeeps DEF GetImuStep

LEMMA StepKeeps ==
  ASSUME IInv, [Next]_vars
  PROVE  IInv'
<1>1. CASE InputsStep
  <2>1. CASE BusStep("inputs")
    BY <2>1, BusStepKeeps
  <2>2. CASE BeginCapture \/ TakeLidarMutex \/ PublishLidar
    BY <2>2, BeginCaptureKeeps, TakeLidarMutexKeeps, PublishLidarKeeps
  <2>3. CASE TakeImuMutex \/ PublishAttitude \/ PublishGyro
    BY <2>3, TakeImuMutexKeeps, PublishAttitudeKeeps, PublishGyroKeeps
  <2>4. QED
    BY <1>1, <2>1, <2>2, <2>3 DEF InputsStep
<1>2. CASE HoverStep
  <2>1. CASE GetImuStep("hover")
    BY <2>1, GetImuStepKeeps
  <2>2. CASE ControlsInputs_NotifyStart \/ BeginGetLidar \/ CopyLidar
    BY <2>2, NotifyStartKeeps, BeginGetLidarKeeps, CopyLidarKeeps
  <2>3. QED
    BY <1>2, <2>1, <2>2 DEF HoverStep
<1>3. ASSUME NEW t \in Getters, GetterStep(t) \/ GetBegins(t)
      PROVE  IInv'
  <2>1. CASE BusStep(t)
    BY <2>1, BusStepKeeps
  <2>2. CASE GetImuStep(t)
    BY <2>2, GetImuStepKeeps
  <2>3. CASE SendValue(t)
    BY <2>3, SendValueKeeps
  <2>4. CASE GetBegins(t)
    BY <2>4, GetRawLidarKeeps, GetRawImuKeeps, GetTelemetryKeeps DEF GetBegins
  <2>5. QED
    BY <1>3, <2>1, <2>2, <2>3, <2>4 DEF GetterStep
<1>4. CASE TransferEnds \/ NextStep
  BY <1>4, TransferDoneKeeps, TransferFailedKeeps, NextStepKeeps DEF TransferEnds
<1>5. CASE UNCHANGED vars
  BY <1>5 DEF vars, IInv, Places, Values, MutexesOwned, Holds, BusOwned, LidarRead, ReadsUndisturbed, ReadingOf,
              UsesBus, MoreUrgent, AttitudeCopied, CapturesAhead
<1>6. QED
  BY <1>1, <1>2, <1>3, <1>4, <1>5 DEF Next, TaskStep

LEMMA InvariantHolds == Spec => []IInv
<1>1. Init => IInv
  BY Starts
<1>2. IInv /\ [Next]_vars => IInv'
  BY StepKeeps
<1>3. QED
  BY <1>1, <1>2, PTL DEF Spec

-----------------------------------------------------------------------------
(* What it means for the readers of the values.                            *)

\* The transfer a task waits for is the one it filled in, though the parameters are
\* in one structure that three tasks write.
THEOREM TransfersAsAsked == Spec => []TransferAsAsked
<1>1. IInv => TransferAsAsked
  BY DEF IInv, BusOwned, TransferAsAsked
<1>2. QED
  BY <1>1, InvariantHolds, PTL

\* An answer, a stream value or a capture has the two registers read for it unless one
\* of its transfers failed or a more urgent task used the bus meanwhile: one driver
\* structure for three tasks, with a mutex per transfer only, is damaged in no other way.
THEOREM OnlyUrgentTasksAndFailuresMix == Spec => []UndisturbedReadingsExact
<1>1. IInv => UndisturbedReadingsExact
  BY DEF IInv, LidarRead, ReadsUndisturbed, ByteOf, ReadFor, UndisturbedReadingsExact
<1>2. QED
  BY <1>1, InvariantHolds, PTL

\* The control step and telem_data never use the attitude of one capture with the
\* rates of another.
THEOREM AttitudeNeverTorn == Spec => []AttitudeWhole
<1>1. IInv => AttitudeWhole
  BY DEF IInv, AttitudeCopied, AttitudeWhole
<1>2. QED
  BY <1>1, InvariantHolds, PTL

\* The distance of a control step is of the capture of its attitude or of one of the
\* two that follow, for any number of captures.
THEOREM SkewAtMostTwo == Spec => []SkewBounded
<1>1. IInv => SkewBounded
  BY DEF IInv, CapturesAhead, SkewBounded
<1>2. QED
  BY <1>1, InvariantHolds, PTL

\* Who has a mutex can go on, or the transfer it waits for is running.
HoldersGoOn == \A m \in Mutexes : \A t \in Tasks : owner[m] = t => Ready(t) \/ bus.by = t

\* Four tasks that share three mutexes and a bus never wait for each other in a
\* circle: nobody holds one mutex when it waits for another, and the bus is idle when
\* its mutex was just taken (app_hal_xconnect.c, fsl_lpi2c_freertos.c:106).  It is
\* what FreshInputsArrive needs besides fairness.
THEOREM NoMutexDeadlock == Spec => []HoldersGoOn
<1>1. ASSUME IInv, NEW m \in Mutexes, NEW t \in Tasks, owner[m] = t
      PROVE  Ready(t) \/ bus.by = t
  <2>1. Holds(t, m)
    BY <1>1 DEF IInv, MutexesOwned
  <2>2. CASE pc[t] = "transfer"
    <3>1. t \in Readers
      BY <1>1, <2>2 DEF IInv, Places, HoverPlaces, ImuPlaces, Tasks, Readers
    <3>2. QED
      BY <1>1, <2>2, <3>1 DEF IInv, BusOwned
  <2>3. CASE pc[t] = "start"
    <3>1. ASSUME bus.by # "none"
          PROVE  FALSE
      <4>1. PICK u \in Readers : bus.by = u /\ pc[u] = "transfer"
        BY <1>1, <3>1 DEF IInv, BusOwned
      <4>2. u \in Tasks /\ "i2c_mx" \in Mutexes
        BY DEF Readers, Tasks, Mutexes
      <4>3. owner["i2c_mx"] = u /\ owner["i2c_mx"] = t
        BY <1>1, <2>3, <4>1, <4>2 DEF IInv, MutexesOwned, Holds
      <4>4. QED
        BY <2>3, <4>1, <4>3
    <3>2. QED
      BY <2>3, <3>1 DEF Ready, Wanted
  <2>4. CASE pc[t] \in {"release", "copy_attitude", "copy_gyro", "publish_attitude", "publish_gyro",
                        "copy_lidar", "publish_lidar"}
    BY <2>4 DEF Ready, Wanted
  <2>5. QED
    BY <2>1, <2>2, <2>3, <2>4 DEF Holds, Mutexes
<1>2. IInv => HoldersGoOn
  BY <1>1 DEF HoldersGoOn
<1>3. QED
  BY <1>2, InvariantHolds, PTL

=============================================================================
