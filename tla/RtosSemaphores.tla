---------------------------- MODULE RtosSemaphores ----------------------------
(***************************************************************************)
(* Taking and giving mutexes and binary semaphores in the FreeRTOS kernel  *)
(* the vehicle runs on (queue.c, with the parts of tasks.c it calls):      *)
(* waiting with and without a timeout, priority inheritance, the queue     *)
(* lock that keeps interrupts from the list of waiting tasks, and the      *)
(* choice of the task that runs.                                           *)
(*                                                                         *)
(* A step is one critical section of the kernel, or what the calling task  *)
(* does between two of them while the scheduler is suspended.  Interrupts  *)
(* may come between any two steps.  Tick interrupts are abstracted to the  *)
(* expiry of a wait that has a timeout, at any time.                       *)
(*                                                                         *)
(* The tasks keep to the order of the vehicle's code: a task that holds a  *)
(* mutex takes no other, but the inner mutex of the one it holds (the      *)
(* driver's own mutex under i2c_mx), and gives the inner one back first;   *)
(* it may wait for a signal with both (the end of an I2C transfer).        *)
(***************************************************************************)
EXTENDS Integers, Sequences, FiniteSets

CONSTANTS
  Tasks,
  Mutexes,
  Signals,          \* the binary semaphores
  None,             \* no semaphore, or no task
  uxBasePriority,   \* the priorities the tasks were created with
  OuterMutex        \* of each inner mutex

Semaphores == Mutexes \cup Signals

ASSUME NamesAssumption ==
  /\ Mutexes \cap Signals = {} /\ None \notin Tasks \cup Mutexes \cup Signals
ASSUME PriorityAssumption == uxBasePriority \in [Tasks -> Nat]
ASSUME OuterAssumption ==
  /\ DOMAIN OuterMutex \subseteq Mutexes
  /\ \A m \in DOMAIN OuterMutex : OuterMutex[m] \in Mutexes \ DOMAIN OuterMutex

VARIABLES
  pc,                      \* where each task is in xQueueSemaphoreTake
  wanted,                  \* the semaphore it is taking
  xTicksToWait,            \* "zero", "some" or "max" (portMAX_DELAY)
  expired,                 \* its wait has run out
  xInheritanceOccurred,
  uxPriority, uxMutexesHeld,
  count,                   \* uxMessagesWaiting of each semaphore
  xMutexHolder,
  xTasksWaitingToReceive,  \* the event list of each semaphore
  cTxLock,                 \* of each semaphore; -1 is queueUNLOCKED
  uxSchedulerSuspended,    \* the task that has suspended the scheduler, or None
  holds                    \* the mutexes each task has taken and not given

task_vars == <<pc, wanted, xTicksToWait, expired, xInheritanceOccurred>>
priority_vars == <<uxPriority, uxMutexesHeld>>
queue_vars == <<count, xMutexHolder, xTasksWaitingToReceive, cTxLock>>
vars == <<task_vars, priority_vars, queue_vars, uxSchedulerSuspended, holds>>

-----------------------------------------------------------------------------
Ready(t) == pc[t] \notin {"blocked", "delayed"}

Halted == \E t \in Tasks : pc[t] = "assert"

\* A ready task of the highest priority runs, unless the scheduler is suspended; of
\* several, any: there is no time slicing (configUSE_TIME_SLICING is 0), but the next
\* one runs whenever a task of a higher priority ran in between or a tick made one
\* ready.  A failed configASSERT stops everything.
CanRun(t) ==
  /\ ~Halted
  /\ Ready(t)
  /\ \/ uxSchedulerSuspended = t
     \/ /\ uxSchedulerSuspended = None
        /\ \A u \in Tasks : Ready(u) => uxPriority[u] <= uxPriority[t]

Goto(t, l) == pc' = [pc EXCEPT ![t] = l]

Higher(p, q) == IF p > q THEN p ELSE q

\* vListInsert: behind all items of the same or a higher priority.
Inserted(list, t) ==
  LET before == CHOOSE n \in 0 .. Len(list) :
                  /\ \A i \in 1 .. n : uxPriority[list[i]] >= uxPriority[t]
                  /\ n < Len(list) => uxPriority[list[n + 1]] < uxPriority[t]
  IN  SubSeq(list, 1, before) \o <<t>> \o SubSeq(list, before + 1, Len(list))

\* uxListRemove: the item of the task, which is in at most one list, is unlinked.
Removed(list, t) ==
  IF \E i \in DOMAIN list : list[i] = t
  THEN LET i == CHOOSE i \in DOMAIN list : list[i] = t
       IN  SubSeq(list, 1, i - 1) \o SubSeq(list, i + 1, Len(list))
  ELSE list

\* xTaskRemoveFromEventList: the first task of the list is made ready and tries again.
WokenFrom(s) == IF xTasksWaitingToReceive[s] = << >> THEN {} ELSE { Head(xTasksWaitingToReceive[s]) }

WakeFirst(s) ==
  /\ pc' = [t \in Tasks |-> IF t \in WokenFrom(s) THEN "take" ELSE pc[t]]
  /\ xTasksWaitingToReceive' =
       [xTasksWaitingToReceive EXCEPT ![s] = IF @ = << >> THEN @ ELSE Tail(@)]

Init ==
  /\ pc = [t \in Tasks |-> "run"]
  /\ wanted = [t \in Tasks |-> None]
  /\ xTicksToWait = [t \in Tasks |-> "zero"]
  /\ expired = [t \in Tasks |-> FALSE]
  /\ xInheritanceOccurred = [t \in Tasks |-> FALSE]
  /\ uxPriority = uxBasePriority
  /\ uxMutexesHeld = [t \in Tasks |-> 0]
  /\ count = [s \in Semaphores |-> IF s \in Mutexes THEN 1 ELSE 0]
  /\ xMutexHolder = [m \in Mutexes |-> None]
  /\ xTasksWaitingToReceive = [s \in Semaphores |-> << >>]
  /\ cTxLock = [s \in Semaphores |-> -1]
  /\ uxSchedulerSuspended = None
  /\ holds = [t \in Tasks |-> {}]

-----------------------------------------------------------------------------
(* xQueueSemaphoreTake                                                     *)

MayTake(t, s) ==
  \/ s \in Signals
  \/ s \in Mutexes \ DOMAIN OuterMutex /\ holds[t] = {}
  \/ s \in DOMAIN OuterMutex /\ holds[t] = { OuterMutex[s] }

CallTake(t, s, ticks) ==
  /\ CanRun(t)
  /\ pc[t] = "run"
  /\ MayTake(t, s)
  /\ Goto(t, "take")
  /\ wanted' = [wanted EXCEPT ![t] = s]
  /\ xTicksToWait' = [xTicksToWait EXCEPT ![t] = ticks]
  /\ expired' = [expired EXCEPT ![t] = FALSE]
  /\ xInheritanceOccurred' = [xInheritanceOccurred EXCEPT ![t] = FALSE]
  /\ UNCHANGED <<priority_vars, queue_vars, uxSchedulerSuspended, holds>>

\* Back in the caller.
Return(t) ==
  /\ Goto(t, "run")
  /\ wanted' = [wanted EXCEPT ![t] = None]
  /\ xTicksToWait' = [xTicksToWait EXCEPT ![t] = "zero"]
  /\ expired' = [expired EXCEPT ![t] = FALSE]
  /\ xInheritanceOccurred' = [xInheritanceOccurred EXCEPT ![t] = FALSE]

TakeAvailable(t) ==
  /\ CanRun(t)
  /\ pc[t] = "take"
  /\ LET s == wanted[t]
     IN  /\ count[s] > 0
         /\ count' = [count EXCEPT ![s] = @ - 1]
         /\ IF s \in Mutexes
            THEN /\ xMutexHolder' = [xMutexHolder EXCEPT ![s] = t]
                 /\ uxMutexesHeld' = [uxMutexesHeld EXCEPT ![t] = @ + 1]
                 /\ holds' = [holds EXCEPT ![t] = @ \cup {s}]
            ELSE UNCHANGED <<xMutexHolder, uxMutexesHeld, holds>>
  /\ Return(t)
  /\ UNCHANGED <<uxPriority, xTasksWaitingToReceive, cTxLock, uxSchedulerSuspended>>

\* With no time to wait the call fails; a wait that has run out is no time, and
\* the kernel asserts that no priority was inherited for it.
TakeRefused(t) ==
  /\ CanRun(t)
  /\ pc[t] = "take"
  /\ count[wanted[t]] = 0
  /\ xTicksToWait[t] = "zero"
  /\ \/ xInheritanceOccurred[t] /\ Goto(t, "assert")
        /\ UNCHANGED <<wanted, xTicksToWait, expired, xInheritanceOccurred>>
     \/ ~xInheritanceOccurred[t] /\ Return(t)
  /\ UNCHANGED <<priority_vars, queue_vars, uxSchedulerSuspended, holds>>

TakeMustWait(t) ==
  /\ CanRun(t)
  /\ pc[t] = "take"
  /\ count[wanted[t]] = 0
  /\ xTicksToWait[t] # "zero"
  /\ Goto(t, "lock")
  /\ UNCHANGED <<wanted, xTicksToWait, expired, xInheritanceOccurred, priority_vars, queue_vars,
                 uxSchedulerSuspended, holds>>

\* vTaskSuspendAll and prvLockQueue.
LockQueue(t) ==
  /\ CanRun(t)
  /\ pc[t] = "lock"
  /\ uxSchedulerSuspended' = t
  /\ cTxLock' = [cTxLock EXCEPT ![wanted[t]] = 0]
  /\ Goto(t, "check")
  /\ UNCHANGED <<wanted, xTicksToWait, expired, xInheritanceOccurred, priority_vars, count,
                 xMutexHolder, xTasksWaitingToReceive, holds>>

\* xTaskCheckForTimeOut has found the wait over.
CheckExpired(t) ==
  /\ CanRun(t)
  /\ pc[t] = "check"
  /\ expired[t]
  /\ xTicksToWait' = [xTicksToWait EXCEPT ![t] = "zero"]
  /\ Goto(t, "unlock")
  /\ UNCHANGED <<wanted, expired, xInheritanceOccurred, priority_vars, queue_vars,
                 uxSchedulerSuspended, holds>>

\* Faulty variant: the semaphore is taken to be still unavailable.
IsQueueEmptyAssumed(s) == TRUE

\* prvIsQueueEmpty
IsQueueEmpty(s) == count[s] = 0

CheckAvailable(t) ==
  /\ CanRun(t)
  /\ pc[t] = "check"
  /\ ~expired[t]
  /\ ~IsQueueEmpty(wanted[t])
  /\ Goto(t, "unlock")
  /\ UNCHANGED <<wanted, xTicksToWait, expired, xInheritanceOccurred, priority_vars, queue_vars,
                 uxSchedulerSuspended, holds>>

\* xTaskPriorityInherit
TaskPriorityInherit(t, h) ==
  /\ uxPriority' = [uxPriority EXCEPT ![h] = Higher(@, uxPriority[t])]
  /\ xInheritanceOccurred' =
       [xInheritanceOccurred EXCEPT
          ![t] = uxPriority[h] < uxPriority[t] \/ uxBasePriority[h] < uxPriority[t]]

\* prvIsQueueEmpty was true: the holder of a mutex inherits the priority.
CheckEmpty(t) ==
  /\ CanRun(t)
  /\ pc[t] = "check"
  /\ ~expired[t]
  /\ LET s == wanted[t]
     IN  /\ IsQueueEmpty(s)
         /\ IF s \in Mutexes THEN TaskPriorityInherit(t, xMutexHolder[s])
            ELSE UNCHANGED <<uxPriority, xInheritanceOccurred>>
  /\ Goto(t, "place")
  /\ UNCHANGED <<wanted, xTicksToWait, expired, uxMutexesHeld, queue_vars,
                 uxSchedulerSuspended, holds>>

\* vTaskPlaceOnEventList; the task keeps the processor until the scheduler resumes.
PlaceOnEventList(t) ==
  /\ CanRun(t)
  /\ pc[t] = "place"
  /\ xTasksWaitingToReceive' = [xTasksWaitingToReceive EXCEPT ![wanted[t]] = Inserted(@, t)]
  /\ Goto(t, "placed")
  /\ UNCHANGED <<wanted, xTicksToWait, expired, xInheritanceOccurred, priority_vars, count,
                 xMutexHolder, cTxLock, uxSchedulerSuspended, holds>>

\* Faulty variant: gives that came while the queue was locked are forgotten.
WokenByUnlockNone(t) == {}

\* prvUnlockQueue: a give that came while the queue was locked wakes a task now.
WokenByUnlock(t) == IF cTxLock[wanted[t]] > 0 THEN WokenFrom(wanted[t]) ELSE {}

\* prvUnlockQueue and xTaskResumeAll.
UnlockQueue(t) ==
  /\ CanRun(t)
  /\ pc[t] \in {"unlock", "placed"}
  /\ LET s == wanted[t]
         woken == WokenByUnlock(t)
         next == IF pc[t] = "placed" THEN "blocked" ELSE IF expired[t] THEN "timed_out" ELSE "take"
     IN  /\ pc' = [u \in Tasks |-> IF u \in woken THEN "take" ELSE IF u = t THEN next ELSE pc[u]]
         /\ xTasksWaitingToReceive' =
              [xTasksWaitingToReceive EXCEPT ![s] = IF woken = {} THEN @ ELSE Tail(@)]
         /\ cTxLock' = [cTxLock EXCEPT ![s] = -1]
  /\ uxSchedulerSuspended' = None
  /\ UNCHANGED <<wanted, xTicksToWait, expired, xInheritanceOccurred, priority_vars, count,
                 xMutexHolder, holds>>

\* The wait is over; if the semaphore is available after all it is tried again.
TimedOut(t) ==
  /\ CanRun(t)
  /\ pc[t] = "timed_out"
  /\ \/ /\ ~IsQueueEmpty(wanted[t])
        /\ Goto(t, "take")
        /\ UNCHANGED <<wanted, xTicksToWait, expired, xInheritanceOccurred>>
     \/ /\ IsQueueEmpty(wanted[t])
        /\ xInheritanceOccurred[t]
        /\ Goto(t, "disinherit")
        /\ UNCHANGED <<wanted, xTicksToWait, expired, xInheritanceOccurred>>
     \/ /\ IsQueueEmpty(wanted[t])
        /\ ~xInheritanceOccurred[t]
        /\ Return(t)
  /\ UNCHANGED <<priority_vars, queue_vars, uxSchedulerSuspended, holds>>

\* prvGetDisinheritPriorityAfterTimeout
HighestWaitingPriority(m) ==
  IF xTasksWaitingToReceive[m] = << >> THEN 0 ELSE uxPriority[Head(xTasksWaitingToReceive[m])]

\* Faulty variant: the priority falls to the base although others wait.
PriorityAfterTimeoutBase(m) ==
  LET h == xMutexHolder[m] IN IF uxMutexesHeld[h] = 1 THEN uxBasePriority[h] ELSE uxPriority[h]

\* vTaskPriorityDisinheritAfterTimeout
PriorityAfterTimeout(m) ==
  LET h == xMutexHolder[m]
  IN  IF uxMutexesHeld[h] = 1 THEN Higher(uxBasePriority[h], HighestWaitingPriority(m))
      ELSE uxPriority[h]

DisinheritAfterTimeout(t) ==
  /\ CanRun(t)
  /\ pc[t] = "disinherit"
  /\ LET m == wanted[t]
     IN  uxPriority' = IF xMutexHolder[m] = None THEN uxPriority
                       ELSE [uxPriority EXCEPT ![xMutexHolder[m]] = PriorityAfterTimeout(m)]
  /\ Return(t)
  /\ UNCHANGED <<uxMutexesHeld, queue_vars, uxSchedulerSuspended, holds>>

-----------------------------------------------------------------------------
(* xQueueGenericSend and xQueueGiveFromISR.  A give to an available        *)
(* semaphore is refused and changes nothing.                               *)

MayGive(t, m) == m \in holds[t] /\ \A i \in DOMAIN OuterMutex : OuterMutex[i] = m => i \notin holds[t]

\* Faulty variant: an inherited priority is kept.
TaskPriorityDisinheritNever(t) == uxPriority[t]

\* xTaskPriorityDisinherit: back to the base priority with the last mutex.
TaskPriorityDisinherit(t) == IF uxMutexesHeld[t] = 1 THEN uxBasePriority[t] ELSE uxPriority[t]

\* Faulty variant: the mutex keeps its last holder.
HolderAfterGiveKept(t) == t

\* prvCopyDataToQueue: the mutex is no longer held.
HolderAfterGive(t) == None

GiveMutex(t, m) ==
  /\ CanRun(t)
  /\ pc[t] = "run"
  /\ MayGive(t, m)
  /\ uxPriority' = [uxPriority EXCEPT ![t] = TaskPriorityDisinherit(t)]
  /\ uxMutexesHeld' = [uxMutexesHeld EXCEPT ![t] = @ - 1]
  /\ xMutexHolder' = [xMutexHolder EXCEPT ![m] = HolderAfterGive(t)]
  /\ count' = [count EXCEPT ![m] = @ + 1]
  /\ holds' = [holds EXCEPT ![t] = @ \ {m}]
  /\ WakeFirst(m)
  /\ UNCHANGED <<wanted, xTicksToWait, expired, xInheritanceOccurred, cTxLock, uxSchedulerSuspended>>

\* uxMessagesWaiting < uxLength
NotFull(s) == count[s] < 1

GiveSignal(t, s) ==
  /\ CanRun(t)
  /\ pc[t] = "run"
  /\ NotFull(s)
  /\ count' = [count EXCEPT ![s] = @ + 1]
  /\ WakeFirst(s)
  /\ UNCHANGED <<wanted, xTicksToWait, expired, xInheritanceOccurred, priority_vars,
                 xMutexHolder, cTxLock, uxSchedulerSuspended, holds>>

\* From an interrupt: the list of a locked queue is left to the task that locked it.
GiveFromISR(s) ==
  /\ ~Halted
  /\ NotFull(s)
  /\ count' = [count EXCEPT ![s] = @ + 1]
  /\ \/ cTxLock[s] = -1 /\ WakeFirst(s) /\ UNCHANGED cTxLock
     \/ /\ cTxLock[s] # -1
        /\ cTxLock' = [cTxLock EXCEPT ![s] = @ + 1]
        /\ UNCHANGED <<pc, xTasksWaitingToReceive>>
  /\ UNCHANGED <<wanted, xTicksToWait, expired, xInheritanceOccurred, priority_vars,
                 xMutexHolder, uxSchedulerSuspended, holds>>

-----------------------------------------------------------------------------
(* Time.                                                                   *)

\* xTaskIncrementTick finds the wait of a task over; a blocked one is made ready.
WaitExpires(t) ==
  /\ ~Halted
  /\ uxSchedulerSuspended = None
  /\ pc[t] \in {"take", "lock", "blocked"}
  /\ xTicksToWait[t] = "some"
  /\ ~expired[t]
  /\ expired' = [expired EXCEPT ![t] = TRUE]
  /\ pc' = [pc EXCEPT ![t] = IF @ = "blocked" THEN "take" ELSE @]
  /\ xTasksWaitingToReceive' = [xTasksWaitingToReceive EXCEPT ![wanted[t]] = Removed(@, t)]
  /\ UNCHANGED <<wanted, xTicksToWait, xInheritanceOccurred, priority_vars, count, xMutexHolder,
                 cTxLock, uxSchedulerSuspended, holds>>

\* vTaskDelay and its end.
TaskDelay(t) ==
  /\ CanRun(t)
  /\ pc[t] = "run"
  /\ Goto(t, "delayed")
  /\ UNCHANGED <<wanted, xTicksToWait, expired, xInheritanceOccurred, priority_vars, queue_vars,
                 uxSchedulerSuspended, holds>>

DelayOver(t) ==
  /\ ~Halted
  /\ uxSchedulerSuspended = None
  /\ pc[t] = "delayed"
  /\ Goto(t, "run")
  /\ UNCHANGED <<wanted, xTicksToWait, expired, xInheritanceOccurred, priority_vars, queue_vars,
                 uxSchedulerSuspended, holds>>

-----------------------------------------------------------------------------
TakeStep(t) ==
  \/ TakeAvailable(t) \/ TakeRefused(t) \/ TakeMustWait(t) \/ LockQueue(t)
  \/ CheckExpired(t) \/ CheckAvailable(t) \/ CheckEmpty(t) \/ PlaceOnEventList(t)
  \/ UnlockQueue(t) \/ TimedOut(t) \/ DisinheritAfterTimeout(t)

TaskStep(t) ==
  \/ \E s \in Semaphores, ticks \in {"zero", "some", "max"} : CallTake(t, s, ticks)
  \/ TakeStep(t)
  \/ \E m \in Mutexes : GiveMutex(t, m)
  \/ \E s \in Signals : GiveSignal(t, s)
  \/ TaskDelay(t)

Next ==
  \/ \E t \in Tasks : TaskStep(t) \/ WaitExpires(t) \/ DelayOver(t)
  \/ \E s \in Signals : GiveFromISR(s)

Spec == Init /\ [][Next]_vars

-----------------------------------------------------------------------------
TakeLabels == {"take", "lock", "check", "place", "placed", "unlock", "blocked", "timed_out",
               "disinherit", "assert"}

TypeOK ==
  /\ pc \in [Tasks -> TakeLabels \cup {"run", "delayed"}]
  /\ wanted \in [Tasks -> Semaphores \cup {None}]
  /\ xTicksToWait \in [Tasks -> {"zero", "some", "max"}]
  /\ expired \in [Tasks -> BOOLEAN] /\ xInheritanceOccurred \in [Tasks -> BOOLEAN]
  /\ uxPriority \in [Tasks -> Nat] /\ uxMutexesHeld \in [Tasks -> Nat]
  /\ count \in [Semaphores -> {0, 1}]
  /\ xMutexHolder \in [Mutexes -> Tasks \cup {None}]
  /\ xTasksWaitingToReceive \in [Semaphores -> Seq(Tasks)]
  /\ cTxLock \in [Semaphores -> {-1, 0, 1}]
  /\ uxSchedulerSuspended \in Tasks \cup {None}
  /\ holds \in [Tasks -> SUBSET Mutexes]

\* The kernel's records have their types, a semaphore holding at most one give
\* among them, and agree with what the tasks did: a mutex taken and not
\* given has that one task as its holder, and the count of mutexes held, which
\* decides when a priority is given back, is exact.
MutexAccounting ==
  /\ TypeOK
  /\ \A t \in Tasks : uxMutexesHeld[t] = Cardinality(holds[t])
  /\ \A m \in Mutexes : \A t \in Tasks : m \in holds[t] <=> xMutexHolder[m] = t
  /\ \A m \in Mutexes : count[m] = 0 <=> xMutexHolder[m] # None

\* No priority inversion: while tasks wait for a mutex its holder has at least the
\* priority of each, however waits expire and whatever else the holder gives back.
HolderInherits ==
  \A m \in Mutexes : \A i \in DOMAIN xTasksWaitingToReceive[m] :
    xMutexHolder[m] # None =>
      uxPriority[xMutexHolder[m]] >= uxPriority[xTasksWaitingToReceive[m][i]]

\* An inherited priority is never kept: a task without a mutex has its own.
PriorityReturned ==
  \A t \in Tasks : uxPriority[t] >= uxBasePriority[t]
                   /\ (holds[t] = {} => uxPriority[t] = uxBasePriority[t])

\* No wake-up is lost: when tasks wait for a semaphore that is available, some
\* task is awake that will try to take it, or the give is noted in the queue lock.
NoLostWakeup ==
  \A s \in Semaphores :
    count[s] > 0 /\ xTasksWaitingToReceive[s] # << >> =>
      \/ cTxLock[s] > 0
      \/ \E t \in Tasks : /\ wanted[t] = s
                          /\ pc[t] \in {"take", "lock", "check", "unlock", "timed_out"}

\* Every take and give does what the tasks rely on: in one step, at a moment
\* when the semaphore is in the state the result tells.
Abstract ==
  INSTANCE Semaphores WITH
    available <- { s \in Semaphores : count[s] > 0 },
    owner <- xMutexHolder,
    calling <- [t \in Tasks |->
                 IF pc[t] \in {"run", "delayed", "disinherit", "assert"} THEN None ELSE wanted[t]]

ImplementsSemaphores == Abstract!Spec

\* "For inheritance to have occurred there must have been an initial timeout, and
\* an adjusted timeout cannot become 0": the assertion of xQueueSemaphoreTake.
InheritanceAssertHolds == ~Halted
=============================================================================
