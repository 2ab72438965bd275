------------------------ MODULE RtosSemaphoresProofs ------------------------
(***************************************************************************)
(* Proofs about RtosSemaphores: the accounting of mutexes, priority        *)
(* inheritance and its end, wake-ups, and that taking and giving in many   *)
(* interleaved steps implements the one-step semaphores of module          *)
(* Semaphores, for every set of tasks, priorities, mutexes and signals.    *)
(***************************************************************************)
EXTENDS RtosSemaphores, SequenceTheorems, FiniteSetTheorems, WellFoundedInduction, TLAPS

\* The places of a task that has suspended the scheduler.
SuspendedLabels == {"check", "place", "placed", "unlock"}

\* The places of a task that is awake and will look at the semaphore again.
AwakeLabels == {"take", "lock", "check", "unlock", "timed_out"}

Calls(t) == pc[t] \in TakeLabels

\* Mutexes are taken in the order of the vehicle's code, and a call is for one
\* that this order allows.
TakenInOrder ==
  /\ \A t \in Tasks : IsFiniteSet(holds[t])
  /\ \A t \in Tasks : \A m \in DOMAIN OuterMutex \cap holds[t] : OuterMutex[m] \in holds[t]
  /\ \A t \in Tasks : Calls(t) => wanted[t] \in Semaphores /\ MayTake(t, wanted[t])
  /\ \A t \in Tasks : xInheritanceOccurred[t] \/ pc[t] = "disinherit" =>
                        Calls(t) /\ wanted[t] \in Mutexes

\* Only the queue of the task that has suspended the scheduler is locked, and what
\* that task has seen of it stays true but for gives from interrupts, which the
\* lock counts.
QueueLocked ==
  /\ \A t \in Tasks : pc[t] \in SuspendedLabels <=> uxSchedulerSuspended = t
  /\ \A s \in Semaphores :
       cTxLock[s] # -1 <=> uxSchedulerSuspended # None /\ wanted[uxSchedulerSuspended] = s
  /\ \A s \in Semaphores : cTxLock[s] > 0 => count[s] > 0 /\ s \in Signals
  /\ \A t \in Tasks : pc[t] \in {"place", "placed"} /\ count[wanted[t]] > 0 => cTxLock[wanted[t]] > 0
  /\ \A t \in Tasks : pc[t] = "place" /\ wanted[t] \in Mutexes =>
                        uxPriority[xMutexHolder[wanted[t]]] >= uxPriority[t]

\* A list has the tasks that wait for its semaphore, each once.
ListsWaiting ==
  \A s \in Semaphores :
    /\ \A i \in DOMAIN xTasksWaitingToReceive[s] :
         LET t == xTasksWaitingToReceive[s][i] IN wanted[t] = s /\ pc[t] \in {"placed", "blocked"}
    /\ \A i, j \in DOMAIN xTasksWaitingToReceive[s] :
         xTasksWaitingToReceive[s][i] = xTasksWaitingToReceive[s][j] => i = j

\* Nobody waits for an inner mutex; the list of a mutex is in the order of priorities.
MutexListsSorted ==
  /\ \A m \in DOMAIN OuterMutex : xTasksWaitingToReceive[m] = << >>
  /\ \A m \in Mutexes : \A i, j \in DOMAIN xTasksWaitingToReceive[m] :
       i < j => uxPriority[xTasksWaitingToReceive[m][i]] >= uxPriority[xTasksWaitingToReceive[m][j]]

\* When a mutex that tasks wait for is available, a task of at least their priority
\* is awake to take it, so that no waiting task outranks the next holder.
MutexWake ==
  \A m \in Mutexes :
    count[m] > 0 /\ xTasksWaitingToReceive[m] # << >> =>
      \E t \in Tasks : /\ wanted[t] = m /\ pc[t] \in AwakeLabels
                       /\ \A i \in DOMAIN xTasksWaitingToReceive[m] :
                            uxPriority[t] >= uxPriority[xTasksWaitingToReceive[m][i]]

\* The inductive invariant.
IInv ==
  /\ MutexAccounting /\ TakenInOrder /\ QueueLocked /\ ListsWaiting /\ MutexListsSorted
  /\ HolderInherits /\ PriorityReturned /\ MutexWake /\ NoLostWakeup

-----------------------------------------------------------------------------
(* The event lists.                                                        *)

\* A list without its k-th item.
WithoutItem(new, list, k) ==
  /\ new \in Seq(Tasks)
  /\ Len(new) = Len(list) - 1
  /\ \A i \in 1 .. Len(new) : new[i] = list[IF i < k THEN i ELSE i + 1]

\* A list with a task behind its first n items.
WithItem(new, list, t, n) ==
  /\ new \in Seq(Tasks)
  /\ Len(new) = Len(list) + 1
  /\ \A i \in 1 .. Len(new) : new[i] = IF i <= n THEN list[i] ELSE IF i = n + 1 THEN t ELSE list[i - 1]

\* A front and a back of a list, with or without something between.
LEMMA FrontAndBack ==
  ASSUME NEW list \in Seq(Tasks), NEW n \in Nat, NEW m \in Nat, n <= m, m <= Len(list)
  PROVE  /\ SubSeq(list, 1, n) \in Seq(Tasks) /\ Len(SubSeq(list, 1, n)) = n
         /\ \A i \in 1 .. n : SubSeq(list, 1, n)[i] = list[i]
         /\ SubSeq(list, m + 1, Len(list)) \in Seq(Tasks)
         /\ Len(SubSeq(list, m + 1, Len(list))) = Len(list) - m
         /\ \A i \in 1 .. Len(list) - m : SubSeq(list, m + 1, Len(list))[i] = list[m + i]
<1>1. Len(list) \in Nat /\ \A i \in 1 .. Len(list) : list[i] \in Tasks
  OBVIOUS
<1>2. /\ SubSeq(list, 1, n) \in Seq(Tasks)
      /\ Len(SubSeq(list, 1, n)) = (IF 1 <= n THEN n - 1 + 1 ELSE 0)
      /\ \A i \in 1 .. n - 1 + 1 : SubSeq(list, 1, n)[i] = list[1 + i - 1]
  BY <1>1, SubSeqProperties
<1>3. /\ SubSeq(list, m + 1, Len(list)) \in Seq(Tasks)
      /\ Len(SubSeq(list, m + 1, Len(list))) = (IF m + 1 <= Len(list) THEN Len(list) - (m + 1) + 1 ELSE 0)
      /\ \A i \in 1 .. Len(list) - (m + 1) + 1 : SubSeq(list, m + 1, Len(list))[i] = list[m + 1 + i - 1]
  BY <1>1, SubSeqProperties
<1>4. ASSUME NEW i \in 1 .. Len(list) - m
      PROVE  SubSeq(list, m + 1, Len(list))[i] = list[m + i]
  <2>1. i \in 1 .. Len(list) - (m + 1) + 1 /\ m + 1 + i - 1 = m + i
    BY <1>1
  <2>2. QED
    BY <1>3, <2>1
<1>5. ASSUME NEW i \in 1 .. n
      PROVE  SubSeq(list, 1, n)[i] = list[i]
  BY <1>2
<1>6. QED
  BY <1>1, <1>2, <1>3, <1>4, <1>5

\* Two lists, one after the other.
LEMMA OneAfterTheOther ==
  ASSUME NEW a \in Seq(Tasks), NEW b \in Seq(Tasks)
  PROVE  /\ a \o b \in Seq(Tasks) /\ Len(a \o b) = Len(a) + Len(b)
         /\ \A i \in 1 .. Len(a) : (a \o b)[i] = a[i]
         /\ \A i \in Len(a) + 1 .. Len(a) + Len(b) : (a \o b)[i] = b[i - Len(a)]
<1>1. /\ a \o b \in Seq(Tasks) /\ Len(a \o b) = Len(a) + Len(b) /\ Len(a) \in Nat /\ Len(b) \in Nat
      /\ \A i \in 1 .. Len(a) + Len(b) : (a \o b)[i] = IF i <= Len(a) THEN a[i] ELSE b[i - Len(a)]
  BY ConcatProperties
<1>2. QED
  BY <1>1

\* Every set of natural numbers that is not empty has a least element.
LEMMA LeastNatural ==
  ASSUME NEW S \in SUBSET Nat, S # {}
  PROVE  \E n \in S : \A m \in S : n <= m
<1>1. IsWellFoundedOn(OpToRel(<, Nat), Nat)
  BY NatLessThanWellFounded, Zenon
<1>2. PICK n \in S : \A m \in S : ~ (<<m, n>> \in OpToRel(<, Nat))
  BY <1>1, WFMin, Zenon
<1>3. \A m \in S : ~ (m < n)
  BY <1>2 DEF OpToRel
<1>4. QED
  BY <1>3

\* vListInsert finds the place: behind those of the same or a higher priority that
\* lead the list, before the first of a lower one.
LEMMA InsertedPlace ==
  ASSUME NEW list \in Seq(Tasks), NEW t \in Tasks, uxPriority \in [Tasks -> Nat]
  PROVE  \E n \in 0 .. Len(list) :
           /\ \A i \in 1 .. n : uxPriority[list[i]] >= uxPriority[t]
           /\ n < Len(list) => uxPriority[list[n + 1]] < uxPriority[t]
           /\ WithItem(Inserted(list, t), list, t, n)
<1> DEFINE IsPlace(n) == /\ \A i \in 1 .. n : uxPriority[list[i]] >= uxPriority[t]
                         /\ n < Len(list) => uxPriority[list[n + 1]] < uxPriority[t]
           S == { n \in 0 .. Len(list) : n < Len(list) => uxPriority[list[n + 1]] < uxPriority[t] }
<1>1. Len(list) \in Nat /\ \A i \in 1 .. Len(list) : list[i] \in Tasks
  OBVIOUS
<1>2. S \in SUBSET Nat /\ Len(list) \in S
  BY <1>1
<1>3. PICK n \in S : \A k \in S : n <= k
  BY <1>2, LeastNatural
<1>4. \A i \in 1 .. n : uxPriority[list[i]] >= uxPriority[t]
  <2> SUFFICES ASSUME NEW i \in 1 .. n PROVE uxPriority[list[i]] >= uxPriority[t]
    OBVIOUS
  <2> n \in 0 .. Len(list) /\ i \in Nat /\ 1 <= i /\ i <= n
    BY <1>1
  <2>1. i - 1 \in 0 .. Len(list) /\ i - 1 \notin S
    <3>1. ~ (n <= i - 1) /\ i - 1 \in 0 .. Len(list)
      BY <1>1
    <3>2. QED
      BY <1>3, <3>1
  <2>2. i - 1 < Len(list) /\ ~ (uxPriority[list[i]] < uxPriority[t])
    BY <2>1
  <2>3. uxPriority[list[i]] \in Nat /\ uxPriority[t] \in Nat
    BY <1>1, <1>3
  <2>4. QED
    BY <2>2, <2>3
<1>5. \E m \in 0 .. Len(list) : IsPlace(m)
  BY <1>3, <1>4
<1> DEFINE before == CHOOSE m \in 0 .. Len(list) : IsPlace(m)
<1>6. before \in 0 .. Len(list) /\ IsPlace(before)
  BY <1>5
<1>7. Inserted(list, t) = SubSeq(list, 1, before) \o <<t>> \o SubSeq(list, before + 1, Len(list))
  BY DEF Inserted
<1> HIDE DEF before, IsPlace
<1> DEFINE a == SubSeq(list, 1, before)
           b == SubSeq(list, before + 1, Len(list))
<1>8. /\ a \in Seq(Tasks) /\ Len(a) = before /\ \A i \in 1 .. before : a[i] = list[i]
      /\ b \in Seq(Tasks) /\ Len(b) = Len(list) - before
      /\ \A i \in 1 .. Len(list) - before : b[i] = list[before + i]
  BY <1>1, <1>6, FrontAndBack
<1> HIDE DEF a, b
<1> DEFINE c == a \o <<t>>
           k == Len(list) - before
<1>9. /\ c \in Seq(Tasks) /\ Len(c) = before + 1 /\ c[before + 1] = t
      /\ \A i \in 1 .. before : c[i] = list[i]
  <2>1. <<t>> \in Seq(Tasks) /\ Len(<<t>>) = 1 /\ <<t>>[1] = t
    OBVIOUS
  <2>2. /\ c \in Seq(Tasks) /\ Len(c) = before + 1
        /\ \A i \in 1 .. before : c[i] = a[i]
        /\ \A i \in before + 1 .. before + 1 : c[i] = <<t>>[i - before]
    <3>1. /\ a \o <<t>> \in Seq(Tasks) /\ Len(a \o <<t>>) = Len(a) + Len(<<t>>)
          /\ \A i \in 1 .. Len(a) : (a \o <<t>>)[i] = a[i]
          /\ \A i \in Len(a) + 1 .. Len(a) + Len(<<t>>) : (a \o <<t>>)[i] = <<t>>[i - Len(a)]
      BY <1>8, <2>1, OneAfterTheOther, Zenon
    <3>2. QED
      BY <1>8, <2>1, <3>1
  <2>3. c[before + 1] = <<t>>[1]
    BY <1>6, <2>2
  <2>4. QED
    BY <1>8, <2>1, <2>2, <2>3
<1> HIDE DEF c
<1>10. /\ c \o b \in Seq(Tasks) /\ Len(c \o b) = before + 1 + k
       /\ \A i \in 1 .. before + 1 : (c \o b)[i] = c[i]
       /\ \A i \in before + 1 + 1 .. before + 1 + k : (c \o b)[i] = b[i - (before + 1)]
  <2>1. /\ c \o b \in Seq(Tasks) /\ Len(c \o b) = Len(c) + Len(b)
        /\ \A i \in 1 .. Len(c) : (c \o b)[i] = c[i]
        /\ \A i \in Len(c) + 1 .. Len(c) + Len(b) : (c \o b)[i] = b[i - Len(c)]
    BY <1>8, <1>9, OneAfterTheOther, Zenon
  <2>2. QED
    BY <1>8, <1>9, <2>1
<1>11. WithItem(c \o b, list, t, before)
  <2>1. Len(c \o b) = Len(list) + 1
    BY <1>1, <1>6, <1>10
  <2>2. ASSUME NEW i \in 1 .. Len(list) + 1
        PROVE  (c \o b)[i] = IF i <= before THEN list[i] ELSE IF i = before + 1 THEN t ELSE list[i - 1]
    <3>1. CASE i <= before + 1
      BY <1>1, <1>6, <1>9, <1>10, <3>1
    <3>2. CASE i > before + 1
      <4>1. i \in before + 1 + 1 .. before + 1 + k /\ i - (before + 1) \in 1 .. k
        BY <1>1, <1>6, <3>2
      <4>2. before + (i - (before + 1)) = i - 1
        BY <1>1, <1>6
      <4>3. (c \o b)[i] = list[i - 1]
        BY <1>8, <1>10, <4>1, <4>2
      <4>4. QED
        BY <1>1, <1>6, <3>2, <4>3
    <3>3. i <= before + 1 \/ i > before + 1
      BY <1>1, <1>6
    <3>4. QED
      BY <3>1, <3>2, <3>3
  <2>3. QED
    BY <1>10, <2>1, <2>2 DEF WithItem
<1>12. QED
  BY <1>6, <1>7, <1>11 DEF a, b, c, IsPlace

\* uxListRemove takes out the one item of the task, if it has one.
LEMMA RemovedItem ==
  ASSUME NEW list \in Seq(Tasks), NEW t \in Tasks
  PROVE  \/ (\A i \in DOMAIN list : list[i] # t) /\ Removed(list, t) = list
         \/ \E k \in DOMAIN list : list[k] = t /\ WithoutItem(Removed(list, t), list, k)
<1>1. Len(list) \in Nat /\ DOMAIN list = 1 .. Len(list) /\ \A i \in 1 .. Len(list) : list[i] \in Tasks
  OBVIOUS
<1>2. CASE \A i \in DOMAIN list : list[i] # t
  BY <1>2 DEF Removed
<1>3. CASE \E i \in DOMAIN list : list[i] = t
  <2> DEFINE k == CHOOSE i \in DOMAIN list : list[i] = t
             a == SubSeq(list, 1, k - 1)
             b == SubSeq(list, k + 1, Len(list))
  <2>1. k \in DOMAIN list /\ list[k] = t
    BY <1>3
  <2>2. Removed(list, t) = a \o b
    BY <1>3 DEF Removed
  <2> HIDE DEF k
  <2>3. /\ a \in Seq(Tasks) /\ Len(a) = k - 1 /\ \A i \in 1 .. k - 1 : a[i] = list[i]
        /\ b \in Seq(Tasks) /\ Len(b) = Len(list) - k
        /\ \A i \in 1 .. Len(list) - k : b[i] = list[k + i]
    <3>1. k - 1 \in Nat /\ k \in Nat /\ k - 1 <= k /\ k <= Len(list)
      BY <1>1, <2>1
    <3>2. QED
      BY <3>1, FrontAndBack
  <2> HIDE DEF a, b
  <2>4. /\ a \o b \in Seq(Tasks) /\ Len(a \o b) = (k - 1) + (Len(list) - k)
        /\ \A i \in 1 .. k - 1 : (a \o b)[i] = a[i]
        /\ \A i \in (k - 1) + 1 .. (k - 1) + (Len(list) - k) : (a \o b)[i] = b[i - (k - 1)]
    <3>1. /\ a \o b \in Seq(Tasks) /\ Len(a \o b) = Len(a) + Len(b)
          /\ \A i \in 1 .. Len(a) : (a \o b)[i] = a[i]
          /\ \A i \in Len(a) + 1 .. Len(a) + Len(b) : (a \o b)[i] = b[i - Len(a)]
      BY <2>3, OneAfterTheOther, Zenon
    <3>2. QED
      BY <2>3, <3>1
  <2>5. ASSUME NEW i \in 1 .. Len(list) - 1
        PROVE  (a \o b)[i] = list[IF i < k THEN i ELSE i + 1]
    <3>1. CASE i < k
      BY <1>1, <2>1, <2>3, <2>4, <3>1
    <3>2. CASE ~ (i < k)
      <4>1. /\ i \in (k - 1) + 1 .. (k - 1) + (Len(list) - k)
            /\ i - (k - 1) \in 1 .. Len(list) - k /\ k + (i - (k - 1)) = i + 1
        BY <1>1, <2>1, <3>2
      <4>2. (a \o b)[i] = list[i + 1]
        BY <2>3, <2>4, <4>1
      <4>3. QED
        BY <3>2, <4>2
    <3>3. QED
      BY <3>1, <3>2
  <2>6. WithoutItem(a \o b, list, k)
    <3>1. Len(a \o b) = Len(list) - 1
      BY <1>1, <2>1, <2>4
    <3>2. QED
      BY <2>4, <2>5, <3>1 DEF WithoutItem
  <2>7. QED
    BY <2>1, <2>2, <2>6
<1>4. QED
  BY <1>2, <1>3

\* xTaskRemoveFromEventList takes out the first item.
LEMMA TailItem ==
  ASSUME NEW list \in Seq(Tasks), list # << >>
  PROVE  1 \in DOMAIN list /\ Head(list) = list[1] /\ list[1] \in Tasks /\ WithoutItem(Tail(list), list, 1)
<1>1. Len(list) \in Nat \ {0} /\ DOMAIN list = 1 .. Len(list) /\ Head(list) = list[1]
  BY EmptySeq
<1>2. QED
  BY <1>1, HeadTailProperties DEF WithoutItem

-----------------------------------------------------------------------------
(* The inductive invariant.                                                *)

LEMMA InitIInv == Init => IInv
<1> SUFFICES ASSUME Init PROVE IInv
  OBVIOUS
<1>1. TypeOK
  BY PriorityAssumption DEF Init, TypeOK, Semaphores
<1>2. MutexAccounting
  BY <1>1, FS_EmptySet, NamesAssumption DEF Init, MutexAccounting, Semaphores
<1>3. TakenInOrder
  BY FS_EmptySet DEF Init, TakenInOrder, Calls, TakeLabels
<1>4. QueueLocked
  BY NamesAssumption DEF Init, QueueLocked, SuspendedLabels, Semaphores
<1>5. ListsWaiting /\ MutexListsSorted /\ HolderInherits /\ MutexWake /\ NoLostWakeup
  BY OuterAssumption DEF Init, ListsWaiting, MutexListsSorted, HolderInherits, MutexWake, NoLostWakeup, Semaphores
<1>6. PriorityReturned
  BY PriorityAssumption DEF Init, PriorityReturned
<1>7. QED
  BY <1>2, <1>3, <1>4, <1>5, <1>6 DEF IInv

\* What the waiting tasks of a mutex have in common: they hold no mutex, so that their
\* priority is their own.
LEMMA Waiter ==
  ASSUME IInv, NEW m \in Mutexes, NEW i \in DOMAIN xTasksWaitingToReceive[m]
  PROVE  LET t == xTasksWaitingToReceive[m][i]
         IN  /\ t \in Tasks /\ wanted[t] = m /\ pc[t] \in {"placed", "blocked"}
             /\ m \notin DOMAIN OuterMutex /\ holds[t] = {} /\ uxPriority[t] = uxBasePriority[t]
<1> DEFINE t == xTasksWaitingToReceive[m][i]
<1>1. t \in Tasks
  BY DEF IInv, MutexAccounting, TypeOK, Semaphores
<1>2. wanted[t] = m /\ pc[t] \in {"placed", "blocked"}
  BY DEF IInv, ListsWaiting, Semaphores
<1>3. m \notin DOMAIN OuterMutex
  BY DEF IInv, MutexListsSorted
<1>4. MayTake(t, m)
  BY <1>1, <1>2 DEF IInv, TakenInOrder, Calls, TakeLabels
<1>5. holds[t] = {}
  BY <1>3, <1>4, NamesAssumption DEF MayTake
<1>6. QED
  BY <1>1, <1>2, <1>3, <1>5 DEF IInv, PriorityReturned

\* A step of one task that changes no semaphore, no list and no priority.
LEMMA LocalStepKeepsIInv ==
  ASSUME IInv, NEW t \in Tasks, NEW l \in (TakeLabels \cup {"run", "delayed"}) \ {"place", "placed", "blocked"},
         pc[t] \notin {"placed", "blocked"}, pc' = [pc EXCEPT ![t] = l],
         l \in SuspendedLabels <=> pc[t] \in SuspendedLabels,
         wanted' \in [Tasks -> Semaphores \cup {None}], \A u \in Tasks \ {t} : wanted'[u] = wanted[u],
         l \in SuspendedLabels => wanted'[t] = wanted[t],
         l \in TakeLabels => wanted'[t] \in Semaphores /\ MayTake(t, wanted'[t]),
         xTicksToWait' \in [Tasks -> {"zero", "some", "max"}], expired' \in [Tasks -> BOOLEAN],
         xInheritanceOccurred' \in [Tasks -> BOOLEAN],
         \A u \in Tasks \ {t} : xInheritanceOccurred'[u] = xInheritanceOccurred[u],
         xInheritanceOccurred'[t] \/ l = "disinherit" => l \in TakeLabels /\ wanted'[t] \in Mutexes,
         pc[t] \in AwakeLabels /\ count[wanted[t]] > 0 => l \in AwakeLabels /\ wanted'[t] = wanted[t],
         UNCHANGED <<priority_vars, queue_vars, uxSchedulerSuspended, holds>>
  PROVE  IInv'
<1> USE DEF priority_vars, queue_vars
<1>1. TypeOK /\ TypeOK'
  BY DEF IInv, MutexAccounting, TypeOK
<1>2. pc'[t] = l /\ \A u \in Tasks \ {t} : pc'[u] = pc[u]
  BY <1>1 DEF TypeOK
<1>3. MutexAccounting'
  BY <1>1 DEF IInv, MutexAccounting
<1>4. TakenInOrder'
  BY <1>2 DEF IInv, TakenInOrder, Calls, MayTake
<1>5. QueueLocked'
  BY <1>1, <1>2 DEF IInv, QueueLocked, SuspendedLabels, TypeOK
<1>6. \A s \in Semaphores : \A i \in DOMAIN xTasksWaitingToReceive[s] :
        xTasksWaitingToReceive[s][i] \in Tasks \ {t}
  BY <1>1 DEF IInv, ListsWaiting, TypeOK
<1>7. ListsWaiting'
  BY <1>2, <1>6 DEF IInv, ListsWaiting
<1>8. MutexListsSorted' /\ HolderInherits' /\ PriorityReturned'
  BY DEF IInv, MutexListsSorted, HolderInherits, PriorityReturned
<1>9. \A u \in Tasks : \A s \in Semaphores :
        pc[u] \in AwakeLabels /\ wanted[u] = s /\ count[s] > 0 => pc'[u] \in AwakeLabels /\ wanted'[u] = s
  BY <1>2
<1>10. MutexWake'
  BY <1>9 DEF IInv, MutexWake, Semaphores
<1>11. NoLostWakeup'
  BY <1>9 DEF IInv, NoLostWakeup, AwakeLabels
<1>12. QED
  BY <1>3, <1>4, <1>5, <1>7, <1>8, <1>10, <1>11 DEF IInv

\* The calling task while no other can act: the scheduler runs, or is its own.
LEMMA Running ==
  ASSUME IInv, NEW t \in Tasks, CanRun(t)
  PROVE  /\ pc[t] \notin {"blocked", "delayed", "assert"}
         /\ pc[t] \in SuspendedLabels => uxSchedulerSuspended = t
         /\ pc[t] \notin SuspendedLabels =>
              /\ uxSchedulerSuspended = None
              /\ \A s \in Semaphores : cTxLock[s] = -1
              /\ \A u \in Tasks : pc[u] \notin SuspendedLabels
              /\ \A u \in Tasks : pc[u] \in AwakeLabels => uxPriority[u] <= uxPriority[t]
BY NamesAssumption DEF IInv, QueueLocked, CanRun, Ready, Halted, SuspendedLabels, AwakeLabels

LEMMA CallTakeKeepsIInv ==
  ASSUME IInv, NEW t \in Tasks, NEW s \in Semaphores, NEW ticks \in {"zero", "some", "max"},
         CallTake(t, s, ticks)
  PROVE  IInv'
<1>1. TypeOK
  BY DEF IInv, MutexAccounting
<1>2. QED
  BY <1>1, LocalStepKeepsIInv, NamesAssumption
     DEF CallTake, Goto, TypeOK, TakeLabels, SuspendedLabels, AwakeLabels

\* The steps of a call that end it, or only move on.
LEMMA RefusedKeepsIInv ==
  ASSUME IInv, NEW t \in Tasks, TakeRefused(t) \/ TakeMustWait(t) \/ TaskDelay(t) \/ DelayOver(t)
  PROVE  IInv'
<1> USE DEF Goto, TakeLabels, SuspendedLabels, AwakeLabels
<1>1. TypeOK
  BY DEF IInv, MutexAccounting
<1>2. /\ xInheritanceOccurred[t] \/ pc[t] = "disinherit" => wanted[t] \in Mutexes
      /\ Calls(t) => wanted[t] \in Semaphores /\ MayTake(t, wanted[t])
      /\ xInheritanceOccurred[t] => Calls(t)
  BY DEF IInv, TakenInOrder
<1>3. CASE TakeRefused(t)
  <2>1. /\ pc[t] = "take" /\ ~ (count[wanted[t]] > 0)
        /\ UNCHANGED <<priority_vars, queue_vars, uxSchedulerSuspended, holds>>
    BY <1>3 DEF TakeRefused
  <2>2. CASE Goto(t, "assert") /\ UNCHANGED <<wanted, xTicksToWait, expired, xInheritanceOccurred>>
    BY <1>1, <1>2, <2>1, <2>2, LocalStepKeepsIInv DEF TypeOK, Calls
  <2>3. CASE Return(t)
    <3>1. /\ wanted' \in [Tasks -> Semaphores \cup {None}] /\ xTicksToWait' \in [Tasks -> {"zero", "some", "max"}]
          /\ expired' \in [Tasks -> BOOLEAN] /\ xInheritanceOccurred' \in [Tasks -> BOOLEAN]
          /\ pc' = [pc EXCEPT ![t] = "run"] /\ ~ xInheritanceOccurred'[t]
          /\ \A u \in Tasks \ {t} : wanted'[u] = wanted[u] /\ xInheritanceOccurred'[u] = xInheritanceOccurred[u]
      BY <1>1, <2>3 DEF Return, TypeOK
    <3>2. QED
      BY <2>1, <3>1, LocalStepKeepsIInv
  <2>4. QED
    BY <1>3, <2>2, <2>3 DEF TakeRefused
<1>4. CASE TakeMustWait(t)
  BY <1>1, <1>2, <1>4, LocalStepKeepsIInv DEF TakeMustWait, TypeOK, Calls
<1>5. CASE TaskDelay(t)
  BY <1>1, <1>2, <1>5, LocalStepKeepsIInv DEF TaskDelay, TypeOK, Calls
<1>6. CASE DelayOver(t)
  BY <1>1, <1>2, <1>6, LocalStepKeepsIInv DEF DelayOver, TypeOK, Calls
<1>7. QED
  BY <1>3, <1>4, <1>5, <1>6

LEMMA CheckedKeepsIInv ==
  ASSUME IInv, NEW t \in Tasks, CheckExpired(t) \/ CheckAvailable(t) \/ TimedOut(t)
  PROVE  IInv'
<1> USE DEF Goto, TakeLabels, SuspendedLabels, AwakeLabels
<1>1. TypeOK
  BY DEF IInv, MutexAccounting
<1>2. /\ xInheritanceOccurred[t] \/ pc[t] = "disinherit" => wanted[t] \in Mutexes
      /\ Calls(t) => wanted[t] \in Semaphores /\ MayTake(t, wanted[t])
      /\ xInheritanceOccurred[t] => Calls(t)
  BY DEF IInv, TakenInOrder
<1>3. CASE CheckExpired(t)
  BY <1>1, <1>2, <1>3, LocalStepKeepsIInv DEF CheckExpired, TypeOK, Calls
<1>4. CASE CheckAvailable(t)
  BY <1>1, <1>2, <1>4, LocalStepKeepsIInv DEF CheckAvailable, TypeOK, Calls
<1>5. CASE TimedOut(t)
  <2>1. /\ pc[t] = "timed_out"
        /\ UNCHANGED <<priority_vars, queue_vars, uxSchedulerSuspended, holds>>
        /\ IsQueueEmpty(wanted[t]) => ~ (count[wanted[t]] > 0)
    BY <1>5 DEF TimedOut, IsQueueEmpty
  <2>2. CASE Goto(t, "take") /\ UNCHANGED <<wanted, xTicksToWait, expired, xInheritanceOccurred>>
    BY <1>1, <1>2, <2>1, <2>2, LocalStepKeepsIInv DEF TypeOK, Calls
  <2>3. CASE IsQueueEmpty(wanted[t]) /\ xInheritanceOccurred[t] /\ Goto(t, "disinherit")
             /\ UNCHANGED <<wanted, xTicksToWait, expired, xInheritanceOccurred>>
    BY <1>1, <1>2, <2>1, <2>3, LocalStepKeepsIInv DEF TypeOK, Calls
  <2>4. CASE IsQueueEmpty(wanted[t]) /\ Return(t)
    <3>1. /\ wanted' \in [Tasks -> Semaphores \cup {None}] /\ xTicksToWait' \in [Tasks -> {"zero", "some", "max"}]
          /\ expired' \in [Tasks -> BOOLEAN] /\ xInheritanceOccurred' \in [Tasks -> BOOLEAN]
          /\ pc' = [pc EXCEPT ![t] = "run"] /\ ~ xInheritanceOccurred'[t]
          /\ \A u \in Tasks \ {t} : wanted'[u] = wanted[u] /\ xInheritanceOccurred'[u] = xInheritanceOccurred[u]
      BY <1>1, <2>4 DEF Return, TypeOK
    <3>2. QED
      BY <2>1, <2>4, <3>1, LocalStepKeepsIInv
  <2>5. QED
    BY <1>5, <2>2, <2>3, <2>4 DEF TimedOut
<1>6. QED
  BY <1>3, <1>4, <1>5

\* The task that takes an available mutex has at least the priority of those that
\* wait: another task as high was awake for it, and did not run first.
LEMMA TakeAvailableKeepsIInv ==
  ASSUME IInv, NEW t \in Tasks, TakeAvailable(t)
  PROVE  IInv'
<1> DEFINE s == wanted[t]
<1>1. TypeOK
  BY DEF IInv, MutexAccounting
<1>2. /\ pc[t] = "take" /\ s \in Semaphores /\ MayTake(t, s) /\ count[s] = 1
      /\ count' = [count EXCEPT ![s] = 0]
      /\ UNCHANGED <<uxPriority, xTasksWaitingToReceive, cTxLock, uxSchedulerSuspended>>
  <2>1. /\ pc[t] = "take" /\ count[s] > 0 /\ count' = [count EXCEPT ![s] = @ - 1]
        /\ UNCHANGED <<uxPriority, xTasksWaitingToReceive, cTxLock, uxSchedulerSuspended>>
    BY DEF TakeAvailable
  <2>2. s \in Semaphores /\ MayTake(t, s)
    BY <2>1 DEF IInv, TakenInOrder, Calls, TakeLabels
  <2>3. count[s] = 1
    BY <1>1, <2>1, <2>2 DEF TypeOK
  <2>4. count[s] - 1 = 0
    BY <2>3
  <2>5. QED
    BY <2>1, <2>2, <2>3, <2>4
<1>3. /\ pc' = [pc EXCEPT ![t] = "run"] /\ wanted' = [wanted EXCEPT ![t] = None]
      /\ xInheritanceOccurred' = [xInheritanceOccurred EXCEPT ![t] = FALSE]
  BY DEF TakeAvailable, Return, Goto
<1>4. /\ uxSchedulerSuspended = None /\ \A u \in Tasks : pc[u] \notin SuspendedLabels
      /\ \A u \in Tasks : pc[u] \in AwakeLabels => uxPriority[u] <= uxPriority[t]
  BY <1>2, Running DEF TakeAvailable, SuspendedLabels
<1>5. s \in Mutexes => /\ xMutexHolder[s] = None /\ s \notin holds[t]
                       /\ xMutexHolder' = [xMutexHolder EXCEPT ![s] = t]
                       /\ uxMutexesHeld' = [uxMutexesHeld EXCEPT ![t] = @ + 1]
                       /\ holds' = [holds EXCEPT ![t] = @ \cup {s}]
  BY <1>1, <1>2, NamesAssumption DEF TakeAvailable, IInv, MutexAccounting
<1>6. s \notin Mutexes => UNCHANGED <<xMutexHolder, uxMutexesHeld, holds>>
  BY DEF TakeAvailable
<1> DEFINE mine == IF s \in Mutexes THEN holds[t] \cup {s} ELSE holds[t]
<1>7. /\ holds'[t] = mine /\ \A u \in Tasks \ {t} : holds'[u] = holds[u]
      /\ holds' \in [Tasks -> SUBSET Mutexes]
  <2> holds \in [Tasks -> SUBSET Mutexes]
    BY <1>1 DEF TypeOK
  <2>1. CASE s \in Mutexes
    <3>1. holds' = [holds EXCEPT ![t] = mine]
      BY <1>5, <2>1
    <3>2. mine \in SUBSET Mutexes
      BY <2>1
    <3> HIDE DEF mine
    <3>3. QED
      BY <3>1, <3>2
  <2>2. CASE s \notin Mutexes
    BY <1>6, <2>2
  <2>3. QED
    BY <2>1, <2>2
<1>8. /\ IsFiniteSet(mine)
      /\ Cardinality(mine) = IF s \in Mutexes THEN Cardinality(holds[t]) + 1 ELSE Cardinality(holds[t])
  BY <1>5, FS_AddElement DEF IInv, TakenInOrder
<1>9. TypeOK'
  <2>1. /\ pc' \in [Tasks -> TakeLabels \cup {"run", "delayed"}]
        /\ wanted' \in [Tasks -> Semaphores \cup {None}] /\ xTicksToWait' \in [Tasks -> {"zero", "some", "max"}]
        /\ expired' \in [Tasks -> BOOLEAN] /\ xInheritanceOccurred' \in [Tasks -> BOOLEAN]
    BY <1>1 DEF TakeAvailable, Return, Goto, TypeOK
  <2>2. uxMutexesHeld' \in [Tasks -> Nat] /\ xMutexHolder' \in [Mutexes -> Tasks \cup {None}]
    <3> uxMutexesHeld \in [Tasks -> Nat] /\ xMutexHolder \in [Mutexes -> Tasks \cup {None}]
      BY <1>1 DEF TypeOK
    <3>1. CASE s \in Mutexes
      <4>1. xMutexHolder' \in [Mutexes -> Tasks \cup {None}]
        BY <1>5, <3>1
      <4>2. uxMutexesHeld[t] + 1 \in Nat
        OBVIOUS
      <4>3. uxMutexesHeld' \in [Tasks -> Nat]
        BY <1>5, <3>1, <4>2
      <4>4. QED
        BY <4>1, <4>3
    <3>2. CASE s \notin Mutexes
      BY <1>6, <3>2
    <3>3. QED
      BY <3>1, <3>2
  <2>3. QED
    BY <1>1, <1>2, <1>7, <2>1, <2>2 DEF TypeOK
<1>10. MutexAccounting'
  <2>1. \A u \in Tasks : uxMutexesHeld'[u] = Cardinality(holds'[u])
    <3>1. CASE s \in Mutexes
      <4>1. /\ uxMutexesHeld'[t] = uxMutexesHeld[t] + 1
            /\ \A u \in Tasks \ {t} : uxMutexesHeld'[u] = uxMutexesHeld[u]
        BY <1>1, <1>5, <3>1 DEF TypeOK
      <4>2. \A u \in Tasks : uxMutexesHeld[u] = Cardinality(holds[u])
        BY DEF IInv, MutexAccounting
      <4>3. Cardinality(mine) = Cardinality(holds[t]) + 1
        BY <1>8, <3>1
      <4> HIDE DEF mine
      <4>4. QED
        BY <1>7, <4>1, <4>2, <4>3
    <3>2. CASE s \notin Mutexes
      BY <1>6, <3>2 DEF IInv, MutexAccounting
    <3>3. QED
      BY <3>1, <3>2
  <2>2. \A m \in Mutexes : \A u \in Tasks : m \in holds'[u] <=> xMutexHolder'[m] = u
    <3>1. CASE s \in Mutexes
      <4>1. \A m \in Mutexes : xMutexHolder'[m] = IF m = s THEN t ELSE xMutexHolder[m]
        BY <1>1, <1>5, <3>1 DEF TypeOK
      <4>2. \A u \in Tasks : u # t => s \notin holds[u]
        BY <1>5, <3>1, NamesAssumption DEF IInv, MutexAccounting
      <4>3. QED
        BY <1>7, <3>1, <4>1, <4>2 DEF IInv, MutexAccounting
    <3>2. CASE s \notin Mutexes
      BY <1>6, <3>2 DEF IInv, MutexAccounting
    <3>3. QED
      BY <3>1, <3>2
  <2>3. \A m \in Mutexes : count'[m] = 0 <=> xMutexHolder'[m] # None
    BY <1>1, <1>2, <1>5, <1>6, NamesAssumption DEF IInv, MutexAccounting, TypeOK, Semaphores
  <2>4. QED
    BY <1>9, <2>1, <2>2, <2>3 DEF MutexAccounting
<1>11. TakenInOrder'
  <2>1. \A u \in Tasks : IsFiniteSet(holds'[u])
    BY <1>7, <1>8 DEF IInv, TakenInOrder
  <2>2. \A u \in Tasks : \A m \in DOMAIN OuterMutex \cap holds'[u] : OuterMutex[m] \in holds'[u]
    BY <1>2, <1>7, NamesAssumption, OuterAssumption DEF IInv, TakenInOrder, MayTake
  <2>3. pc'[t] = "run" /\ ~ xInheritanceOccurred'[t]
    BY <1>1, <1>3 DEF TypeOK
  <2>4. \A u \in Tasks \ {t} : pc'[u] = pc[u] /\ wanted'[u] = wanted[u] /\ holds'[u] = holds[u]
                               /\ xInheritanceOccurred'[u] = xInheritanceOccurred[u]
    BY <1>1, <1>3, <1>7 DEF TypeOK
  <2>5. QED
    BY <2>1, <2>2, <2>3, <2>4 DEF IInv, TakenInOrder, Calls, TakeLabels, MayTake
<1>12. QueueLocked'
  <2>1. \A u \in Tasks : pc'[u] \notin SuspendedLabels
    BY <1>1, <1>3, <1>4 DEF TypeOK, SuspendedLabels
  <2>2. \A u \in Semaphores : cTxLock'[u] = -1
    BY <1>2, <1>4 DEF IInv, QueueLocked
  <2>3. QED
    BY <1>2, <1>4, <2>1, <2>2, NamesAssumption DEF QueueLocked, SuspendedLabels
<1>13. \A q \in Semaphores : \A i \in DOMAIN xTasksWaitingToReceive[q] :
         xTasksWaitingToReceive[q][i] \in Tasks \ {t}
  <2>1. \A q \in Semaphores : \A i \in DOMAIN xTasksWaitingToReceive[q] :
          /\ xTasksWaitingToReceive[q][i] \in Tasks
          /\ pc[xTasksWaitingToReceive[q][i]] \in {"placed", "blocked"}
    BY <1>1 DEF IInv, ListsWaiting, TypeOK
  <2>2. QED
    BY <1>2, <2>1
<1>14. ListsWaiting'
  BY <1>1, <1>2, <1>3, <1>13 DEF IInv, ListsWaiting, TypeOK
<1>15. MutexListsSorted'
  BY <1>2 DEF IInv, MutexListsSorted
<1>16. HolderInherits'
  <2> SUFFICES ASSUME NEW m \in Mutexes, NEW i \in DOMAIN xTasksWaitingToReceive[m], xMutexHolder'[m] # None
               PROVE  uxPriority[xMutexHolder'[m]] >= uxPriority[xTasksWaitingToReceive[m][i]]
    BY <1>2 DEF HolderInherits
  <2>1. CASE m = s
    <3>1. PICK u \in Tasks : /\ pc[u] \in AwakeLabels
                             /\ uxPriority[u] >= uxPriority[xTasksWaitingToReceive[m][i]]
      BY <1>2, <2>1 DEF IInv, MutexWake
    <3>2. xTasksWaitingToReceive[m][i] \in Tasks
      BY Waiter
    <3>3. xMutexHolder'[m] = t
      BY <1>1, <1>5, <2>1 DEF TypeOK
    <3>4. QED
      BY <1>1, <1>4, <3>1, <3>2, <3>3 DEF TypeOK
  <2>2. CASE m # s
    <3>1. xMutexHolder'[m] = xMutexHolder[m]
      BY <1>1, <1>5, <1>6, <2>2 DEF TypeOK
    <3>2. QED
      BY <3>1 DEF IInv, HolderInherits
  <2>3. QED
    BY <2>1, <2>2
<1>17. PriorityReturned'
  BY <1>1, <1>2, <1>7 DEF IInv, PriorityReturned
<1>18. \A q \in Semaphores : count'[q] > 0 =>
         q # s /\ \A u \in Tasks : wanted[u] = q => u # t /\ wanted'[u] = q /\ pc'[u] = pc[u]
  BY <1>1, <1>2, <1>3 DEF TypeOK
<1>19. \A q \in Semaphores : count'[q] > 0 => count[q] > 0
  BY <1>1, <1>2 DEF TypeOK
<1>20. MutexWake'
  BY <1>2, <1>18, <1>19 DEF IInv, MutexWake, Semaphores
<1>21. NoLostWakeup'
  BY <1>2, <1>18, <1>19 DEF IInv, NoLostWakeup
<1>22. QED
  BY <1>10, <1>11, <1>12, <1>14, <1>15, <1>16, <1>17, <1>20, <1>21 DEF IInv

\* The tasks of a list are waiting ones.
LEMMA Listed ==
  ASSUME IInv, NEW s \in Semaphores
  PROVE  /\ xTasksWaitingToReceive[s] \in Seq(Tasks)
         /\ \A i \in DOMAIN xTasksWaitingToReceive[s] :
              /\ xTasksWaitingToReceive[s][i] \in Tasks
              /\ wanted[xTasksWaitingToReceive[s][i]] = s
              /\ pc[xTasksWaitingToReceive[s][i]] \in {"placed", "blocked"}
<1>1. xTasksWaitingToReceive[s] \in Seq(Tasks)
  BY DEF IInv, MutexAccounting, TypeOK
<1>2. QED
  BY <1>1 DEF IInv, ListsWaiting

LEMMA LockQueueKeepsIInv ==
  ASSUME IInv, NEW t \in Tasks, LockQueue(t)
  PROVE  IInv'
<1> DEFINE s == wanted[t]
<1> USE DEF priority_vars, TakeLabels, SuspendedLabels, AwakeLabels
<1>1. TypeOK
  BY DEF IInv, MutexAccounting
<1>2. /\ pc[t] = "lock" /\ pc' = [pc EXCEPT ![t] = "check"] /\ uxSchedulerSuspended' = t
      /\ cTxLock' = [cTxLock EXCEPT ![s] = 0]
      /\ UNCHANGED <<wanted, xTicksToWait, expired, xInheritanceOccurred, priority_vars, count,
                     xMutexHolder, xTasksWaitingToReceive, holds>>
  BY DEF LockQueue, Goto
<1>3. s \in Semaphores
  BY <1>2 DEF IInv, TakenInOrder, Calls
<1>4. /\ uxSchedulerSuspended = None /\ \A u \in Tasks : pc[u] \notin SuspendedLabels
      /\ \A q \in Semaphores : cTxLock[q] = -1
  BY <1>2, Running DEF LockQueue
<1>5. pc'[t] = "check" /\ \A u \in Tasks \ {t} : pc'[u] = pc[u]
  BY <1>1, <1>2 DEF TypeOK
<1>6. cTxLock'[s] = 0 /\ \A q \in Semaphores \ {s} : cTxLock'[q] = -1
  BY <1>1, <1>2, <1>3, <1>4 DEF TypeOK
<1>7. TypeOK'
  BY <1>1, <1>2 DEF TypeOK
<1>8. MutexAccounting'
  BY <1>2, <1>7 DEF IInv, MutexAccounting
<1>9. TakenInOrder'
  BY <1>2, <1>5 DEF IInv, TakenInOrder, Calls, MayTake
<1>10. QueueLocked'
  BY <1>2, <1>3, <1>4, <1>5, <1>6, NamesAssumption DEF QueueLocked
<1>11. ListsWaiting'
  <2>1. \A q \in Semaphores : \A i \in DOMAIN xTasksWaitingToReceive[q] :
          xTasksWaitingToReceive[q][i] \in Tasks /\ xTasksWaitingToReceive[q][i] # t
    BY <1>2, Listed
  <2>2. QED
    BY <1>2, <1>5, <2>1 DEF IInv, ListsWaiting
<1>12. MutexListsSorted' /\ HolderInherits' /\ PriorityReturned'
  BY <1>2 DEF IInv, MutexListsSorted, HolderInherits, PriorityReturned
<1>13. MutexWake'
  BY <1>2, <1>5 DEF IInv, MutexWake
<1>14. NoLostWakeup'
  BY <1>2, <1>4, <1>5 DEF IInv, NoLostWakeup
<1>15. QED
  BY <1>8, <1>9, <1>10, <1>11, <1>12, <1>13, <1>14 DEF IInv

\* The holder of a mutex keeps more of the priorities it had, and no task in a
\* list of a mutex is one.
LEMMA HolderIsNotListed ==
  ASSUME IInv, NEW h \in Tasks, holds[h] # {}, NEW m \in Mutexes, NEW i \in DOMAIN xTasksWaitingToReceive[m]
  PROVE  xTasksWaitingToReceive[m][i] # h
BY Waiter

\* A change of the priority of a task that holds a mutex leaves the order of the lists,
\* and the tasks that are awake for a mutex others wait for, as they are.
LEMMA PriorityOfHolder ==
  ASSUME IInv, NEW h \in Tasks, holds[h] # {}, NEW p \in Nat, uxPriority' = [uxPriority EXCEPT ![h] = p],
         UNCHANGED <<count, xTasksWaitingToReceive>>,
         \A u \in Tasks : \A m \in Mutexes :
           pc[u] \in AwakeLabels /\ wanted[u] = m /\ count[m] > 0 => pc'[u] \in AwakeLabels /\ wanted'[u] = m
  PROVE  MutexListsSorted' /\ MutexWake'
<1>1. \A u \in Tasks \ {h} : uxPriority'[u] = uxPriority[u]
  BY DEF IInv, MutexAccounting, TypeOK
<1>2. \A m \in Mutexes : \A i \in DOMAIN xTasksWaitingToReceive[m] :
        xTasksWaitingToReceive[m][i] \in Tasks \ {h}
  BY Waiter
<1>3. MutexListsSorted'
  BY <1>1, <1>2 DEF IInv, MutexListsSorted
<1>4. MutexWake'
  <2> SUFFICES ASSUME NEW m \in Mutexes, count[m] > 0, xTasksWaitingToReceive[m] # << >>
               PROVE  \E u \in Tasks : /\ wanted'[u] = m /\ pc'[u] \in AwakeLabels
                                       /\ \A i \in DOMAIN xTasksWaitingToReceive[m] :
                                            uxPriority'[u] >= uxPriority'[xTasksWaitingToReceive[m][i]]
    BY DEF MutexWake
  <2>1. PICK u \in Tasks : /\ wanted[u] = m /\ pc[u] \in AwakeLabels
                           /\ \A i \in DOMAIN xTasksWaitingToReceive[m] :
                                uxPriority[u] >= uxPriority[xTasksWaitingToReceive[m][i]]
    BY DEF IInv, MutexWake
  <2>2. m \notin DOMAIN OuterMutex
    BY DEF IInv, MutexListsSorted
  <2>3. holds[u] = {}
    BY <2>1, <2>2, NamesAssumption DEF IInv, TakenInOrder, Calls, MayTake, AwakeLabels, TakeLabels
  <2>4. uxPriority'[u] = uxPriority[u]
    BY <1>1, <2>3
  <2>5. QED
    BY <1>1, <1>2, <2>1, <2>4
<1>5. QED
  BY <1>3, <1>4

\* A list that loses an item keeps its other tasks, each once, and their order.
LEMMA Shortened ==
  ASSUME IInv, NEW s \in Semaphores, NEW k \in DOMAIN xTasksWaitingToReceive[s], NEW new,
         WithoutItem(new, xTasksWaitingToReceive[s], k),
         xTasksWaitingToReceive' = [xTasksWaitingToReceive EXCEPT ![s] = new]
  PROVE  /\ xTasksWaitingToReceive' \in [Semaphores -> Seq(Tasks)]
         /\ \A q \in Semaphores : \A i \in DOMAIN xTasksWaitingToReceive'[q] :
              /\ xTasksWaitingToReceive'[q][i] # xTasksWaitingToReceive[s][k]
              /\ \E j \in DOMAIN xTasksWaitingToReceive[q] :
                   xTasksWaitingToReceive'[q][i] = xTasksWaitingToReceive[q][j]
         /\ \A q \in Semaphores : \A i, j \in DOMAIN xTasksWaitingToReceive'[q] :
              xTasksWaitingToReceive'[q][i] = xTasksWaitingToReceive'[q][j] => i = j
         /\ \A m \in DOMAIN OuterMutex : xTasksWaitingToReceive'[m] = << >>
         /\ \A m \in Mutexes : \A i, j \in DOMAIN xTasksWaitingToReceive'[m] :
              i < j => uxPriority[xTasksWaitingToReceive'[m][i]] >= uxPriority[xTasksWaitingToReceive'[m][j]]
<1> DEFINE old == xTasksWaitingToReceive[s]
           From(i) == IF i < k THEN i ELSE i + 1
<1>1. xTasksWaitingToReceive \in [Semaphores -> Seq(Tasks)]
  BY DEF IInv, MutexAccounting, TypeOK
<1>2. /\ old \in Seq(Tasks) /\ Len(old) \in Nat /\ DOMAIN old = 1 .. Len(old)
      /\ new \in Seq(Tasks) /\ Len(new) = Len(old) - 1 /\ DOMAIN new = 1 .. Len(new)
      /\ \A i \in DOMAIN new : new[i] = old[From(i)]
  <2>1. old \in Seq(Tasks)
    BY <1>1
  <2>2. new \in Seq(Tasks) /\ Len(new) = Len(old) - 1 /\ \A i \in 1 .. Len(new) : new[i] = old[From(i)]
    BY DEF WithoutItem
  <2>3. QED
    BY <2>1, <2>2, SMTT(30)
<1>3. \A i \in DOMAIN new : From(i) \in DOMAIN old /\ From(i) # k
  BY <1>2
<1>4. \A i, j \in DOMAIN new : (From(i) = From(j) => i = j) /\ (i < j => From(i) < From(j))
  BY <1>2
<1>5. xTasksWaitingToReceive'[s] = new /\ \A q \in Semaphores \ {s} : xTasksWaitingToReceive'[q] = xTasksWaitingToReceive[q]
  BY <1>1
<1>6. \A i, j \in DOMAIN old : old[i] = old[j] => i = j
  BY DEF IInv, ListsWaiting
<1>7. xTasksWaitingToReceive' \in [Semaphores -> Seq(Tasks)]
  BY <1>1, <1>2
<1> HIDE DEF From
<1>8. ASSUME NEW q \in Semaphores, NEW i \in DOMAIN xTasksWaitingToReceive'[q]
      PROVE  /\ xTasksWaitingToReceive'[q][i] # old[k]
             /\ \E j \in DOMAIN xTasksWaitingToReceive[q] :
                  xTasksWaitingToReceive'[q][i] = xTasksWaitingToReceive[q][j]
  <2>1. CASE q = s
    BY <1>2, <1>3, <1>5, <1>6, <2>1
  <2>2. CASE q # s
    BY <1>5, <2>2, Listed
  <2>3. QED
    BY <2>1, <2>2
<1>9. ASSUME NEW q \in Semaphores, NEW i \in DOMAIN xTasksWaitingToReceive'[q],
             NEW j \in DOMAIN xTasksWaitingToReceive'[q],
             xTasksWaitingToReceive'[q][i] = xTasksWaitingToReceive'[q][j]
      PROVE  i = j
  <2>1. CASE q = s
    BY <1>2, <1>3, <1>4, <1>5, <1>6, <1>9, <2>1
  <2>2. CASE q # s
    BY <1>5, <1>9, <2>2 DEF IInv, ListsWaiting
  <2>3. QED
    BY <2>1, <2>2
<1>10. \A m \in DOMAIN OuterMutex : xTasksWaitingToReceive'[m] = << >>
  <2>1. s \notin DOMAIN OuterMutex
    BY DEF IInv, MutexListsSorted
  <2>2. QED
    BY <1>5, <2>1, OuterAssumption DEF IInv, MutexListsSorted, Semaphores
<1>11. ASSUME NEW m \in Mutexes, NEW i \in DOMAIN xTasksWaitingToReceive'[m],
              NEW j \in DOMAIN xTasksWaitingToReceive'[m], i < j
       PROVE  uxPriority[xTasksWaitingToReceive'[m][i]] >= uxPriority[xTasksWaitingToReceive'[m][j]]
  <2>1. CASE m = s
    <3>1. From(i) \in DOMAIN old /\ From(j) \in DOMAIN old /\ From(i) < From(j)
      BY <1>3, <1>4, <1>5, <1>11, <2>1
    <3>2. uxPriority[old[From(i)]] >= uxPriority[old[From(j)]]
      BY <2>1, <3>1 DEF IInv, MutexListsSorted
    <3>3. QED
      BY <1>2, <1>5, <2>1, <3>2
  <2>2. CASE m # s
    BY <1>5, <1>11, <2>2 DEF IInv, MutexListsSorted, Semaphores
  <2>3. QED
    BY <2>1, <2>2
<1>12. QED
  BY <1>7, <1>8, <1>9, <1>10, <1>11

\* The first task of a list is made ready.
LEMMA Woken ==
  ASSUME IInv, NEW s \in Semaphores, xTasksWaitingToReceive[s] # << >>
  PROVE  /\ WokenFrom(s) = { xTasksWaitingToReceive[s][1] }
         /\ 1 \in DOMAIN xTasksWaitingToReceive[s]
         /\ WithoutItem(Tail(xTasksWaitingToReceive[s]), xTasksWaitingToReceive[s], 1)
<1>1. xTasksWaitingToReceive[s] \in Seq(Tasks)
  BY Listed
<1>2. QED
  BY <1>1, TailItem DEF WokenFrom

LEMMA CheckEmptyKeepsIInv ==
  ASSUME IInv, NEW t \in Tasks, CheckEmpty(t)
  PROVE  IInv'
<1> DEFINE s == wanted[t]
           h == xMutexHolder[s]
<1> USE DEF TakeLabels, SuspendedLabels, AwakeLabels
<1>1. TypeOK
  BY DEF IInv, MutexAccounting
<1>2. /\ pc[t] = "check" /\ pc' = [pc EXCEPT ![t] = "place"] /\ count[s] = 0
      /\ UNCHANGED <<wanted, xTicksToWait, expired, uxMutexesHeld, count, xMutexHolder,
                     xTasksWaitingToReceive, cTxLock, uxSchedulerSuspended, holds>>
  BY DEF CheckEmpty, Goto, IsQueueEmpty, queue_vars
<1>3. s \in Semaphores
  BY <1>2 DEF IInv, TakenInOrder, Calls
<1>4. uxSchedulerSuspended = t
  BY <1>2 DEF IInv, QueueLocked
<1>5. pc'[t] = "place" /\ \A u \in Tasks \ {t} : pc'[u] = pc[u]
  BY <1>1, <1>2 DEF TypeOK
<1>6. s \in Mutexes => /\ h \in Tasks /\ s \in holds[h]
                       /\ uxPriority' = [uxPriority EXCEPT ![h] = Higher(@, uxPriority[t])]
                       /\ xInheritanceOccurred' =
                            [xInheritanceOccurred EXCEPT
                               ![t] = uxPriority[h] < uxPriority[t] \/ uxBasePriority[h] < uxPriority[t]]
  <2> SUFFICES ASSUME s \in Mutexes
               PROVE  h \in Tasks /\ s \in holds[h]
    BY DEF CheckEmpty, TaskPriorityInherit
  <2>1. h # None
    BY <1>2 DEF IInv, MutexAccounting
  <2>2. QED
    BY <1>1, <2>1 DEF TypeOK, IInv, MutexAccounting
<1>7. s \notin Mutexes => UNCHANGED <<uxPriority, xInheritanceOccurred>>
  BY DEF CheckEmpty
<1>8. uxPriority' \in [Tasks -> Nat] /\ \A u \in Tasks : uxPriority'[u] >= uxPriority[u]
  <2> uxPriority \in [Tasks -> Nat]
    BY <1>1 DEF TypeOK
  <2>1. CASE s \in Mutexes
    <3>1. Higher(uxPriority[h], uxPriority[t]) \in Nat /\ Higher(uxPriority[h], uxPriority[t]) >= uxPriority[h]
      BY <1>6, <2>1 DEF Higher
    <3>2. uxPriority' = [uxPriority EXCEPT ![h] = Higher(uxPriority[h], uxPriority[t])]
      BY <1>6, <2>1
    <3>3. uxPriority' \in [Tasks -> Nat]
      BY <3>1, <3>2
    <3>4. \A u \in Tasks : uxPriority'[u] = IF u = h THEN Higher(uxPriority[h], uxPriority[t]) ELSE uxPriority[u]
      BY <3>2
    <3>5. \A u \in Tasks : uxPriority[u] >= uxPriority[u]
      OBVIOUS
    <3>6. QED
      BY <3>1, <3>3, <3>4, <3>5
  <2>2. CASE s \notin Mutexes
    <3>1. uxPriority' = uxPriority
      BY <1>7, <2>2
    <3>2. QED
      BY <3>1
  <2>3. QED
    BY <2>1, <2>2
<1>9. \A u \in Tasks : holds[u] = {} => uxPriority'[u] = uxPriority[u]
  BY <1>1, <1>6, <1>7 DEF TypeOK
<1>10. /\ xInheritanceOccurred' \in [Tasks -> BOOLEAN]
       /\ \A u \in Tasks \ {t} : xInheritanceOccurred'[u] = xInheritanceOccurred[u]
       /\ xInheritanceOccurred'[t] => s \in Mutexes \/ xInheritanceOccurred[t]
  BY <1>1, <1>6, <1>7 DEF TypeOK
<1>11. TypeOK'
  BY <1>1, <1>2, <1>8, <1>10 DEF TypeOK
<1>12. MutexAccounting'
  BY <1>2, <1>11 DEF IInv, MutexAccounting
<1>13. TakenInOrder'
  BY <1>2, <1>5, <1>10 DEF IInv, TakenInOrder, Calls, MayTake
<1>14. QueueLocked'
  <2>1. \A u \in Tasks \ {t} : pc'[u] \notin SuspendedLabels
    BY <1>4, <1>5 DEF IInv, QueueLocked
  <2>2. s \in Mutexes => uxPriority'[h] >= uxPriority'[t]
    <3> SUFFICES ASSUME s \in Mutexes PROVE uxPriority'[h] >= uxPriority'[t]
      OBVIOUS
    <3>1. uxPriority \in [Tasks -> Nat] /\ h \in Tasks
      BY <1>1, <1>6 DEF TypeOK
    <3>2. /\ uxPriority'[h] = Higher(uxPriority[h], uxPriority[t])
          /\ t # h => uxPriority'[t] = uxPriority[t]
      BY <1>6, <3>1
    <3>3. Higher(uxPriority[h], uxPriority[t]) >= uxPriority[t] /\ uxPriority'[h] \in Nat
      BY <1>8, <3>1 DEF Higher
    <3>4. QED
      BY <3>2, <3>3
  <2>3. \A u \in Tasks : pc'[u] \in SuspendedLabels <=> uxSchedulerSuspended' = u
    BY <1>2, <1>4, <1>5, <2>1
  <2>4. \A u \in Tasks : pc'[u] = "place" \/ pc'[u] = "placed" => u = t
    BY <2>1
  <2>5. QED
    BY <1>2, <2>2, <2>3, <2>4 DEF IInv, QueueLocked
<1>15. ListsWaiting'
  <2>1. \A q \in Semaphores : \A i \in DOMAIN xTasksWaitingToReceive[q] :
          xTasksWaitingToReceive[q][i] \in Tasks /\ xTasksWaitingToReceive[q][i] # t
    BY <1>2, Listed
  <2>2. QED
    BY <1>2, <1>5, <2>1 DEF IInv, ListsWaiting
<1>16. \A u \in Tasks : \A m \in Semaphores :
         pc[u] \in AwakeLabels /\ wanted[u] = m /\ count[m] > 0 => pc'[u] \in AwakeLabels /\ wanted'[u] = m
  BY <1>2, <1>5
<1>17. MutexListsSorted' /\ MutexWake'
  <2>1. CASE s \in Mutexes
    <3>1. holds[h] # {} /\ Higher(uxPriority[h], uxPriority[t]) \in Nat
      BY <1>1, <1>6, <2>1 DEF TypeOK, Higher
    <3>2. QED
      BY <1>2, <1>6, <1>16, <2>1, <3>1, PriorityOfHolder DEF Semaphores
  <2>2. CASE s \notin Mutexes
    BY <1>2, <1>7, <1>16, <2>2 DEF IInv, MutexListsSorted, MutexWake, Semaphores
  <2>3. QED
    BY <2>1, <2>2
<1>18. HolderInherits'
  <2> SUFFICES ASSUME NEW m \in Mutexes, NEW i \in DOMAIN xTasksWaitingToReceive[m], xMutexHolder[m] # None
               PROVE  uxPriority'[xMutexHolder[m]] >= uxPriority'[xTasksWaitingToReceive[m][i]]
    BY <1>2 DEF HolderInherits
  <2>1. uxPriority[xMutexHolder[m]] >= uxPriority[xTasksWaitingToReceive[m][i]]
    BY DEF IInv, HolderInherits
  <2>2. xTasksWaitingToReceive[m][i] \in Tasks /\ holds[xTasksWaitingToReceive[m][i]] = {}
    BY Waiter
  <2>3. xMutexHolder[m] \in Tasks
    BY <1>1 DEF TypeOK
  <2>4. \A u \in Tasks : uxPriority[u] \in Nat /\ uxPriority'[u] \in Nat /\ uxPriority'[u] >= uxPriority[u]
    BY <1>1, <1>8 DEF TypeOK
  <2>5. uxPriority'[xTasksWaitingToReceive[m][i]] = uxPriority[xTasksWaitingToReceive[m][i]]
    BY <1>9, <2>2
  <2>6. QED
    BY <2>1, <2>2, <2>3, <2>4, <2>5
<1>19. PriorityReturned'
  <2>1. \A u \in Tasks : /\ uxBasePriority[u] \in Nat /\ uxPriority[u] \in Nat
                          /\ uxPriority'[u] \in Nat /\ uxPriority'[u] >= uxPriority[u]
    BY <1>1, <1>8, PriorityAssumption DEF TypeOK
  <2>2. \A u \in Tasks : uxPriority[u] >= uxBasePriority[u]
                          /\ (holds[u] = {} => uxPriority[u] = uxBasePriority[u])
    BY DEF IInv, PriorityReturned
  <2>3. QED
    BY <1>2, <1>9, <2>1, <2>2 DEF PriorityReturned
<1>20. NoLostWakeup'
  BY <1>2, <1>16 DEF IInv, NoLostWakeup
<1>21. QED
  BY <1>12, <1>13, <1>14, <1>15, <1>17, <1>18, <1>19, <1>20 DEF IInv

\* A list that gains a task where vListInsert puts it.
LEMMA Lengthened ==
  ASSUME IInv, NEW s \in Semaphores, NEW t \in Tasks, pc[t] \notin {"placed", "blocked"},
         xTasksWaitingToReceive' = [xTasksWaitingToReceive EXCEPT ![s] = Inserted(@, t)]
  PROVE  /\ xTasksWaitingToReceive' \in [Semaphores -> Seq(Tasks)]
         /\ \A q \in Semaphores : \A i \in DOMAIN xTasksWaitingToReceive'[q] :
              \/ q = s /\ xTasksWaitingToReceive'[q][i] = t
              \/ \E j \in DOMAIN xTasksWaitingToReceive[q] :
                   xTasksWaitingToReceive'[q][i] = xTasksWaitingToReceive[q][j]
         /\ \A q \in Semaphores : \A i, j \in DOMAIN xTasksWaitingToReceive'[q] :
              xTasksWaitingToReceive'[q][i] = xTasksWaitingToReceive'[q][j] => i = j
         /\ \A m \in Mutexes : \A i, j \in DOMAIN xTasksWaitingToReceive'[m] :
              i < j => uxPriority[xTasksWaitingToReceive'[m][i]] >= uxPriority[xTasksWaitingToReceive'[m][j]]
<1> DEFINE old == xTasksWaitingToReceive[s]
           new == Inserted(old, t)
<1>1. xTasksWaitingToReceive \in [Semaphores -> Seq(Tasks)] /\ uxPriority \in [Tasks -> Nat]
  BY DEF IInv, MutexAccounting, TypeOK
<1>2. PICK n \in 0 .. Len(old) :
        /\ \A i \in 1 .. n : uxPriority[old[i]] >= uxPriority[t]
        /\ n < Len(old) => uxPriority[old[n + 1]] < uxPriority[t]
        /\ WithItem(new, old, t, n)
  BY <1>1, InsertedPlace
<1> DEFINE From(i) == IF i <= n THEN i ELSE i - 1
<1>3. /\ old \in Seq(Tasks) /\ Len(old) \in Nat /\ DOMAIN old = 1 .. Len(old)
      /\ \A i \in DOMAIN old : old[i] \in Tasks
  BY <1>1
<1>4. /\ new \in Seq(Tasks) /\ Len(new) = Len(old) + 1 /\ DOMAIN new = 1 .. Len(new) /\ n + 1 \in DOMAIN new
      /\ \A i \in DOMAIN new : new[i] = IF i = n + 1 THEN t ELSE old[From(i)]
  <2>1. new \in Seq(Tasks) /\ Len(new) = Len(old) + 1
    BY <1>2 DEF WithItem
  <2>2. \A i \in 1 .. Len(new) : new[i] = IF i <= n THEN old[i] ELSE IF i = n + 1 THEN t ELSE old[i - 1]
    BY <1>2 DEF WithItem
  <2> HIDE DEF new
  <2>3. DOMAIN new = 1 .. Len(new) /\ n + 1 \in 1 .. Len(new)
    BY <1>3, <2>1
  <2>4. \A i \in 1 .. Len(new) : i <= n => i # n + 1
    BY <1>3, <2>1
  <2>5. QED
    BY <2>1, <2>2, <2>3, <2>4
<1>5. xTasksWaitingToReceive'[s] = new /\ \A q \in Semaphores \ {s} : xTasksWaitingToReceive'[q] = xTasksWaitingToReceive[q]
  BY <1>1
<1> HIDE DEF new
<1>6. \A i \in DOMAIN new \ {n + 1} : From(i) \in DOMAIN old
  BY <1>3, <1>4
<1>7. \A i, j \in DOMAIN new \ {n + 1} : (From(i) = From(j) => i = j) /\ (i < j => From(i) < From(j))
  BY <1>3, <1>4
<1>8. /\ \A i \in DOMAIN new : i < n + 1 => From(i) = i /\ i \in 1 .. n
      /\ \A i \in DOMAIN new : n + 1 < i => n < Len(old) /\ n + 1 <= From(i)
  BY <1>3, <1>4
<1> HIDE DEF From
<1>9. \A i, j \in DOMAIN old : old[i] = old[j] => i = j
  BY DEF IInv, ListsWaiting
<1>10. \A i \in DOMAIN old : old[i] # t
  BY Listed
<1>11. xTasksWaitingToReceive' \in [Semaphores -> Seq(Tasks)]
  BY <1>1, <1>4 DEF new
<1>12. ASSUME NEW q \in Semaphores, NEW i \in DOMAIN xTasksWaitingToReceive'[q]
       PROVE  \/ q = s /\ xTasksWaitingToReceive'[q][i] = t
              \/ \E j \in DOMAIN xTasksWaitingToReceive[q] :
                   xTasksWaitingToReceive'[q][i] = xTasksWaitingToReceive[q][j]
  BY <1>4, <1>5, <1>6
<1>13. ASSUME NEW q \in Semaphores, NEW i \in DOMAIN xTasksWaitingToReceive'[q],
              NEW j \in DOMAIN xTasksWaitingToReceive'[q],
              xTasksWaitingToReceive'[q][i] = xTasksWaitingToReceive'[q][j]
       PROVE  i = j
  <2>1. CASE q = s
    BY <1>4, <1>5, <1>6, <1>7, <1>9, <1>10, <1>13, <2>1, SMTT(30)
  <2>2. CASE q # s
    BY <1>5, <1>13, <2>2 DEF IInv, ListsWaiting
  <2>3. QED
    BY <2>1, <2>2
<1>14. ASSUME NEW m \in Mutexes, NEW i \in DOMAIN xTasksWaitingToReceive'[m],
              NEW j \in DOMAIN xTasksWaitingToReceive'[m], i < j
       PROVE  uxPriority[xTasksWaitingToReceive'[m][i]] >= uxPriority[xTasksWaitingToReceive'[m][j]]
  <2>1. CASE m = s
    <3>1. i \in DOMAIN new /\ j \in DOMAIN new
      BY <1>5, <2>1
    <3>2. \A a, b \in DOMAIN old : a < b => uxPriority[old[a]] >= uxPriority[old[b]]
      BY <2>1 DEF IInv, MutexListsSorted
    <3>3. uxPriority[new[i]] >= uxPriority[new[j]]
      <4>1. CASE i # n + 1 /\ j # n + 1
        BY <1>4, <1>6, <1>7, <1>14, <3>1, <3>2, <4>1
      <4>2. CASE j = n + 1
        <5>1. From(i) = i /\ i \in 1 .. n /\ i # n + 1
          BY <1>4, <1>8, <1>14, <3>1, <4>2
        <5>2. new[i] = old[i] /\ new[j] = t
          BY <1>4, <3>1, <4>2, <5>1
        <5>3. QED
          BY <1>2, <5>1, <5>2
      <4>3. CASE i = n + 1
        <5>1. n < Len(old) /\ n + 1 <= From(j) /\ j # n + 1
          BY <1>4, <1>8, <1>14, <3>1, <4>3
        <5>2. n + 1 \in DOMAIN old /\ From(j) \in DOMAIN old
          BY <1>3, <1>6, <3>1, <5>1
        <5>3. uxPriority[old[n + 1]] >= uxPriority[old[From(j)]]
          <6>1. CASE n + 1 = From(j)
            BY <1>1, <1>3, <5>2, <6>1
          <6>2. CASE n + 1 < From(j)
            BY <3>2, <5>2, <6>2
          <6>3. QED
            BY <1>3, <5>1, <5>2, <6>1, <6>2
        <5>4. new[i] = t /\ new[j] = old[From(j)]
          BY <1>4, <3>1, <4>3, <5>1
        <5>5. QED
          BY <1>1, <1>2, <1>3, <5>1, <5>2, <5>3, <5>4
      <4>4. QED
        BY <4>1, <4>2, <4>3
    <3>4. QED
      BY <1>5, <2>1, <3>3
  <2>2. CASE m # s
    BY <1>5, <1>14, <2>2 DEF IInv, MutexListsSorted, Semaphores
  <2>3. QED
    BY <2>1, <2>2
<1>15. QED
  BY <1>11, <1>12, <1>13, <1>14

LEMMA PlaceKeepsIInv ==
  ASSUME IInv, NEW t \in Tasks, PlaceOnEventList(t)
  PROVE  IInv'
<1> DEFINE s == wanted[t]
           h == xMutexHolder[s]
<1> USE DEF priority_vars, TakeLabels, SuspendedLabels, AwakeLabels
<1>1. TypeOK
  BY DEF IInv, MutexAccounting
<1>2. /\ pc[t] = "place" /\ pc' = [pc EXCEPT ![t] = "placed"]
      /\ xTasksWaitingToReceive' = [xTasksWaitingToReceive EXCEPT ![s] = Inserted(@, t)]
      /\ UNCHANGED <<wanted, xTicksToWait, expired, xInheritanceOccurred, priority_vars, count,
                     xMutexHolder, cTxLock, uxSchedulerSuspended, holds>>
  BY DEF PlaceOnEventList, Goto
<1>3. s \in Semaphores /\ MayTake(t, s)
  BY <1>2 DEF IInv, TakenInOrder, Calls
<1>4. uxSchedulerSuspended = t
  BY <1>2 DEF IInv, QueueLocked
<1>5. pc'[t] = "placed" /\ \A u \in Tasks \ {t} : pc'[u] = pc[u]
  BY <1>1, <1>2 DEF TypeOK
<1>6. count[s] > 0 => cTxLock[s] > 0 /\ s \notin Mutexes
  BY <1>2, <1>3, NamesAssumption DEF IInv, QueueLocked
<1>7. s \in Mutexes => h \in Tasks /\ s \in holds[h] /\ uxPriority[h] >= uxPriority[t]
  <2> SUFFICES ASSUME s \in Mutexes
               PROVE  h \in Tasks /\ s \in holds[h] /\ uxPriority[h] >= uxPriority[t]
    OBVIOUS
  <2>1. count[s] = 0
    BY <1>1, <1>3, <1>6 DEF TypeOK
  <2>2. h # None
    BY <2>1 DEF IInv, MutexAccounting
  <2>3. h \in Tasks /\ s \in holds[h]
    BY <1>1, <2>2 DEF TypeOK, IInv, MutexAccounting
  <2>4. QED
    BY <1>2, <2>3 DEF IInv, QueueLocked
\* The outer mutex keeps a second task away from the inner one.
<1>8. s \notin DOMAIN OuterMutex
  <2> SUFFICES ASSUME s \in DOMAIN OuterMutex PROVE FALSE
    OBVIOUS
  <2> DEFINE o == OuterMutex[s]
  <2>1. o \in Mutexes /\ o # s /\ s \in Mutexes
    BY OuterAssumption
  <2>2. holds[t] = {o}
    BY <1>3, <2>1, NamesAssumption DEF MayTake
  <2>3. o \in holds[h]
    BY <1>7, <2>1 DEF IInv, TakenInOrder
  <2>4. h = t
    BY <1>7, <2>1, <2>2, <2>3 DEF IInv, MutexAccounting
  <2>5. QED
    BY <1>7, <2>1, <2>2, <2>4
<1>9. /\ xTasksWaitingToReceive' \in [Semaphores -> Seq(Tasks)]
      /\ \A q \in Semaphores : \A i \in DOMAIN xTasksWaitingToReceive'[q] :
           \/ q = s /\ xTasksWaitingToReceive'[q][i] = t
           \/ \E j \in DOMAIN xTasksWaitingToReceive[q] :
                xTasksWaitingToReceive'[q][i] = xTasksWaitingToReceive[q][j]
      /\ \A q \in Semaphores : \A i, j \in DOMAIN xTasksWaitingToReceive'[q] :
           xTasksWaitingToReceive'[q][i] = xTasksWaitingToReceive'[q][j] => i = j
      /\ \A m \in Mutexes : \A i, j \in DOMAIN xTasksWaitingToReceive'[m] :
           i < j => uxPriority[xTasksWaitingToReceive'[m][i]] >= uxPriority[xTasksWaitingToReceive'[m][j]]
  BY <1>2, <1>3, Lengthened
<1>10. \A q \in Semaphores \ {s} : xTasksWaitingToReceive'[q] = xTasksWaitingToReceive[q]
  BY <1>1, <1>2 DEF TypeOK
<1>11. TypeOK'
  BY <1>1, <1>2, <1>9 DEF TypeOK
<1>12. MutexAccounting'
  BY <1>2, <1>11 DEF IInv, MutexAccounting
<1>13. TakenInOrder'
  BY <1>2, <1>5 DEF IInv, TakenInOrder, Calls, MayTake
<1>14. QueueLocked'
  <2>1. \A u \in Tasks \ {t} : pc'[u] \notin SuspendedLabels
    BY <1>4, <1>5 DEF IInv, QueueLocked
  <2>2. \A u \in Tasks : pc'[u] \in SuspendedLabels <=> uxSchedulerSuspended' = u
    BY <1>2, <1>4, <1>5, <2>1
  <2>3. \A u \in Tasks : pc'[u] # "place" /\ (pc'[u] = "placed" => u = t)
    BY <1>5, <2>1
  <2>4. QED
    BY <1>2, <1>6, <2>2, <2>3 DEF IInv, QueueLocked
<1>15. ListsWaiting'
  <2> SUFFICES ASSUME NEW q \in Semaphores, NEW i \in DOMAIN xTasksWaitingToReceive'[q]
               PROVE  /\ wanted[xTasksWaitingToReceive'[q][i]] = q
                      /\ pc'[xTasksWaitingToReceive'[q][i]] \in {"placed", "blocked"}
    BY <1>2, <1>9 DEF ListsWaiting
  <2>1. CASE q = s /\ xTasksWaitingToReceive'[q][i] = t
    BY <1>5, <2>1
  <2>2. CASE \E j \in DOMAIN xTasksWaitingToReceive[q] : xTasksWaitingToReceive'[q][i] = xTasksWaitingToReceive[q][j]
    BY <1>2, <1>5, <2>2, Listed
  <2>3. QED
    BY <1>9, <2>1, <2>2
<1>16. MutexListsSorted'
  <2>1. \A m \in DOMAIN OuterMutex : xTasksWaitingToReceive'[m] = << >>
    BY <1>8, <1>10, OuterAssumption DEF IInv, MutexListsSorted, Semaphores
  <2>2. QED
    BY <1>2, <1>9, <2>1 DEF MutexListsSorted
<1>17. HolderInherits'
  <2> SUFFICES ASSUME NEW m \in Mutexes, NEW i \in DOMAIN xTasksWaitingToReceive'[m], xMutexHolder[m] # None
               PROVE  uxPriority[xMutexHolder[m]] >= uxPriority[xTasksWaitingToReceive'[m][i]]
    BY <1>2 DEF HolderInherits
  <2>1. CASE m = s /\ xTasksWaitingToReceive'[m][i] = t
    BY <1>7, <2>1
  <2>2. CASE \E j \in DOMAIN xTasksWaitingToReceive[m] : xTasksWaitingToReceive'[m][i] = xTasksWaitingToReceive[m][j]
    BY <2>2 DEF IInv, HolderInherits
  <2>3. QED
    BY <1>9, <2>1, <2>2 DEF Semaphores
<1>18. PriorityReturned'
  BY <1>2 DEF IInv, PriorityReturned
<1>19. \A u \in Tasks : \A q \in Semaphores :
         wanted[u] = q /\ pc[u] \in AwakeLabels => wanted'[u] = q /\ pc'[u] \in AwakeLabels
  BY <1>2, <1>5
<1>20. MutexWake'
  <2> SUFFICES ASSUME NEW m \in Mutexes, count[m] > 0, xTasksWaitingToReceive'[m] # << >>
               PROVE  \E u \in Tasks : /\ wanted'[u] = m /\ pc'[u] \in AwakeLabels
                                       /\ \A i \in DOMAIN xTasksWaitingToReceive'[m] :
                                            uxPriority[u] >= uxPriority[xTasksWaitingToReceive'[m][i]]
    BY <1>2 DEF MutexWake
  <2>1. m # s
    BY <1>6
  <2>2. QED
    BY <1>10, <1>19, <2>1 DEF IInv, MutexWake, Semaphores
<1>21. NoLostWakeup'
  <2> SUFFICES ASSUME NEW q \in Semaphores, count[q] > 0, xTasksWaitingToReceive'[q] # << >>, ~ (cTxLock[q] > 0)
               PROVE  \E u \in Tasks : wanted'[u] = q /\ pc'[u] \in AwakeLabels
    BY <1>2 DEF NoLostWakeup
  <2>1. q # s
    BY <1>6
  <2>2. QED
    BY <1>10, <1>19, <2>1 DEF IInv, NoLostWakeup
<1>22. QED
  BY <1>12, <1>13, <1>14, <1>15, <1>16, <1>17, <1>18, <1>20, <1>21 DEF IInv

\* What a wake-up by a give leaves of a list: nothing is added, and the order stays.
\* If a task is woken it was the first of the list, and is in it no more.
WakesFrom(s, woken) ==
  \/ woken = {} /\ xTasksWaitingToReceive' = xTasksWaitingToReceive
  \/ /\ xTasksWaitingToReceive[s] # << >>
     /\ woken = { xTasksWaitingToReceive[s][1] }
     /\ xTasksWaitingToReceive' = [xTasksWaitingToReceive EXCEPT ![s] = Tail(@)]

LEMMA ListsAfterWake ==
  ASSUME IInv, NEW s \in Semaphores, NEW woken, WakesFrom(s, woken)
  PROVE  /\ woken \subseteq Tasks
         /\ \A u \in woken : wanted[u] = s /\ pc[u] \in {"placed", "blocked"}
         /\ xTasksWaitingToReceive' \in [Semaphores -> Seq(Tasks)]
         /\ \A q \in Semaphores : \A i \in DOMAIN xTasksWaitingToReceive'[q] :
              /\ xTasksWaitingToReceive'[q][i] \in Tasks \ woken
              /\ \E j \in DOMAIN xTasksWaitingToReceive[q] :
                   xTasksWaitingToReceive'[q][i] = xTasksWaitingToReceive[q][j]
         /\ \A q \in Semaphores : \A i, j \in DOMAIN xTasksWaitingToReceive'[q] :
              xTasksWaitingToReceive'[q][i] = xTasksWaitingToReceive'[q][j] => i = j
         /\ \A m \in DOMAIN OuterMutex : xTasksWaitingToReceive'[m] = << >>
         /\ \A m \in Mutexes : \A i, j \in DOMAIN xTasksWaitingToReceive'[m] :
              i < j => uxPriority[xTasksWaitingToReceive'[m][i]] >= uxPriority[xTasksWaitingToReceive'[m][j]]
         /\ \A q \in Semaphores \ {s} : xTasksWaitingToReceive'[q] = xTasksWaitingToReceive[q]
         /\ \A q \in Semaphores : xTasksWaitingToReceive[q] = << >> => xTasksWaitingToReceive'[q] = << >>
<1>1. xTasksWaitingToReceive \in [Semaphores -> Seq(Tasks)]
  BY DEF IInv, MutexAccounting, TypeOK
<1>2. CASE woken = {} /\ xTasksWaitingToReceive' = xTasksWaitingToReceive
  BY <1>1, <1>2, Listed DEF IInv, ListsWaiting, MutexListsSorted
<1>3. CASE /\ xTasksWaitingToReceive[s] # << >>
           /\ woken = { xTasksWaitingToReceive[s][1] }
           /\ xTasksWaitingToReceive' = [xTasksWaitingToReceive EXCEPT ![s] = Tail(@)]
  <2>1. /\ 1 \in DOMAIN xTasksWaitingToReceive[s]
        /\ WithoutItem(Tail(xTasksWaitingToReceive[s]), xTasksWaitingToReceive[s], 1)
    BY <1>3, Woken
  <2>2. /\ xTasksWaitingToReceive' \in [Semaphores -> Seq(Tasks)]
        /\ \A q \in Semaphores : \A i \in DOMAIN xTasksWaitingToReceive'[q] :
             /\ xTasksWaitingToReceive'[q][i] # xTasksWaitingToReceive[s][1]
             /\ \E j \in DOMAIN xTasksWaitingToReceive[q] :
                  xTasksWaitingToReceive'[q][i] = xTasksWaitingToReceive[q][j]
        /\ \A q \in Semaphores : \A i, j \in DOMAIN xTasksWaitingToReceive'[q] :
             xTasksWaitingToReceive'[q][i] = xTasksWaitingToReceive'[q][j] => i = j
        /\ \A m \in DOMAIN OuterMutex : xTasksWaitingToReceive'[m] = << >>
        /\ \A m \in Mutexes : \A i, j \in DOMAIN xTasksWaitingToReceive'[m] :
             i < j => uxPriority[xTasksWaitingToReceive'[m][i]] >= uxPriority[xTasksWaitingToReceive'[m][j]]
    BY <1>3, <2>1, Shortened
  <2>3. \A q \in Semaphores : \A i \in DOMAIN xTasksWaitingToReceive'[q] : xTasksWaitingToReceive'[q][i] \in Tasks
    BY <2>2, Listed
  <2>4. \A q \in Semaphores \ {s} : xTasksWaitingToReceive'[q] = xTasksWaitingToReceive[q]
    BY <1>1, <1>3
  <2>5. woken \subseteq Tasks /\ \A u \in woken : wanted[u] = s /\ pc[u] \in {"placed", "blocked"}
    BY <1>3, <2>1, Listed
  <2>6. QED
    BY <1>3, <2>2, <2>3, <2>4, <2>5
<1>4. QED
  BY <1>2, <1>3 DEF WakesFrom

LEMMA UnlockKeepsIInv ==
  ASSUME IInv, NEW t \in Tasks, UnlockQueue(t)
  PROVE  IInv'
<1> DEFINE s == wanted[t]
           woken == WokenByUnlock(t)
           next == IF pc[t] = "placed" THEN "blocked" ELSE IF expired[t] THEN "timed_out" ELSE "take"
<1> USE DEF priority_vars, TakeLabels, SuspendedLabels, AwakeLabels
<1>1. TypeOK
  BY DEF IInv, MutexAccounting
<1>2. /\ pc[t] \in {"unlock", "placed"}
      /\ pc' = [u \in Tasks |-> IF u \in woken THEN "take" ELSE IF u = t THEN next ELSE pc[u]]
      /\ xTasksWaitingToReceive' =
              [xTasksWaitingToReceive EXCEPT ![s] = IF woken = {} THEN @ ELSE Tail(@)]
      /\ cTxLock' = [cTxLock EXCEPT ![s] = -1] /\ uxSchedulerSuspended' = None
      /\ UNCHANGED <<wanted, xTicksToWait, expired, xInheritanceOccurred, priority_vars, count,
                     xMutexHolder, holds>>
  BY DEF UnlockQueue
<1>3. s \in Semaphores /\ MayTake(t, s)
  BY <1>2 DEF IInv, TakenInOrder, Calls
<1>4. uxSchedulerSuspended = t
  BY <1>2 DEF IInv, QueueLocked
<1>5. WakesFrom(s, woken)
  <2>1. CASE cTxLock[s] > 0 /\ xTasksWaitingToReceive[s] # << >>
    <3>1. woken = { xTasksWaitingToReceive[s][1] }
      BY <1>3, <2>1, Woken DEF WokenByUnlock
    <3>2. QED
      BY <1>2, <2>1, <3>1 DEF WakesFrom
  <2>2. CASE ~ (cTxLock[s] > 0) \/ xTasksWaitingToReceive[s] = << >>
    <3>1. woken = {}
      BY <2>2 DEF WokenByUnlock, WokenFrom
    <3>2. xTasksWaitingToReceive' = xTasksWaitingToReceive
      BY <1>1, <1>2, <3>1 DEF TypeOK
    <3>3. QED
      BY <3>1, <3>2 DEF WakesFrom
  <2>3. QED
    BY <2>1, <2>2
<1>6. woken # {} => cTxLock[s] > 0 /\ s \notin Mutexes
  <2>1. woken # {} => cTxLock[s] > 0
    BY DEF WokenByUnlock
  <2>2. QED
    BY <1>3, <2>1, NamesAssumption DEF IInv, QueueLocked
<1>7. cTxLock[s] > 0 => woken # {} \/ xTasksWaitingToReceive[s] = << >>
  BY DEF WokenByUnlock, WokenFrom
<1> HIDE DEF woken
<1>8. /\ woken \subseteq Tasks
      /\ \A u \in woken : wanted[u] = s /\ pc[u] \in {"placed", "blocked"}
      /\ xTasksWaitingToReceive' \in [Semaphores -> Seq(Tasks)]
      /\ \A q \in Semaphores : \A i \in DOMAIN xTasksWaitingToReceive'[q] :
           /\ xTasksWaitingToReceive'[q][i] \in Tasks \ woken
           /\ \E j \in DOMAIN xTasksWaitingToReceive[q] :
                xTasksWaitingToReceive'[q][i] = xTasksWaitingToReceive[q][j]
      /\ \A q \in Semaphores : \A i, j \in DOMAIN xTasksWaitingToReceive'[q] :
           xTasksWaitingToReceive'[q][i] = xTasksWaitingToReceive'[q][j] => i = j
      /\ \A m \in DOMAIN OuterMutex : xTasksWaitingToReceive'[m] = << >>
      /\ \A m \in Mutexes : \A i, j \in DOMAIN xTasksWaitingToReceive'[m] :
           i < j => uxPriority[xTasksWaitingToReceive'[m][i]] >= uxPriority[xTasksWaitingToReceive'[m][j]]
      /\ \A q \in Semaphores \ {s} : xTasksWaitingToReceive'[q] = xTasksWaitingToReceive[q]
      /\ \A q \in Semaphores : xTasksWaitingToReceive[q] = << >> => xTasksWaitingToReceive'[q] = << >>
  BY <1>3, <1>5, ListsAfterWake
<1>9. \A u \in Tasks : pc'[u] = IF u \in woken THEN "take" ELSE IF u = t THEN next ELSE pc[u]
  BY <1>2
<1>10. next \in {"blocked", "timed_out", "take"} /\ (pc[t] = "placed" <=> next = "blocked")
  BY <1>2
<1> HIDE DEF next
<1>11. \A q \in Semaphores : cTxLock'[q] = -1
  BY <1>1, <1>2, <1>3, <1>4 DEF IInv, QueueLocked, TypeOK
<1>12. \A u \in Tasks \ {t} : pc[u] \notin SuspendedLabels
  BY <1>4 DEF IInv, QueueLocked
<1>13. TypeOK'
  <2>1. \A u \in Tasks : pc'[u] \in TakeLabels \cup {"run", "delayed"}
    BY <1>1, <1>9, <1>10 DEF TypeOK
  <2>2. pc' \in [Tasks -> TakeLabels \cup {"run", "delayed"}]
    BY <1>2, <2>1
  <2>3. cTxLock' \in [Semaphores -> {-1, 0, 1}]
    BY <1>1, <1>2 DEF TypeOK
  <2>4. QED
    BY <1>1, <1>2, <1>8, <2>2, <2>3 DEF TypeOK
<1>14. MutexAccounting'
  BY <1>2, <1>13 DEF IInv, MutexAccounting
<1>15. TakenInOrder'
  <2>1. \A u \in Tasks : pc'[u] \in TakeLabels => pc[u] \in TakeLabels
    BY <1>2, <1>8, <1>9
  <2>2. \A u \in Tasks : pc'[u] = "disinherit" => pc[u] = "disinherit"
    BY <1>9, <1>10
  <2>3. \A u \in Tasks : pc[u] \in TakeLabels => pc'[u] \in TakeLabels
    BY <1>2, <1>8, <1>9, <1>10
  <2>4. QED
    BY <1>2, <2>1, <2>2, <2>3 DEF IInv, TakenInOrder, Calls, MayTake
<1>16. QueueLocked'
  <2>1. \A u \in Tasks : pc'[u] \notin SuspendedLabels
    BY <1>9, <1>10, <1>12
  <2>2. QED
    BY <1>2, <1>11, <2>1, NamesAssumption DEF QueueLocked
<1>17. ListsWaiting'
  <2> SUFFICES ASSUME NEW q \in Semaphores, NEW i \in DOMAIN xTasksWaitingToReceive'[q]
               PROVE  /\ wanted[xTasksWaitingToReceive'[q][i]] = q
                      /\ pc'[xTasksWaitingToReceive'[q][i]] \in {"placed", "blocked"}
    <3>1. \A q \in Semaphores : \A i, j \in DOMAIN xTasksWaitingToReceive'[q] :
            xTasksWaitingToReceive'[q][i] = xTasksWaitingToReceive'[q][j] => i = j
      BY <1>8
    <3>2. wanted' = wanted
      BY <1>2
    <3>3. QED
      BY <3>1, <3>2 DEF ListsWaiting
  <2> DEFINE u == xTasksWaitingToReceive'[q][i]
  <2>1. u \in Tasks \ woken /\ wanted[u] = q /\ pc[u] \in {"placed", "blocked"}
    BY <1>8, Listed
  <2>2. u = t => pc'[u] = "blocked"
    BY <1>2, <1>9, <1>10, <2>1
  <2>3. QED
    BY <1>9, <2>1, <2>2
<1>18. MutexListsSorted'
  BY <1>2, <1>8 DEF MutexListsSorted
<1>19. HolderInherits'
  BY <1>2, <1>8 DEF IInv, HolderInherits, Semaphores
<1>20. PriorityReturned'
  BY <1>2 DEF IInv, PriorityReturned
<1>21. \A u \in Tasks : \A q \in Semaphores :
         wanted[u] = q /\ pc[u] \in AwakeLabels => wanted'[u] = q /\ pc'[u] \in AwakeLabels
  BY <1>2, <1>9, <1>10
<1>22. MutexWake'
  <2>1. \A m \in Mutexes : xTasksWaitingToReceive'[m] = xTasksWaitingToReceive[m]
    BY <1>2, <1>6, <1>8, <1>1 DEF Semaphores, TypeOK
  <2>2. QED
    BY <1>2, <1>21, <2>1 DEF IInv, MutexWake, Semaphores
<1>23. NoLostWakeup'
  <2> SUFFICES ASSUME NEW q \in Semaphores, count[q] > 0, xTasksWaitingToReceive'[q] # << >>
               PROVE  \E u \in Tasks : wanted'[u] = q /\ pc'[u] \in AwakeLabels
    BY <1>2 DEF NoLostWakeup
  <2>1. xTasksWaitingToReceive[q] # << >>
    BY <1>8
  <2>2. CASE cTxLock[q] > 0
    <3>1. q = s
      BY <1>4, <2>2 DEF IInv, QueueLocked
    <3>2. PICK u : u \in woken
      BY <1>7, <2>1, <2>2, <3>1
    <3>3. QED
      BY <1>2, <1>8, <1>9, <3>1, <3>2
  <2>3. CASE ~ (cTxLock[q] > 0)
    BY <1>21, <2>1, <2>3 DEF IInv, NoLostWakeup
  <2>4. QED
    BY <2>2, <2>3
<1>24. QED
  BY <1>14, <1>15, <1>16, <1>17, <1>18, <1>19, <1>20, <1>22, <1>23 DEF IInv

\* The priority of the holder falls no lower than that of the tasks still waiting for
\* the only mutex it has.
LEMMA DisinheritKeepsIInv ==
  ASSUME IInv, NEW t \in Tasks, DisinheritAfterTimeout(t)
  PROVE  IInv'
<1> DEFINE s == wanted[t]
           h == xMutexHolder[s]
<1> USE DEF TakeLabels, SuspendedLabels, AwakeLabels
<1>1. TypeOK
  BY DEF IInv, MutexAccounting
<1>2. /\ pc[t] = "disinherit" /\ pc' = [pc EXCEPT ![t] = "run"]
      /\ wanted' = [wanted EXCEPT ![t] = None]
      /\ xTicksToWait' = [xTicksToWait EXCEPT ![t] = "zero"]
      /\ expired' = [expired EXCEPT ![t] = FALSE]
      /\ xInheritanceOccurred' = [xInheritanceOccurred EXCEPT ![t] = FALSE]
      /\ UNCHANGED <<uxMutexesHeld, count, xMutexHolder, xTasksWaitingToReceive, cTxLock,
                     uxSchedulerSuspended, holds>>
  BY DEF DisinheritAfterTimeout, Return, Goto, queue_vars
<1>3. s \in Mutexes
  BY <1>2 DEF IInv, TakenInOrder
<1>4. CASE h = None
  <2>1. uxPriority' = uxPriority
    BY <1>4 DEF DisinheritAfterTimeout
  <2>2. /\ wanted' \in [Tasks -> Semaphores \cup {None}] /\ \A u \in Tasks \ {t} : wanted'[u] = wanted[u]
        /\ xTicksToWait' \in [Tasks -> {"zero", "some", "max"}] /\ expired' \in [Tasks -> BOOLEAN]
        /\ xInheritanceOccurred' \in [Tasks -> BOOLEAN] /\ ~ xInheritanceOccurred'[t]
        /\ \A u \in Tasks \ {t} : xInheritanceOccurred'[u] = xInheritanceOccurred[u]
    BY <1>1, <1>2 DEF TypeOK
  <2>3. QED
    BY <1>2, <2>1, <2>2, LocalStepKeepsIInv DEF priority_vars, queue_vars
<1>5. CASE h # None
  <2> DEFINE p == PriorityAfterTimeout(s)
  <2>1. /\ h \in Tasks /\ s \in holds[h] /\ uxPriority' = [uxPriority EXCEPT ![h] = p]
        /\ h # t /\ s \in Semaphores
    <3>1. h \in Tasks /\ s \in holds[h]
      BY <1>1, <1>3, <1>5 DEF TypeOK, IInv, MutexAccounting
    <3>2. MayTake(t, s)
      BY <1>2 DEF IInv, TakenInOrder, Calls
    <3>3. s \notin holds[t]
      BY <1>3, <3>2, NamesAssumption, OuterAssumption DEF MayTake
    <3>4. QED
      BY <1>3, <1>5, <3>1, <3>3 DEF DisinheritAfterTimeout, Semaphores
  <2>2. p = IF uxMutexesHeld[h] = 1 THEN Higher(uxBasePriority[h], HighestWaitingPriority(s)) ELSE uxPriority[h]
    BY DEF PriorityAfterTimeout
  <2>3. /\ HighestWaitingPriority(s) \in Nat
        /\ \A i \in DOMAIN xTasksWaitingToReceive[s] :
             HighestWaitingPriority(s) >= uxPriority[xTasksWaitingToReceive[s][i]]
    <3>1. CASE xTasksWaitingToReceive[s] = << >>
      BY <3>1 DEF HighestWaitingPriority
    <3>2. CASE xTasksWaitingToReceive[s] # << >>
      <4> DEFINE l == xTasksWaitingToReceive[s]
      <4>1. l \in Seq(Tasks) /\ Head(l) = l[1] /\ 1 \in DOMAIN l /\ DOMAIN l = 1 .. Len(l) /\ Len(l) \in Nat
        BY <2>1, <3>2, Listed, TailItem
      <4>2. \A i \in DOMAIN l : l[i] \in Tasks
        BY <2>1, Listed
      <4>3. HighestWaitingPriority(s) = uxPriority[l[1]]
        BY <3>2, <4>1 DEF HighestWaitingPriority
      <4>4. uxPriority \in [Tasks -> Nat]
        BY <1>1 DEF TypeOK
      <4>5. \A i \in DOMAIN l : i = 1 \/ 1 < i
        BY <4>1
      <4>6. \A i \in DOMAIN l : 1 < i => uxPriority[l[1]] >= uxPriority[l[i]]
        BY <1>3, <4>1 DEF IInv, MutexListsSorted
      <4> HIDE DEF l
      <4>7. ASSUME NEW i \in DOMAIN l
            PROVE  uxPriority[l[1]] >= uxPriority[l[i]]
        BY <4>1, <4>2, <4>4, <4>5, <4>6
      <4>8. uxPriority[l[1]] \in Nat
        BY <4>1, <4>2, <4>4
      <4>9. QED
        BY <4>3, <4>7, <4>8 DEF l
    <3>3. QED
      BY <3>1, <3>2
  <2>4. p \in Nat /\ p >= uxBasePriority[h] /\ uxBasePriority[h] \in Nat
    <3>1. /\ uxPriority[h] \in Nat /\ uxPriority[h] >= uxBasePriority[h] /\ uxBasePriority[h] \in Nat
      BY <1>1, <2>1, PriorityAssumption DEF TypeOK, IInv, PriorityReturned
    <3>2. /\ Higher(uxBasePriority[h], HighestWaitingPriority(s)) \in Nat
          /\ Higher(uxBasePriority[h], HighestWaitingPriority(s)) >= uxBasePriority[h]
      BY <2>3, <3>1 DEF Higher
    <3>3. QED
      BY <2>2, <3>1, <3>2
  \* The only mutex of a task that has one.
  <2>5. uxMutexesHeld[h] = 1 => \A m \in Mutexes : m \in holds[h] => m = s
    <3> SUFFICES ASSUME uxMutexesHeld[h] = 1, NEW m \in Mutexes, m \in holds[h] PROVE m = s
      OBVIOUS
    <3>1. IsFiniteSet(holds[h]) /\ Cardinality(holds[h]) = 1
      BY <2>1 DEF IInv, MutexAccounting, TakenInOrder
    <3>2. PICK x : holds[h] = {x}
      BY <3>1, FS_Singleton
    <3>3. QED
      BY <2>1, <3>2
  <2>6. \A m \in Mutexes : \A i \in DOMAIN xTasksWaitingToReceive[m] :
          xMutexHolder[m] = h => p >= uxPriority[xTasksWaitingToReceive[m][i]]
    <3> SUFFICES ASSUME NEW m \in Mutexes, NEW i \in DOMAIN xTasksWaitingToReceive[m], xMutexHolder[m] = h
                 PROVE  p >= uxPriority[xTasksWaitingToReceive[m][i]]
      OBVIOUS
    <3> DEFINE q == uxPriority[xTasksWaitingToReceive[m][i]]
    <3>1. xTasksWaitingToReceive[m][i] \in Tasks
      BY Waiter
    <3>2. q \in Nat
      BY <1>1, <3>1 DEF TypeOK
    <3>3. CASE uxMutexesHeld[h] = 1
      <4>1. m = s
        BY <2>1, <2>5, <3>3 DEF IInv, MutexAccounting
      <4>2. HighestWaitingPriority(s) >= q /\ HighestWaitingPriority(s) \in Nat
        BY <2>3, <4>1
      <4> HIDE DEF q
      <4>3. Higher(uxBasePriority[h], HighestWaitingPriority(s)) >= q
        BY <2>4, <3>2, <4>2 DEF Higher
      <4>4. p >= q
        BY <2>2, <3>3, <4>3
      <4>5. QED
        BY <4>4 DEF q
    <3>4. CASE uxMutexesHeld[h] # 1
      BY <1>5, <2>1, <2>2, <3>4 DEF IInv, HolderInherits
    <3>5. QED
      BY <3>3, <3>4
  <2> HIDE DEF p
  <2>7. uxPriority' \in [Tasks -> Nat] /\ uxPriority'[h] = p /\ \A u \in Tasks \ {h} : uxPriority'[u] = uxPriority[u]
    BY <1>1, <2>1, <2>4 DEF TypeOK
  <2>8. pc'[t] = "run" /\ \A u \in Tasks \ {t} : pc'[u] = pc[u] /\ wanted'[u] = wanted[u]
    BY <1>1, <1>2 DEF TypeOK
  <2>9. TypeOK'
    BY <1>1, <1>2, <2>7 DEF TypeOK
  <2>10. MutexAccounting'
    BY <1>2, <2>9 DEF IInv, MutexAccounting
  <2>11. TakenInOrder'
    <3>1. ~ xInheritanceOccurred'[t] /\ \A u \in Tasks \ {t} : xInheritanceOccurred'[u] = xInheritanceOccurred[u]
      BY <1>1, <1>2 DEF TypeOK
    <3>2. QED
      BY <1>2, <2>8, <3>1 DEF IInv, TakenInOrder, Calls, MayTake
  <2>12. QueueLocked'
    <3>1. uxSchedulerSuspended = None /\ \A u \in Tasks : pc[u] \notin SuspendedLabels
      BY <1>2, Running DEF DisinheritAfterTimeout
    <3>2. \A u \in Tasks : pc'[u] \notin SuspendedLabels
      BY <2>8, <3>1
    <3>3. QED
      BY <1>2, <3>1, <3>2, NamesAssumption DEF IInv, QueueLocked
  <2>13. ListsWaiting'
    <3>1. \A q \in Semaphores : \A i \in DOMAIN xTasksWaitingToReceive[q] :
            xTasksWaitingToReceive[q][i] \in Tasks /\ xTasksWaitingToReceive[q][i] # t
      BY <1>2, Listed
    <3>2. QED
      BY <1>2, <2>8, <3>1 DEF IInv, ListsWaiting
  <2>14. \A u \in Tasks : \A m \in Semaphores :
           pc[u] \in AwakeLabels /\ wanted[u] = m => pc'[u] \in AwakeLabels /\ wanted'[u] = m
    BY <1>2, <2>8
  <2>15. MutexListsSorted' /\ MutexWake'
    <3>1. h \in Tasks /\ holds[h] # {} /\ p \in Nat /\ uxPriority' = [uxPriority EXCEPT ![h] = p]
      BY <2>1, <2>4
    <3>2. UNCHANGED <<count, xTasksWaitingToReceive>>
      BY <1>2
    <3>3. \A u \in Tasks : \A m \in Mutexes :
            pc[u] \in AwakeLabels /\ wanted[u] = m /\ count[m] > 0 => pc'[u] \in AwakeLabels /\ wanted'[u] = m
      BY <2>14 DEF Semaphores
    <3> HIDE DEF h
    <3>4. QED
      BY <3>1, <3>2, <3>3, PriorityOfHolder
  <2>16. HolderInherits'
    <3> SUFFICES ASSUME NEW m \in Mutexes, NEW i \in DOMAIN xTasksWaitingToReceive[m], xMutexHolder[m] # None
                 PROVE  uxPriority'[xMutexHolder[m]] >= uxPriority'[xTasksWaitingToReceive[m][i]]
      BY <1>2 DEF HolderInherits
    <3>1. xTasksWaitingToReceive[m][i] \in Tasks \ {h}
      BY <2>1, Waiter
    <3>2. CASE xMutexHolder[m] = h
      BY <2>6, <2>7, <3>1, <3>2
    <3>3. CASE xMutexHolder[m] # h
      <4>1. xMutexHolder[m] \in Tasks \ {h}
        BY <1>1, <3>3 DEF TypeOK
      <4>2. QED
        BY <2>7, <3>1, <4>1 DEF IInv, HolderInherits
    <3>4. QED
      BY <3>2, <3>3
  <2>17. PriorityReturned'
    BY <1>2, <2>1, <2>4, <2>7 DEF IInv, PriorityReturned
  <2>18. NoLostWakeup'
    BY <1>2, <2>14 DEF IInv, NoLostWakeup
  <2>19. QED
    BY <2>10, <2>11, <2>12, <2>13, <2>15, <2>16, <2>17, <2>18 DEF IInv
<1>6. QED
  BY <1>4, <1>5

\* A give that may wake a task: what it does to tasks and lists, and to the calls
\* of the tasks that are awake.
LEMMA GiveWakes ==
  ASSUME IInv, NEW s \in Semaphores, cTxLock[s] = -1, WakeFirst(s), UNCHANGED wanted
  PROVE  /\ WakesFrom(s, WokenFrom(s))
         /\ WokenFrom(s) = {} <=> xTasksWaitingToReceive[s] = << >>
         /\ pc' \in [Tasks -> TakeLabels \cup {"run", "delayed"}]
         /\ \A u \in Tasks : pc'[u] = IF u \in WokenFrom(s) THEN "take" ELSE pc[u]
         /\ \A u \in WokenFrom(s) : u \in Tasks /\ pc[u] = "blocked" /\ wanted[u] = s
         /\ ListsWaiting'
<1>1. TypeOK
  BY DEF IInv, MutexAccounting
<1>2. WakesFrom(s, WokenFrom(s)) /\ (WokenFrom(s) = {} <=> xTasksWaitingToReceive[s] = << >>)
  <2>1. CASE xTasksWaitingToReceive[s] = << >>
    <3>1. WokenFrom(s) = {}
      BY <2>1 DEF WokenFrom
    <3>2. xTasksWaitingToReceive' = xTasksWaitingToReceive
      BY <1>1, <2>1 DEF WakeFirst, TypeOK
    <3>3. QED
      BY <2>1, <3>1, <3>2 DEF WakesFrom
  <2>2. CASE xTasksWaitingToReceive[s] # << >>
    <3>1. WokenFrom(s) = { xTasksWaitingToReceive[s][1] }
      BY <2>2, Woken
    <3>2. xTasksWaitingToReceive' = [xTasksWaitingToReceive EXCEPT ![s] = Tail(@)]
      BY <2>2 DEF WakeFirst
    <3>3. QED
      BY <2>2, <3>1, <3>2 DEF WakesFrom
  <2>3. QED
    BY <2>1, <2>2
<1>3. /\ WokenFrom(s) \subseteq Tasks
      /\ \A u \in WokenFrom(s) : wanted[u] = s /\ pc[u] \in {"placed", "blocked"}
      /\ \A q \in Semaphores : \A i \in DOMAIN xTasksWaitingToReceive'[q] :
           /\ xTasksWaitingToReceive'[q][i] \in Tasks \ WokenFrom(s)
           /\ \E j \in DOMAIN xTasksWaitingToReceive[q] :
                xTasksWaitingToReceive'[q][i] = xTasksWaitingToReceive[q][j]
      /\ \A q \in Semaphores : \A i, j \in DOMAIN xTasksWaitingToReceive'[q] :
           xTasksWaitingToReceive'[q][i] = xTasksWaitingToReceive'[q][j] => i = j
  BY <1>2, ListsAfterWake
<1>4. pc' = [u \in Tasks |-> IF u \in WokenFrom(s) THEN "take" ELSE pc[u]]
  BY DEF WakeFirst
<1>5. \A u \in Tasks : pc'[u] = IF u \in WokenFrom(s) THEN "take" ELSE pc[u]
  BY <1>4
<1>6. pc' \in [Tasks -> TakeLabels \cup {"run", "delayed"}]
  BY <1>1, <1>4 DEF TypeOK, TakeLabels
<1>7. \A u \in WokenFrom(s) : pc[u] # "placed"
  BY <1>3, NamesAssumption DEF IInv, QueueLocked, SuspendedLabels
<1>8. ListsWaiting'
  <2> SUFFICES ASSUME NEW q \in Semaphores, NEW i \in DOMAIN xTasksWaitingToReceive'[q]
               PROVE  /\ wanted[xTasksWaitingToReceive'[q][i]] = q
                      /\ pc'[xTasksWaitingToReceive'[q][i]] \in {"placed", "blocked"}
    <3>1. \A q \in Semaphores : \A i, j \in DOMAIN xTasksWaitingToReceive'[q] :
            xTasksWaitingToReceive'[q][i] = xTasksWaitingToReceive'[q][j] => i = j
      BY <1>3
    <3>2. QED
      BY <3>1 DEF ListsWaiting
  <2>1. PICK j \in DOMAIN xTasksWaitingToReceive[q] : xTasksWaitingToReceive'[q][i] = xTasksWaitingToReceive[q][j]
    BY <1>3
  <2>2. xTasksWaitingToReceive'[q][i] \in Tasks \ WokenFrom(s)
    BY <1>3
  <2>3. /\ wanted[xTasksWaitingToReceive'[q][i]] = q
        /\ pc[xTasksWaitingToReceive'[q][i]] \in {"placed", "blocked"}
    BY <2>1, Listed
  <2>4. QED
    BY <1>5, <2>2, <2>3
<1>9. QED
  BY <1>2, <1>3, <1>5, <1>6, <1>7, <1>8

\* The parts of the invariant that a give touches, after one that wakes a task.
LEMMA GiveKeeps ==
  ASSUME IInv, NEW s \in Semaphores, cTxLock[s] = -1, WakeFirst(s),
         count' = [count EXCEPT ![s] = 1],
         UNCHANGED <<wanted, xInheritanceOccurred, cTxLock, uxSchedulerSuspended>>,
         uxPriority' \in [Tasks -> Nat],
         \A m \in Mutexes : \A i \in DOMAIN xTasksWaitingToReceive[m] :
           LET u == xTasksWaitingToReceive[m][i] IN uxPriority'[u] = uxPriority[u],
         \A u \in Tasks : pc[u] \in AwakeLabels => uxPriority'[u] = uxPriority[u],
         \A u \in Tasks : pc[u] = "place" => UNCHANGED <<uxPriority, xMutexHolder>>
  PROVE  /\ QueueLocked' /\ ListsWaiting' /\ MutexListsSorted' /\ MutexWake' /\ NoLostWakeup'
         /\ \A u \in Tasks : Calls(u)' <=> Calls(u)
         /\ \A u \in Tasks : pc'[u] = "disinherit" <=> pc[u] = "disinherit"
<1> DEFINE woken == WokenFrom(s)
<1> USE DEF TakeLabels, SuspendedLabels, AwakeLabels
<1>1. TypeOK
  BY DEF IInv, MutexAccounting
<1>2. /\ WakesFrom(s, woken)
      /\ woken = {} <=> xTasksWaitingToReceive[s] = << >>
      /\ \A u \in Tasks : pc'[u] = IF u \in woken THEN "take" ELSE pc[u]
      /\ \A u \in woken : u \in Tasks /\ pc[u] = "blocked" /\ wanted[u] = s
      /\ ListsWaiting'
  BY GiveWakes
<1> HIDE DEF woken
<1>3. /\ \A q \in Semaphores : \A i \in DOMAIN xTasksWaitingToReceive'[q] :
              /\ xTasksWaitingToReceive'[q][i] \in Tasks \ woken
              /\ \E j \in DOMAIN xTasksWaitingToReceive[q] :
                   xTasksWaitingToReceive'[q][i] = xTasksWaitingToReceive[q][j]
      /\ \A m \in DOMAIN OuterMutex : xTasksWaitingToReceive'[m] = << >>
      /\ \A m \in Mutexes : \A i, j \in DOMAIN xTasksWaitingToReceive'[m] :
           i < j => uxPriority[xTasksWaitingToReceive'[m][i]] >= uxPriority[xTasksWaitingToReceive'[m][j]]
      /\ \A q \in Semaphores \ {s} : xTasksWaitingToReceive'[q] = xTasksWaitingToReceive[q]
      /\ \A q \in Semaphores : xTasksWaitingToReceive[q] = << >> => xTasksWaitingToReceive'[q] = << >>
  BY <1>2, ListsAfterWake
<1>4. count'[s] = 1 /\ \A q \in Semaphores \ {s} : count'[q] = count[q]
  BY <1>1 DEF TypeOK
<1>5. \A m \in Mutexes : \A i \in DOMAIN xTasksWaitingToReceive'[m] :
        uxPriority'[xTasksWaitingToReceive'[m][i]] = uxPriority[xTasksWaitingToReceive'[m][i]]
  BY <1>3 DEF Semaphores
<1>6. \A u \in Tasks : pc[u] \in AwakeLabels => pc'[u] \in AwakeLabels
  BY <1>2
<1>7. QueueLocked'
  <2>1. \A u \in Tasks : pc'[u] \in SuspendedLabels <=> uxSchedulerSuspended' = u
    BY <1>2 DEF IInv, QueueLocked
  <2>2. \A q \in Semaphores : cTxLock'[q] > 0 => count'[q] > 0 /\ q \in Signals
    BY <1>4 DEF IInv, QueueLocked
  <2>3. \A u \in Tasks : pc'[u] \in {"place", "placed"} => pc'[u] = pc[u] /\ wanted[u] # s /\ wanted[u] \in Semaphores
    <3>1. \A u \in Tasks : pc'[u] \in {"place", "placed"} => pc'[u] = pc[u]
      BY <1>2
    <3>2. \A u \in Tasks : pc[u] \in {"place", "placed"} => wanted[u] # s
      BY NamesAssumption DEF IInv, QueueLocked
    <3>3. QED
      BY <3>1, <3>2 DEF IInv, TakenInOrder, Calls
  <2>4. \A u \in Tasks : pc'[u] \in {"place", "placed"} /\ count'[wanted[u]] > 0 => cTxLock[wanted[u]] > 0
    BY <1>4, <2>3 DEF IInv, QueueLocked
  <2>5. \A u \in Tasks : pc'[u] = "place" /\ wanted[u] \in Mutexes =>
                           uxPriority'[xMutexHolder'[wanted[u]]] >= uxPriority'[u]
    BY <2>3 DEF IInv, QueueLocked
  <2>6. QED
    BY <2>1, <2>2, <2>4, <2>5 DEF IInv, QueueLocked
<1>8. MutexListsSorted'
  BY <1>3, <1>5 DEF MutexListsSorted
<1>9. MutexWake'
  <2> SUFFICES ASSUME NEW m \in Mutexes, count'[m] > 0, xTasksWaitingToReceive'[m] # << >>
               PROVE  \E u \in Tasks : /\ wanted[u] = m /\ pc'[u] \in AwakeLabels
                                       /\ \A i \in DOMAIN xTasksWaitingToReceive'[m] :
                                            uxPriority'[u] >= uxPriority'[xTasksWaitingToReceive'[m][i]]
    BY DEF MutexWake
  <2> m \in Semaphores
    BY DEF Semaphores
  <2>1. CASE m = s
    <3>1. /\ xTasksWaitingToReceive[s] # << >> /\ woken = { xTasksWaitingToReceive[s][1] }
          /\ xTasksWaitingToReceive' = [xTasksWaitingToReceive EXCEPT ![s] = Tail(@)]
      BY <1>2, <1>3, <2>1 DEF WakesFrom
    <3> DEFINE l == xTasksWaitingToReceive[s]
               u == l[1]
    <3>2. /\ l \in Seq(Tasks) /\ 1 \in DOMAIN l /\ WithoutItem(Tail(l), l, 1) /\ u \in Tasks /\ u \in woken
          /\ Len(l) \in Nat /\ DOMAIN l = 1 .. Len(l)
      BY <3>1, Listed, TailItem
    <3>3. xTasksWaitingToReceive'[s] = Tail(l)
      BY <1>1, <3>1 DEF TypeOK
    <3>4. \A i \in DOMAIN Tail(l) : i + 1 \in DOMAIN l /\ 1 < i + 1 /\ Tail(l)[i] = l[i + 1]
      <4>1. DOMAIN Tail(l) = 1 .. Len(Tail(l)) /\ Len(Tail(l)) = Len(l) - 1
        BY <3>2 DEF WithoutItem
      <4>2. \A i \in 1 .. Len(Tail(l)) : Tail(l)[i] = l[IF i < 1 THEN i ELSE i + 1]
        BY <3>2 DEF WithoutItem
      <4>3. QED
        BY <3>2, <4>1, <4>2
    <3>5. \A i \in DOMAIN Tail(l) : uxPriority[u] >= uxPriority[l[i + 1]]
      BY <2>1, <3>2, <3>4 DEF IInv, MutexListsSorted
    <3>6. uxPriority'[u] = uxPriority[u]
      BY <2>1, <3>2
    <3>7. \A i \in DOMAIN Tail(l) : uxPriority'[u] >= uxPriority'[Tail(l)[i]]
      <4>1. \A i \in DOMAIN Tail(l) : uxPriority'[Tail(l)[i]] = uxPriority[Tail(l)[i]]
        <5>1. \A i \in DOMAIN xTasksWaitingToReceive'[s] :
                uxPriority'[xTasksWaitingToReceive'[s][i]] = uxPriority[xTasksWaitingToReceive'[s][i]]
          BY <1>5, <2>1
        <5> HIDE DEF l
        <5>2. QED
          BY <3>3, <5>1
      <4>2. \A i \in DOMAIN Tail(l) : Tail(l)[i] = l[i + 1]
        BY <3>4
      <4> HIDE DEF l
      <4>3. ASSUME NEW i \in DOMAIN Tail(l)
            PROVE  uxPriority'[u] >= uxPriority'[Tail(l)[i]]
        <5>1. uxPriority[u] >= uxPriority[l[i + 1]]
          BY <3>5
        <5>2. uxPriority'[Tail(l)[i]] = uxPriority[l[i + 1]]
          BY <4>1, <4>2
        <5>3. QED
          BY <3>6, <5>1, <5>2
      <4>4. QED
        BY <4>3
    <3>8. wanted[u] = m /\ pc'[u] = "take"
      BY <1>2, <2>1, <3>2
    <3>9. QED
      BY <2>1, <3>2, <3>3, <3>7, <3>8
  <2>2. CASE m # s
    <3>1. count[m] > 0 /\ xTasksWaitingToReceive'[m] = xTasksWaitingToReceive[m]
      BY <1>3, <1>4, <2>2
    <3>2. PICK u \in Tasks : /\ wanted[u] = m /\ pc[u] \in AwakeLabels
                             /\ \A i \in DOMAIN xTasksWaitingToReceive[m] :
                                  uxPriority[u] >= uxPriority[xTasksWaitingToReceive[m][i]]
      BY <3>1 DEF IInv, MutexWake
    <3>3. QED
      BY <1>5, <1>6, <3>1, <3>2
  <2>3. QED
    BY <2>1, <2>2
<1>10. NoLostWakeup'
  <2> SUFFICES ASSUME NEW q \in Semaphores, count'[q] > 0, xTasksWaitingToReceive'[q] # << >>, ~ (cTxLock[q] > 0)
               PROVE  \E u \in Tasks : wanted[u] = q /\ pc'[u] \in AwakeLabels
    BY DEF NoLostWakeup
  <2>1. CASE q = s
    <3>1. PICK u : u \in woken
      BY <1>2, <1>3, <2>1
    <3>2. QED
      BY <1>2, <2>1, <3>1
  <2>2. CASE q # s
    BY <1>3, <1>4, <1>6, <2>2 DEF IInv, NoLostWakeup
  <2>3. QED
    BY <2>1, <2>2
<1>11. /\ \A u \in Tasks : Calls(u)' <=> Calls(u)
       /\ \A u \in Tasks : pc'[u] = "disinherit" <=> pc[u] = "disinherit"
  BY <1>2 DEF Calls
<1>12. QED
  BY <1>2, <1>7, <1>8, <1>9, <1>10, <1>11

\* A mutex given back: who holds what, and with which priority.
LEMMA GiveMutexKeepsIInv ==
  ASSUME IInv, NEW t \in Tasks, NEW m \in Mutexes, GiveMutex(t, m)
  PROVE  IInv'
<1> USE DEF TakeLabels, SuspendedLabels, AwakeLabels
<1>1. TypeOK /\ m \in Semaphores
  BY DEF IInv, MutexAccounting, Semaphores
<1>2. /\ pc[t] = "run" /\ m \in holds[t] /\ \A i \in DOMAIN OuterMutex : OuterMutex[i] = m => i \notin holds[t]
      /\ uxPriority' = [uxPriority EXCEPT ![t] = TaskPriorityDisinherit(t)]
      /\ uxMutexesHeld' = [uxMutexesHeld EXCEPT ![t] = @ - 1]
      /\ xMutexHolder' = [xMutexHolder EXCEPT ![m] = None]
      /\ count' = [count EXCEPT ![m] = @ + 1]
      /\ holds' = [holds EXCEPT ![t] = @ \ {m}]
      /\ WakeFirst(m)
      /\ UNCHANGED <<wanted, xTicksToWait, expired, xInheritanceOccurred, cTxLock, uxSchedulerSuspended>>
  BY DEF GiveMutex, MayGive, HolderAfterGive
<1>3. /\ \A u \in Tasks : pc[u] \notin SuspendedLabels
      /\ \A s \in Semaphores : cTxLock[s] = -1
  BY <1>2, Running DEF GiveMutex
<1>4. xMutexHolder[m] = t /\ count[m] = 0
  <2>1. xMutexHolder[m] = t
    BY <1>2 DEF IInv, MutexAccounting
  <2>2. QED
    BY <2>1, NamesAssumption DEF IInv, MutexAccounting
<1>5. count' = [count EXCEPT ![m] = 1]
  <2>1. count[m] + 1 = 1
    BY <1>4
  <2>2. QED
    BY <1>2, <2>1
<1>6. /\ IsFiniteSet(holds[t]) /\ uxMutexesHeld[t] = Cardinality(holds[t])
      /\ IsFiniteSet(holds[t] \ {m}) /\ Cardinality(holds[t] \ {m}) = Cardinality(holds[t]) - 1
      /\ Cardinality(holds[t]) \in Nat \ {0}
  <2>1. IsFiniteSet(holds[t]) /\ uxMutexesHeld[t] = Cardinality(holds[t])
    BY DEF IInv, MutexAccounting, TakenInOrder
  <2>2. IsFiniteSet(holds[t] \ {m}) /\ Cardinality(holds[t] \ {m}) = Cardinality(holds[t]) - 1
    BY <1>2, <2>1, FS_RemoveElement
  <2>3. Cardinality(holds[t]) \in Nat /\ Cardinality(holds[t]) # 0
    BY <1>2, <2>1, FS_CardinalityType, FS_EmptySet
  <2>4. QED
    BY <2>1, <2>2, <2>3
\* With the last mutex the base priority comes back; otherwise nothing changes.
<1>7. /\ TaskPriorityDisinherit(t) \in Nat /\ TaskPriorityDisinherit(t) >= uxBasePriority[t]
      /\ uxBasePriority[t] \in Nat
      /\ holds[t] \ {m} = {} => TaskPriorityDisinherit(t) = uxBasePriority[t]
      /\ holds[t] \ {m} # {} => TaskPriorityDisinherit(t) = uxPriority[t]
  <2>1. /\ uxBasePriority[t] \in Nat /\ uxPriority[t] \in Nat /\ uxPriority[t] >= uxBasePriority[t]
    BY <1>1, PriorityAssumption DEF TypeOK, IInv, PriorityReturned
  <2>2. uxMutexesHeld[t] = 1 <=> holds[t] \ {m} = {}
    <3>1. Cardinality(holds[t] \ {m}) = 0 <=> holds[t] \ {m} = {}
      BY <1>6, FS_EmptySet
    <3>2. Cardinality(holds[t]) - 1 = 0 <=> Cardinality(holds[t]) = 1
      BY <1>6
    <3>3. QED
      BY <1>6, <3>1, <3>2
  <2>3. QED
    BY <2>1, <2>2 DEF TaskPriorityDisinherit
<1>8. /\ uxPriority' \in [Tasks -> Nat] /\ uxPriority'[t] = TaskPriorityDisinherit(t)
      /\ \A u \in Tasks \ {t} : uxPriority'[u] = uxPriority[u]
  BY <1>1, <1>2, <1>7 DEF TypeOK
<1>9. /\ holds' \in [Tasks -> SUBSET Mutexes] /\ holds'[t] = holds[t] \ {m}
      /\ \A u \in Tasks \ {t} : holds'[u] = holds[u]
  BY <1>1, <1>2 DEF TypeOK
<1>10. \A k \in Mutexes : \A i \in DOMAIN xTasksWaitingToReceive[k] :
         xTasksWaitingToReceive[k][i] \in Tasks \ {t}
  BY <1>2, Waiter
<1>11. /\ QueueLocked' /\ ListsWaiting' /\ MutexListsSorted' /\ MutexWake' /\ NoLostWakeup'
       /\ \A u \in Tasks : Calls(u)' <=> Calls(u)
       /\ \A u \in Tasks : pc'[u] = "disinherit" <=> pc[u] = "disinherit"
  <2>1. \A k \in Mutexes : \A i \in DOMAIN xTasksWaitingToReceive[k] :
          uxPriority'[xTasksWaitingToReceive[k][i]] = uxPriority[xTasksWaitingToReceive[k][i]]
    BY <1>8, <1>10
  <2>2. \A u \in Tasks : pc[u] \in AwakeLabels => uxPriority'[u] = uxPriority[u]
    BY <1>2, <1>8
  <2>3. \A u \in Tasks : pc[u] # "place"
    BY <1>3
  <2>4. /\ cTxLock[m] = -1 /\ WakeFirst(m)
        /\ UNCHANGED <<wanted, xInheritanceOccurred, cTxLock, uxSchedulerSuspended>>
    BY <1>1, <1>2, <1>3
  <2>5. QED
    BY <1>1, <1>5, <1>8, <2>1, <2>2, <2>3, <2>4, GiveKeeps
<1>12. /\ pc' \in [Tasks -> TakeLabels \cup {"run", "delayed"}]
       /\ xTasksWaitingToReceive' \in [Semaphores -> Seq(Tasks)]
       /\ \A q \in Semaphores : \A i \in DOMAIN xTasksWaitingToReceive'[q] :
             \E j \in DOMAIN xTasksWaitingToReceive[q] :
               xTasksWaitingToReceive'[q][i] = xTasksWaitingToReceive[q][j]
  <2>1. pc' \in [Tasks -> TakeLabels \cup {"run", "delayed"}] /\ WakesFrom(m, WokenFrom(m))
    BY <1>1, <1>2, <1>3, GiveWakes
  <2>2. QED
    BY <1>1, <2>1, ListsAfterWake
<1>13. TypeOK'
  <2>1. uxMutexesHeld' \in [Tasks -> Nat]
    <3>1. uxMutexesHeld[t] - 1 \in Nat
      BY <1>6
    <3>2. QED
      BY <1>1, <1>2, <3>1 DEF TypeOK
  <2>2. count' \in [Semaphores -> {0, 1}] /\ xMutexHolder' \in [Mutexes -> Tasks \cup {None}]
    BY <1>1, <1>2, <1>5 DEF TypeOK
  <2>3. QED
    BY <1>1, <1>2, <1>8, <1>9, <1>12, <2>1, <2>2 DEF TypeOK
<1>14. MutexAccounting'
  <2>1. \A u \in Tasks : uxMutexesHeld'[u] = Cardinality(holds'[u])
    <3>1. uxMutexesHeld'[t] = uxMutexesHeld[t] - 1 /\ \A u \in Tasks \ {t} : uxMutexesHeld'[u] = uxMutexesHeld[u]
      BY <1>1, <1>2 DEF TypeOK
    <3>2. \A u \in Tasks : uxMutexesHeld[u] = Cardinality(holds[u])
      BY DEF IInv, MutexAccounting
    <3>3. QED
      BY <1>6, <1>9, <3>1, <3>2
  <2>2. xMutexHolder'[m] = None /\ \A k \in Mutexes \ {m} : xMutexHolder'[k] = xMutexHolder[k]
    BY <1>1, <1>2 DEF TypeOK
  <2>3. \A k \in Mutexes : \A u \in Tasks : k \in holds'[u] <=> xMutexHolder'[k] = u
    <3>1. \A u \in Tasks : u # t => m \notin holds[u]
      BY <1>4 DEF IInv, MutexAccounting
    <3>2. QED
      BY <1>9, <2>2, <3>1, NamesAssumption DEF IInv, MutexAccounting
  <2>4. count'[m] = 1 /\ \A k \in Mutexes \ {m} : count'[k] = count[k]
    BY <1>1, <1>5 DEF TypeOK, Semaphores
  <2>5. \A k \in Mutexes : count'[k] = 0 <=> xMutexHolder'[k] # None
    BY <2>2, <2>4 DEF IInv, MutexAccounting
  <2>6. QED
    BY <1>13, <2>1, <2>3, <2>5 DEF MutexAccounting
<1>15. TakenInOrder'
  <2>1. \A u \in Tasks : IsFiniteSet(holds'[u])
    BY <1>6, <1>9 DEF IInv, TakenInOrder
  <2>2. \A u \in Tasks : \A k \in DOMAIN OuterMutex \cap holds'[u] : OuterMutex[k] \in holds'[u]
    BY <1>2, <1>9 DEF IInv, TakenInOrder
  <2>3. \A u \in Tasks : Calls(u) => u # t
    BY <1>2 DEF Calls
  <2>4. \A u \in Tasks : Calls(u)' => wanted'[u] \in Semaphores /\ MayTake(u, wanted[u])'
    BY <1>2, <1>9, <1>11, <2>3 DEF IInv, TakenInOrder, MayTake
  <2>5. \A u \in Tasks : xInheritanceOccurred'[u] \/ pc'[u] = "disinherit" => Calls(u)' /\ wanted'[u] \in Mutexes
    BY <1>2, <1>11 DEF IInv, TakenInOrder
  <2>6. QED
    BY <2>1, <2>2, <2>4, <2>5 DEF TakenInOrder
<1>16. HolderInherits'
  <2> SUFFICES ASSUME NEW k \in Mutexes, NEW i \in DOMAIN xTasksWaitingToReceive'[k], xMutexHolder'[k] # None
               PROVE  uxPriority'[xMutexHolder'[k]] >= uxPriority'[xTasksWaitingToReceive'[k][i]]
    BY DEF HolderInherits
  <2>1. k # m /\ xMutexHolder'[k] = xMutexHolder[k]
    BY <1>1, <1>2 DEF TypeOK
  <2>2. PICK j \in DOMAIN xTasksWaitingToReceive[k] : xTasksWaitingToReceive'[k][i] = xTasksWaitingToReceive[k][j]
    BY <1>12 DEF Semaphores
  <2>3. /\ uxPriority[xMutexHolder[k]] >= uxPriority[xTasksWaitingToReceive[k][j]]
        /\ uxPriority'[xTasksWaitingToReceive[k][j]] = uxPriority[xTasksWaitingToReceive[k][j]]
    BY <1>8, <1>10, <2>1 DEF IInv, HolderInherits
  <2>4. uxPriority'[xMutexHolder[k]] = uxPriority[xMutexHolder[k]]
    <3>1. xMutexHolder[k] \in Tasks /\ k \in holds[xMutexHolder[k]]
      BY <1>1, <2>1 DEF TypeOK, IInv, MutexAccounting
    <3>2. xMutexHolder[k] = t => holds[t] \ {m} # {}
      BY <2>1, <3>1
    <3>3. QED
      BY <1>7, <1>8, <3>1, <3>2
  <2>5. QED
    BY <2>1, <2>2, <2>3, <2>4
<1>17. PriorityReturned'
  <2>1. uxPriority'[t] >= uxBasePriority[t] /\ (holds'[t] = {} => uxPriority'[t] = uxBasePriority[t])
    BY <1>7, <1>8, <1>9
  <2>2. QED
    BY <1>8, <1>9, <2>1 DEF IInv, PriorityReturned
<1>18. QED
  BY <1>11, <1>14, <1>15, <1>16, <1>17 DEF IInv

\* A signal whose queue is not locked, from a task or from an interrupt.
LEMMA SignalKeepsIInv ==
  ASSUME IInv, NEW s \in Signals, cTxLock[s] = -1, NotFull(s),
         count' = [count EXCEPT ![s] = @ + 1], WakeFirst(s),
         UNCHANGED <<wanted, xTicksToWait, expired, xInheritanceOccurred, priority_vars,
                     xMutexHolder, cTxLock, uxSchedulerSuspended, holds>>
  PROVE  IInv'
<1> USE DEF priority_vars
<1>1. TypeOK /\ s \in Semaphores /\ s \notin Mutexes
  BY NamesAssumption DEF IInv, MutexAccounting, Semaphores
<1>2. count[s] = 0
  BY <1>1 DEF NotFull, TypeOK
<1>3. count' = [count EXCEPT ![s] = 1]
  <2>1. count[s] + 1 = 1
    BY <1>2
  <2>2. QED
    BY <2>1
<1>4. uxPriority' \in [Tasks -> Nat] /\ uxPriority' = uxPriority
  BY <1>1 DEF TypeOK
<1>5. /\ QueueLocked' /\ ListsWaiting' /\ MutexListsSorted' /\ MutexWake' /\ NoLostWakeup'
      /\ \A u \in Tasks : Calls(u)' <=> Calls(u)
      /\ \A u \in Tasks : pc'[u] = "disinherit" <=> pc[u] = "disinherit"
  BY <1>1, <1>3, <1>4, GiveKeeps
<1>6. /\ pc' \in [Tasks -> TakeLabels \cup {"run", "delayed"}]
      /\ xTasksWaitingToReceive' \in [Semaphores -> Seq(Tasks)]
      /\ \A q \in Semaphores : \A i \in DOMAIN xTasksWaitingToReceive'[q] :
            \E j \in DOMAIN xTasksWaitingToReceive[q] :
              xTasksWaitingToReceive'[q][i] = xTasksWaitingToReceive[q][j]
  <2>1. pc' \in [Tasks -> TakeLabels \cup {"run", "delayed"}] /\ WakesFrom(s, WokenFrom(s))
    BY <1>1, GiveWakes
  <2>2. QED
    BY <1>1, <2>1, ListsAfterWake
<1>7. TypeOK'
  BY <1>1, <1>3, <1>6 DEF TypeOK
<1>8. MutexAccounting'
  <2>1. \A m \in Mutexes : count'[m] = count[m]
    BY <1>1, <1>3 DEF TypeOK, Semaphores
  <2>2. QED
    BY <1>7, <2>1 DEF IInv, MutexAccounting
<1>9. TakenInOrder'
  BY <1>5 DEF IInv, TakenInOrder, MayTake
<1>10. HolderInherits'
  <2> SUFFICES ASSUME NEW k \in Mutexes, NEW i \in DOMAIN xTasksWaitingToReceive'[k], xMutexHolder[k] # None
               PROVE  uxPriority[xMutexHolder[k]] >= uxPriority[xTasksWaitingToReceive'[k][i]]
    BY DEF HolderInherits
  <2>1. PICK j \in DOMAIN xTasksWaitingToReceive[k] : xTasksWaitingToReceive'[k][i] = xTasksWaitingToReceive[k][j]
    BY <1>6 DEF Semaphores
  <2>2. QED
    BY <2>1 DEF IInv, HolderInherits
<1>11. PriorityReturned'
  BY DEF IInv, PriorityReturned
<1>12. QED
  BY <1>5, <1>8, <1>9, <1>10, <1>11 DEF IInv

LEMMA GiveSignalKeepsIInv ==
  ASSUME IInv, NEW t \in Tasks, NEW s \in Signals, GiveSignal(t, s)
  PROVE  IInv'
<1>1. cTxLock[s] = -1
  BY Running DEF GiveSignal, SuspendedLabels, Semaphores
<1>2. QED
  BY <1>1, SignalKeepsIInv DEF GiveSignal

\* From an interrupt; a locked queue only counts the give.
LEMMA GiveFromISRKeepsIInv ==
  ASSUME IInv, NEW s \in Signals, GiveFromISR(s)
  PROVE  IInv'
<1>1. CASE cTxLock[s] = -1
  <2>1. WakeFirst(s) /\ UNCHANGED cTxLock
    BY <1>1 DEF GiveFromISR
  <2>2. QED
    BY <1>1, <2>1, SignalKeepsIInv DEF GiveFromISR
<1>2. CASE cTxLock[s] # -1
  <2> USE DEF priority_vars
  <2>1. TypeOK /\ s \in Semaphores /\ s \notin Mutexes
    BY NamesAssumption DEF IInv, MutexAccounting, Semaphores
  <2>2. /\ NotFull(s) /\ count' = [count EXCEPT ![s] = @ + 1] /\ cTxLock' = [cTxLock EXCEPT ![s] = @ + 1]
        /\ UNCHANGED <<pc, xTasksWaitingToReceive>>
        /\ UNCHANGED <<wanted, xTicksToWait, expired, xInheritanceOccurred, priority_vars,
                       xMutexHolder, uxSchedulerSuspended, holds>>
    BY <1>2 DEF GiveFromISR
  <2>3. count[s] = 0
    BY <2>1, <2>2 DEF NotFull, TypeOK
  <2>4. cTxLock[s] = 0
    <3>1. cTxLock[s] \in {-1, 0, 1} /\ (cTxLock[s] > 0 => count[s] > 0)
      BY <2>1 DEF TypeOK, IInv, QueueLocked
    <3>2. QED
      BY <1>2, <2>3, <3>1
  <2>5. count'[s] = 1 /\ \A q \in Semaphores \ {s} : count'[q] = count[q]
    BY <2>1, <2>2, <2>3 DEF TypeOK
  <2>6. cTxLock'[s] = 1 /\ \A q \in Semaphores \ {s} : cTxLock'[q] = cTxLock[q]
    BY <2>1, <2>2, <2>4 DEF TypeOK
  <2>7. TypeOK'
    <3>1. count' \in [Semaphores -> {0, 1}] /\ cTxLock' \in [Semaphores -> {-1, 0, 1}]
      BY <2>1, <2>2, <2>3, <2>4 DEF TypeOK
    <3>2. QED
      BY <2>1, <2>2, <3>1 DEF TypeOK
  <2>8. MutexAccounting'
    <3>1. \A m \in Mutexes : count'[m] = count[m]
      BY <2>1, <2>5 DEF Semaphores
    <3>2. QED
      BY <2>2, <2>7, <3>1 DEF IInv, MutexAccounting
  <2>9. TakenInOrder'
    BY <2>2 DEF IInv, TakenInOrder, MayTake, Calls
  <2>10. QueueLocked'
    <3>1. \A u \in Tasks : pc[u] \in {"place", "placed"} => wanted[u] \in Semaphores
      BY DEF IInv, TakenInOrder, Calls, TakeLabels
    <3>2. \A q \in Semaphores : cTxLock'[q] # -1 <=> cTxLock[q] # -1
      BY <2>4, <2>6
    <3>3. \A q \in Semaphores : cTxLock'[q] > 0 => count'[q] > 0 /\ q \in Signals
      BY <2>5, <2>6 DEF IInv, QueueLocked
    <3>4. \A u \in Tasks : pc[u] \in {"place", "placed"} /\ count'[wanted[u]] > 0 => cTxLock'[wanted[u]] > 0
      BY <2>5, <2>6, <3>1 DEF IInv, QueueLocked
    <3>5. QED
      BY <2>2, <3>2, <3>3, <3>4 DEF IInv, QueueLocked
  <2>11. ListsWaiting' /\ MutexListsSorted' /\ HolderInherits' /\ PriorityReturned'
    BY <2>2 DEF IInv, ListsWaiting, MutexListsSorted, HolderInherits, PriorityReturned
  <2>12. MutexWake'
    BY <2>1, <2>2, <2>5 DEF IInv, MutexWake, Semaphores
  <2>13. NoLostWakeup'
    BY <2>2, <2>5, <2>6 DEF IInv, NoLostWakeup
  <2>14. QED
    BY <2>8, <2>9, <2>10, <2>11, <2>12, <2>13 DEF IInv
<1>3. QED
  BY <1>1, <1>2

\* The end of a wait, which takes the task out of the list.
LEMMA WaitExpiresKeepsIInv ==
  ASSUME IInv, NEW t \in Tasks, WaitExpires(t)
  PROVE  IInv'
<1> DEFINE s == wanted[t]
           next == IF pc[t] = "blocked" THEN "take" ELSE pc[t]
<1> USE DEF priority_vars, TakeLabels, SuspendedLabels, AwakeLabels
<1>1. TypeOK
  BY DEF IInv, MutexAccounting
<1>2. /\ uxSchedulerSuspended = None /\ pc[t] \in {"take", "lock", "blocked"}
      /\ expired' = [expired EXCEPT ![t] = TRUE]
      /\ pc' = [pc EXCEPT ![t] = next]
      /\ xTasksWaitingToReceive' = [xTasksWaitingToReceive EXCEPT ![s] = Removed(@, t)]
      /\ UNCHANGED <<wanted, xTicksToWait, xInheritanceOccurred, priority_vars, count, xMutexHolder,
                     cTxLock, uxSchedulerSuspended, holds>>
  BY DEF WaitExpires
<1>3. s \in Semaphores
  BY <1>2 DEF IInv, TakenInOrder, Calls
<1>4. pc'[t] \in {"take", "lock"} /\ \A u \in Tasks \ {t} : pc'[u] = pc[u]
  BY <1>1, <1>2 DEF TypeOK
<1>5. pc[t] \in AwakeLabels => pc'[t] \in AwakeLabels
  BY <1>4
<1>6. /\ xTasksWaitingToReceive' \in [Semaphores -> Seq(Tasks)]
      /\ \A q \in Semaphores : \A i \in DOMAIN xTasksWaitingToReceive'[q] :
           /\ xTasksWaitingToReceive'[q][i] # t
           /\ \E j \in DOMAIN xTasksWaitingToReceive[q] :
                xTasksWaitingToReceive'[q][i] = xTasksWaitingToReceive[q][j]
      /\ \A q \in Semaphores : \A i, j \in DOMAIN xTasksWaitingToReceive'[q] :
           xTasksWaitingToReceive'[q][i] = xTasksWaitingToReceive'[q][j] => i = j
      /\ \A m \in DOMAIN OuterMutex : xTasksWaitingToReceive'[m] = << >>
      /\ \A m \in Mutexes : \A i, j \in DOMAIN xTasksWaitingToReceive'[m] :
           i < j => uxPriority[xTasksWaitingToReceive'[m][i]] >= uxPriority[xTasksWaitingToReceive'[m][j]]
  <2> DEFINE list == xTasksWaitingToReceive[s]
  <2>1. list \in Seq(Tasks)
    BY <1>3, Listed
  <2>2. CASE (\A i \in DOMAIN list : list[i] # t) /\ Removed(list, t) = list
    <3>1. xTasksWaitingToReceive' = xTasksWaitingToReceive
      BY <1>1, <1>2, <2>2 DEF TypeOK
    <3>2. \A q \in Semaphores : \A i \in DOMAIN xTasksWaitingToReceive[q] : xTasksWaitingToReceive[q][i] # t
      BY <2>2, Listed
    <3>3. QED
      <4>1. xTasksWaitingToReceive' \in [Semaphores -> Seq(Tasks)]
        BY <1>1, <3>1 DEF TypeOK
      <4>2. /\ \A q \in Semaphores : \A i, j \in DOMAIN xTasksWaitingToReceive[q] :
                 xTasksWaitingToReceive[q][i] = xTasksWaitingToReceive[q][j] => i = j
            /\ MutexListsSorted
        BY DEF IInv, ListsWaiting
      <4>3. QED
        BY <3>1, <3>2, <4>1, <4>2 DEF MutexListsSorted
  <2>3. CASE \E k \in DOMAIN list : list[k] = t /\ WithoutItem(Removed(list, t), list, k)
    <3>1. PICK k \in DOMAIN list : list[k] = t /\ WithoutItem(Removed(list, t), list, k)
      BY <2>3
    <3>2. xTasksWaitingToReceive' = [xTasksWaitingToReceive EXCEPT ![s] = Removed(list, t)]
      BY <1>2
    <3>3. /\ xTasksWaitingToReceive' \in [Semaphores -> Seq(Tasks)]
          /\ \A q \in Semaphores : \A i \in DOMAIN xTasksWaitingToReceive'[q] :
               /\ xTasksWaitingToReceive'[q][i] # list[k]
               /\ \E j \in DOMAIN xTasksWaitingToReceive[q] :
                    xTasksWaitingToReceive'[q][i] = xTasksWaitingToReceive[q][j]
          /\ \A q \in Semaphores : \A i, j \in DOMAIN xTasksWaitingToReceive'[q] :
               xTasksWaitingToReceive'[q][i] = xTasksWaitingToReceive'[q][j] => i = j
          /\ \A m \in DOMAIN OuterMutex : xTasksWaitingToReceive'[m] = << >>
          /\ \A m \in Mutexes : \A i, j \in DOMAIN xTasksWaitingToReceive'[m] :
               i < j => uxPriority[xTasksWaitingToReceive'[m][i]] >= uxPriority[xTasksWaitingToReceive'[m][j]]
      BY <1>3, <3>1, <3>2, Shortened
    <3>4. QED
      BY <3>1, <3>3
  <2>4. QED
    BY <2>1, <2>2, <2>3, RemovedItem
<1>7. \A q \in Semaphores : xTasksWaitingToReceive'[q] # << >> => xTasksWaitingToReceive[q] # << >>
  <2> SUFFICES ASSUME NEW q \in Semaphores, xTasksWaitingToReceive'[q] # << >>
               PROVE  xTasksWaitingToReceive[q] # << >>
    OBVIOUS
  <2>1. 1 \in DOMAIN xTasksWaitingToReceive'[q]
    BY <1>6, TailItem
  <2>2. QED
    BY <1>6, <2>1
<1>8. TypeOK'
  BY <1>1, <1>2, <1>6 DEF TypeOK
<1>9. MutexAccounting'
  BY <1>2, <1>8 DEF IInv, MutexAccounting
<1>10. TakenInOrder'
  BY <1>2, <1>4 DEF IInv, TakenInOrder, Calls, MayTake
<1>11. QueueLocked'
  BY <1>2, <1>4 DEF IInv, QueueLocked
<1>12. ListsWaiting'
  <2> SUFFICES ASSUME NEW q \in Semaphores, NEW i \in DOMAIN xTasksWaitingToReceive'[q]
               PROVE  /\ wanted[xTasksWaitingToReceive'[q][i]] = q
                      /\ pc'[xTasksWaitingToReceive'[q][i]] \in {"placed", "blocked"}
    <3>1. \A q \in Semaphores : \A i, j \in DOMAIN xTasksWaitingToReceive'[q] :
            xTasksWaitingToReceive'[q][i] = xTasksWaitingToReceive'[q][j] => i = j
      BY <1>6
    <3>2. wanted' = wanted
      BY <1>2
    <3>3. QED
      BY <3>1, <3>2 DEF ListsWaiting
  <2>1. PICK j \in DOMAIN xTasksWaitingToReceive[q] : xTasksWaitingToReceive'[q][i] = xTasksWaitingToReceive[q][j]
    BY <1>6
  <2>2. QED
    BY <1>4, <1>6, <2>1, Listed
<1>13. MutexListsSorted'
  BY <1>2, <1>6 DEF MutexListsSorted
<1>14. HolderInherits'
  <2> SUFFICES ASSUME NEW k \in Mutexes, NEW i \in DOMAIN xTasksWaitingToReceive'[k], xMutexHolder[k] # None
               PROVE  uxPriority[xMutexHolder[k]] >= uxPriority[xTasksWaitingToReceive'[k][i]]
    BY <1>2 DEF HolderInherits
  <2>1. PICK j \in DOMAIN xTasksWaitingToReceive[k] : xTasksWaitingToReceive'[k][i] = xTasksWaitingToReceive[k][j]
    BY <1>6 DEF Semaphores
  <2>2. QED
    BY <2>1 DEF IInv, HolderInherits
<1>15. PriorityReturned'
  BY <1>2 DEF IInv, PriorityReturned
<1>16. MutexWake'
  <2> SUFFICES ASSUME NEW m \in Mutexes, count[m] > 0, xTasksWaitingToReceive'[m] # << >>
               PROVE  \E u \in Tasks : /\ wanted[u] = m /\ pc'[u] \in AwakeLabels
                                       /\ \A i \in DOMAIN xTasksWaitingToReceive'[m] :
                                            uxPriority[u] >= uxPriority[xTasksWaitingToReceive'[m][i]]
    BY <1>2 DEF MutexWake
  <2>1. PICK u \in Tasks : /\ wanted[u] = m /\ pc[u] \in AwakeLabels
                           /\ \A j \in DOMAIN xTasksWaitingToReceive[m] :
                                uxPriority[u] >= uxPriority[xTasksWaitingToReceive[m][j]]
    BY <1>7 DEF IInv, MutexWake, Semaphores
  <2>2. pc'[u] \in AwakeLabels
    BY <1>4, <1>5, <2>1
  <2>3. QED
    BY <1>6, <2>1, <2>2 DEF Semaphores
<1>17. NoLostWakeup'
  BY <1>2, <1>4, <1>5, <1>7 DEF IInv, NoLostWakeup
<1>18. QED
  BY <1>9, <1>10, <1>11, <1>12, <1>13, <1>14, <1>15, <1>16, <1>17 DEF IInv

LEMMA NextKeepsIInv == IInv /\ [Next]_vars => IInv'
<1> SUFFICES ASSUME IInv, [Next]_vars PROVE IInv'
  OBVIOUS
<1>1. CASE UNCHANGED vars
  <2>1. /\ MutexAccounting' /\ HolderInherits' /\ PriorityReturned' /\ NoLostWakeup'
    BY <1>1 DEF vars, task_vars, priority_vars, queue_vars, IInv, MutexAccounting, TypeOK, HolderInherits,
                PriorityReturned, NoLostWakeup
  <2>2. TakenInOrder' /\ QueueLocked' /\ ListsWaiting' /\ MutexListsSorted' /\ MutexWake'
    BY <1>1 DEF vars, task_vars, priority_vars, queue_vars, IInv, TakenInOrder, Calls, MayTake, QueueLocked,
                ListsWaiting, MutexListsSorted, MutexWake
  <2>3. QED
    BY <2>1, <2>2 DEF IInv
<1>2. ASSUME NEW t \in Tasks, TakeStep(t) PROVE IInv'
  BY <1>2, TakeAvailableKeepsIInv, RefusedKeepsIInv, LockQueueKeepsIInv, CheckedKeepsIInv,
     CheckEmptyKeepsIInv, PlaceKeepsIInv, UnlockKeepsIInv, DisinheritKeepsIInv DEF TakeStep
<1>3. ASSUME NEW t \in Tasks, TaskStep(t) PROVE IInv'
  BY <1>2, <1>3, CallTakeKeepsIInv, GiveMutexKeepsIInv, GiveSignalKeepsIInv, RefusedKeepsIInv DEF TaskStep
<1>4. ASSUME NEW t \in Tasks, WaitExpires(t) \/ DelayOver(t) PROVE IInv'
  BY <1>4, WaitExpiresKeepsIInv, RefusedKeepsIInv
<1>5. ASSUME NEW s \in Signals, GiveFromISR(s) PROVE IInv'
  BY <1>5, GiveFromISRKeepsIInv
<1>6. QED
  BY <1>1, <1>3, <1>4, <1>5 DEF Next

LEMMA Invariant == Spec => []IInv
BY InitIInv, NextKeepsIInv, PTL DEF Spec

\* The records of the kernel have their types and agree with what the tasks took and
\* gave: each mutex has one holder, and the count of mutexes held is exact.
THEOREM RecordsExact == Spec => []MutexAccounting
<1>1. IInv => MutexAccounting
  BY DEF IInv
<1>2. QED
  BY <1>1, Invariant, PTL

\* While tasks wait for a mutex its holder has at least the priority of each.
THEOREM NoPriorityInversion == Spec => []HolderInherits
<1>1. IInv => HolderInherits
  BY DEF IInv
<1>2. QED
  BY <1>1, Invariant, PTL

\* No task is below its own priority, and one that holds no mutex is not above it.
THEOREM InheritanceEnds == Spec => []PriorityReturned
<1>1. IInv => PriorityReturned
  BY DEF IInv
<1>2. QED
  BY <1>1, Invariant, PTL

\* An available semaphore that tasks wait for has a task awake for it, or the give is
\* noted in the queue lock.
THEOREM WakeupsKept == Spec => []NoLostWakeup
<1>1. IInv => NoLostWakeup
  BY DEF IInv
<1>2. QED
  BY <1>1, Invariant, PTL

-----------------------------------------------------------------------------
(* The refinement: each step is one of the semaphores' or changes nothing  *)
(* they know.                                                              *)

\* The state the semaphores have in a state of the kernel.
available == { s \in Semaphores : count[s] > 0 }
Calling(t) == IF pc[t] \in {"run", "delayed", "disinherit", "assert"} THEN None ELSE wanted[t]
calling == [t \in Tasks |-> Calling(t)]

LEMMA InitAbstract == Init => Abstract!Init
<1> SUFFICES ASSUME Init PROVE Abstract!Init
  OBVIOUS
<1>1. available = Mutexes \cup {}
  BY NamesAssumption DEF Init, available, Semaphores
<1>2. available \in { Mutexes \cup s : s \in SUBSET Signals }
  BY <1>1
<1>3. QED
  BY <1>2 DEF Init, Abstract!Init, available

\* A step that changes the call of no task, and no semaphore.
LEMMA Stutters ==
  ASSUME UNCHANGED <<count, xMutexHolder>>, \A t \in Tasks : Calling(t)' = Calling(t)
  PROVE  UNCHANGED Abstract!vars
BY DEF Abstract!vars, Calling

LEMMA CallIsCall ==
  ASSUME IInv, NEW t \in Tasks, NEW s \in Semaphores, NEW ticks, CallTake(t, s, ticks)
  PROVE  Abstract!Call(t, s)
<1>1. pc \in [Tasks -> TakeLabels \cup {"run", "delayed"}] /\ wanted \in [Tasks -> Semaphores \cup {None}]
  BY DEF IInv, MutexAccounting, TypeOK
<1>2. Calling(t) = None /\ Calling(t)' = s /\ \A u \in Tasks \ {t} : Calling(u)' = Calling(u)
  BY <1>1 DEF CallTake, Goto, Calling
<1>3. calling' = [calling EXCEPT ![t] = s] /\ calling[t] = None
  BY <1>2 DEF calling
<1>4. UNCHANGED <<count, xMutexHolder>>
  BY DEF CallTake, queue_vars
<1>5. QED
  BY <1>3, <1>4 DEF Abstract!Call, calling, Calling

LEMMA TakeIsTake ==
  ASSUME IInv, NEW t \in Tasks, TakeAvailable(t)
  PROVE  Abstract!Take(t)
<1> DEFINE s == wanted[t]
<1>1. TypeOK
  BY DEF IInv, MutexAccounting
<1>2. /\ pc[t] = "take" /\ count[s] > 0 /\ count' = [count EXCEPT ![s] = @ - 1]
      /\ pc' = [pc EXCEPT ![t] = "run"] /\ wanted' = [wanted EXCEPT ![t] = None]
  BY DEF TakeAvailable, Return, Goto
<1>3. s \in Semaphores
  BY <1>2 DEF IInv, TakenInOrder, Calls, TakeLabels
<1>4. count'[s] = 0 /\ \A q \in Semaphores \ {s} : count'[q] = count[q]
  BY <1>1, <1>2, <1>3 DEF TypeOK
<1>5. available' = available \ {s}
  BY <1>4 DEF available
<1>6. xMutexHolder' = [m \in Mutexes |-> IF m = s THEN t ELSE xMutexHolder[m]]
  <2>1. CASE s \in Mutexes
    BY <1>1, <2>1 DEF TakeAvailable, TypeOK
  <2>2. CASE s \notin Mutexes
    BY <1>1, <2>2 DEF TakeAvailable, TypeOK
  <2>3. QED
    BY <2>1, <2>2
<1>7. Calling(t) = s /\ Calling(t)' = None /\ \A u \in Tasks \ {t} : Calling(u)' = Calling(u)
  BY <1>1, <1>2 DEF Calling, TypeOK
<1>8. calling' = [calling EXCEPT ![t] = None] /\ calling[t] = s
  BY <1>7 DEF calling
<1>9. s \in available
  BY <1>2, <1>3 DEF available
<1>10. QED
  BY <1>5, <1>6, <1>8, <1>9 DEF Abstract!Take, calling, Calling, available

\* A call that comes back without the semaphore, which was not available then.
LEMMA RefusalIsRefuse ==
  ASSUME IInv, NEW t \in Tasks, pc[t] \in {"take", "timed_out"}, count[wanted[t]] = 0,
         \/ Goto(t, "assert") /\ UNCHANGED wanted
         \/ Return(t)
         \/ Goto(t, "disinherit") /\ UNCHANGED wanted,
         UNCHANGED <<count, xMutexHolder>>
  PROVE  Abstract!Refuse(t)
<1>1. TypeOK
  BY DEF IInv, MutexAccounting
<1>2. wanted[t] \in Semaphores
  BY DEF IInv, TakenInOrder, Calls, TakeLabels
<1>3. /\ Calling(t) = wanted[t] /\ Calling(t)' = None
      /\ \A u \in Tasks \ {t} : Calling(u)' = Calling(u)
  BY <1>1 DEF Calling, TypeOK, Goto, Return
<1>4. calling' = [calling EXCEPT ![t] = None] /\ calling[t] = wanted[t]
  BY <1>3 DEF calling
<1>5. wanted[t] # None /\ wanted[t] \notin available
  BY <1>2, NamesAssumption DEF available, Semaphores
<1>6. QED
  BY <1>4, <1>5 DEF Abstract!Refuse, calling, Calling, available

\* The task a give wakes goes on calling.
LEMMA WokenGoOnCalling ==
  ASSUME IInv, NEW s \in Semaphores, cTxLock[s] = -1, WakeFirst(s), UNCHANGED wanted
  PROVE  \A u \in Tasks : Calling(u)' = Calling(u)
<1>1. /\ \A u \in Tasks : pc'[u] = IF u \in WokenFrom(s) THEN "take" ELSE pc[u]
      /\ \A u \in WokenFrom(s) : u \in Tasks /\ pc[u] = "blocked" /\ wanted[u] = s
  BY GiveWakes
<1>2. QED
  BY <1>1 DEF Calling

LEMMA GiveIsGive ==
  ASSUME IInv, NEW t \in Tasks, NEW m \in Mutexes, GiveMutex(t, m)
  PROVE  Abstract!Give(t, m)
<1>1. TypeOK /\ m \in Semaphores
  BY DEF IInv, MutexAccounting, Semaphores
<1>2. /\ pc[t] = "run" /\ m \in holds[t] /\ xMutexHolder' = [xMutexHolder EXCEPT ![m] = None]
      /\ count' = [count EXCEPT ![m] = @ + 1] /\ WakeFirst(m) /\ UNCHANGED wanted
  BY DEF GiveMutex, MayGive, HolderAfterGive
<1>3. xMutexHolder[m] = t
  BY <1>2 DEF IInv, MutexAccounting
<1>4. count[m] \in {0, 1} /\ count'[m] = count[m] + 1 /\ \A q \in Semaphores \ {m} : count'[q] = count[q]
  BY <1>1, <1>2 DEF TypeOK
<1>5. available' = available \cup {m}
  BY <1>1, <1>4 DEF available
<1>6. cTxLock[m] = -1
  BY <1>1, <1>2, Running DEF GiveMutex, SuspendedLabels
<1>7. \A u \in Tasks : Calling(u)' = Calling(u)
  BY <1>1, <1>2, <1>6, WokenGoOnCalling
<1>8. calling' = calling
  BY <1>7 DEF calling
<1>9. QED
  BY <1>2, <1>3, <1>5, <1>8 DEF Abstract!Give, available, calling, Calling

LEMMA SignalIsSignal ==
  ASSUME IInv, NEW s \in Signals, (\E t \in Tasks : GiveSignal(t, s)) \/ GiveFromISR(s)
  PROVE  Abstract!Signal(s)
<1>1. TypeOK /\ s \in Semaphores
  BY DEF IInv, MutexAccounting, Semaphores
<1>2. count' = [count EXCEPT ![s] = @ + 1] /\ UNCHANGED <<wanted, xMutexHolder>>
  BY DEF GiveSignal, GiveFromISR
<1>3. count[s] \in {0, 1} /\ count'[s] = count[s] + 1 /\ \A q \in Semaphores \ {s} : count'[q] = count[q]
  BY <1>1, <1>2 DEF TypeOK
<1>4. available' = available \cup {s}
  BY <1>1, <1>3 DEF available
<1>5. \A u \in Tasks : Calling(u)' = Calling(u)
  <2>1. CASE \E t \in Tasks : GiveSignal(t, s)
    <3>1. PICK t \in Tasks : GiveSignal(t, s)
      BY <2>1
    <3>2. cTxLock[s] = -1 /\ WakeFirst(s)
      BY <1>1, <3>1, Running DEF GiveSignal, SuspendedLabels
    <3>3. QED
      BY <1>1, <1>2, <3>2, WokenGoOnCalling
  <2>2. CASE GiveFromISR(s) /\ cTxLock[s] = -1
    <3>1. WakeFirst(s)
      BY <2>2 DEF GiveFromISR
    <3>2. QED
      BY <1>1, <1>2, <2>2, <3>1, WokenGoOnCalling
  <2>3. CASE GiveFromISR(s) /\ cTxLock[s] # -1
    <3>1. pc' = pc
      BY <2>3 DEF GiveFromISR
    <3>2. QED
      BY <1>2, <3>1 DEF Calling
  <2>4. QED
    BY <2>1, <2>2, <2>3
<1>6. calling' = calling
  BY <1>5 DEF calling
<1>7. QED
  BY <1>2, <1>4, <1>6 DEF Abstract!Signal, available, calling, Calling

\* The steps of a call that the semaphores do not see.
LEMMA WaitingIsStuttering ==
  ASSUME IInv, NEW t \in Tasks,
         \/ TakeMustWait(t) \/ LockQueue(t) \/ CheckExpired(t) \/ CheckAvailable(t) \/ CheckEmpty(t)
         \/ PlaceOnEventList(t) \/ UnlockQueue(t) \/ DisinheritAfterTimeout(t)
         \/ WaitExpires(t) \/ TaskDelay(t) \/ DelayOver(t)
  PROVE  UNCHANGED Abstract!vars
<1>1. TypeOK
  BY DEF IInv, MutexAccounting
<1>2. pc \in [Tasks -> TakeLabels \cup {"run", "delayed"}] /\ wanted \in [Tasks -> Semaphores \cup {None}]
  BY <1>1 DEF TypeOK
<1>3. UNCHANGED <<count, xMutexHolder>>
  BY DEF TakeMustWait, LockQueue, CheckExpired, CheckAvailable, CheckEmpty, PlaceOnEventList, UnlockQueue,
         DisinheritAfterTimeout, WaitExpires, TaskDelay, DelayOver, queue_vars
<1>4. CASE TakeMustWait(t) \/ LockQueue(t) \/ CheckExpired(t) \/ CheckAvailable(t) \/ CheckEmpty(t)
           \/ PlaceOnEventList(t)
  <2>1. /\ pc[t] \in {"take", "lock", "check", "place"} /\ UNCHANGED wanted
        /\ \E l \in {"lock", "check", "unlock", "place", "placed"} : pc' = [pc EXCEPT ![t] = l]
    BY <1>4 DEF TakeMustWait, LockQueue, CheckExpired, CheckAvailable, CheckEmpty, PlaceOnEventList, Goto
  <2>2. \A u \in Tasks : Calling(u)' = Calling(u)
    BY <1>2, <2>1 DEF Calling
  <2>3. QED
    BY <1>3, <2>2, Stutters
<1>5. CASE UnlockQueue(t)
  <2> DEFINE woken == WokenByUnlock(t)
             next == IF pc[t] = "placed" THEN "blocked" ELSE IF expired[t] THEN "timed_out" ELSE "take"
  <2>1. /\ pc[t] \in {"unlock", "placed"} /\ UNCHANGED wanted
        /\ pc' = [u \in Tasks |-> IF u \in woken THEN "take" ELSE IF u = t THEN next ELSE pc[u]]
    BY <1>5 DEF UnlockQueue
  <2>2. \A u \in woken : pc[u] \in {"placed", "blocked"}
    <3>1. wanted[t] \in Semaphores
      BY <2>1 DEF IInv, TakenInOrder, Calls, TakeLabels
    <3>2. woken # {} => xTasksWaitingToReceive[wanted[t]] # << >> /\ woken = WokenFrom(wanted[t])
      BY DEF WokenByUnlock, WokenFrom
    <3>3. QED
      BY <3>1, <3>2, Woken, Listed
  <2>3. next \in {"blocked", "timed_out", "take"}
    OBVIOUS
  <2> HIDE DEF woken, next
  <2>4. \A u \in Tasks : pc'[u] = IF u \in woken THEN "take" ELSE IF u = t THEN next ELSE pc[u]
    BY <2>1
  <2>5. \A u \in Tasks : Calling(u)' = Calling(u)
    BY <2>1, <2>2, <2>3, <2>4 DEF Calling
  <2>6. QED
    BY <1>3, <2>5, Stutters
<1>6. CASE DisinheritAfterTimeout(t)
  <2>1. pc[t] = "disinherit" /\ pc' = [pc EXCEPT ![t] = "run"] /\ wanted' = [wanted EXCEPT ![t] = None]
    BY <1>6 DEF DisinheritAfterTimeout, Return, Goto
  <2>2. \A u \in Tasks : Calling(u)' = Calling(u)
    BY <1>2, <2>1 DEF Calling
  <2>3. QED
    BY <1>3, <2>2, Stutters
<1>7. CASE WaitExpires(t)
  <2>1. /\ pc[t] \in {"take", "lock", "blocked"} /\ UNCHANGED wanted
        /\ pc' = [pc EXCEPT ![t] = IF @ = "blocked" THEN "take" ELSE @]
    BY <1>7 DEF WaitExpires
  <2>2. \A u \in Tasks : Calling(u)' = Calling(u)
    BY <1>2, <2>1 DEF Calling
  <2>3. QED
    BY <1>3, <2>2, Stutters
<1>8. CASE TaskDelay(t) \/ DelayOver(t)
  <2>1. /\ pc[t] \in {"run", "delayed"} /\ UNCHANGED wanted
        /\ \E l \in {"run", "delayed"} : pc' = [pc EXCEPT ![t] = l]
    BY <1>8 DEF TaskDelay, DelayOver, Goto
  <2>2. \A u \in Tasks : Calling(u)' = Calling(u)
    BY <1>2, <2>1 DEF Calling
  <2>3. QED
    BY <1>3, <2>2, Stutters
<1>9. QED
  BY <1>4, <1>5, <1>6, <1>7, <1>8

\* The end of a wait: the semaphore is tried again, or the call is refused.
LEMMA TimedOutIsRefuseOrStutters ==
  ASSUME IInv, NEW t \in Tasks, TimedOut(t)
  PROVE  Abstract!Refuse(t) \/ UNCHANGED Abstract!vars
<1>1. pc[t] = "timed_out" /\ UNCHANGED <<count, xMutexHolder>>
  BY DEF TimedOut, queue_vars
<1>2. CASE Goto(t, "take") /\ UNCHANGED wanted
  <2>1. pc \in [Tasks -> TakeLabels \cup {"run", "delayed"}]
    BY DEF IInv, MutexAccounting, TypeOK
  <2>2. \A u \in Tasks : Calling(u)' = Calling(u)
    BY <1>1, <1>2, <2>1 DEF Calling, Goto
  <2>3. QED
    BY <1>1, <2>2, Stutters
<1>3. CASE IsQueueEmpty(wanted[t]) /\ (Return(t) \/ (Goto(t, "disinherit") /\ UNCHANGED wanted))
  <2>1. count[wanted[t]] = 0
    BY <1>3 DEF IsQueueEmpty
  <2>2. QED
    BY <1>1, <1>3, <2>1, RefusalIsRefuse
<1>4. \/ Goto(t, "take") /\ UNCHANGED wanted
      \/ IsQueueEmpty(wanted[t]) /\ (Return(t) \/ (Goto(t, "disinherit") /\ UNCHANGED wanted))
  BY DEF TimedOut
<1>5. QED
  BY <1>2, <1>3, <1>4

LEMMA NextImplementsNext == IInv /\ [Next]_vars => [Abstract!Next]_(Abstract!vars)
<1> SUFFICES ASSUME IInv, [Next]_vars PROVE Abstract!Next \/ UNCHANGED Abstract!vars
  OBVIOUS
<1>1. CASE UNCHANGED vars
  BY <1>1, Stutters DEF vars, task_vars, priority_vars, queue_vars, Calling
<1>2. ASSUME NEW t \in Tasks, TakeRefused(t) PROVE Abstract!Refuse(t)
  <2>1. pc[t] = "take" /\ count[wanted[t]] = 0 /\ UNCHANGED <<count, xMutexHolder>>
    BY <1>2 DEF TakeRefused, queue_vars
  <2>2. (Goto(t, "assert") /\ UNCHANGED wanted) \/ Return(t)
    BY <1>2 DEF TakeRefused
  <2>3. QED
    BY <2>1, <2>2, RefusalIsRefuse
<1>3. ASSUME NEW t \in Tasks, TakeStep(t) PROVE Abstract!Next \/ UNCHANGED Abstract!vars
  <2>1. CASE TakeAvailable(t) \/ TakeRefused(t) \/ TimedOut(t)
    BY <1>2, <2>1, TakeIsTake, TimedOutIsRefuseOrStutters DEF Abstract!Next
  <2>2. CASE ~ (TakeAvailable(t) \/ TakeRefused(t) \/ TimedOut(t))
    BY <1>3, <2>2, WaitingIsStuttering DEF TakeStep
  <2>3. QED
    BY <2>1, <2>2
<1>4. ASSUME NEW t \in Tasks, TaskStep(t) PROVE Abstract!Next \/ UNCHANGED Abstract!vars
  <2>1. CASE \E s \in Semaphores, ticks \in {"zero", "some", "max"} : CallTake(t, s, ticks)
    <3>1. PICK s \in Semaphores, ticks \in {"zero", "some", "max"} : CallTake(t, s, ticks)
      BY <2>1
    <3>2. Abstract!Call(t, s)
      BY <3>1, CallIsCall
    <3>3. QED
      BY <3>2 DEF Abstract!Next, Semaphores
  <2>2. CASE TakeStep(t)
    BY <1>3, <2>2
  <2>3. CASE \E m \in Mutexes : GiveMutex(t, m)
    BY <2>3, GiveIsGive DEF Abstract!Next
  <2>4. CASE \E s \in Signals : GiveSignal(t, s)
    BY <2>4, SignalIsSignal DEF Abstract!Next
  <2>5. CASE TaskDelay(t)
    BY <2>5, WaitingIsStuttering
  <2>6. QED
    BY <1>4, <2>1, <2>2, <2>3, <2>4, <2>5 DEF TaskStep
<1>5. ASSUME NEW t \in Tasks, WaitExpires(t) \/ DelayOver(t) PROVE UNCHANGED Abstract!vars
  BY <1>5, WaitingIsStuttering
<1>6. ASSUME NEW s \in Signals, GiveFromISR(s) PROVE Abstract!Next
  BY <1>6, SignalIsSignal DEF Abstract!Next
<1>7. QED
  BY <1>1, <1>4, <1>5, <1>6 DEF Next

\* Every behaviour of the kernel, with all its interleavings, is one of the one-step
\* semaphores the tasks rely on.
THEOREM ImplementsOneStepSemaphores == Spec => ImplementsSemaphores
<1>1. Init => Abstract!Init
  BY InitAbstract
<1>2. IInv /\ [Next]_vars => [Abstract!Next]_(Abstract!vars)
  BY NextImplementsNext
<1>3. QED
  BY <1>1, <1>2, Invariant, PTL DEF Spec, ImplementsSemaphores, Abstract!Spec

=============================================================================
