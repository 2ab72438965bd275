------------------------------ MODULE Semaphores ------------------------------
(***************************************************************************)
(* What the tasks of the vehicle rely on when they use a semaphore: taking *)
(* one is a single step that finds it available, a refused take found it   *)
(* taken, and a mutex is given back by the task that took it.  The kernel  *)
(* (module RtosSemaphores) does the same in many steps that others         *)
(* interleave with.                                                        *)
(***************************************************************************)
EXTENDS Integers

CONSTANTS
  Tasks,
  Mutexes,
  Signals,     \* the binary semaphores
  None         \* no semaphore, or no task

VARIABLES
  available,   \* the semaphores that can be taken
  owner,       \* the task that has each mutex, or None
  calling      \* the semaphore each task is taking, or None

vars == <<available, owner, calling>>

Init ==
  /\ available \in { Mutexes \cup s : s \in SUBSET Signals }
  /\ owner = [m \in Mutexes |-> None]
  /\ calling = [t \in Tasks |-> None]

Call(t, s) ==
  /\ calling[t] = None
  /\ calling' = [calling EXCEPT ![t] = s]
  /\ UNCHANGED <<available, owner>>

Take(t) ==
  /\ calling[t] \in available
  /\ available' = available \ {calling[t]}
  /\ owner' = [m \in Mutexes |-> IF m = calling[t] THEN t ELSE owner[m]]
  /\ calling' = [calling EXCEPT ![t] = None]

Refuse(t) ==
  /\ calling[t] # None
  /\ calling[t] \notin available
  /\ calling' = [calling EXCEPT ![t] = None]
  /\ UNCHANGED <<available, owner>>

Give(t, m) ==
  /\ owner[m] = t
  /\ owner' = [owner EXCEPT ![m] = None]
  /\ available' = available \cup {m}
  /\ UNCHANGED calling

Signal(s) ==
  /\ available' = available \cup {s}
  /\ UNCHANGED <<owner, calling>>

Next ==
  \/ \E t \in Tasks : Take(t) \/ Refuse(t) \/ \E s \in Mutexes \cup Signals : Call(t, s)
  \/ \E t \in Tasks, m \in Mutexes : Give(t, m)
  \/ \E s \in Signals : Signal(s)

Spec == Init /\ [][Next]_vars
=============================================================================
