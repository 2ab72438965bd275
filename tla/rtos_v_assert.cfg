\* A wait with a timeout that runs out while the mutex changes hands.
SPECIFICATION Spec
CONSTANTS
  low = low
  middle = middle
  high = high
  i2c_mx = i2c_mx
  driver_mx = driver_mx
  Tasks = {low, middle, high}
  Mutexes = {i2c_mx}
  Signals = {}
  None = None
  uxBasePriority <- Priorities
  OuterMutex <- NoneInner
INVARIANTS InheritanceAssertHolds
CHECK_DEADLOCK FALSE
