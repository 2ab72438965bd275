\* Three tasks, the bus mutex with the mutex of its driver, and the end of a transfer.
SPECIFICATION Spec
CONSTANTS
  low = low
  middle = middle
  high = high
  i2c_mx = i2c_mx
  driver_mx = driver_mx
  Tasks = {low, middle, high}
  Mutexes = {i2c_mx, driver_mx}
  Signals = {done}
  None = None
  uxBasePriority <- Priorities
  OuterMutex <- DriverUnderBus
INVARIANTS MutexAccounting HolderInherits PriorityReturned NoLostWakeup
PROPERTIES ImplementsSemaphores
CHECK_DEADLOCK FALSE
