\* Start, stop, servo, target and ESC commands at any moment (pulse widths in 100 us).
SPECIFICATION FairSpec
CONSTANTS
  ESC_MIN = 10
  ESC_MAX = 20
  Demands <- AnyPulse
  EscCommands = {25}
INVARIANTS TypeOK MutexIsHeld StartNotLost NoTakeoffOnOldTarget StepIsWhole NoOutputLeftBehind
PROPERTIES StartedRuns StopEndsFlight
