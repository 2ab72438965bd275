\* A stop while the hover task returns the start semaphore.
SPECIFICATION FairSpec
CONSTANTS
  ESC_MIN = 10
  ESC_MAX = 20
  Demands <- AnyPulse
  EscCommands = {}
PROPERTIES StopWaitsAgain
