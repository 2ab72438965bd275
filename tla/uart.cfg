\* Three requests into a ring that holds one byte, answered with none or one
\* messages, and a stream value.
SPECIFICATION FairSpec
CONSTANTS
  Uart = Uart
  Cc = Cc
  FrameLen <- Lengths
  Replies = {0, 1}
  RingSize = 2
  RequestLen = 2
  MaxRequests = 3
  MaxStreamed = 1
INVARIANTS TypeOK OnlyOverlapDamages FreeMeansIdle HandledAsSent SuspendedOnlyAfterLoss
PROPERTIES WritesReturn
CHECK_DEADLOCK FALSE
