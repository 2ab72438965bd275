\* Four events: captures asked for, at most one call of GetValue in each of the two
\* tasks that answer, and transfers that fail.
SPECIFICATION FairSpec
CONSTANTS
  MaxEvents = 4
  MaxGets = 1
INVARIANTS UndisturbedReadingsExact TransferAsAsked AttitudeWhole SkewBounded
PROPERTIES FreshInputsArrive
CHECK_DEADLOCK FALSE
