SPECIFICATION Spec
CONSTANTS
  Partitions = {1, 2}
  RECORDS = 2
  Services <- Rejecting
  MaxFaults = 1
INVARIANTS AtLeastOnce
CHECK_DEADLOCK FALSE
