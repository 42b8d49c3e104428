SPECIFICATION FairSpec
CONSTANTS
  Partitions = {1, 2}
  RECORDS = 3
  Services <- AllServices
  MaxFaults = 3
INVARIANTS AtLeastOnce ExactlyOnce
PROPERTIES CaughtUp
CHECK_DEADLOCK FALSE
