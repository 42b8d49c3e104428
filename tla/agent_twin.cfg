SPECIFICATION Spec
CONSTANTS
  Turns = {1, 2}
  Instances = {1, 2}
  RunIds = {1}
  MaxCalls = 0
  MAX_STEPS = 1
  KEEP = 1
  TimeLimit = FALSE
  LostReplies = FALSE
  MaxFaults = 0
  MaxCrashes = 0
INVARIANTS AcceptedOnce
CHECK_DEADLOCK FALSE
