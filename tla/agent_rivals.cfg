SPECIFICATION Spec
CONSTANTS
  Turns = {1, 2}
  Instances = {1, 2}
  RunIds = {1, 2}
  MaxCalls = 1
  MAX_STEPS = 2
  KEEP = 1
  TimeLimit = TRUE
  LostReplies = FALSE
  MaxFaults = 0
  MaxCrashes = 1
INVARIANTS NoDispatchOverOthers CallsAreClosed StateCoversClosed
PROPERTIES ImplementsLedger
CHECK_DEADLOCK FALSE
