SPECIFICATION Spec
CONSTANTS Requests = {1, 2}
  Ids = {1}
  PAGE_BYTES = 4393
  TASK_BYTES = 40
  WRITE_LIMIT = 4096
  MaxFailures = 1
INVARIANTS ResponsesAreWhole
CHECK_DEADLOCK FALSE
