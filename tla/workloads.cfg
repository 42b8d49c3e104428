SPECIFICATION MCSpec
CONSTANTS Requests = {1, 2, 3}
  Ids = {1, 2}
  PAGE_BYTES = 4393
  TASK_BYTES = 40
  WRITE_LIMIT = 4096
  TaskFaults = 1
  Octets <- SomeOctets
  Postings <- Posted
  MAX_REQUESTS = 2
  MAX_BODY_KEPT = 3
  MAX_BODY_READ = 4
  BinFaults = 1
  Stream = {1, 2}
  Undecodable = {2}
  MAX_DELIVERIES = 3
  ConsumerFaults = 1
  MaxWindows = 1
  Messages = {1, 2, 3}
  BATCH = 2
  MAX_ROUNDS = 2
  Budget = 2
  MaxDrains = 2
  WorkerFaults = 2
  Bodies <- SomeBodies
  Keys = {"", "k"}
  MaxCalls = 2
  Kinds = {"text", "null", "bad"}
  Length = 4
  BATCH_SIZE = 3
  MAX_TRAPS = 2
  HandlerFaults = 3
\* Limits in the order that the real ones have to each other and to the width.
  Numbers = {0, 1, 4, 5, 8, 9, 10, 11, 16, 17}
  DEFAULT_COUNT = 4
  DEFAULT_SIZE = 2
  MAX_BATCH_RECORDS = 10
  MAX_RECORD_BYTES = 16
  MAX_BATCH_BYTES = 40
  USIZE = 128
  Secrets = {"", "k1", "k2"}
  Urls = {"a", "b", "malformed"}
  DEFAULT_FORWARD_URL = "a"
  MAX_BODY_BYTES = 1
INVARIANTS StoreIsItsHistory ReceiptsAreHonest TemplatesKeepTheirWord NothingIsSkipped WhatLeavesIsChecked TidyLosesNothing PasswordsAreAsSaid
PROPERTIES EverythingIsServed
CHECK_DEADLOCK FALSE
