SPECIFICATION FairSpec
CONSTANTS
  Products = {1}
  Existing = {}
  Callers = {1, 2, 4}
  Requests = {1, 2}
  Asks <- MCAsks
  Jobs = {4, 5}
  FailTimes <- MCFailTimes
  Concurrency = 1
  Orders = {"b"}
  Buys <- MCBuys
  Batch <- MCBatch
  MaxVersion = 3
  MaxFaults = 1
INVARIANTS OneLoaderPerLock StaleForCause GivenUpForCause
PROPERTIES OnlyOwnLockReleased EverythingSettles
CHECK_DEADLOCK FALSE
