CONSTANTS
  d1 = d1
  Keys = {k1, k2}
  getDir <- ShardOne
  None = None
  Threads = {t1, t2}
  Putters = {t1}
  Batchers = {t2}
  Deleters = {t2}
  putMaxRetries = 2
  IOFails = TRUE
  MaxCrashes = 1
SPECIFICATION Spec
INVARIANTS TypeOK DiskUsageExact
PROPERTIES StoreContract WaitersWake
CHECK_DEADLOCK FALSE
