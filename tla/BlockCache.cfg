CONSTANTS
  Keys = {k1}
  None = None
  Threads = {p1, p2, b1, x1, r1}
  Putters = {p1, p2}
  Batchers = {b1}
  Deleters = {x1}
  LockedReaders = {r1}
  FreeReaders = {}
  IOFails = TRUE
SPECIFICATION Spec
INVARIANTS TypeOK  BloomCovers
CHECK_DEADLOCK FALSE
