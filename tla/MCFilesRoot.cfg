SPECIFICATION Spec
CONSTANTS
  v1 = v1
  v2 = v2
  x = x
  y = y
  Nodes <- MCNodes
  Links <- MCLinks
  EmptyNode = EmptyNode
  None = None
  NoOne = NoOne
  Threads = {}
  Pinners = {}
  Collectors = {g1}
  MaxCollections = 2
  StorageFails = FALSE
  FilesWriters = {w1}
  MaxWrites = 2
  MaxCrashes = 1
INVARIANTS FilesTypeOK SnapshotKept
CHECK_DEADLOCK FALSE
