SPECIFICATION Spec
CONSTANTS
  f1 = f1
  f2 = f2
  leaf = leaf
  d0 = d0
  d1 = d1
  d2 = d2
  Nodes <- MCNodes
  Links <- MCLinks
  File <- MCFile
  Tree <- MCTree
  NFiles = 2
  EmptyNode = EmptyNode
  None = None
  NoOne = NoOne
  Threads = {t1}
  Pinners = {t1}
  Collectors = {g1}
  MaxCollections = 1
  StorageFails = FALSE
INVARIANT AddedIsPinned
CHECK_DEADLOCK FALSE
