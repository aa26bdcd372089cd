SPECIFICATION FairSpec
CONSTANTS
  f1 = f1
  f2 = f2
  leaf = leaf
  d0 = d0
  d1 = d1
  d2 = d2
  Nodes <- MCNodes
  Links <- MCLinks
  File <- MCFile
  Tree <- MCTree
  NFiles = 2
  EmptyNode = EmptyNode
  None = None
  NoOne = NoOne
  Threads = {t1, t2}
  Pinners = {t1, t2}
  Collectors = {g1}
  MaxCollections = 2
  StorageFails = FALSE
INVARIANTS AddTypeOK   CollectorLetIn
PROPERTIES AddEnds CollectionEnds
CHECK_DEADLOCK FALSE
