SPECIFICATION Spec
CONSTANTS
  n1 = n1
  n2 = n2
  n3 = n3
  Nodes <- TwoNodes
  Links <- TwoLinks
  Targets = {n1}
  EmptyNode = EmptyNode
  None = None
  NoOne = NoOne
  Threads = {p1, m1}
  Pinners = {p1}
  PinAdders = {p1}
  ProgressAdders = {}
  PinUpdaters = {}
  PutPinners = {}
  PinRemovers = {m1}
  Collectors = {g1}
  BlockRemovers = {}
  MaxCollections = 1
  MaxPaths = 1
  StorageFails = FALSE
  MaxCrashes = 0
INVARIANT PinStateLoadable
CHECK_DEADLOCK FALSE
