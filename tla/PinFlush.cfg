SPECIFICATION Spec
CONSTANTS
  n1 = n1
  n2 = n2
  n3 = n3
  Nodes <- TwoNodes
  Links <- TwoLinks
  Targets = {n1, n2}
  EmptyNode = EmptyNode
  None = None
  NoOne = NoOne
  Threads = {x1, m1}
  Pinners = {x1}
  PinAdders = {x1}
  ProgressAdders = {x1}
  PinUpdaters = {}
  PutPinners = {}
  PinRemovers = {m1}
  Collectors = {g1}
  BlockRemovers = {}
  MaxCollections = 0
  MaxPaths = 2
  StorageFails = TRUE
  MaxCrashes = 1
INVARIANTS PinStateLoadable PinsNotLost
CHECK_DEADLOCK FALSE
