SPECIFICATION Spec
CONSTANTS
  n1 = n1
  n2 = n2
  n3 = n3
  Nodes <- TwoNodes
  Links <- TwoLinks
  Targets = {n1, n2}
  EmptyNode = EmptyNode
  None = None
  NoOne = NoOne
  Threads = {p1, o1, m1}
  Pinners = {p1, o1}
  PinAdders = {p1}
  ProgressAdders = {}
  PinUpdaters = {}
  PutPinners = {o1}
  PinRemovers = {m1}
  Collectors = {g1}
  BlockRemovers = {}
  MaxCollections = 1
  MaxPaths = 1
  StorageFails = TRUE
  MaxCrashes = 1
INVARIANTS MarksCoverPins PinnedComplete
CHECK_DEADLOCK FALSE
