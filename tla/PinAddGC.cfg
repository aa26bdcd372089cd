SPECIFICATION Spec
CONSTANTS
  n1 = n1
  n2 = n2
  n3 = n3
  Nodes <- ThreeNodes
  Links <- ThreeLinks
  Targets = {n1, n2}
  EmptyNode = EmptyNode
  None = None
  NoOne = NoOne
  Threads = {p1, u1}
  Pinners = {p1, u1}
  PinAdders = {p1}
  ProgressAdders = {}
  PinUpdaters = {u1}
  PutPinners = {}
  PinRemovers = {}
  Collectors = {g1, r1}
  BlockRemovers = {r1}
  MaxCollections = 1
  MaxPaths = 1
  StorageFails = TRUE
  MaxCrashes = 1
INVARIANTS TypeOK PinnedComplete PinStateLoadable PinStateWalkable PinsNotLost
PROPERTY PinnedNeverDeleted
CHECK_DEADLOCK FALSE
