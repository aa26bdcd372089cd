SPECIFICATION FairLockSpec
CONSTANTS
  Pinners = {p1, p2, p3}
  Collectors = {g1, g2}
  NoOne = NoOne
INVARIANTS LockTypeOK Exclusion RequestsCounted BlockedBehindWriter
PROPERTIES CollectorGetsLock PinnerGetsLock
