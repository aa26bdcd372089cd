SPECIFICATION FairSpec
CONSTANTS
  Writers = {w1, w2}
  NoWriter = NoWriter
  MaxUpdates = 3
  PublishFails = TRUE
  MayClose = TRUE
INVARIANTS TypeOK NoUpdateLost 
  
CHECK_DEADLOCK FALSE
