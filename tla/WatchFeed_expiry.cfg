SPECIFICATION FairFeedSpec
CONSTANTS
  None = None
  Replica = {r1}
  Key = {pod}
  Persistent = {pod}
  Value = {x}
  MaxEpoch = 1
  MaxSeq = 1
  MaxWatchers = 1
  MaxQueue = 2
  MaxWire = 1
  MaxLife = 1
PROPERTIES ExpiryReachesReplicas
CHECK_DEADLOCK FALSE
