SPECIFICATION FeedSpec
CONSTANTS
  None = None
  Replica = {r1}
  Key = {pod}
  Persistent = {pod}
  Value = {x}
  MaxEpoch = 2
  MaxSeq = 1
  MaxWatchers = 1
  MaxQueue = 3
  MaxWire = 1
  MaxLife = 2
INVARIANTS FeedIsCoherent
PROPERTIES ReplicaNeverGoesBack
CHECK_DEADLOCK FALSE
