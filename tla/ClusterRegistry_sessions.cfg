SPECIFICATION SessionsSpec
CONSTANTS
  c1 = c1  c2 = c2  k1 = k1  light = light  middle = middle  heavy = heavy
  None = None
  Cluster = {c1}
  Key = {k1}
  Value = {light}
  Weight <- MCWeight
  Overhead = 1
  MaxClusters = 1
  MaxResources = 1
  MaxPending = 1
  MaxStateBytes = 6
  MaxTotalStateBytes = 8
  HeartbeatTimeout = 1
  StaleTTL = 1
  MaxGeneration = 2
  MaxEpoch = 2
  MaxSeq = 2
  \* search index
  Space = {n1}
  ObjectName = {o}
  Shape = {shape}
  Absent = Absent
  MaxQueued = 1
  MaxHeld = 1
  MaxStale = 1
  QuietLimit = 1
  Pressures = {{}}
  MaxCalmEvents = 3
  MaxTightEvents = 2
  MaxLife = 2
  MaxRecoveries = 1
INVARIANTS TypeOK StagingOwned
PROPERTIES PreemptedIsInert NeverRollsBack ImplementsSource AbandonedIsReleased
