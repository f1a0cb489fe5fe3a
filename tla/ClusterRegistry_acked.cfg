SPECIFICATION RegistriesSpec
CONSTANTS
  c1 = c1  c2 = c2  k1 = k1  light = light  middle = middle  heavy = heavy
  None = None
  Cluster = {c1, c2}
  Key = {k1}
  Value = {light, middle, heavy}
  Weight <- MCWeight
  Overhead = 1
  MaxClusters = 2
  MaxResources = 1
  MaxPending = 2
  MaxStateBytes = 9
  MaxTotalStateBytes = 12
  HeartbeatTimeout = 1
  StaleTTL = 1
  MaxGeneration = 1
  MaxEpoch = 2
  MaxSeq = 2
  \* search index
  Space = {n1}
  ObjectName = {o}
  Shape = {shape}
  Absent = Absent
  MaxQueued = 1
  MaxHeld = 1
  MaxStale = 1
  QuietLimit = 1
  Pressures = {{}}
  MaxCalmEvents = 3
  MaxTightEvents = 2
  MaxLife = 2
  MaxRecoveries = 1
PROPERTIES AckedSurvivesCommit
CHECK_DEADLOCK FALSE
