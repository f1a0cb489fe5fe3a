SPECIFICATION DeltaSpec
CONSTANTS
  Space = {n1, n2}
  ObjectName = {o}
  Shape = {shape}
  Absent = Absent
  MaxQueued = 1
  MaxHeld = 1
  MaxStale = 1
  QuietLimit = 2
  Pressures = {{}}
  MaxCalmEvents = 4
  MaxTightEvents = 4
  MaxLife = 1
  MaxRecoveries = 1
INVARIANTS LedgerExact
CHECK_DEADLOCK FALSE
