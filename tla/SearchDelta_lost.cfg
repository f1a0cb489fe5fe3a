SPECIFICATION DeltaSpec
CONSTANTS
  Space = {n1}
  ObjectName = {o}
  Shape = {shape}
  Absent = Absent
  MaxQueued = 1
  MaxHeld = 1
  MaxStale = 1
  QuietLimit = 2
  Pressures = {{"queue"}}
  MaxCalmEvents = 3
  MaxTightEvents = 3
  MaxLife = 1
  MaxRecoveries = 1
INVARIANTS ChangesAreTracked
CHECK_DEADLOCK FALSE
