SPECIFICATION UpstreamSpec
CONSTANTS
  Caller = {a, b, c}
  None = None
  Threshold = 2
  Cooldown = 1
  Timeout = 2
  MaxGeneration = 6
INVARIANTS AtMostOneProbe
CHECK_DEADLOCK FALSE
