SPECIFICATION Spec
CONSTANTS
  s1 = s1
  s2 = s2
  None = None
  Foreign = Foreign
  Sites <- OneSite
  Port = {1, 2, 3}
  RangeStart = 1
  Ephemeral = {3}
  Blocks <- TwoFixed
  Squatted = {}
  MaxForeign = 0
  MaxPasses = 1
INVARIANT FixedPortIsUsed
CHECK_DEADLOCK FALSE
