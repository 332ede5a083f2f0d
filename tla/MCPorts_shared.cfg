SPECIFICATION Spec
CONSTANTS
  s1 = s1
  s2 = s2
  None = None
  Foreign = Foreign
  Sites <- TwoSites
  Port = {1, 2, 3}
  RangeStart = 1
  Ephemeral = {3}
  Blocks <- AutoOnly
  Squatted = {}
  MaxForeign = 0
  MaxPasses = 1
INVARIANT NoSharedPort
CHECK_DEADLOCK FALSE
