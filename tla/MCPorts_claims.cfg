SPECIFICATION Spec
CONSTANTS
  s1 = s1
  s2 = s2
  None = None
  Foreign = Foreign
  Sites <- TwoSites
  Port = {1, 2, 3}
  RangeStart = 1
  Ephemeral = {3}
  Blocks <- EveryKind
  Squatted = {1}
  MaxForeign = 1
  MaxPasses = 1
INVARIANTS
  TypeOK
  ClaimedPortsDistinct
  CacheFollowsConfig
SYMMETRY SiteSymmetry
CHECK_DEADLOCK FALSE
