\* One site: a bulk start reaches an excluded task in its inner loop.
SPECIFICATION Spec
CONSTANTS
  s1 = s1
  s2 = s2
  v1 = v1
  v2 = v2
  None = None
  Broken = Broken
  Sites <- OneSite
  Versions <- TwoVersions
  AutoStart = {v1}
  MaxGen = 0
  Aliases <- OneName
  Excluded = {s1}
  Capacity = 2
  MaxSends = 2
  MaxEdits = 0
  RootCanVanish = FALSE
PROPERTY ExcludedSkipsStartAll
