\* One site: a pass fails half-way and the file goes back to what it was.
SPECIFICATION Spec
CONSTANTS
  s1 = s1
  s2 = s2
  v1 = v1
  v2 = v2
  None = None
  Broken = Broken
  Sites <- OneSite
  Versions <- TwoVersions
  AutoStart = {v1}
  MaxGen = 2
  Aliases <- OneName
  Excluded = {s1}
  Capacity = 1
  MaxSends = 0
  MaxEdits = 2
  RootCanVanish = TRUE
PROPERTY KeepsRunning
