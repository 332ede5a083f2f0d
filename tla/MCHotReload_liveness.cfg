\* One site under commands, edits and exit, with the fairness of the tasks.
SPECIFICATION Spec
CONSTANTS
  s1 = s1
  s2 = s2
  v1 = v1
  v2 = v2
  None = None
  Broken = Broken
  Sites <- OneSite
  Versions <- TwoVersions
  AutoStart = {v1}
  MaxGen = 2
  Aliases <- OneName
  Excluded = {s1}
  Capacity = 1
  MaxSends = 1
  MaxEdits = 2
  RootCanVanish = FALSE
INVARIANTS
  RunningIsHosted
  OneProcessPerSite
PROPERTIES
  ReloadTerminates
  ShutdownCompletes
  Converges
  StopTakesEffect
  RestartsUnlessStopped
