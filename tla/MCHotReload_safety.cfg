\* Two sites, three generations of tasks, every pair of file edits; a root_dir
\* that may stop resolving.  Commands are left to MCHotReload_liveness.
SPECIFICATION Spec
CONSTANTS
  s1 = s1
  s2 = s2
  v1 = v1
  v2 = v2
  None = None
  Broken = Broken
  Sites <- TwoSites
  Versions <- TwoVersions
  AutoStart = {v1}
  MaxGen = 2
  Aliases <- OwnNames
  Excluded = {}
  Capacity = 1
  MaxSends = 0
  MaxEdits = 2
  RootCanVanish = TRUE
SYMMETRY SiteSymmetry
INVARIANTS
  TypeOK
  LiveTaskIsMapped
  NoOrphan
  HostsMatchConfig
  NoStrayStatus
PROPERTY ImplementsSupervisor
