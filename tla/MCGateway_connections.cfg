SPECIFICATION Spec
CONSTANTS
  c1 = c1
  c2 = c2
  None = None
  Conns <- TwoConns
  Arrivals <- Clients
  SiteChoices <- Sites
  MaxTries = 3
  Permits = 1
  Wrap = 2
INVARIANTS
  TypeOK
  SpeaksItsLanguage
  PolicyKept
  TrackedWhileAlive
  KindIsReal
PROPERTIES
  ConnectionsEnd
CHECK_DEADLOCK FALSE
