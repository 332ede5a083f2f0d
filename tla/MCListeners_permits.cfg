\* Two permits more than two restarts can lose.
SPECIFICATION Spec
CONSTANTS
  c1 = c1
  c2 = c2
  a1 = a1
  a2 = a2
  None = None
  Conns <- TwoConns
  Addrs <- TwoAddrs
  Contested <- Second
  Limit = 6
  MaxChanges = 2
INVARIANTS
  TypeOK
  PermitsConserved
  LossPerChange
PROPERTIES
  ListenersFollow
  ClientsAnswered
CHECK_DEADLOCK FALSE
