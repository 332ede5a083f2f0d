SPECIFICATION Spec
CONSTANTS
  c1 = c1
  c2 = c2
  None = None
  Conns <- MCConns
  Talks <- MCTalks
  Capacity = 2
  MaxToggles = 2
  MaxRepeats = 1
  MaxUpdates = 1
  MaxPiece = 3
INVARIANTS
  ShownIsSent
  NoGhosts
CHECK_DEADLOCK FALSE
