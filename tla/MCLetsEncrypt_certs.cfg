SPECIFICATION Spec
CONSTANTS
  d1 = d1
  d2 = d2
  m1 = m1
  m2 = m2
  None = None
  Domains <- OneDomain
  Mails <- OneMail
  MaxOrders = 3
  MaxFaults = 1
  MaxChanges = 1
  MaxCrashes = 1
INVARIANTS
  TypeOK
  ChallengesAgree
  OnlyCrashesSpoil
PROPERTIES
  ValidCertKept
  RoundEnds
  Certified
CHECK_DEADLOCK FALSE
