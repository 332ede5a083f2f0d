SPECIFICATION Spec
CONSTANTS
  None = None
  Torn = Torn
  h1 = h1
  h2 = h2
  Handlers <- TwoHandlers
  Updates <- SomeUpdates
  Deletes <- SomeDeletes
  Settings <- SomeSettings
  MayAsk <- Shares
  OldFiles <- InitialFiles
  NewFiles <- EditedFiles
  Containers = {"box"}
  MaxEdits = 2
  MaxEvents = 3
  MaxFaults = 1
  MaxCrashes = 1
  MaxContainers = 1
INVARIANTS
  TypeOK
  UnusableIsBlamed
PROPERTIES
  ChangesOnlyItsSite
  AnswersAreTrue
  Settles
CHECK_DEADLOCK FALSE
