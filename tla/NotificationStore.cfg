SPECIFICATION Spec
CONSTANTS
  Clients = {}
  Privileged = {}
  NoCall = NoCall
  Contents <- StoreContents
  MaxId = 2
  MaxRestore = 1
  Gestures = {}
  DatabaseOutcomes = {"intact", "recreated", "closed"}
  CategoryEvents = TRUE
  MaxTime = 2
  MaxRestarts = 1
INVARIANTS TypeOK StoreMirrored ExpirationsOwned ExpirationArmed CommitScheduled
PROPERTY ImplementsDurableStore
CHECK_DEADLOCK FALSE
