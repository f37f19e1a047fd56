SPECIFICATION Spec
CONSTANTS
  Clients = {c1, c2}
  Privileged = {c1}
  NoCall = NoCall
  Contents <- ClientContents
  MaxId = 2
  MaxRestore = 2
  Gestures = {}
  DatabaseOutcomes = {"intact"}
  CategoryEvents = TRUE
  MaxTime = 0
  MaxRestarts = 0

PROPERTIES PersistentProtected OthersUntouched
CHECK_DEADLOCK FALSE
