SPECIFICATION FairSpec
CONSTANTS
  Clients = {}
  Privileged = {}
  NoCall = NoCall
  Contents <- TimedContents
  MaxId = 1
  MaxRestore = 1
  Gestures = {"invoke", "remove"}
  DatabaseOutcomes = {"intact", "recreated"}
  CategoryEvents = FALSE
  MaxTime = 2
  MaxRestarts = 1
PROPERTIES DisplayedEventuallyCloses PutOffWorkDone
CHECK_DEADLOCK FALSE
