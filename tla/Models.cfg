SPECIFICATION Spec
CONSTANTS
  Apps = {1, 2, 3}
  Directories = {"d", "e"}
  NoDirectory = "none"
  Reinstalls = FALSE
  PlainFolders = FALSE
  MaxFolders = 1
  MaxSteps = 5
  Paths = {"a", "b", "c", "d"}
  Invalid = {"c"}
  Directory <- MCDirectory
  Requests <- MCRequests
  MaxEvents = 5
  Ids = {1, 2, 3}
  MaxRank = 1
  MaxPublished = 3
  Objects = {1, 2, 3}
  Lists <- ShortLists
  MaxOperations = 3
  Categories = {"x", "y", "z"}
  MaxStored = 2
  MaxVersions = 2
  Services = {"home", "office", "mobile"}
  MaxServiceSteps = 3
INVARIANTS InStep ListedInOrder DefinitionsFresh FollowsConnMan
PROPERTIES LayoutKept Synchronized
CHECK_DEADLOCK FALSE
