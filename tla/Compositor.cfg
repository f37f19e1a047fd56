SPECIFICATION Spec
CONSTANTS
  Processes = {1}
  MaxSurfaces = 2
  MaxWindows = 3
  MaxSelected = 2
  Windows = {1, 2}
  MaxRestarts = 2
  MaxUpdates = 5
INVARIANTS WindowsAgree UpdatesFollowMce NoLateFocus
CHECK_DEADLOCK FALSE
