SPECIFICATION Spec
CONSTANTS
  Parts = {"session", "files", "recorder", "shots", "touch", "battery"}
  MaxTries = 10
  Ids = 3
  MaxFiles = 4
  Recorders = {"r1", "r2"}
  Buffers = {1, 2, 3}
  SmallBuffers = {2}
  OtherBuffers = {3}
  MaxFrames = 2
  MaxEvents = 2
  MaxShots = 3
  TouchWindows = {1, 2}
  Fingers = {1, 2}
  MaxTouch = 4
  MaxLevel = 3
  MaxReports = 4
INVARIANTS TouchesWhole BatteryShown
PROPERTIES RequestsAnswered FramesArrive ShotsReported FailureReported
CHECK_DEADLOCK FALSE
