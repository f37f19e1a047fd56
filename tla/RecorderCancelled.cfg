SPECIFICATION Spec
CONSTANTS
  Parts = {"recorder"}
  MaxTries = 10
  Ids = 3
  MaxFiles = 4
  Recorders = {"r1", "r2"}
  Buffers = {1, 2}
  SmallBuffers = {}
  OtherBuffers = {}
  MaxFrames = 4
  MaxEvents = 3
  MaxShots = 3
  TouchWindows = {1, 2}
  Fingers = {1, 2}
  MaxTouch = 1
  MaxLevel = 3
  MaxReports = 0
PROPERTIES CancelledOldBuffer
CHECK_DEADLOCK FALSE
