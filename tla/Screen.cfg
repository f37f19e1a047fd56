SPECIFICATION Spec
CONSTANTS
  LockModes = {"visual"}
  MaxMce = 2
  MaxTouches = 1
  MaxRequests = 2
  MaxValues = 5
  ShutdownModes = {"reboot", "poweroff"}
  MaxIndications = 5
  MaxStartup = 8
  FinalModes = {"undefined", "charging_only", "mtp_mode", "developer_mode"}
  PlainModes = {"undefined", "charging_only"}
  MaxUsb = 4
INVARIANTS LockAgrees ModeShown
PROPERTIES TouchFollows ShutdownShown HomeAnnounced
CHECK_DEADLOCK FALSE
