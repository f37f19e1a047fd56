SPECIFICATION Spec
CONSTANTS
  Files = {1, 2}
  Guesses = {3}
  Contents = {"shown", "hidden", "invalid"}
  Absent = "absent"
  Valid = {"shown", "hidden"}
  Displayable = {"shown"}
  InCategory <- MCInCategory
  FirstCategory = "all"
  Title <- MCTitle
  Vendor <- MCVendor
  Packages = {"p1", "p2"}
  Services = {"s"}
  Guess <- MCGuess
  Announced <- MCAnnounced
  NoPath = 0
  NoPosition = 99
  NoPackage = "none"
  NoService = "none"
  MaxChanges = 2
  MaxCalls = 2
INVARIANTS ListConsistent SettledIsCurrent
PROPERTIES OrderSurvives BusyEnds
CHECK_DEADLOCK FALSE
