SPECIFICATION FairSpec
CONSTANTS
  Full = 3
  Loudness <- CubicLoudness
  MaxChanges = 2
  MaxOutages = 2
  NoVolume = NoVolume
  UserVolumes <- Within
INVARIANTS LoopConsistent KeysReleased
PROPERTIES Restored
CHECK_DEADLOCK FALSE
