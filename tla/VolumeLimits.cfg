SPECIFICATION Spec
CONSTANTS
  Full = 3
  Loudness <- CubicLoudness
  MaxChanges = 2
  MaxOutages = 0
  NoVolume = NoVolume
  UserVolumes <- Beyond
INVARIANTS VolumeWithinLimits
CHECK_DEADLOCK FALSE
