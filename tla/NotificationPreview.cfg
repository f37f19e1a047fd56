SPECIFICATION FairSpec
CONSTANTS
  Ids = {n1, n2, n3}
  Contents <- BannerContents
  Situations <- LockStates
  MaxRetries = 2
  NoNotification = NoNotification
INVARIANTS QueueAlive
PROPERTIES TransientClosed QueueServed
CHECK_DEADLOCK FALSE
