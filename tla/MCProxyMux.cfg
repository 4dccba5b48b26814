SPECIFICATION FairSpec
CONSTANTS
  Streams = {1, 2}
  MaxData = 1
  Cap = 1
INVARIANTS
  TypeOK
  NoOrphanTarget
  PendingOwned
  UpstreamKnown
  NoCircularWait
PROPERTIES
  LossWindow
  TargetReleased
  RemoteCloseSeen
CHECK_DEADLOCK FALSE
