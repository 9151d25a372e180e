CONSTANTS
  UserMax = 1
  SlotMax = 1
  KeepaliveMax = 1
  QueueMax = 2

SPECIFICATION FairSpec

PROPERTIES StopEndsLoop

CHECK_DEADLOCK FALSE
