CONSTANTS
  UserMax = 3
  SlotMax = 1
  KeepaliveMax = 1
  QueueMax = 2

SPECIFICATION FairSpec

INVARIANTS TypeOK SlotIsLive PathIsOwn SenderIsOwn

PROPERTIES OfflineIsSilent GoneIsFreed

\* The users come once, and the system may rest when they have gone.
CHECK_DEADLOCK FALSE
