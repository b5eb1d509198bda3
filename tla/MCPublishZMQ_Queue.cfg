SPECIFICATION FairSpec
CONSTANTS
  QueueSize = 3
  MaxMsgs = 7
INVARIANTS
  IndInv
  LostOnlyWhenFull
PROPERTIES
  ImplementsFeed
  ShutdownJoins
  QueuedIsSent
CHECK_DEADLOCK FALSE
