CONSTANTS
  Endpoints = {e1, e2}
  NoEndpoint = NoEndpoint
  MaxMsgs = 2
SPECIFICATION FairSpec
INVARIANTS StreamInOrder
PROPERTIES QuietAfterShutdown RunsLeaveLoop
CHECK_DEADLOCK FALSE
