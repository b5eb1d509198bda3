CONSTANTS
  Conns = {k1, k2, k3}
  NoConn = NoConn
  MaxMsgs = 2
SPECIFICATION FairSpec
INVARIANTS ListMatches NoGaps DestroyedIsClosed
PROPERTIES DropEnds
CHECK_DEADLOCK FALSE
