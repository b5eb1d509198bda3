SPECIFICATION FairSpec
CONSTANTS
  c1 = c1
  c2 = c2
  Calls = {c1, c2}
  Methods <- BindOrder
  Method <- MethodOf
  Poller = Poller
  Nobody = Nobody
INVARIANTS
  NeverAstray
PROPERTIES
  AnsweredIsForgotten
  BoundIsAnswered
  
CHECK_DEADLOCK FALSE
