CONSTANTS
  u1 = u1
  u2 = u2
  u3 = u3
  Users = {u1, u2, u3}
  Poller = Poller
  Nobody = Nobody
  Owners <- AllOwners
  Parts = 2
  MaxIn = 2
CHECK_DEADLOCK FALSE
SPECIFICATION FairSpec
INVARIANTS NoCircularWait NeverBreaks IoOnOpenSocket WriteInterest DisconnectOnce
PROPERTIES QueueDrains ClosedIsForgotten
