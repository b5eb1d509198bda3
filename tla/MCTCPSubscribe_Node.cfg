CONSTANTS
  User = User
  Poller = Poller
  Pubs = {p1, p2}
  Call = Call
  NoTransport = NoTransport
  Fds = {3, 4}
  NoFd = NoFd
CHECK_DEADLOCK FALSE
SPECIFICATION FairSpec
INVARIANTS SocketsMatch SilentAfterShutdown
PROPERTIES UnregisterEnds
