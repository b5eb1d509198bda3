CONSTANTS
  Threads = {u1, u2}
  Poller = Poller
  Fds = {0, 1}
  SignalFd = 0
  Transports = {t1, t2}
  Pipe = Pipe
  NoOne = NoOne
  Interest = {"IN"}
  MaxOps = 3
SPECIFICATION FairSpec
INVARIANTS NoStaleError IndInv
PROPERTIES InterestIsServed ShutdownJoins ErrorIsHandled
