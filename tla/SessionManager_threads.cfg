SPECIFICATION FairSpec
CONSTANTS
  c1 = c1
  c2 = c2
  t1 = t1
  t2 = t2
  Clients = {c1}
  Threads = {t1, t2}
  MaxId = 1
  TTL = 2
  MaxLogin = 0
  MaxQueue = 1
  Kinds <- AllKinds
  RestoreModes = {"all", "off", "skip-keepalive"}
  Faults = TRUE
  Flusher = Flusher
  NoOne = NoOne
  None = None
INVARIANT NoOrphanThread
PROPERTY FlushTerminates
PROPERTY ProbeLeavesClocks
