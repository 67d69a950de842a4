SPECIFICATION Spec
CONSTANTS
  c1 = c1
  c2 = c2
  t1 = t1
  t2 = t2
  Clients = {c1,c2}
  Threads = {t1, t2}
  MaxId = 1
  TTL = 1
  MaxLogin = 1
  MaxQueue = 1
  Kinds <- JustPersistent
  RestoreModes = {"all"}
  Faults = FALSE
  Flusher = Flusher
  NoOne = NoOne
  None = None
SYMMETRY Symmetry
INVARIANT AckedLoginIsDurable
PROPERTY SnapshotNeverRollsBack
