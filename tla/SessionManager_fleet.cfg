SPECIFICATION Spec
CONSTANTS
  c1 = c1
  c2 = c2
  t1 = t1
  t2 = t2
  Clients = {c1}
  Threads = {t1, t2}
  MaxId = 2
  TTL = 1
  MaxLogin = 0
  MaxQueue = 1
  Kinds <- TwoKinds
  RestoreModes = {"all"}
  Faults = FALSE
  Flusher = Flusher
  NoOne = NoOne
  None = None
SYMMETRY ThreadSymmetry
INVARIANT TypeOK
INVARIANT LockDiscipline
INVARIANT OneHome
INVARIANT DoneMeansDone
PROPERTY FlushCoversFleet
