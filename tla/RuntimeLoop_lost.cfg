SPECIFICATION Spec
CONSTANTS
  t1 = t1
  t2 = t2
  r1 = r1
  r2 = r2
  None = None
  MaxOps = 3
  RingSize = 1
  IdSpan = 3
  BatchCap = 2
  Poison <- NoPoison
  Tasks <- OneTask
  Rejections <- OneRejection
  MaxFaults = 1
INVARIANT NoTaskLost
