SPECIFICATION Spec
CONSTANTS
  t1 = t1
  t2 = t2
  r1 = r1
  r2 = r2
  None = None
  MaxOps = 4
  RingSize = 1
  IdSpan = 3
  BatchCap = 2
  Poison <- PoisonSecond
  Tasks <- NoNames
  Rejections <- NoNames
  MaxFaults = 3
INVARIANT TypeOK
INVARIANT OwnOutcome
INVARIANT OneBatchParked
PROPERTY InOrder
