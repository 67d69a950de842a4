SPECIFICATION FairSpec
CONSTANTS
  t1 = t1
  t2 = t2
  r1 = r1
  r2 = r2
  None = None
  MaxOps = 3
  RingSize = 1
  IdSpan = 2
  BatchCap = 2
  Poison <- PoisonSecond
  Tasks <- OneTask
  Rejections <- OneRejection
  MaxFaults = 1
INVARIANT TypeOK
INVARIANT OwnOutcome
INVARIANT OneBatchParked
INVARIANT NoLostWakeup
PROPERTY InOrder
PROPERTY EventuallyDecided
PROPERTY EventuallyFired
