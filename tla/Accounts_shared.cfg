SPECIFICATION FairSpec
CONSTANTS
  t1 = t1
  t2 = t2
  k1 = k1
  k2 = k2
  a = a
  b = b
  Blank = Blank
  None = None
  Tabs <- OneTab
  Checks <- OneCheck
  Teachers <- OneCheck
  Sites <- OneSite
  MaxLogins = 1
  MaxDeletes = 1
  MaxRestarts = 1
INVARIANT TypeOK
INVARIANT TeachingSurvives
INVARIANT OneDevice
INVARIANT ForksOnlyInARace
INVARIANT BackOnlyIfOutlived
INVARIANT LoginSurvives
PROPERTY EveryCheckEnds
CHECK_DEADLOCK FALSE
