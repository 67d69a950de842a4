SPECIFICATION Spec
CONSTANTS
  t1 = t1
  t2 = t2
  k1 = k1
  k2 = k2
  a = a
  b = b
  Blank = Blank
  None = None
  Tabs <- OneTab
  Checks <- OneCheck
  Teachers <- OneCheck
  Sites <- OneSite
  MaxLogins = 2
  MaxDeletes = 1
  MaxRestarts = 1
INVARIANT LoginSurvives
CHECK_DEADLOCK FALSE
