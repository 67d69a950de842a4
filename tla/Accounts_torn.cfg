SPECIFICATION Spec
CONSTANTS
  t1 = t1
  t2 = t2
  k1 = k1
  k2 = k2
  a = a
  b = b
  Blank = Blank
  None = None
  Tabs <- TwoTabs
  Checks <- NoCheck
  Teachers <- NoCheck
  Sites <- TwoSites
  MaxLogins = 2
  MaxDeletes = 1
  MaxRestarts = 1
CHECK_DEADLOCK FALSE
INVARIANT StorageStaysHome
