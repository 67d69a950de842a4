SPECIFICATION Spec
CONSTANTS
  q1 = q1
  q2 = q2
  s1 = s1
  s2 = s2
  Searches = {}
  Sites = {s1, s2}
  Limit = 3
  Window = 3
  Threshold = 2
  SkipFor = 2
  MaxFails = 3
  Cap = 1
  Proxied = TRUE
  MaxTime = 7
  None = None
SYMMETRY SiteSymmetry
INVARIANT TwoBudgetsAtMost
