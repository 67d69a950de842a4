SPECIFICATION Spec
CONSTANTS
  q1 = q1
  q2 = q2
  s1 = s1
  s2 = s2
  Searches = {q1, q2}
  Sites = {s1, s2}
  Limit = 2
  Window = 2
  Threshold = 2
  SkipFor = 2
  MaxFails = 3
  Cap = 1
  Proxied = TRUE
  MaxTime = 3
  None = None
PROPERTY ThresholdSentences
