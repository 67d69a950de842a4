SPECIFICATION FairSpec
CONSTANTS
  c1 = c1
  c2 = c2
  p1 = p1
  p2 = p2
  None = None
  Cmds <- OneAndPoll
  Polls <- OnePoll
  Kinds <- Navigations
  Scales <- TwoScales
  Dpr <- AtOne
  PageLimit = 1
  Strikes = 1
  MaxDocs = 3
  MayPanic = TRUE
PROPERTY DeadThreadServesNothing
CHECK_DEADLOCK FALSE
