SPECIFICATION Spec
CONSTANTS
  c1 = c1
  c2 = c2
  p1 = p1
  p2 = p2
  None = None
  Cmds <- FourCmds
  Polls <- TwoPolls
  Kinds <- Navigations
  Scales <- OneScale
  Dpr <- BothAtOne
  PageLimit = 200
  Strikes = 1
  MaxDocs = 3
  MayPanic = FALSE
INVARIANT ServedPairMatches
CHECK_DEADLOCK FALSE
