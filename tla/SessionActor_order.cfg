SPECIFICATION FairSpec
CONSTANTS
  c1 = c1
  c2 = c2
  p1 = p1
  p2 = p2
  None = None
  Cmds <- ThreeCmds
  Polls <- OnePoll
  Kinds <- ActorKinds
  Scales <- TwoScales
  Dpr <- AtOne
  PageLimit = 1
  Strikes = 1
  MaxDocs = 3
  MayPanic = TRUE
INVARIANT TypeOK
INVARIANT ServedWhileLoading
INVARIANT IndexesDieAtLanding
PROPERTY InArrivalOrder
CHECK_DEADLOCK FALSE
PROPERTY EveryCallerHears
