SPECIFICATION FairSpec
CONSTANTS
  Pressure = 8
  Recovery = 1
  MaxClimbs = 5
  None = None
INVARIANT TypeOK
INVARIANT LimitComesBack
INVARIANT NoFalseStrike
INVARIANT NoSilentLeak
