SPECIFICATION FairSpec
CONSTANTS
  a = a
  b = b
  s = s
  t = t
  Modules = {a, b, s, t}
  Deps <- Tree
  Awaits = {b}
  Throws = {s}
  Malformed = {}
  Local = {s, t}
  Flaky = {t}
  Scripts = {a}
  MaxImports = 2
  MaxScripts = 2
  MaxKills = 1
  KillAt = {"compile", "link", "body"}
  Hosts = {"pumped", "reactor"}
  None = None
CHECK_DEADLOCK FALSE
INVARIANT TypeOK
INVARIANT LinkNeverMisses
INVARIANT NoOrphan
INVARIANT VerdictsAreEarned
PROPERTY EveryImportSettles
