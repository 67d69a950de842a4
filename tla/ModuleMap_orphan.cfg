SPECIFICATION FairSpec
CONSTANTS
  a = a
  b = b
  s = s
  t = t
  Modules = {a, b, s, t}
  Deps <- Tree
  Awaits = {b}
  Throws = {s}
  Malformed = {}
  Local = {t}
  Flaky = {t}
  Scripts = {a}
  MaxImports = 2
  MaxScripts = 1
  MaxKills = 1
  KillAt = {"body"}
  Hosts = {"pumped"}
  None = None
CHECK_DEADLOCK FALSE
INVARIANT DeadAreDropped
