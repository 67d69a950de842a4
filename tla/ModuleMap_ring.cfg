SPECIFICATION Spec
CONSTANTS
  a = a
  b = b
  s = s
  t = t
  Modules = {a, b, s, t}
  Deps <- Ring
  Awaits = {a}
  Throws = {s}
  Malformed = {t}
  Local = {t}
  Flaky = {t}
  Scripts = {a}
  MaxImports = 2
  MaxScripts = 2
  MaxKills = 1
  KillAt = {"compile", "link", "body"}
  Hosts = {"pumped", "reactor"}
  None = None
CHECK_DEADLOCK FALSE
INVARIANT LinkNeverMisses
INVARIANT NoOrphan
