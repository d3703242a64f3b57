\* An allowlist that is empty or is emptied: the host counts everything.
CONSTANTS
  l1 = l1
  Procs = {p1, p2}
  Libraries = {l1}
  Scopes <- ScopesAll
  Sources = {s1}
  TTL = 1
  MaxLoad = 1
  MaxImports = 1
  MaxTime = 6
SPECIFICATION Spec
INVARIANTS FloorOnEveryPath
