\* Two requests, a companion, an import, and an allowlist that comes and goes.
CONSTANTS
  l1 = l1
  Procs = {p1, p2}
  Libraries = {l1}
  Scopes <- ScopesAll
  Sources = {s1}
  TTL = 1
  MaxLoad = 1
  MaxImports = 1
  MaxTime = 6
SYMMETRY Symmetry
SPECIFICATION Spec
INVARIANTS TypeOK CountsAreRecent CountedOnce DatabaseFollowsFloor
