\* Two requests for one library, two query shapes, maps of one entry: every
\* second store evicts, while the allowlist drops the library and takes it back.
CONSTANTS
  l1 = l1  one = one  two = two
  Procs = {p1, p2}
  Libraries = {l1}
  Keys = {one, two}
  Scope <- ScopeOneAll
  MediaCap = 1
  FiltersCap = 1
  TTL = 1
  MaxLoad = 1
  MaxTime = 6
SYMMETRY Symmetry
SPECIFICATION Spec
INVARIANTS TypeOK CapsHold
PROPERTIES  EvictsOldest
