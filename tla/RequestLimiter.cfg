\* Two addresses, two requests in flight, stale readings of the clock.
CONSTANTS
  Procs = {p1, p2}
  IPs = {ip1, ip2}
  NoIP = NoIP
  Limit = 2
  Window = 3
  MaxLag = 1
  MaxTime = 6
SYMMETRY Symmetry
SPECIFICATION Spec
INVARIANTS TypeOK WindowBudget
PROPERTIES RefusedOnlyWhenFull
