\* One address, one slot, clock readings up to a unit late, under fairness.
CONSTANTS
  Procs = {p1, p2}
  IPs = {ip1}
  NoIP = NoIP
  MaxFailures = 2
  Lockout = 4
  Slots = 1
  MaxLag = 1
  MaxTime = 7
SPECIFICATION FairSpec
INVARIANTS TypeOK SlotsAreHeld LockoutHolds SweptIsFresh GuessRate
PROPERTIES LoginAnswered
