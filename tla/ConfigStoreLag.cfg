\* Two goroutines: an old read installs its allowlist over a newer one.
CONSTANTS
  l1 = l1  l2 = l2  pw1 = pw1  pw2 = pw2
  s1 = s1  s2 = s2  short = short  page = page  addr = addr
  None = None
  Procs = {p1, p2}
  Libraries = {l1, l2}
  Passwords = {pw1, pw2}
  Secrets = {s1, s2}
  ShortSecrets = {short}
  Pages = {page}
  Listeners = {addr}
  Manifests <- ManifestsOne
  Patches <- NarrowPatches
  FirstRows <- RowsFull
  MaxWrites = 1
  MaxStarts = 0
  MaxFaults = 0
  MaxLegacy = 0
SPECIFICATION Spec
INVARIANTS FloorExactWhenIdle
