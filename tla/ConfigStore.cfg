\* Two goroutines under fairness, faults and a restart: safety, and the floor converges.
CONSTANTS
  l1 = l1  l2 = l2  pw1 = pw1  pw2 = pw2
  s1 = s1  s2 = s2  short = short  page = page  addr = addr
  None = None
  Procs = {p1, p2}
  Libraries = {l1, l2}
  Passwords = {pw1, pw2}
  Secrets = {s1, s2}
  ShortSecrets = {short}
  Pages = {page}
  Listeners = {addr}
  Manifests <- ManifestsTwo
  Patches <- MixedPatches
  FirstRows <- RowsSome
  MaxWrites = 2
  MaxStarts = 1
  MaxFaults = 1
  MaxLegacy = 1
SPECIFICATION FairSpec
INVARIANTS TypeOK NoPlaintextPersisted SecretKept FloorWasSaved PatchSeesItsWrite
PROPERTIES FloorFollowsRow  
