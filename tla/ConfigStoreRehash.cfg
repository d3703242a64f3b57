\* A new password saved between a login and its background rehash.
CONSTANTS
  l1 = l1  l2 = l2  pw1 = pw1  pw2 = pw2
  s1 = s1  s2 = s2  short = short  page = page  addr = addr
  None = None
  Procs = {p1, p2}
  Libraries = {l1, l2}
  Passwords = {pw1, pw2}
  Secrets = {s1, s2}
  ShortSecrets = {short}
  Pages = {page}
  Listeners = {addr}
  Manifests <- ManifestsOne
  Patches <- NewPassword
  FirstRows <- RowsFull
  MaxWrites = 2
  MaxStarts = 0
  MaxFaults = 0
  MaxLegacy = 1
SPECIFICATION Spec
PROPERTIES RehashKeepsPassword
