\* Two hubs with a token each; two joins, a leave, two runtime threads, a
\* migration and a setter.
SPECIFICATION Spec
CONSTANTS
  h1 = h1
  h2 = h2
  k1 = k1
  k2 = k2
  j1 = j1
  j2 = j2
  r1 = r1
  r2 = r2
  Hubs = {h1, h2}
  Tokens = {k1, k2}
  HubOf <- MCHubOf
  Joiners = {j1, j2}
  Leavers = {l1}
  Runtimes = {r1, r2}
  Migrators = {m1}
  Setters = {s1}
  TTL = 1
  MaxTime = 1
  MaxKeys = 2
  MaxFaults = 3
  None = None
INVARIANTS FilesAgree TokenOnce
SYMMETRY MCSymmetry
CONSTRAINT MCBound
CHECK_DEADLOCK FALSE
