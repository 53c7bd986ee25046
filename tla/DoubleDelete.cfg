SPECIFICATION Spec
CONSTANTS
  Users = {u1, u2}
  Sweepers = {}
  None = None
  Requests = {"delete", "restore"}
  MaxVersion = 1
  MaxOps = 3
  MaxFaults = 0
INVARIANT RestoredWhole
