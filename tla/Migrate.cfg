SPECIFICATION Spec
CONSTANTS
  Users = {u1, u2}
  Sweepers = {runtime, job}
  None = None
  Requests = {"delete", "restore", "purge", "empty", "patch", "transcribe"}
  MaxVersion = 2
  MaxOps = 2
  MaxFaults = 1
INVARIANTS
  VerifiedBeforeTrashed
  Kept
  TrashSound
  NoFalseFailure
SYMMETRY MCSymmetry
CONSTRAINT MCBound
