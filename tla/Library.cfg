\* Every operation, two threads, one transcript id in two
\* directories, one below the other.
SPECIFICATION IndexSpec
CONSTANTS
  lib = lib
  inc = inc
  x = x
  x2 = x2
  Dirs = {lib, inc}
  Paths = {x, x2}
  Stems = {x}
  DirOf <- MCTwoDirs
  StemOf <- MCSharedStem
  Under <- MCNested
  Threads = {h1, h2}
  NoThread = NoThread
  NoPath = NoPath
  NoRow = NoRow
  Roles = {"list", "scan", "transcribe", "relabel", "patch", "import", "delete", "restore", "restart"}
  MaxOps = 4
INVARIANTS AnswerMatchesDisk SkipSound
SYMMETRY ThreadSymmetry
CHECK_DEADLOCK FALSE
