\* Two transcripts, one row per delta, the runtime and a migration pull.
SPECIFICATION FairSpec
CONSTANTS
  Tids = {t1, t2}
  Pullers = {runtime, migrate}
  Limit = 1
  MaxTime = 3
  MaxWrites = 2
  MaxFaults = 1
INVARIANTS TypeOK NothingBehindCursor
PROPERTIES CatchesUp
