\* Two starts, one stop, two files.
SPECIFICATION FairWatchSpec
CONSTANTS
  Files = {f1, f2}
  Runs = {w1, w2}
  Stoppers = {u1}
  None = None
  MaxTime = 2
  MaxWrites = 2
  MaxRacedWrites = 1
  MaxFaults = 2
INVARIANTS WatchTypeOK NoFileForgotten ThreadControlled
PROPERTY FileTranscribed
CHECK_DEADLOCK FALSE
