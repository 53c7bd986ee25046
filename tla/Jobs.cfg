\* A registry of one record, two more jobs, one slot.
SPECIFICATION FairSpec
CONSTANTS
  old = old
  j1 = j1
  j2 = j2
  Jobs = {old, j1, j2}
  Past = {old}
  s1 = s1
  s2 = s2
  Streams = {s1, s2}
  Watchers <- MCWatchers
  Pollers = {p1, p2}
  KindChoices <- MCKinds
  Slots = 1
  MaxJobs = 1
  NoJob = NoJob
  NoReply = NoReply
INVARIANTS SlotsAccounted AnswerBeforeComplete StreamsKept
PROPERTIES StatusForward JobEnds
CHECK_DEADLOCK FALSE
