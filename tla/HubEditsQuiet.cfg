\* Nothing fails; every thread inside a handler keeps running.
SPECIFICATION FairSpec
CONSTANTS
  Transcripts = {t1}
  Existing = {}
  SpeakerKeys = {spk}
  TitleKeys = {title}
  SegmentKeys = {seg}
  Values = {a}
  Null = Null
  Empty = Empty
  Devices = {1, 2}
  Observed = {0, 2}
  ImportDocs <- MCImportDocs
  Threads = {h1, h2}
  NoThread = NoThread
  NoClock = NoClock
  NoDoc = NoDoc
  NoJob = NoJob
  Disturbances = {}
  MaxOps = 4
INVARIANTS TxtMatchesJson ReplayMatchesLive CounterDominates
PROPERTY LocksReleased
CHECK_DEADLOCK FALSE
