\* Two threads, two transcripts, crashes, I/O errors and transcriptions.
SPECIFICATION Spec
CONSTANTS
  Transcripts = {t1, t2}
  Existing = {t1}
  SpeakerKeys = {spk}
  TitleKeys = {title}
  SegmentKeys = {seg}
  Values = {a}
  Null = Null
  Empty = Empty
  Devices = {1, 2}
  Observed = {0, 1}
  ImportDocs <- MCImportDocs
  Threads = {h1, h2}
  NoThread = NoThread
  NoClock = NoClock
  NoDoc = NoDoc
  NoJob = NoJob
  Disturbances = {"crash", "io", "transcribe"}
  MaxOps = 3
INVARIANTS TypeOK HistoryDecides AckedInHistory
PROPERTY HistoryAppendOnly
SYMMETRY ThreadSymmetry
CHECK_DEADLOCK FALSE
