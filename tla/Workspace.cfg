\* Two writers and a reader, a first boot or an existing file, crashes.
SPECIFICATION Spec
CONSTANTS
  id1 = id1
  Writers = {w1, w2}
  Readers = {r1}
  Ids = {id1, id2}
  InitFiles <- MCBoth
  Missing = Missing
  Torn = Torn
  NoData = NoData
  BumpValues = {8, 9, 10}
  Crashes = TRUE
INVARIANTS OneIdentity FileSound
PROPERTY ImplementsIdentity
\* On a torn file every call raises.
CHECK_DEADLOCK FALSE
