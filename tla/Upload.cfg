\* A capture the hub takes and one it refuses; the laptop's clock is at times a
\* second ahead of the hub's.
SPECIFICATION FairSpec
CONSTANTS
  Entries = {e1, e2}
  Refused = {e2}
  Window = 1
  Skews = {1}
  MaxTime = 1
  MaxFaults = 2
INVARIANTS NoCaptureLost NoLostPoke RecordsTrue SignedOnce
PROPERTY Delivered
