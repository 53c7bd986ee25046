SPECIFICATION Spec
CONSTANTS
  Tids = {a, b, c}
  Registered = {a}
  Below = {b}
  Indexers = {i, j}
  Searchers = {s}
  None = None
  Batch = 2
  MaxWrites = 2
  MaxFaults = 1
INVARIANTS
  VectorOfText
  SearchExact
  
PROPERTIES
  EventuallyEmbedded
