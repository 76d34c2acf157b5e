CONSTANTS
  c1 = c1
  c2 = c2
  c3 = c3
  v1 = v1
  v2 = v2
  Cache = {c1, c2, c3}
  Dir = Dir
  Value = {v1, v2}
  NoData = NoData
SPECIFICATION Spec
SYMMETRY CacheSymmetry
PROPERTIES
  ImplementsAtomicMemory
INVARIANTS
  SWMR
  DataCurrent
  EventsHandled
  CoherenceInv
  AckAccounting
  MessagesBounded
