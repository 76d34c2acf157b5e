CONSTANTS
  c1 = c1
  c2 = c2
  v1 = v1
  v2 = v2
  Cache = {c1, c2}
  Dir = Dir
  Value = {v1, v2}
  NoData = NoData
SPECIFICATION Spec
INVARIANT ToldBeforeOverwritten
