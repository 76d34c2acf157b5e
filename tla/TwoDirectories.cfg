CONSTANTS
  c1 = c1
  c2 = c2
  c3 = c3
  v1 = v1
  Cache = {c1, c2, c3}
  Dir = Dir
  Value = {v1}
  NoData = NoData
  Asked = {"ST"}
SPECIFICATION SpecAB
SYMMETRY CacheSymmetryAB
INVARIANT NoCircularWait
