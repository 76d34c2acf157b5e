CONSTANTS
  c1 = c1
  c2 = c2
  v1 = v1
  Cache = {c1, c2}
  Dir = Dir
  Value = {v1}
  NoData = NoData
SPECIFICATION FairSpec
PROPERTIES
  RequestsComplete
  TransactionsEnd
