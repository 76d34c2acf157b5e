CONSTANTS
  PCs = {1, 2, 12}
  NUM_ENTRIES = 2
  PHT_TABLES = 2
  BHT_ENTRIES = 2
  HISTORY_LENGTH = 1
  INDEX_BITS = 1
  PERCEPTRON_HISTORY = 2
  PERCEPTRON_THETA = 3
  WEIGHT_MAX = 2
  Pcs = {1, 2}
  Addrs = {0, 1, 2, 3, 4}
  ADDR_SPACE = 64
  TABLE_SIZE = 1
  HISTORY_BITS = 3
  JITTER = 1
SPECIFICATION Spec
INVARIANTS
  LearnsInTwo
  HistoriesKept
  StrideLearned
  StreamIsPrefetched
PROPERTIES
  ImplementsCounters_2bitsat
  ImplementsCounters_2level
  TrainingHelps
  DegreeKept
