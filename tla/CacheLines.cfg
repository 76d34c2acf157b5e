CONSTANTS
  Hierarchies <- OneLevel
  Pcs = {1}
  DataAddrs = {1, 3, 5}
  Commands = {"Read", "Write"}
  flush_on_syscalls = FALSE
  FlushAddrs = {3}
  ADDR_SPACE = 8
  TABLE_SIZE = 2
  HISTORY_BITS = 2
  JITTER = 1
SPECIFICATION Spec
INVARIANTS
  ListsSound
  FoundOnce
PROPERTIES
  ImplementsCacheLines
