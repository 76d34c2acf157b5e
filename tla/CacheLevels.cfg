CONSTANTS
  Hierarchies <- Levels
  Pcs = {2}
  DataAddrs = {30, 31, 32, 33, 34}
  Commands = {"Read", "Write"}
  flush_on_syscalls = TRUE
  FlushAddrs = {}
  ADDR_SPACE = 64
  TABLE_SIZE = 2
  HISTORY_BITS = 2
  JITTER = 1
SPECIFICATION Spec
INVARIANTS
  LastStoreHeld
  SyscallSeesMemory
PROPERTIES
  AccessReturns
