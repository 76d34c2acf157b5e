CONSTANTS
  Regs = {"r1", "r2"}
  Programs <- MCPrograms
  Options <- MCOptions
  FUs <- MCFUs
  RUU_size = 4
  LSQ_size = 3
  MAX_RS_LINKS = 24
  ruu_ifq_size = 2
  ruu_decode_width = 2
  ruu_issue_width = 2
  ruu_commit_width = 2
  ruu_branch_penalty = 1
  LoadLats = {1, 3}
  IL1Block = 4
  MissLat = 3
  SpecAddrs = {0, 1}
SPECIFICATION Spec
INVARIANT SchedulingPolicy
