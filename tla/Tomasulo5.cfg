CONSTANTS
  r1 = r1
  r2 = r2
  Reg = {r1, r2}
  Instruction <- MCInstruction
  sim_num_insn = 5
  INSTR_QUEUE_SIZE = 2
  RESERV_INT_SIZE = 3
  RESERV_FP_SIZE = 2
  FU_INT_SIZE = 2
  FU_FP_SIZE = 1
  FU_INT_LATENCY = 2
  FU_FP_LATENCY = 3
  MaxCycle = 40
SPECIFICATION FairSpec
INVARIANTS
  PipelineInv
  TimingInv
  StationsMatch
  MapTableCurrent
  RAWRespected
  StagesInOrder
  AllSimulated
PROPERTIES
  ImplementsDataflow
  Termination
CHECK_DEADLOCK FALSE
