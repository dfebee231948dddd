SPECIFICATION Spec
CONSTANTS
  register_count = 32
  address_space = 64
  io_base = 2
  io_count = 1
  direct_reach = 8
  program_limit = 16
  op_count = 8
  pass_cycle_limit = 40
  vector_round = 4
  result_latency = 4
  state_latency = 3
  index_latency = 2
  jump_penalty = 1
  Menu <- MCMenu
  Indexes <- MCIndexes
  Loops <- MCLoops
  MaxInstructions = 4
  Held = 8
  Carried <- MCCarried
  None = None
INVARIANTS
  ScheduleIsAlwaysSafe
CHECK_DEADLOCK FALSE
