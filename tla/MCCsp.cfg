SPECIFICATION CspSpec
CONSTANTS
  \* A pass of nine clocks: one row, two pops, one register besides the pass's
  \* number and one sink word, and the chip's distances between them.
  CYCLES_PER_PASS = 9
  RUN_END = 1
  E5_STAGE = 2
  WINDOW_START = 1
  WINDOW_END = 3
  COUNTER_CYCLE = 6
  PROBE_CYCLE = 7
  Registers = {"r", "io"}
  IoBase = "io"
  SinkWords = {"s"}
  WORDS = 2
  Elsewhere = {"zero"}
  Zero = "zero"
  register_count = 32
  address_space = 64
  io_base = 2
  io_count = 1
  direct_reach = 8
  program_limit = 16
  op_count = 8
  pass_cycle_limit = 40
  vector_round = 4
  result_latency = 4
  state_latency = 3
  index_latency = 2
  jump_penalty = 1
  MaxInstructions = 4
  Held = 8
  None = None
  \* The wire: dwords of two nonets, an address of two of four values each.
  Requests <- MCRequests
  burst_max = 4
  NONET = 4
  NONETS_PER_DWORD = 2
  ID_NONET = "id"
  MAP_CTRL = 1
  MAP_STORED_DWORDS = 2
  MAP_SYSTEM_DWORDS = 4
  MAP_PROBE_ADDRESS = 3
  MAP_FIFO_DOOR = 4
  MAP_PARTIAL_BASE = 6
  MAP_PARTIAL_STRIDE = 5
  NUM_PARTIALS = 2
  Status <- MCStatus
  Values = {0, 1}
  ZeroDword <- MCZero
INVARIANTS
  RunsTheProgram
  CyclesAsScheduled
  ScheduleIsSafe
  ReadersSeeOnePass
PROPERTIES
  ImplementsPass
  MapAsWritten
CHECK_DEADLOCK FALSE
