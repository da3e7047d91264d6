SPECIFICATION PipeSpec
CONSTANTS
  idle = idle
  init = init
  c1 = c1
  c2 = c2
  NoProc = NoProc
  Procs = {idle, init, c1, c2}
  Boot = {idle, init}
  BootPrio <- MCBootPrio
  Idle = idle
  Prios = {}
  Queues = {"activatable", "asleep", "blocked_io", "dead"}
  Sleepers = {}
  SleepTicks = {}
  PrioTargets = {}
  ClockSetters = {}
  MaxClock = 0
  Calls <- MCCalls
  Victims = {}
  MAX_NB_PROCESS = 4
  MaxDrift = 0
  Sems = {s1}
  SemCalls <- MCSemCalls
  Counts = {}
  NB_MAX_SEMS = 1
  MIN_COUNT <- MCMinCount
  MAX_COUNT = 3
  PIPE_BUFFER_SIZE = 2
  Lengths = {1, 3}
  PipeCalls <- MCPipeCalls
INVARIANTS
  PositionsAgree
  ReleasedOnce
  NobodyInFreed
SYMMETRY Children
