SPECIFICATION SemSpec
CONSTANTS
  idle = idle
  k = k
  a = a
  b = b
  urgent = urgent
  NoProc = NoProc
  Procs = {idle, k, a, b, urgent}
  Boot = {idle, k, a, b, urgent}
  BootPrio <- MCBootPrio
  Idle = idle
  Prios = {}
  Queues = {"activatable", "asleep", "blocked_io", "dead"}
  Sleepers = {}
  SleepTicks = {}
  PrioTargets = {}
  ClockSetters = {}
  MaxClock = 0
  Calls <- MCCalls
  Victims = {a, b, urgent}
  MAX_NB_PROCESS = 5
  MaxDrift = 0
  Sems = {s1, s2}
  SemCalls <- MCSemCalls
  Counts = {0, 1, 2}
  NB_MAX_SEMS = 1
  MIN_COUNT <- MCMinCount
  MAX_COUNT = 2
INVARIANTS
  WaitersExact
  
  WaitersOrdered
SYMMETRY Twins
CHECK_DEADLOCK FALSE
