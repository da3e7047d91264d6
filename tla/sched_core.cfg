SPECIFICATION SchedSpec
CONSTANTS
  idle = idle
  a = a
  b = b
  c = c
  NoProc = NoProc
  Procs = {idle, a, b, c}
  Boot = {idle, a, b, c}
  BootPrio <- MCBootPrio
  Idle = idle
  Prios = {0, 1, 2, 3}
  Queues = {"activatable", "asleep", "blocked_io", "dead"}
  Sleepers = {a, b}
  SleepTicks = {1, 2}
  PrioTargets = {idle, c}
  ClockSetters = {c}
  MaxClock = 5
INVARIANTS
  SchedTypeOK
  QueuesDisjoint
  LinksMatchStates
  NoAssertFails
  NoProcessLost
  HighestPriorityRuns
PROPERTIES
  NoneOverslept
