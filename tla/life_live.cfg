SPECIFICATION FairSpec
CONSTANTS
  idle = idle
  init = init
  c1 = c1
  c2 = c2
  c3 = c3
  NoProc = NoProc
  Procs = {idle, init, c1, c2}
  Boot = {idle, init}
  BootPrio <- MCBootPrio
  Idle = idle
  Prios = {1, 2}
  Queues = {"activatable", "asleep", "blocked_io", "dead"}
  Sleepers = {c1, c2}
  SleepTicks = {0, 1}
  PrioTargets = {}
  ClockSetters = {}
  MaxClock = 3
  Calls <- LiveCalls
  Victims = {c1, c2}
  MAX_NB_PROCESS = 5
  MaxDrift = 0
PROPERTIES
  NeverEarly
  SleepersWake
  RoundRobin
  WaitReturns
