SPECIFICATION Spec
CONSTANTS
  idle = idle
  init = init
  c1 = c1
  c2 = c2
  c3 = c3
  NoProc = NoProc
  Procs = {idle, init, c1, c2}
  Boot = {idle, init}
  BootPrio <- MCBootPrio
  Idle = idle
  Prios = {1, 2}
  Queues = {"activatable", "asleep", "blocked_io", "dead"}
  Sleepers = {c1, c2}
  SleepTicks = {0}
  PrioTargets = {}
  ClockSetters = {}
  MaxClock = 2
  Calls <- KillerCalls
  Victims = {c1, c2}
  MAX_NB_PROCESS = 4
  MaxDrift = 1
INVARIANTS
  FreedIsForgotten
  FamilyTies
  NoLostWakeup
SYMMETRY Children
CHECK_DEADLOCK FALSE
