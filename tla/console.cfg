SPECIFICATION ConsFairSpec
CONSTANTS
  idle = idle
  r1 = r1
  r2 = r2
  NoProc = NoProc
  Procs = {idle, r1, r2}
  Boot = {idle, r1, r2}
  BootPrio <- MCBootPrio
  Idle = idle
  Prios = {}
  Queues = {"activatable", "asleep", "blocked_io", "dead"}
  Sleepers = {}
  SleepTicks = {}
  PrioTargets = {}
  ClockSetters = {}
  MaxClock = 0
  MAX_NB_PROCESS = 3
  MaxDrift = 0
  Victims = {r1}
  Calls <- MCCalls
  BUFFER_SIZE = 3
  TabStop = 2
  Keys = {"letter", "LF", "CR", "BS", "HT", "DW"}
  ReadLengths = {2}
  ConsCalls <- MCConsCalls
INVARIANTS
  OnlyErasingFails
  NotAllAsleep
PROPERTIES
  
  LinesAreRead
CHECK_DEADLOCK FALSE
