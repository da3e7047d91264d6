SPECIFICATION MsgSpec
CONSTANTS
  idle = idle
  k = k
  a = a
  b = b
  NoProc = NoProc
  Procs = {idle, k, a, b}
  Boot = {idle, k, a, b}
  BootPrio <- MCBootPrio
  Idle = idle
  Prios = {}
  Queues = {"activatable", "asleep", "blocked_io", "dead", "cons", "prod"}
  Sleepers = {}
  SleepTicks = {}
  PrioTargets = {}
  ClockSetters = {}
  MaxClock = 0
  Calls <- MCCalls
  Victims = {a, b}
  MAX_NB_PROCESS = 4
  MaxDrift = 0
  m1 = m1
  m2 = m2
  Fids = {0}
  blocked_cons <- MCCons
  blocked_prod <- MCProd
  Msgs = {m1, m2}
  NoMsg = NoMsg
  Sizes = {0, 1, 2}
  MsgCalls <- MCMsgCalls
INVARIANTS
  BlockedForAReason

  
SYMMETRY Twins
