SPECIFICATION MemSpec
CONSTANTS
  p1 = p1
  p2 = p2
  p3 = p3
  k1 = k1
  k2 = k2
  Procs = {p1, p2}
  Names = {k1, k2}
  TotalFrames = 8
  FramesPerProcess = 2
  MaxOwn = 3
  MaxShared = 2
  MaxUsage = 3
INVARIANTS
  
  
  SlotsApart
SYMMETRY Symmetry
CHECK_DEADLOCK FALSE
