SPECIFICATION CacheSpec
CONSTANTS
  h1 = h1
  h2 = h2
  NoBlock = NoBlock
  Holders = {h1, h2}
  PartBlocks = 2
  Copied = {0}
  v1 = v1
  v2 = v2
  Values = {v1, v2}
  MAX_CACHE_SIZE = 2
  UsageBits = 3
  Fresh <- MCFresh
  MaxLeaks = 1
  MaxFaults = 1
INVARIANTS
  ReadsSeeWrites
  CleanMeansSaved
  
PROPERTIES
  OverflowsOnlyLocked
SYMMETRY Pointers
