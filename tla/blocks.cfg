SPECIFICATION BlocksSpec
CONSTANTS
  D = 1
  N = 3
  LastBlock = 17
INVARIANTS
  BlocksInOrder
  
