SPECIFICATION FilesSpec
CONSTANTS
  p1 = p1
  p2 = p2
  a1 = a1
  a2 = a2
  i1 = i1
  i2 = i2
  f1 = f1
  f2 = f2
  f3 = f3
  Procs = {p1, p2}
  Names = {a1, a2}
  Inodes = {i1, i2}
  Flips = {f1, f2}
  MaxFd = 2
  MaxCount = 2
  MaxLinks = 2
  NoInode = NoInode
  NoFlip = NoFlip
INVARIANTS
  
  
  
  RenameKeepsTheFile
PROPERTIES
  KeptForItsUsers
SYMMETRY Symmetry
CHECK_DEADLOCK FALSE
