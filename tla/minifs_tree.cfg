CONSTANTS
  MaxInodes = 4
  Blocks = {1, 2, 3, 4}
  DirectBlocks = 1
  BlockSlots = 1
  MaxFileSize = 1
  Names = {a, b}
  Tasks = {t}
  PathLength = 2
  OpenFlags <- AppendFlags
  UnlinkCwd = FALSE
SPECIFICATION CallSpec
SYMMETRY MCSymmetry
INVARIANTS Tree 
PROPERTIES LostOnlyWhenFull OthersUntouched
