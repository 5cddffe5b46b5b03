CONSTANTS
  MaxInodes = 3
  Blocks = {1, 2, 3}
  DirectBlocks = 1
  BlockSlots = 2
  MaxFileSize = 3
  Names = {a}
  Tasks = {t}
  PathLength = 1
  OpenFlags <- TruncFlags
  UnlinkCwd = TRUE
SPECIFICATION Spec
INVARIANTS EntriesValid BlocksOwnedOnce OwnContentOnly
