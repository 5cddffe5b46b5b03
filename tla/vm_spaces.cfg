SPECIFICATION QuietSpec
CONSTANTS
  Frames = 13
  Spaces = {shell, child}
  Shell = shell
  UserPages = {16, 256}
  StackPages = {511}
  Programs <- MCPrograms
  Words = {16}
  MaxPages = 2
INVARIANTS EveryPageOnce MmuAgreesWithPages KernelMappedEverywhere
PROPERTIES OneViewChanges ForkCopies
