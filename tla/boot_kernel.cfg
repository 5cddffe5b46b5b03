SPECIFICATION Spec
CONSTANTS
  SlotSectors = 3
  SectorSize = 2
  Byte = {0, 1, 2}
  Kernels <- MCKernels
  Modulus = 256
INVARIANTS JumpsToWholeKernel  
PROPERTIES FilesKept
