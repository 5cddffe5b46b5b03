SPECIFICATION Spec
CONSTANTS
  MemBits = 4
  Registers <- MCRegisters
  Instructions <- ImplementedInstructions
PROPERTY ImplementsRV64I
