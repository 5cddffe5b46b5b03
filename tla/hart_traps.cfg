SPECIFICATION Spec
CONSTANTS
  Delegations <- MCDelegations
  Exceptions <- MCExceptions
  Lines = {5, 7, 9, 11}
  Interval = 1
INVARIANTS HandlersNest CauseOfItsLevel
PROPERTIES ReturnsExactly 
CHECK_DEADLOCK FALSE
