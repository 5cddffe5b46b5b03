\* Two user processes and the boot thread, interrupted anywhere, with slices of two ticks.
SPECIFICATION TrapSpec
CONSTANTS
  MaxTasks = 3
  Policy = "RR"
  Quantum = 2
  PidLimit = 3
  ExitCodes = {42}
INVARIANTS
  TimerCanPreempt
  OwnKernelStack
  OwnAddressSpace
PROPERTY
  ResumeExact
