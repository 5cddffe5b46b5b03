\* The process table under RR: what always holds and what must happen.
SPECIFICATION FairSpec
CONSTANTS
  MaxTasks = 4
  Policy = "RR"
  Quantum = 1
  PidLimit = 3
  ExitCodes = {42}
INVARIANTS
  
  NoLostWakeup
  WokenForZombie
PROPERTIES
  ZombiesKept
  NoStarvation
  ShellExitHalts
  WaitCompletes
