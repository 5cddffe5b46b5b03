\* Three preempted kernel threads using a mutex and a semaphore.
SPECIFICATION Spec
CONSTANTS
  MaxTasks = 4
  Policy = "RR"
  Quantum = 1
  SemMax = 1
  ParentOf <- MCParentOf
INVARIANTS
  MutualExclusion
  BlockedOnChannel
