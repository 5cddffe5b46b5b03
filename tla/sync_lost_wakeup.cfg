\* Two preempted kernel threads using a mutex and a semaphore, with fairness.
SPECIFICATION FairSpec
CONSTANTS
  MaxTasks = 3
  Policy = "RR"
  Quantum = 1
  SemMax = 1
  ParentOf <- MCParentOf
PROPERTY
  WakeupsNotLost
