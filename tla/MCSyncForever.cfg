SPECIFICATION SyncFairSpec
CONSTANTS
  t1 = t1
  t2 = t2
  t3 = t3
  Idle = Idle
  Tasks <- ThreeTasks
  RR = TRUE
  Slice = 0
  MaxRunning = 3
  Preempt = FALSE
  EarlyIrq = FALSE
  Sleepers <- NoTasks
  Mortal <- NoTasks
  Timed <- NoTasks
  MaxCount = 2
  CompTimed <- NoTasks
  CompForever = 4
  SoftIrqs = {1, 2, 3}
  SoftIrqSafe = {1}
  SoftPeriodic = {2}
  NoSoftirq = 0
INVARIANTS
  SleepsIffWaits
  NoTokenForgotten
  
  RaiseKept
PROPERTIES
  IsLiveSemaphore
  AllReleased
  SoftirqServed
