SPECIFICATION Spec
CONSTANTS
  t1 = t1
  t2 = t2
  t3 = t3
  Idle = Idle
  Tasks <- MCTasks
  RR = TRUE
  Slice = 1
  MaxRunning = 3
  Preempt = FALSE
  EarlyIrq = FALSE
  Sleepers <- MCTasks
  Mortal <- MCTasks
INVARIANTS
  TypeOK
  
  RunnableIsQueued
  IdleSeesWork
  HeadRuns
  NoStaleFlag
  NoDoubleAdd
PROPERTIES
  SleepersStay
