SPECIFICATION FairSpec
CONSTANTS
  t1 = t1
  t2 = t2
  t3 = t3
  Idle = Idle
  Tasks <- MCTasks
  RR = TRUE
  Slice = 1
  MaxRunning = 4
  Preempt = TRUE
  EarlyIrq = FALSE
  Sleepers <- MCNone
  Mortal <- MCOne
INVARIANTS
  NoUseAfterFree
PROPERTIES
  EveryoneRuns
