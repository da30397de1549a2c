CONSTANTS
  t1 = t1
  Timers <- OneTimer
  Periodic <- NonePeriodic
  Deltas <- LastOfLevel0
  LevelSize = 4
  ClockShift = 1
  Depth = 2
  DeltaMax = 1000
  StartTime = 3
  MaxTime = 12
SPECIFICATION Spec
CHECK_DEADLOCK FALSE
PROPERTY NeverEarly
