SPECIFICATION LibSpec
CONSTANTS
  t1 = t1
  t2 = t2
  Timers <- TwoTimers
  Periodic <- OnePeriodic
  Deltas <- WheelDeltas
  LevelSize = 4
  ClockShift = 1
  Depth = 3
  DeltaMax = 1000
  StartTime = 5
  MaxTime = 24
  Soon = 13
  FifoSize = 2
  FifoWord = 4
  FifoValues = {0, 1}
  FifoMaxLen = 3
  MutexTasks = {a, b, c}
  MutexLockers = {a, b}
  NoOwner = NoOwner
  IdrCallers = {a, b}
  IdrRanges <- OneRange
  IdrTop = 4
  PageNr = 4
  OrderMax = 2
  PoolObjects = {o1, o2, o3}
  PoolCallers = {a, b}
  PoolDemand = 2
  NoObject = NoObject
  Works = {w1, w2, w3}
  NoWork = NoWork
  CoroSlices = {0, 1}
  CoroNaps = {1}
  CoroForever = 9
  CoroMaxVtime = 2
  CoroMaxTick = 1
CHECK_DEADLOCK FALSE
INVARIANTS
  IdrUnique
