CONSTANTS
  QueueSize = 3
  RetryCount = 1
  RetryDelay = 1
  HalfStep = 0
  FullStep = 1
  ConnIntervals = {1}
  LpmTime = 3
  MaxReports = 3
SPECIFICATION LiveSpec
INVARIANTS
  TypeOK
  NothingVanishes
  RetryBudget
PROPERTIES
  InOrder
  SleepDropsNothing
  FifoSpec
  QueueDrains
