CONSTANTS
  QueueSize = 3
  RetryCount = 2
  RetryDelay = 1
  HalfStep = 1
  FullStep = 2
  ConnIntervals = {1}
  LpmTime = 4
  MaxReports = 3
  FifoSize = 2
  Nkro = FALSE
  Extras = TRUE
  MaxAcks = 2
SPECIFICATION LinkSpec
INVARIANTS
  KeyReportsRetried
PROPERTIES
  HostInOrder
