CONSTANTS
  TxSize = 14
  ConsoleSize = 4
  Packet = 4
  Responses = {0, 2}
  FlushAfter = 1
  TimerMod = 4
  MaxChars = 4
  MaxMessages = 4
SPECIFICATION FairSpec
INVARIANTS
  StreamInOrder
  ConsoleWithoutGap
PROPERTY ConsoleReachesHost
CHECK_DEADLOCK FALSE
