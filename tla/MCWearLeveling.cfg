CONSTANTS
  LogicalSize = 4
  MultibyteMax = 3
  Stores <- BothWidths
  Byte = {0, 1}
  Lengths = {1, 2, 4}
  Faults = {"unlock", "erase", "write", "read"}
  MaxWrites = 2
  MaxLosses = 1
  MaxFaults = 1
SPECIFICATION FairSpec
INVARIANTS DurableUnlessReported WritesErasedWords
PROPERTIES ImplementsEeprom EveryCallReturns
CHECK_DEADLOCK FALSE
