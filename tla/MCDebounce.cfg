CONSTANTS
  Keys = {k1, k2}
  Debounces = {0, 1, 3}
  UINT8_MAX = 3
SPECIFICATION LiveSpec
INVARIANTS
  TypeOK
  NothingForgotten
PROPERTIES
  LockedOut
  Settles
