CONSTANTS
  Client = {c1, c2, c3}
  None = None
  Slots = 2
  TokenMod = 4
  TimerMod = 26
  Delays = {4}
  Stall = 2
  CancelSelf = FALSE
SPECIFICATION Spec
INVARIANTS RegisteredExactly NeverLate
PROPERTY NeverEarly
SYMMETRY Symmetry
