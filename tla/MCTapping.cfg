CONSTANTS
  t1 = t1
  t2 = t2
  TapKeys = {t1, t2}
  ModKeys = {m}
  PlainKeys = {p}
  NoKey = NoKey
  TappingTerm = 5
  QuickTapTerm = 1
  BufferSize = 5
  Builds <- AllBuilds
  MaxStall = 2
  MaxPresses = 4
SPECIFICATION LiveSpec
INVARIANTS NoPressLost NoStuckKey NotOvertaken
PROPERTIES PressesInOrder EveryPressProcessed
