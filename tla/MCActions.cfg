CONSTANTS
  Builds <- AllBuilds
  NoKey = 0
  MaxWaiting = 3
SPECIFICATION Spec
INVARIANTS NoPhantomKey NoPhantomModifier NoPhantomLayer
PROPERTY OneshotForOneKey
CHECK_DEADLOCK FALSE
