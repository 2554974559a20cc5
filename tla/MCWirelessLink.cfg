CONSTANTS
  Hosts = {1}
  QueueSize = 3
  PacketEvents = 2
  SavedNkro = {FALSE}
  MaxOut = 2
  MaxCmds = 2
  MaxKeys = 2
  MaxMoves = 2
SPECIFICATION FairSpec
INVARIANTS InSync PincodeInSync
PROPERTY ConnectionNoticed
CHECK_DEADLOCK FALSE
