CONSTANTS
  BUFFER_SIZE = 26
  FirstIndex = 10
  Lengths = {3, 4, 22}
  Sns = {1, 2}
SPECIFICATION Spec
PROPERTY LastPacketHandled
