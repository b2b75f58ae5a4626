\* Three frames; two bytes lost and two changed anywhere, also into flags.
CONSTANTS
  Bytes = {0, 3, 62, 63, 64, 125, 126, 190, 192, 224, 239, 240, 247, 251, 253}
  AX25_FLAG = 126
  AxDataSize = 8
  Frames <- Sent
  BlockSize = 7
  QueueLength = 1
  Garbles = {0, 126}
  MaxLost = 2
  MaxGarbled = 2
CHECK_DEADLOCK FALSE
SPECIFICATION Spec
INVARIANTS
  DecoderTypeOK
  Recovered
  OnceInOrder
  FlagsAtEnds
PROPERTY FindsFrames
