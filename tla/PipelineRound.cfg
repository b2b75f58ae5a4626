\* One answered command in each frame.
CONSTANTS
  ConnUplinks <- Conn
  Uplinks <- OneAnswer
  FrameChunks = 3
  ResponseChunks = 2
  MaxFilePackets = 0
  MaxDownlinkFrames = 1000
  CommsQueueLength = 2
  DecodeQueueLength = 2
  CommandQueueLength = 1
  EncodeQueueLength = 1
  TransmitQueueLength = 1
  MaxFrames = 12
  MaxCommands = 12
CHECK_DEADLOCK FALSE
SPECIFICATION FairSpec
INVARIANTS
  TypeOK
  ReadsWhenQuiet
PROPERTIES
  DownlinkReturns
  UplinkReturns
