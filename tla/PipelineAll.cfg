\* Every kind of frame, with several answered commands and telemetry, so that answers
\* pile up, and with time-tagged commands.
CONSTANTS
  ConnUplinks <- Noisy
  Uplinks <- AllKinds
  FrameChunks = 2
  ResponseChunks = 2
  MaxFilePackets = 2
  MaxDownlinkFrames = 2
  CommsQueueLength = 3
  DecodeQueueLength = 2
  CommandQueueLength = 2
  EncodeQueueLength = 2
  TransmitQueueLength = 1
  MaxFrames = 5
  MaxCommands = 5
CHECK_DEADLOCK FALSE
SPECIFICATION Spec
INVARIANTS
  WholePackets
  AnsweredInOrder
  NothingLost
  EventsFit
