\* Two requests, three data of which one is refused, and a failing file operation.
CONSTANTS
  QueueLength = 1
  EncodeQueueLength = 1
  TransmitQueueLength = 1
  LoggerQueueLength = 1
  HandleCount = 3
  PacketItems = 1
  Unpackable = {3}
  MaxData = 3
  MaxRequests = 2
  MaxLogs = 1
  MaxFaults = 1
CHECK_DEADLOCK FALSE
SPECIFICATION FairSpec
INVARIANTS
  TypeOK
  Conserved
  SentInOrder
  HandlesAccounted
  ReadsClosedFile
PROPERTIES
  RequestServed
