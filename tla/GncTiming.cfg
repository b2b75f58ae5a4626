\* Three ticks are 50 ms; the tick count runs over after 38.
CONSTANTS
  MaxTick = 37
  Period = 3
  MaxPeriod = 6
  Timeout = 6
  FeedingPeriod = 3
  HwTimeout = 27
  SciTimeout = 3
  PacketSize = 2
  Requested = {2, 3, 6, 7}
  MaxBusy = 1
SPECIFICATION Spec
INVARIANTS
  KeepsFed
  HangCaught
  OneTransfer
  NotStarved
