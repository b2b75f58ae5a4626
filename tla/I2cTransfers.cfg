\* Three tasks, two devices, refused and slow transfers, a scan of the bus.
CONSTANTS
  timekeeper = timekeeper
  alarmMgr = alarmMgr
  commandMgr = commandMgr
  rtc = rtc
  sensor = sensor
  seconds = seconds
  status = status
  temperature = temperature
  probe = probe
  None = None
  Tasks = {timekeeper, alarmMgr, commandMgr}
  Calls <- SomeCalls
  MaxCalls = 3
  MaxRefused = 1
  MaxSlow = 2
CHECK_DEADLOCK FALSE
SPECIFICATION FairSpec
INVARIANTS
  OneAheadPerTimeout
  ReadsItsRegister
PROPERTY CallsReturn
