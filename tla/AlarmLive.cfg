\* One command, no faults, and time for the RTC to match twice.
CONSTANTS
  c1 = c1
  Commands = {c1}
  AlarmQueueSize = 1
  EventQueueLength = 2
  Tol = 1
  MonthLength = 3
  MaxTime = 6
  MaxDrift = 1
  MaxTear = 0
  Leads = {3}
  ReadTime = 0
  I2CFaults = FALSE
  MaxSyncs = 0
  MaxResets = 0
SPECIFICATION FairSpec
INVARIANTS
  InterruptPending
PROPERTIES
  ArmedAlarmExecutes
