\* Three commands; I2C transfers fail, readings are torn and run ahead at the end of
\* a month, the event queue fills up, the ground sets the clock, the computer resets.
CONSTANTS
  c1 = c1
  c2 = c2
  c3 = c3
  Commands = {c1, c2, c3}
  AlarmQueueSize = 2
  EventQueueLength = 1
  Tol = 1
  MonthLength = 2
  MaxTime = 4
  MaxDrift = 0
  MaxTear = 1
  Leads = {2}
  ReadTime = 0
  I2CFaults = TRUE
  MaxSyncs = 1
  MaxResets = 1
SYMMETRY CommandSymmetry
SPECIFICATION Spec
INVARIANTS
  TypeOK
  AlarmQueueSorted
  EarliestFirst
  NeverEarly
  NoAlarmLost
