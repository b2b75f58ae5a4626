\* Two commands with different time tags.
CONSTANTS
  c1 = c1
  c2 = c2
  Commands = {c1, c2}
  AlarmQueueSize = 2
  EventQueueLength = 3
  Tol = 1
  MonthLength = 4
  MaxTime = 3
  MaxDrift = 1
  MaxTear = 0
  Leads = {3}
  ReadTime = 0
  I2CFaults = FALSE
  MaxSyncs = 0
  MaxResets = 0
SPECIFICATION Spec
INVARIANT ArmedForEarliest
