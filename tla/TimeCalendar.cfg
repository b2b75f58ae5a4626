\* Every day of the century, at both ends of it and of an hour.
CONSTANTS
  Seconds = {0, 3599, 3600, 86399}
  LastYear = 99
CHECK_DEADLOCK FALSE
SPECIFICATION CalendarSpec
INVARIANTS
  ToUnixRight
  AlarmTimeRight
  FromUnixRight
