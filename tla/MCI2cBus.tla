------------------------------ MODULE MCI2cBus ------------------------------
EXTENDS I2cBus

CONSTANTS timekeeper, alarmMgr, commandMgr, rtc, sensor,
  seconds, status, temperature, probe

\* The timekeeper and the alarm manager share the RTC, the command manager scans the
\* bus and reads a sensor.
SomeCalls ==
  LET c(t, o, d, r, m, x) ==
        [task |-> t, op |-> o, dev |-> d, reg |-> r, mutexTimeout |-> m, transferTimeout |-> x]
  IN  {c(timekeeper, "read", rtc, seconds, FALSE, TRUE),
       c(alarmMgr, "read", rtc, status, FALSE, TRUE),
       c(alarmMgr, "write", rtc, status, FALSE, TRUE),
       c(commandMgr, "read", sensor, temperature, FALSE, TRUE),
       c(commandMgr, "send", sensor, probe, TRUE, FALSE)}
=============================================================================
