------------------------------ MODULE Calendar ------------------------------
(***************************************************************************)
(* A walk through the calendar, day by day from the first day the          *)
(* conversion accepts, as the reference that the conversions of TimeUtils  *)
(* are checked with.                                                       *)
(***************************************************************************)
EXTENDS TimeUtils

CONSTANTS Seconds,  \* the seconds of the day looked at
          LastYear  \* the walk ends with this year, counted from 2000

SecondsPerDay == 86400

ASSUME CalendarAssumption ==
  /\ Seconds \subseteq 0 .. SecondsPerDay - 1
  /\ LastYear \in 0 .. 99   \* 2100 has no leap day

VARIABLES now,      \* the Unix time
          cal       \* the same instant by the calendar

Days(year, month) ==
  CASE month \in {4, 6, 9, 11} -> 30
    [] month = 2 -> IF year % 4 = 0 THEN 29 ELSE 28
    [] OTHER -> 31

CalendarInit ==
  \E sec \in Seconds :
    /\ now = [day |-> LeapochDay, sec |-> sec]
    /\ cal = [year |-> 0, month |-> 3, date |-> 1,
              hours |-> sec \div 3600, minutes |-> (sec % 3600) \div 60, seconds |-> sec % 60]

NextDay ==
  /\ cal.date < Days(cal.year, cal.month)
  /\ cal' = [cal EXCEPT !.date = @ + 1]

NextMonth ==
  /\ cal.date = Days(cal.year, cal.month)
  /\ cal.month < 12
  /\ cal' = [cal EXCEPT !.date = 1, !.month = @ + 1]

NextYear ==
  /\ cal.date = 31 /\ cal.month = 12
  /\ cal.year < LastYear
  /\ cal' = [cal EXCEPT !.date = 1, !.month = 1, !.year = @ + 1]

CalendarNext ==
  /\ NextDay \/ NextMonth \/ NextYear
  /\ now' = [now EXCEPT !.day = @ + 1]

CalendarSpec == CalendarInit /\ [][CalendarNext]_<<now, cal>>

\* datetimeToUnix gives every date of the century its place, over leap years and
\* the ends of months: local time, alarms and time tags all count from it.
ToUnixRight == DatetimeToUnix(cal) = now

\* unixToDatetime gives every day its date and every second its time, which is
\* all that the alarm registers of the RTC are set from.
AlarmTimeRight ==
  LET dt == UnixToDatetime(now)
  IN  \A f \in {"date", "hours", "minutes", "seconds"} : dt[f] = cal[f]

\* In every month but December the clock the ground sends is the clock that is set.
FromUnixRight == cal.month # 12 => UnixToDatetime(now) = cal
=============================================================================
