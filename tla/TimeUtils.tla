------------------------------ MODULE TimeUtils ------------------------------
(***************************************************************************)
(* obc_time_utils.c: the conversions between Unix time, which commands and *)
(* the local clock use, and the broken-down time of the RTC.  A Unix time  *)
(* is a pair of a day since 1970-01-01 and a second of that day: the code's *)
(* uint32_t is day * 86400 + sec, and it does not wrap before 2106.        *)
(***************************************************************************)
EXTENDS Integers, Sequences

RtcYearOffset == 2000
LeapochDay    == 11017                \* LEAPOCH, 2000-03-01, as a day
DaysPer400Y   == 365 * 400 + 97
DaysPer100Y   == 365 * 100 + 24
DaysPer4Y     == 365 * 4 + 1

-----------------------------------------------------------------------------
(* From broken-down time to Unix time. *)

IsLeapYear(year) == (year % 4 = 0 /\ year % 100 # 0) \/ year % 400 = 0

DaysUpTo(leap) ==
  IF leap THEN <<0, 31, 60, 91, 121, 152, 182, 213, 244, 274, 305, 335>>
          ELSE <<0, 31, 59, 90, 120, 151, 181, 212, 243, 273, 304, 334>>

CalcDayOfYearFromOne(month, day, year) == DaysUpTo(IsLeapYear(year))[month] + day

\* The day of the year, counted from 0.
CalcDayOfYear(month, day, year) == DaysUpTo(IsLeapYear(year))[month] + (day - 1)

DatetimeToUnix(dt) ==
  LET tmYear == RtcYearOffset + dt.year - 1900
  IN  [day |-> CalcDayOfYear(dt.month, dt.date, RtcYearOffset + dt.year)
               + (tmYear - 70) * 365 + (tmYear - 69) \div 4 - (tmYear - 1) \div 100
               + (tmYear + 299) \div 400,
       sec |-> dt.seconds + dt.minutes * 60 + dt.hours * 3600]

-----------------------------------------------------------------------------
(* From Unix time to broken-down time, in years that begin in March. *)

CyclesUncapped(days, length, most) == days \div length

\* How many cycles of this length fit; the last one of a longer cycle is a day
\* longer than its own kind, and that day does not begin another.
Cycles(days, length, most) ==
  LET n == days \div length IN IF n > most THEN most ELSE n

DaysInMonth == <<31, 30, 31, 30, 31, 31, 30, 31, 30, 31, 31, 29>>

\* Days of a March year before its month m, counted from 0.
DaysUpToMonth == [m \in 0 .. 11 |->
  LET upTo[k \in 0 .. 11] == IF k = 0 THEN 0 ELSE upTo[k - 1] + DaysInMonth[k] IN upTo[m]]

\* The month a day of a March year is in: the loop subtracts months while it can.
MonthOf(days) ==
  CHOOSE m \in 0 .. 11 : /\ DaysUpToMonth[m] <= days
                         /\ days < DaysUpToMonth[m] + DaysInMonth[m + 1]

CalendarMonthNoCarry(years, months) == [year |-> years, month |-> months + 3]

\* The shift from March years to years; the code's comparison is with 12.
CalendarMonth(years, months) ==
  IF months + 3 >= 12 THEN [year |-> years + 1, month |-> months + 3 - 12]
                      ELSE [year |-> years, month |-> months + 3]

UnixToDatetime(ts) ==
  LET days  == ts.day - LeapochDay
      qc    == days \div DaysPer400Y
      rem1  == days % DaysPer400Y
      c     == Cycles(rem1, DaysPer100Y, 3)
      rem2  == rem1 - c * DaysPer100Y
      q     == Cycles(rem2, DaysPer4Y, 24)
      rem3  == rem2 - q * DaysPer4Y
      y     == Cycles(rem3, 365, 3)
      rem4  == rem3 - y * 365
      month == MonthOf(rem4)
      cal   == CalendarMonth(y + 4 * q + 100 * c + 400 * qc, month)
  IN  [year |-> cal.year, month |-> cal.month, date |-> rem4 - DaysUpToMonth[month] + 1,
       hours |-> ts.sec \div 3600, minutes |-> (ts.sec \div 60) % 60, seconds |-> ts.sec % 60]
=============================================================================
