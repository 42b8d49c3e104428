----------------------------- MODULE Gregorian -----------------------------
(***************************************************************************)
(* The Gregorian calendar, as chrono provides it to the cron plugin, and   *)
(* as the reference the ISS server's own algorithm is compared with.  Days *)
(* are counted from 1970-01-01, which is day 0 and a Thursday.             *)
(***************************************************************************)
EXTENDS Integers

IsLeap(y) == y % 4 = 0 /\ (y % 100 # 0 \/ y % 400 = 0)

DaysIn(y, m) == CASE m = 2 -> IF IsLeap(y) THEN 29 ELSE 28
                  [] m \in {4, 6, 9, 11} -> 30
                  [] OTHER -> 31

\* Days of a common year before the first of a month.
Before == <<0, 31, 59, 90, 120, 151, 181, 212, 243, 273, 304, 334>>

Leaps(y) == y \div 4 - y \div 100 + y \div 400

DayOf(y, m, d) ==
  365 * (y - 1970) + Leaps(y - 1) - Leaps(1969)
    + Before[m] + (IF m > 2 /\ IsLeap(y) THEN 1 ELSE 0) + d - 1

\* 0 is Sunday, the numbering of POSIX cron.
WeekdayOf(day) == (day + 4) % 7

YearOf(day) ==
  CHOOSE y \in (1970 + day \div 366 - 1)..(1970 + day \div 365 + 1) :
    DayOf(y, 1, 1) <= day /\ day < DayOf(y + 1, 1, 1)

DateOf(day) ==
  LET y == YearOf(day)
      m == CHOOSE k \in 1..12 :
             DayOf(y, k, 1) <= day /\ day < DayOf(y, k, 1) + DaysIn(y, k)
  IN [year |-> y, month |-> m, day |-> day - DayOf(y, m, 1) + 1]

=============================================================================
