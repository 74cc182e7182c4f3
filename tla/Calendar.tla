------------------------------ MODULE Calendar ------------------------------
(***************************************************************************)
(* The calendar windows of a budget: the keys of the day, the ISO week and  *)
(* the month that a ledger row falls in, and the week that JavaScript's     *)
(* dates make of a civil date.  A day is a number, 0 being 1 January 1970,  *)
(* as it is observed in the policy's own time zone.                         *)
(***************************************************************************)
EXTENDS Integers

CONSTANTS FirstYear, LastYear  \* bound: the years the calendar reaches

ASSUME CalendarAssumption ==
  FirstYear \in Nat /\ LastYear \in Nat /\ 1970 <= FirstYear /\ FirstYear <= LastYear

----------------------------------------------------------------------------
(* External: what Date.UTC, getUTCDay and Intl make of a day.               *)

IsLeap(y) == y % 4 = 0 /\ (y % 100 # 0 \/ y % 400 = 0)

LeapYearsBefore(y) == (y - 1) \div 4 - (y - 1) \div 100 + (y - 1) \div 400

\* The number of 1 January of year y.
YearStart(y) == 365 * (y - 1970) + LeapYearsBefore(y) - LeapYearsBefore(1970)

\* A day of the years the calendar reaches.
Reached(d) == \E y \in FirstYear..LastYear : YearStart(y) <= d /\ d < YearStart(y + 1)

YearOf(d) == CHOOSE y \in FirstYear..LastYear : YearStart(y) <= d /\ d < YearStart(y + 1)

\* The day of the year on which month m of a common year starts.
MonthOffset == <<0, 31, 59, 90, 120, 151, 181, 212, 243, 273, 304, 334>>
MonthStart(y, m) == YearStart(y) + MonthOffset[m] + (IF m > 2 /\ IsLeap(y) THEN 1 ELSE 0)

MonthOf(d) ==
  LET y == YearOf(d) IN CHOOSE m \in 1..12 :
    MonthStart(y, m) <= d /\ (m < 12 => d < MonthStart(y, m + 1))

\* 0 is Sunday; the epoch was a Thursday.
Weekday(d) == (d + 4) % 7

----------------------------------------------------------------------------
(* The keys.                                                                *)

\* Monday is 0.
IsoDay(d) == (Weekday(d) + 6) % 7

\* Thursday of the ISO week of d.
Thursday(d) == d - IsoDay(d) + 3

\* Mutant: the week is numbered in the civil year of the day itself.
WeekKeyCivilYear(d) ==
  LET year == YearOf(d) IN <<year, 1 + (Thursday(d) - Thursday(YearStart(year) + 3)) \div 7>>

\* The week is numbered in the year of its Thursday, from the week of 4 January.
WeekKey(d) ==
  LET year == YearOf(Thursday(d)) IN
    <<year, 1 + (Thursday(d) - Thursday(YearStart(year) + 3)) \div 7>>

MonthKey(d) == <<YearOf(d), MonthOf(d)>>

Window == {"day", "week", "month"}

\* windowKeys.
KeyOf(window, d) ==
  CASE window = "day" -> <<d, 0>>
    [] window = "week" -> WeekKey(d)
    [] window = "month" -> MonthKey(d)

=============================================================================
