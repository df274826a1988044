------------------------------ MODULE Calendar ------------------------------
(***************************************************************************)
(* When a maintenance schedule next comes round: nextRun of                *)
(* apps/api/src/db/system-tasks.ts, over a calendar whose day, week and    *)
(* months are as long as the constants say, and what it ought to return.   *)
(*                                                                         *)
(* An instant is a number of half minutes: an even one is a whole minute,  *)
(* an odd one is a minute and some seconds.  Local time runs evenly here;  *)
(* the two days a year on which it jumps are left out.                     *)
(***************************************************************************)
EXTENDS Naturals, Sequences

CONSTANTS
    DayMinutes,  \* minutes in a day
    WeekDays,    \* days in a week
    MonthDays    \* the lengths of the months of a year, over and over

ASSUME CalendarAssumption ==
    /\ DayMinutes \in Nat \ {0} /\ WeekDays \in Nat \ {0}
    /\ MonthDays \in Seq(Nat \ {0}) /\ MonthDays # <<>>

Schedule ==
    [frequency : {"daily", "weekly", "monthly"}, minute : 0 .. DayMinutes - 1,
     weekday : 0 .. WeekDays - 1, day : Nat \ {0}]

PerDay == 2 * DayMinutes
DayOf(t) == t \div PerDay
At(d, minute) == d * PerDay + 2 * minute

\* Months are numbered from 0; the first day of the first one is day 0.
DaysIn(m) == MonthDays[(m % Len(MonthDays)) + 1]
MonthStart[m \in Nat] == IF m = 0 THEN 0 ELSE MonthStart[m - 1] + DaysIn(m - 1)
MonthOf(d) == CHOOSE m \in 0 .. d : MonthStart[m] <= d /\ d < MonthStart[m + 1]

-----------------------------------------------------------------------------
(* The code *)

\* Mutant of Place: "the 31st" runs over into the next month.
PlaceUnclamped(s, m) == MonthStart[m] + s.day - 1

\* The day the schedule names, clamped to the length of the month.
Place(s, m) ==
    MonthStart[m] + (IF s.day <= DaysIn(m) THEN s.day ELSE DaysIn(m)) - 1

\* Strictly after from.
NextRun(s, from) ==
    LET today == DayOf(from)
        past(d) == At(d, s.minute) <= from
        ahead == (s.weekday + WeekDays - (today % WeekDays)) % WeekDays
        month == MonthOf(today)
        day == CASE s.frequency = "daily" ->
                      IF past(today) THEN today + 1 ELSE today
                 [] s.frequency = "weekly" ->
                      IF ahead = 0 /\ past(today) THEN today + WeekDays
                                                  ELSE today + ahead
                 [] s.frequency = "monthly" ->
                      IF past(Place(s, month)) THEN Place(s, month + 1)
                                               ELSE Place(s, month)
    IN  At(day, s.minute)

-----------------------------------------------------------------------------
(* What a schedule means *)

\* t is one of the instants the schedule names; "the 31st" is the last day of
\* a shorter month.
IsSlot(s, t) ==
    LET d == DayOf(t)
        m == MonthOf(d)
        inMonth == d - MonthStart[m] + 1
    IN  /\ t % PerDay = 2 * s.minute
        /\ s.frequency = "weekly"  => d % WeekDays = s.weekday
        /\ s.frequency = "monthly" =>
              inMonth = s.day \/ (inMonth = DaysIn(m) /\ s.day > inMonth)
=============================================================================
