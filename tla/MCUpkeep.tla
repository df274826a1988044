------------------------------ MODULE MCUpkeep ------------------------------
(* A small instance of Upkeep for TLC.                                       *)
EXTENDS Upkeep

\* A schedule of each kind; "the 3rd" of a month of two days is its 2nd.
MCSchedules ==
    {[frequency |-> "daily",   minute |-> 1, weekday |-> 0, day |-> 1],
     [frequency |-> "weekly",  minute |-> 0, weekday |-> 1, day |-> 1],
     [frequency |-> "monthly", minute |-> 1, weekday |-> 0, day |-> 3]}

\* A long month and a short one.
MCMonthDays == <<3, 2>>

\* Version 1 starts with the service files of 2, which does not start itself, and not
\* with those of 3.
MCSuits == [v \in Working |-> IF v = 1 THEN {1, 2} ELSE {1, v}]
=============================================================================
