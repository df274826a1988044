\* Maintenance: two tasks over two months of five days in all, days of two
\* minutes, weeks of two days.  Update: two administrators, two helpers at
\* most, one power loss; version 2 does not start, version 3 is the fix.
CONSTANTS
    DayMinutes = 2
    WeekDays = 2
    MonthDays <- MCMonthDays
    Tasks = {t1, t2}
    Schedules <- MCSchedules
    Unborn = Unborn
    Deleted = Deleted
    MaxTime = 11
    MaxEdits = 2
    MaxAsked = 1
    MaxStops = 1
    Admins = {a1, a2}
    Versions = {1, 2, 3}
    Working = {1, 3}
    Suits <- MCSuits
    First = 1
    Absent = Absent
    MaxRuns = 2
    MaxCuts = 1
SPECIFICATION UpkeepSpec
INVARIANTS
    ArmedForNearest
    RunningIsReal
    WorkingVersionRemains
PROPERTIES
    SlotServedOnce
    DueIsServed
    NoDowngrade
    UpdateEnds
\* The clock stops at MaxTime with every task finished; every bound on updates
\* is used up and nobody presses anything.
CHECK_DEADLOCK FALSE
