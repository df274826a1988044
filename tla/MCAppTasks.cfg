\* Two tasks of one app, one of which a batch performs; a short interval and
\* a longer one.
CONSTANTS
    a1 = a1
    t1 = t1
    t2 = t2
    Tasks = {t1, t2}
    Apps = {a1}
    AppOf <- MCAppOf
    Intervals = {1, 2}
    Limit = 1
    MaxTasks = 2
    None = None
SPECIFICATION FairSpec
INVARIANTS
    BatchesInStep
PROPERTIES
    ServedAgain
    OrphansGo
