\* Two tabs, an ordinary ruleset and one that locks everybody out, the
\* firewall off, two changes from the ordinary one, one restart or reboot.
CONSTANTS
    c1 = c1
    c2 = c2
    open = open
    shut = shut
    off = off
    Consoles = {c1, c2}
    Rulesets = {open, shut}
    Lockout = {shut}
    NoRules = off
    MaxChanges = 2
    MaxStops = 1
SPECIFICATION MCSpec
INVARIANTS
    PendingIsArmed
    OrderlySettled
PROPERTIES
    LockoutLifted
\* Nothing is in flight, every bound is used up: the system rests.
CHECK_DEADLOCK FALSE
