\* Two names, one request at a time, two shares ever.
CONSTANTS
    s1 = s1
    s2 = s2
    h1 = h1
    Names = {s1, s2}
    Caps = {0, 1, 2048}
    Handlers = {h1}
    First = 1000
    MaxRows = 2
    MaxFailures = 0
SPECIFICATION Spec
INVARIANT
    NeverReused
CHECK_DEADLOCK FALSE
