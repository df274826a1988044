\* Two accounts, two requests in flight.
CONSTANTS
    u1 = u1
    u2 = u2
    r1 = r1
    r2 = r2
    none = none
    Users = {u1, u2}
    Devices = {u1}
    Requests = {r1, r2}
    None = none
SPECIFICATION Spec
SYMMETRY Interchangeable
CONSTRAINT Bounded
INVARIANTS
    ActiveAdminRemains
    DisabledSessionsAreLate
    AutologinAsConfigured
PROPERTY
    GateHolds
CHECK_DEADLOCK FALSE
