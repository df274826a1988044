\* One administrator, one request, and a backup.
CONSTANTS
    u1 = u1
    u2 = u2
    r1 = r1
    none = none
    Users = {u1, u2}
    Devices = {u1}
    Requests = {r1}
    None = none
SPECIFICATION ImportSpec
INVARIANT
    ActiveAdminRemains
CHECK_DEADLOCK FALSE
