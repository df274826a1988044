CONSTANTS
    None = none
    Hosts = {h1, h2}
    Publics = {a1, a2}
    Timer = t
    Buttons = {b}
    MaxChanges = 2
    Disks = {d1, d2}
    MaxUpsets = 2
    Users = {u1}
    Clients = {c1, a1}
    MaxCodes = 2
    NameSets = {{h1}, {h1, h2}}
    Daily = t
    Asked = b
    Admin = r1
    MaxPairs = 2
    MaxFaults = 1
    Guarded = {a1}
    Silent = {a1}
    Sizes <- Viewports
    Phone = 3
    Bar = 1
    Wide = 3
    High = 2
    Points <- Pointers
    Gone = gone
    Sockets = {1, 2}
    MaxMounts = 2
    MaxDrops = 1
    Keys = {a1}
    Cap = 2
    Limit = 1
    MaxNotices = 3
    MaxAsked = 2
    MaxMishaps = 1
    Addresses = {a1}
    Lan = {}
    Handlers = {r1, b}
    Threshold = 2
    h1 = h1
    a1 = a1
    Apps = {a1, a2}
    MaxMoves = 2
    Running = {"ddns", "bans", "alerts", "provider", "certificates",
               "windows", "live", "notices"}
SPECIFICATION MCSpec
INVARIANTS
    StoredIsServed
    TrustedGetIn
    ReportedWasTold
    CertificateAsRecorded
    WindowsAtHand
    ListenersAreConnections
    NoticesInOrder
PROPERTIES
    CodesAreSingleUse
    CloseIsServed
    Reconnects
\* In each part every bound is used up and nothing is in flight: it rests.
CHECK_DEADLOCK FALSE
