\* Three packages of one app, the second asking for another host than the first
\* and the third for more, and one of another; two handlers; two packages at
\* most wait for approval.
CONSTANTS
    a = a
    b = b
    p0 = p0
    p1 = p1
    p2 = p2
    q = q
    x = x
    y = y
    near = near
    far = far
    k = k
    h1 = h1
    h2 = h2
    AppIds = {a, b}
    Packages = {p0, p1, p2, q}
    AppOf <- MCAppOf
    Permissions = {x, y}
    Asks <- MCAsks
    Fetch = x
    Hosts = {near, far}
    HostsOf <- MCHostsOf
    Publisher <- MCPublisher
    Parts = 2
    Handlers = {h1, h2}
    MaxStaged = 2
    None = None
    MaxStarts = 6
SPECIFICATION Spec
SYMMETRY MCSymmetry
INVARIANTS
    AppsAsRecorded
PROPERTIES
    ReviewImplemented
