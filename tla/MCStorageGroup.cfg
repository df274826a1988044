\* Two changes of one group at once, every command working.
CONSTANTS
    Persons = {u1}
    Teams = {g1, g2}
    Folders <- TwoFolders
    MaxEntries = 3
    Writer = writer
    Near = {near}
    Far = {far}
    MaxNames = 2
    MaxContents = 2
    MaxTrashed = 1
    MaxCrashes = 1
    CapNames = {s1, s2}
    Caps = {0, 1}
    Savers = {r1, r2}
    First = 1000
    MaxRows = 2
    MaxFailures = 1
    Drives = {d1, d2}
    Array = md
    Space = sp
    Labels = {data, data2}
    Covers <- Prefixed
    Helpers = {r1, r2}
    NoDevice = nodevice
    MaxJobs = 3
    MaxBoots = 1
    data = data
    data2 = data2
    Requests = {r1, r2}
    Boot = Boot
    Users = {u}
    Groups = {g}
    Shares = {s}
    Clients = {k}
    Network = Network
    None = None
    MaxChanges = 2
    MaxMishaps = 0
    Running = {"sharing"}
SPECIFICATION MCSpec
INVARIANT RemovedLosesAccess
CHECK_DEADLOCK FALSE
