\* Two requests in flight. A wrong guess locks, the next one for twice as long;
\* the window is as long as the longest lock, and everything expires in time.
CONSTANTS
    r1 = r1
    r2 = r2
    Requests = {r1, r2}
    Threshold = 1
    BaseLock = 1
    MaxLock = 2
    Window = 2
    TicketTtl = 1
    TicketTries = 2
    MaxTime = 2
    MaxFailures = 2
    MaxPasswords = 2
    MaxSecrets = 1
    MaxCodes = 2
    MaxTickets = 1
    MaxChallenges = 1
SPECIFICATION Spec
SYMMETRY Interchangeable
CONSTRAINT Bounded
INVARIANTS
    ProofsInOrder
PROPERTIES
    LockNeverShortened
    SecondFactorHolds
CHECK_DEADLOCK FALSE
