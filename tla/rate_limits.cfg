CONSTANTS
    r1 = r1
    r2 = r2
    r3 = r3
    r4 = r4
    c1 = c1
    a1 = a1
    None = None
    Requests = {r1, r2, r3, r4}
    Routes = {"login", "punch"}
    Callers = {c1}
    Accounts = {a1}
    MaxRequests <- Max
    WindowSeconds <- Lengths
    TicksPerSecond = 2
    MaxClock = 3
    Workers = 2
    MaxCrashes = 1
SPECIFICATION Spec
SYMMETRY Interchangeable
\* Requests end and no new ones come: the instance stops.
CHECK_DEADLOCK FALSE
INVARIANTS
    TypeOK
    CountsAreExact
    NoMoreThanMax
    LockoutMissesOnlyOverlaps
    LockoutIsEarned
    HintIsWithinASecond
