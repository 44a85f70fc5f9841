\* Liveness: lock waits, wait cycles with the maintenance job, stale sessions.
CONSTANTS
    Users = {u1, u2}
    Keys = {}
    NoKey = NoKey
    None = None
    Requests = {r1, r2}
    Jobs = {j1, j2}
    AutoCloseAfter = 2
    DayTicks = 3
    LateAfter = 1
    TicksPerSecond = 2
    MaxClock = 3
    Managed = {u1}
    MaxLag = 1
    MaxCrashes = 0
SPECIFICATION FairSpec
PROPERTIES
    EveryRequestAnswered
    StaleSessionsClosed
