\* One user, three punches with or without one key, two maintenance processes.
CONSTANTS
    Users = {u1}
    Keys = {k1}
    NoKey = NoKey
    None = None
    Requests = {r1, r2, r3}
    Jobs = {j1, j2}
    AutoCloseAfter = 1
    DayTicks = 3
    LateAfter = 1
    TicksPerSecond = 2
    MaxClock = 3
    Managed = {}
    MaxLag = 1
    MaxCrashes = 1
SPECIFICATION Spec
SYMMETRY Symmetry
INVARIANTS
    TypeOK
    OneOpenSession
    UniqueIndexIsBackstop
    KeyDecidedOnce
    RecordsAgree
    SessionChecks
    DayTotalsAgree
PROPERTIES
    ClosedStaysClosed
    ImplementsAttendance
