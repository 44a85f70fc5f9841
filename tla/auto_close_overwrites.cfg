\* A punch_out and the maintenance job close the same session.
CONSTANTS
    Users = {u1}
    Keys = {}
    NoKey = NoKey
    None = None
    Requests = {r1, r2}
    Jobs = {j1}
    AutoCloseAfter = 2
    DayTicks = 3
    LateAfter = 1
    TicksPerSecond = 2
    MaxClock = 3
    Managed = {u1}
    MaxLag = 3
    MaxCrashes = 0
SPECIFICATION Spec
SYMMETRY Symmetry
INVARIANTS
    AutoCloseNoteIsTrue
