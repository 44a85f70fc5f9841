\* A user is disabled while a punch of theirs waits.
CONSTANTS
    Users = {u1}
    Keys = {}
    NoKey = NoKey
    None = None
    Requests = {r1}
    Jobs = {}
    AutoCloseAfter = 2
    DayTicks = 3
    LateAfter = 1
    TicksPerSecond = 2
    MaxClock = 3
    Managed = {u1}
    MaxLag = 3
    MaxCrashes = 0
SPECIFICATION Spec
SYMMETRY Symmetry
PROPERTIES
    AcceptedOnlyWhileActive
