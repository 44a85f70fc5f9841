\* One person, two commits, from Sunday evening to Tuesday, and the week's summary.
CONSTANTS
    NoFix = NoFix
    Readings <- OneFix
    Radius = 1
    AccuracyLimit = 1
    MaxSpeed = 1
    Retention = 1
    AutoCloseAfter = 2
    DayTicks = 2
    LateAfter = 0
    Start = 13
    Periods = {"week"}
    Delay = 0
    Age = 0
    MaxCommits = 2
    MaxClock = 17
SPECIFICATION Spec
\* Commits and the clock are bounded: the instance stops.
CHECK_DEADLOCK FALSE
INVARIANTS
    AttendanceCountsForItsDay
