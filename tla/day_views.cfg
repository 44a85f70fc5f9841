\* Four commits from changing places, or from one place with every screen.
CONSTANTS
    NoFix = NoFix
    Readings <- Fixes
    Radius = 1
    AccuracyLimit = 1
    MaxSpeed = 1
    Retention = 1
    AutoCloseAfter = 2
    DayTicks = 2
    LateAfter = 0
    Start = 13
    Periods = {"today", "week"}
    Delay = 2
    Age = 1
    MaxCommits = 4
    MaxClock = 17
SPECIFICATION Spec
ACTION_CONSTRAINT Explored
\* Commits and the clock are bounded: the instance stops.
CHECK_DEADLOCK FALSE
INVARIANTS
    TypeOK
    HonestNotFlagged
    TeleportIsFlagged
    NoLateDayIsMissed
    TodayNeverUnderstates
    TodayStateIsOfOneMoment
    DaysNeverOverstate
    PresenceIsOfOneMoment
    PresenceNeverOverstates
