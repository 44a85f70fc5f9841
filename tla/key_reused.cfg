\* A punch whose answer is lost, and a press the other way.
CONSTANTS
    None = None
    Reloads <- TwoReloads
    MaxPresses = 2
    MaxEvents = 2
SPECIFICATION Spec
\* Presses and happenings are bounded: the instance stops.
CHECK_DEADLOCK FALSE
INVARIANTS
    SheetTellsThePress
