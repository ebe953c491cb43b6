CONSTANTS
    Engines = {e1, e2}
    Rules <- Immediate
    Rows = {1, 2}
    Slots = 2
    Clock = 2
    Overlap = {"engines"}
    Faults = FALSE
    MaxAborts = 0
    Mutes = FALSE
SPECIFICATION Spec
CHECK_DEADLOCK FALSE
INVARIANT AtMostOneActive
