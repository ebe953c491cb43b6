CONSTANTS
    Engines = {e1, e2}
    Rules <- AllRules
    Rows = {1, 2}
    Slots = 2
    Clock = 2
    Overlap = {}
    Faults = TRUE
    MaxAborts = 1
    Mutes = TRUE
SPECIFICATION Spec
CHECK_DEADLOCK FALSE
SYMMETRY Symmetry
INVARIANTS AtMostOneActive CooldownRespected NoOrphan
