CONSTANTS
    Engines = {e1}
    Rules <- AllRules
    Rows = {1, 2}
    Slots = 2
    Clock = 2
    Overlap = {}
    Faults = FALSE
    MaxAborts = 0
    Mutes = TRUE
SPECIFICATION FairSpec
CHECK_DEADLOCK FALSE
PROPERTIES MetricIsFollowed
