CONSTANTS
    Engines = {e1}
    Rules <- Silent
    Rows = {1, 2}
    Slots = 2
    Clock = 2
    Overlap = {}
    Faults = FALSE
    MaxAborts = 0
    Mutes = FALSE
SPECIFICATION FairSpec
CHECK_DEADLOCK FALSE
PROPERTY RaisedAfterDuration
