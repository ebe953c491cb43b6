CONSTANTS
    Workers = {w1}
    Alerts = {a1, a2}
    Logs = {1, 2}
    Decisions = {d1, d2}
    Triggers = {t1}
    Plans = {p1}
    Edits = {}
    Overlap = TRUE
    Faults = FALSE
    MaxCrashes = 0
    Agent = Agent
    NoPlan = NoPlan
    None = None
SPECIFICATION FairSpec
CHECK_DEADLOCK FALSE
INVARIANT ApprovalGate
PROPERTY WorkIsConcluded
