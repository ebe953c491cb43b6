CONSTANTS
    Workers = {w1, w2}
    Alerts = {a1}
    Logs = {1, 2}
    Decisions = {d1, d2}
    Triggers = {t1}
    Plans = {p1}
    Edits = {p1, NoPlan}
    Overlap = FALSE
    Faults = TRUE
    MaxCrashes = 1
    Agent = Agent
    NoPlan = NoPlan
    None = None
SPECIFICATION Spec
CHECK_DEADLOCK FALSE
PROPERTY LifecycleSpec
