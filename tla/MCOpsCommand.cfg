SPECIFICATION MCSpec
CONSTANTS
  Workers = {w1, w2}
  Conns = {1, 2}
  Requests = {1, 2}
  MaxCrashes = 1
  Tabs = {t1, t2}
  MaxReplies = 3
  None = None
INVARIANTS
  RunsAsConfirmed
  OnlineIsBacked
PROPERTIES
  CallsEnd
CHECK_DEADLOCK FALSE
