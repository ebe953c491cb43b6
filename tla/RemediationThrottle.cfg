CONSTANTS
  Runbooks = {rb1}
  CheckSets = {{}, {"alert_type"}}
  Agents = {g1}
  Cooldown = 2
  BreakWindow = 3
  BreakAfter = 1
  ConfirmAfter = 1
  BlockAfter = 2
  MaxNow = 1
  MaxAlerts = 2
  MaxRunbookEdits = 0
SPECIFICATION GateSpec
CHECK_DEADLOCK FALSE
INVARIANT CooldownIsKept
