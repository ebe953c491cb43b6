SPECIFICATION LiveSpec
CONSTANTS
  Timeout = 1
  Cooldown = 1
  Continuous = TRUE
  MaxAborted = 1
  Incoming = {1, 2}
  Deliveries = {1, 2}
  Remediate = TRUE
  MaxErrors = 1
  Channels = {email, chat}
  Templates = {template1}
  MaxAttempts = 2
  Services = {1, 2}
  Manual = {1}
  Docker = {2}
  Targets = {db1}
  MaxRestarts = 1
  PromHosts = {host1}
  Exporters = {1, 2, 3}
  Tasks = {1, 2}
PROPERTIES PresenceIsKnown FiringIsStored DisabledIsSilent CheckedIsReported TargetsFollow
CHECK_DEADLOCK FALSE
