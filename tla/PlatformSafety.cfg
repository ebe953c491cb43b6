SPECIFICATION SafetySpec
CONSTANTS
  MaxCalls = 3
  MaxTurns = 2
  MaxFaults = 1
  Accounts = {account1}
  Sids = {sid1, sid2, sid3}
  NoSid = NoSid
  Configs = {legacy, added}
  Legacy = legacy
  Admins = {admin1, admin2}
  NoConfig = NoConfig
  MaxEdits = 3
  Drafts = {talk1, talk2}
  Configured = {logs, metrics}
  Looped = {logs}
  LoopDays = 1
  MaxDays = 2
  Files = {file1, file2}
  MultiLine = {file2}
  Full = 2
  MaxLines = 2
  MaxRestarts = 1
  Schedules = {shift1, shift2}
  Groups = {group1}
  OnCallUsers = {user1}
  Days = {1, 2, 3}
  Clients = {client1, client2}
  MaxRequests = 3
  PromRules = {rule1}
  Editors = {editor1, editor2}
  Servers = {server1}
  ServiceGroups = {bundle1}
  Dependencies = {link1, link2}
  InventoryClients = {caller1, caller2}
  ReportIds = {report1, report2}
  MaxReportRestarts = 1
  Sizes = {0, 1, 3}
  CheckSizes = {0, 1, 2}
  Runbooks = {runbook1}
  CheckSets = {{}, {"alert_type"}}
  Agents = {agent1}
  Cooldown = 2
  BreakWindow = 3
  BreakAfter = 1
  ConfirmAfter = 1
  BlockAfter = 2
  MaxNow = 0
  MaxAlerts = 1
  MaxRunbookEdits = 1
  Releases = 3
  TenFrom = 2
  MaxTriggers = 2
  Batches = {batch1, batch2}
  LogHosts = {host1}
  MuteIds = {mute1}
  DedupWindow = 0
  MaxTime = 1
  MaxRaised = 2
  Lines = {line1, line2}
  NoisyLines = {line2}
  ScanEvery = 2
  ScanWindow = 4
  ScanLimit = 1
  ModelLimit = 1
  ButtonWindows = {4, 8}
  ButtonLimit = 2
  ButtonModelLimit = 1
  MaxMinute = 8
  MaxMisses = 1
  Tails = {tail1}
  Capacity = 2
  Streams = {stream1, stream2}
  Ips = {ip1, ip2}
  MaxSlots = 2
  MaxPerIp = 1
  MaxBatches = 4
  LayoutRows = {view1, view2}
  Names = {name1}
  LayoutClients = {tab1, tab2}
  NoClient = NoClient
  HostTotal = 4
  ServiceTotal = 3
  Alerts = {0, 1, 4}
  Errors = {0}
  Usages = {600, 875}
  MaxChanges = 2
  MaxRows = 3
  Times = {1, 2}
  BatchSize = 1
  Users = {user1}
  Nobody = Nobody
  Addresses = {address1}
  UserPaths = {path1}
  AddressPaths = {}
  MaxInWindow = 1
  Window = 2
  MaxSecond = 4
  MaxInFlight = 2
  MaxInAll = 3
  Kinds = {"webhook", "email", "dingtalk", "feishu", "wecom", "slack", "telegram"}
  Attempts = 2
  Severities = {"warning", "critical"}
  EscalationRequests = {request1, request2}
  MaxEscalations = 3
  Targets = {5000, 9990}
  Week = 2
  NoSlaRule = NoSlaRule
  LastDay = 1
  MaxChecks = 2
INVARIANTS CallsAreAnswered EndedStaysEnded ListIsSound SavedIsStored BookedOnce RulesFollowEdits BackedAndSingle GeneratingIsRunning
INVARIANTS RollsBack CommandsStand RunsWhatIsEnabled NoIdleRestart SeenOrMissed NewestKept OneLayout PushedIsBetween HandedOnce RefusedRightly HistoryExplains MetIsTrue
PROPERTIES SweepsSpareTalks KeptAsAsked RaisedRightly DeliveredAsTested
CHECK_DEADLOCK FALSE
