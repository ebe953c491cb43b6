# A verification of NightMend

NightMend watches hosts, raises alerts about them, repairs them with runbooks,
and lets operators ask an assistant to run commands on them. This directory
holds TLA+ models of its stateful parts, the runs in which TLC checks them on
small instances, and theorems proved with TLAPS for every value of the constants.

## The system

A host runs an **agent** (`agent/nightmend_agent`): it registers, reports
metrics, logs and services over HTTP, and keeps a WebSocket over which it gets
commands. The **backend** (`backend/app`, FastAPI) keeps its state in PostgreSQL
and Redis. It is started with four uvicorn workers (`backend/Dockerfile:31`,
`docker-compose.prod.yml:59`), and the lifespan of *each* worker starts every
background task (`main.py:163`): nothing elects a leader. A monitor restarts
tasks that have ended every 30 seconds (`main.py:121`). Requests of one worker
interleave at every `await`; PostgreSQL runs under READ COMMITTED, so a flushed
row is seen by nobody else until its COMMIT.

| Component | State | What is hard | What makes it correct | Module |
|---|---|---|---|---|
| Metric ingestion, alert engine, deduplication, acknowledgement | two Redis keys, `alerts`, `alert_deduplications`, the uncommitted session | several engines, three sessions, failures in the middle | one active alert per rule and host, raised and resolved when the rule says, not repeated within the cooldown | `AlertEngine` |
| Remediation workflow | `remediation_logs`, tasks and listeners | overlapping decisions, background tasks, restarts | nothing runs without its approval, nothing runs twice, everything is concluded | `Remediation` |
| Runbook execution | the host | failing commands, timeouts, lost sessions | fail-fast, reverse rollback, an honest result | `RunbookExecution` |
| Runbooks, risk, limiter, breaker | `custom_runbooks`, memory of one agent object | runbooks edited while an approval waits | only enabled, allowed runbooks run by themselves | `RemediationGate` |
| Notifier: channels and templates | rows, their copies in Redis, the log | stale copies, one session shared by tasks | a disabled channel falls silent | `Notifier` |
| Notifier: the seven channel types, the page | a channel's settings, its services | two code paths per type, masked secrets | what was tested works for alerts | `ChannelDelivery` |
| Ops assistant: commands | pending approvals, Redis channels, agent threads | timeout against answer, publish before subscribe | a command runs once, and only when confirmed; every call ends | `OpsCommand` |
| Agent link | socket registry per worker, online set | reconnects, killed workers | online means connected | `AgentLink` |
| Ops assistant: conversation, sessions | context, `ops_messages`, `ops_sessions` | failures between two saves, compaction | the context is acceptable to the model; sweeps spare a session in use | `OpsContext`, `OpsSessions` |
| AI configurations | one JSON setting | whole-list updates | the list stays well-formed | `AiConfigs` |
| Host and service presence | heartbeat keys, `hosts`, service alerts | concurrent writers of one status | a silent host ends offline, a running one online | `HostPresence` |
| AlertManager webhook | dedup keys, `alerts` | the key is set before the work is done | a firing alert is stored at last | `Webhook` |
| Escalation, SLA, on-call | rows | check, then write; two counts | histories explain the row; no false "met"; no double booking | `Escalation`, `Sla`, `OnCall` |
| Authentication | one session per user in Redis | check, then write | what ended stays ended | `Sessions` |
| Prometheus rules and targets | files, the loaded rules | crossing exports, best effort | files follow the rows at last | `PromSync`, `PromTargets` |
| Agent: services, databases, logs, updates | memory, saved offsets | loops against discovery, restarts | reports agree with the host; saved lines are stored; no idle restarts | `AgentServices`, `LogPipeline`, `AgentUpdate` |
| Log backends, keyword alerts, anomaly scan | `log_entries`, suppression rules | pages shift, windows, limits | lines handed over once, raised rightly, seen or counted as missed | `LogStore`, `KeywordAlerts`, `AnomalyScan` |
| Live views | queues, slots, layouts, counts | full queues, overlapping activations | newest lines kept, one layout, scores between the true ones | `LiveTail`, `Layouts`, `HealthScore` |
| Inventory, reports, retention, request limits | rows, files, a sorted set | dangling links, restarts, edits during a cleanup | see the runs | `Inventory`, `Reports`, `Retention`, `RequestLimits` |

**How they interact.** An agent's report sets two Redis keys. Once a minute each
engine compares the latest sample with every rule, asks the deduplication (its
own session and commit), checks the history for the rule's duration, inserts or
resolves an alert, notifies, publishes `nightmend:alert:new`, and commits at the
end of its cycle. Every worker's listener receives the message and calls
`RemediationAgent.handle_alert`, which escalates, asks for approval or executes a
runbook over SSH. The webhook starts the same work for alerts of Prometheus. An
operator triggers it with `POST /alerts/{id}/remediate`, and approves or rejects
with two more endpoints; an approval starts an executor task in the worker that
took the request. The assistant's commands travel another way: a tool publishes
on a Redis channel per host, the relay task of the host's socket forwards to the
agent, and the result comes back through the session's channel.

## Modules

Each module's head comment says what it leaves out. The correspondence of every
definition to lines of the source is in `PROJECT.json` under `map`; here is how
state and actions are chosen. **An action ends at an `await`** on the database,
Redis, the network or another task, or at a COMMIT where the reads before it
cannot matter; a request is a record with its program counter and what it has
read. Histories, kept only for a property, are marked as such.

### Remediation

`status`, `approved` and `completed` are the *committed* columns of
`remediation_logs`; "diagnosing", and "executing" inside `handle_alert`, are
values of the task's program counter `run`, because they are only flushed.

* `TriggerCheck` / `TriggerCommit`: `trigger_remediation`, at its SELECT and at
  its COMMIT; `RunStart` is the background task it creates.
* `Subscribe`, `ConnectionLost`, `ListenerTake`: `start_listener` and the task
  monitor's restart.
* `RunEscalate`, `RunAskApproval`, `RunExecute`, `RunFinish`: the ways through
  `handle_alert`, each ended by `_update_log` (`Conclude`); `RunRaise` is an
  exception that leaves it.
* `Decide` / `ApproveCommit` / `RejectCommit`: the two endpoints, at their read
  and their commit. The UPDATE names the id only, so the commit has no guard.
* `ExecRead` .. `ExecFinish`, `ExecRaise`: `_execute_approved_remediation`.
* `EditRunbook`: PUT and DELETE of a custom runbook. `Crash`: a restart of the
  backend, which ends the tasks of all workers.

Diagnosis, matching, limiter, breaker and risk are free choices between the ways
through `handle_alert`; `RemediationGate` models them. `RemediationLifecycle` is
the abstract specification: the legal changes of a remediation's status, and that
it is executed at most once and never after a rejection. Its `executed` is the
history `times`, which every execution raises, so that a second one, after a
restart for instance, is no stutter. `MCRemediation` adds symmetry.

### RunbookExecution

One execution by either executor (`by`): the commands one after another, the
verification commands, the rollback of the successful steps in reverse order. The
state of interest is `effects`, the steps whose effect is on the host, and what
the code knows about them: `done`, `failed`, `undone`. A non-zero exit says
nothing about the effect; `late` are commands that may still be running after
their SSH session or the backend is gone; `silent` are steps whose channel closed
without an exit status, which `exit_status or 0` counts as success.

### RemediationGate

What `handle_alert` decides from diagnosis, registry, risk, limiter, breaker and
preflight checks, for a runbook that operators create, edit, import, disable and
delete meanwhile (`CreateRunbook` .. `ImportRunbooks`), and how a decision on an
approval looks the runbook up again (`RunApproved`). An agent object lives for
one alert (`FreshAgent`), and with it its histories. An edit makes a new
`Edition`, so that what was reviewed and what runs can be told apart.

### AlertEngine

`latest` and `window` are the two Redis keys, `dedup` the deduplication record
(with its age in minutes instead of a timestamp), `alerts` the committed rows,
`pending` what an engine's session has changed and not committed. `pc` follows
an engine through `_evaluate_rule`. `Rules` ranges over duration, cooldown and
`continuous_alert`; the history is one sample per minute, `Slots` long. `Overlap`
says what may run during an engine's cycle: other engines (several workers),
acknowledgements, both or neither. A notification counts as sent when the engine
hands it over, which is stronger than needed for the cooldown. The clock does not
move during a cycle, which is shorter than the `CHECK_INTERVAL` of 60 seconds.

### AgentLink and OpsCommand

`OpsCommand` extends `AgentLink`: the relay of a command is a step of both.
`clients` is `agent_ws_clients` of each worker, `online` the Redis set, `conn`
and `relay` the two tasks of a connection. The two ends learn of a broken
connection at different times (`AgentDrops`, `Disconnected`), and the `finally`
of an old handler may run after a new connection was made. SADD and SREM may
fail (`MarkOnlineFails`, `MarkOfflineFails`): the second failure is swallowed,
and `left` remembers that the set holds a host nobody will remove. On top, `cmd`
is the tool call of a request: `Ask`, `Register`, the answers of tabs (`Reply`,
`ReplyDelivered`), `Expire`, then `Publish`, `Listen`, `AgentReceives`, the
agent's thread and `Report`, `TakeResult` or `GiveUp`. `Die` kills a worker.

### The other modules

| Module | Actions and their code |
|---|---|
| `OpsContext` | `Turn`, `AnswerCalls`, `StartTool`, `ToolResult`, `SaveResult`, `NewLoop`, `RunFails`: a run of `OpsAgentLoop` between the points where it can fail; `Compacted` and `Normalized` are its two repairs of the context |
| `OpsSessions` | opening, listing, closing and deleting sessions, with their sweeps of drafts split into read and COMMIT; the run's `Touch`, first save and title |
| `AiConfigs` | create, update, delete, set default: load the list, load the default, write both |
| `Sessions` | login, external login, refresh, logout at their checks and at the write of the session id; changes of users |
| `Notifier` | edits of channels and templates and the deletion of the copies (`ForgetList`), a notification's lookup, its tasks with retries on one session (`UsesSession`, `Clash`), expiry |
| `ChannelDelivery` | one `Send..` and one `Test..` operator for each type; an alert reads the row (`SendChosen`) or the copied list (`SendByList`, `CopyList`) and keeps it through its retries (`TryAlert`); edits with their COMMIT and the deletion of the copy behind it (`SaveConfig`, the page's `SubmitForm` with the masked secret, `ForgetCopy`); the services' moods |
| `HostPresence` | `BeatRead` .. `BeatKey`, `DetectorScans` .. `DetectorCommits`, the engine's cycle on `host_offline` and `service_down`, all within one interval; a column is written only when it changed |
| `Webhook` | `Deliver` of what fires of a group, `Claim` (SET NX), `Process`, `Raises` by chance and `RaisesAlways` for an address of several hosts, `Accept` with its COMMIT, `BackgroundEnds`, and AlertManager's repetition |
| `AgentServices` | a discovery round (`StartScan`, `Register`, `RegisterExited`, `ReportVanished`), the loops' `Probe` and `Report`, and the tasks of database targets |
| `LogPipeline` | `ReadLine`, `AddEntry`, `FlushBuffer`, `ReportEnds` with the lock and the offsets, `RestartCollector` |
| `AgentUpdate` | builds that end in any order, the list of releases and its sort, `TakeUpdate`, `Install` |
| `Retention` | settings, the cleanup request with its one COMMIT, the nightly task, which fails, and the hourly loops |
| `OnCall` | create and update with the search for conflicts apart from the COMMIT |
| `PromSync`, `PromTargets` | reads and writes of an export, `Reload`, requests that forget or fail to export; overlapping rounds of the workers' tasks, services with a malformed URL |
| `Inventory` | creation and deletion of servers, groups, links and dependencies, split at their reads |
| `Reports` | `GenerateStarts` / `GenerateEnds`, deletion, restarts, the scheduler |
| `KeywordAlerts` | a batch's reads of suppressions and recent alerts, its COMMIT, edits of suppressions |
| `AnomalyScan` | `ScanReads` / `ScanStores`, the limits, misses and overlong calls of the model, restarts, lines with the agent's time, the button with a period and limits of its own |
| `LogStore` | the service over either backend, the migration batch by batch |
| `LiveTail` | `PublishBatch`, `TakeBatch`, `SendBatch` of a tail; slots of the event stream, `Trigger` |
| `Layouts` | insertion, activation, update and deletion with the row locks of PostgreSQL |
| `HealthScore` | `ReadCount`, one query after the other, totals and parts apart; `Change` of any of them, totals too; the penalties with Python's rounding in exact arithmetic |
| `RequestLimits` | `Stamp` in a process, `CountRequest` in Redis, loss of the counts |
| `Escalation` | read, COMMIT, and the failing audit log after it |
| `Sla` | `BeginStatus`, `BeginReport`, `CountTotal`, `CountDown` while checks of any day, also a past one, are added |
| `..Proofs` | the theorems, each module about the components it extends |
| `PlatformSafety`, `PlatformLive`, `MCOpsCommand` | the compositions that two runs check, and the slices of one |

## What the runs check

| Run | Instance | Shows |
|---|---|---|
| `RemediationSerial` | 2 workers, 1 alert, 2 logs, 2 decisions that do not overlap, 1 trigger, faults, 1 restart, the runbook may change or vanish | `LifecycleSpec`: the workflow implements the abstract lifecycle, in which commands run at most once; with overlapping approvals it does not |
| `RemediationLive` | 1 worker, 2 alerts, 2 logs, overlapping decisions, no faults, fair | `ApprovalGate`: no command runs without the approval its log needs; `WorkIsConcluded`: each pending and approved log is concluded, each message handled |
| `AlertEngine` | 2 engines one after the other, 2 rows, 2 samples, 2 minutes, faults, 1 failed cycle, suppression, acknowledgements | `AtMostOneActive`, `CooldownRespected`, `NoOrphan` |
| `AlertEngineRace` | 2 engines that overlap, 3 rows | `OnePerEngine`: the duplicates are bounded |
| `AlertEngineLive` | 1 engine, fair | `MetricIsFollowed`: a continuous rule raises its alert, a rule without a duration resolves it |
| `OpsCommand` | 2 tabs, 2 requests, 2 workers, 2 connections, 1 killed worker, as four slices | `RunsAsConfirmed`, `OnlineIsBacked` with failing SADD and SREM, and `CallsEnd` under fairness |
| `PlatformSafety` | 23 components, one constant or two each | the table below |
| `PlatformLive` | 5 components (one in two foci), fair; webhook: 2 alerts in one group or in two, one host, none or several; targets: 2 tasks and a request by hand | `PresenceIsKnown`, `FiringIsStored`, `DisabledIsSilent`, `CheckedIsReported`, `TargetsFollow` |

The components of `PlatformSafety` and of `PlatformLive` share no state with
one another. Their product would be checked for nothing, so a rigid variable
`focus` names the one that moves in a behaviour, while the others stay in an
initial state. A behaviour of all of them side by side projects to a behaviour
of each alone, and each property speaks of one component. In the same way the
slices of `MCOpsCommand` keep one side of that protocol busy at a time: two tabs,
two loops, reconnects, or a crash; what needs all four at once is not explored.

| Property of `PlatformSafety` | Says |
|---|---|
| `CallsAreAnswered` | whatever failed or was compacted, the model gets each tool call with its answers |
| `EndedStaysEnded` | a session superseded or logged out does not come back, but by a refresh that had already been accepted |
| `ListIsSound` | overlapping edits leave a list in which each feature finds a model and limits hold |
| `SweepsSpareTalks` | what a sweep has read holds no message, and opening a session picks none in which a run is at work |
| `KeptAsAsked` | a cleanup deletes nothing younger than all settings its type had while it ran |
| `SavedIsStored` | what lies before a saved offset is in the backend, but for failed batches, ends of files found by a restart, and pending multi-line entries |
| `BookedOnce` | double bookings come only from requests that crossed, or an unchecked edit |
| `RulesFollowEdits` | without an export under way, file, rows and Prometheus agree, unless one failed, was overtaken or forgotten |
| `BackedAndSingle` | a dangling or double link comes only from a crossing request |
| `GeneratingIsRunning` | a report is "generating" only while somebody makes it, or after a database error or restart |
| `RollsBack`, `CommandsStand` | rollback is complete and backwards; no command after a failed one; success is real |
| `RunsWhatIsEnabled` | what runs was enabled after its diagnosis or approval; by itself only what was "auto" and passed its checks |
| `NoIdleRestart` | an agent restarts for an update only after it has installed another version |
| `RaisedRightly` | a keyword alert is not raised for a host silenced throughout, and repeats none that its batch could read |
| `SeenOrMissed` | each bad line reaches the model, or one of the scan's limits, a missed scan, a call that took too long, or its own late arrival explains why not |
| `NewestKept` | a slow browser misses old batches only |
| `OneLayout` | two active layouts come only from an insertion that crossed an activation |
| `PushedIsBetween` | when nothing got better meanwhile, the pushed score lies between those before and after, unless a host came or went between the two queries of hosts, or two alerts or more are acknowledged |
| `HandedOnce` | an undisturbed migration hands over each row once and accounts for it |
| `RefusedRightly` | a refused caller has himself used up the limit in the window |
| `DeliveredAsTested` | after a successful test the first attempt at an alert that has read the config of the row arrives, whatever edits come meanwhile, unless the template makes it raise |
| `HistoryExplains` | severity and level of an alert follow from its records, crossing requests included |
| `MetIsTrue` | a service declared within its target was so by the checks stored when its totals were taken, whatever comes late |

Four runs show where the code does not do what its documentation says; each ends
in a counterexample.

| Run | The document | The code |
|---|---|---|
| `AlertEngineTwice` | tables "to prevent ... duplicate alerts" | engines of two workers both find the record untriggered |
| `AlertEngineSilent` | the duration is how long the metric is beyond its threshold before the alert | the only notification is spent on the first bad sample, before the duration is over |
| `RemediationThrottle` | a cooldown limits how often a runbook runs on a host | each alert gets an agent object with an empty history |
| `ChannelSilent` | the test shows whether a channel works | the test ignores the template; DingTalk's sending raises with one |

**Bounds.** Two logs, two decisions and one trigger are the least with which two
executions of one log, a stale decision and a remediation beside another can
happen; two workers and one alert give two listeners for one message. With
faults, a restart and a vanishing runbook `ApprovalGate` holds for overlapping
decisions too (the constants of `RemediationSerial.cfg` with `Overlap = TRUE`);
the theorem `GateHolds` says so for every instance, so no run repeats it. Two
samples and two minutes give durations of 0, 1 and 2 and cooldowns that have and
have not passed. Two engines and two (or three) rows give one duplicate more
than is allowed. In the other modules the rule is two of what can race
(requests, clients, tabs, batches, reports, builds, exports) over one or two of
what they race for, because each hazard is about one actor's step between two of
another's; three sessions, so that one supersedes another that superseded a
first; a rollback that leaves out steps; queues smaller than what they are sent;
limits of one and windows of two, so that what is full becomes free again; one
failure and one restart (`MaxErrors`, `MaxFaults`, `MaxMisses`, `MaxAborted`,
`MaxRestarts`, `MaxCrashes`), since the code keeps nothing that would treat a
second one differently, and `MaxFaults` may fall at each await. Retries of an
alert get two attempts, so that the second one uses what was read before an
edit. The scan's hour is twice its pause, and the button's periods are as long
and longer, with a limit below the lines there are. `Max..` bound what would
otherwise count for ever; the remaining ones are finite sets of ids. `Clock`,
`DedupWindow` and the like are where an age stops to matter. `HealthScore` runs
over counts at the thresholds of its penalties and beside them, and two changes
of any kind. Deadlock is not checked: ids run out, and an execution ends.

**Fairness** is weak and on what the event loop, a timer or the task monitor
does by itself: tasks and started handlers go on, the monitor restarts a
listener or loop, engines and detectors wake up, keys expire, a discovery round
comes again. Strong fairness is assumed of attempts that recur for ever and fail
only now and then: AlertManager's repetition of an alert that fires, with
whatever of its group fires at the time; a service's report, the fetch of database
targets, and, of each worker's task, the writing of the target files while they
can be built. A failure by chance is bounded; one that the rows cause (an address
of several hosts, a malformed URL) is not, and recurs each time. `PlatformLive`
joins conditions of different components in one formula, which is sound because
only one component moves in a behaviour. Nobody has to report a metric, fire an
alert, edit anything, or approve or reject; no crash or fault has to happen. The
liveness properties of the remediation are checked without faults, because with
them they are false: an exception after the trigger leaves a log "pending" for
good, as `RunRaise` shows. Those of `PlatformLive` are checked with one failure.

**Assumptions** about configuration: `prometheus_remote_enabled` is on for the
Prometheus models; dry run (`agent_dry_run`) is off where commands matter. Edits
of one channel are made one at a time (`ChannelDelivery`).

## What is proved

Every theorem holds for all values of the constants that satisfy the assumptions
named in the modules. Finiteness is assumed only where a theorem says so: of the
engines in `DuplicatesBounded`, which counts them, and of the lines in
`ScansLeaveNoGap`, of which the newest must exist. Each of the 31 safety
invariants and action properties that a run checks, and the refinement
`LifecycleSpec` on top, has its theorem: the run shows that the property holds on
an instance in which the interesting cases happen, the theorem that the bounds
hide nothing. All proofs have the same form: an inductive invariant, which is a
conjunction of named parts, holds initially, is kept by each action, and implies
the property. What the parts say:

| Theorems | What the invariant adds to the property, and why |
|---|---|
| `RemediationProofs`: `TypeCorrect`, `ListenerIsSerial`, `GateHolds` | until `handle_alert` is over a log is neither approved nor offered for a decision (`Unseen`); one that waits for a decision, or is approved, was never executed by `handle_alert` (`Handed`); a decision under way is about such a log, and its approval is committed before its executor exists (`Descends`), else an overlapping approval could reach a log whose commands `handle_alert` has run |
| `RemediationProofs`: `ImplementsLifecycle` (with `~Overlap`) | each step is a step or a stutter of `RemediationLifecycle`. It takes the status at each point of a decision (`InStep`), that one decision at most is about a log (`Alone`), and when a log has been executed (`Started`) |
| `RunbookExecutionProofs`: `RollbackIsSound`, `CommandsAreSound` | where the effects are in each phase: a prefix of the steps going forward, everything above what is still to do undone in a rollback; `silent` and `late`, because neither an exit status nor its absence settles an effect |
| `AlertEngineProofs`: `TypeCorrect`, `OneActive` (with `Overlap = {}`, as the next two) | one engine at most is in a cycle (`Alone`), no acknowledgement is under way with it (`AcksWait`), and what a cycle will commit adds no alert to one it never looked at (`Sound`) |
| `AlertEngineProofs`: `CooldownKept` | a row is notified as a problem only in a cycle that has just reset the record's age (`Spent`), so no row has been quiet for less time than the record is old (`Older`), and a record old enough for a reminder leaves each row quiet for a cooldown (`Due`) |
| `AlertEngineProofs`: `OrphanFree` | what the COMMIT of a cycle will leave active agrees with the record (`Agreed`), although record and table are committed by two sessions; before the decision the table itself does (`Backed`) |
| `AlertEngineProofs`: `DuplicatesBounded` (acknowledgements outside of cycles) | an engine that fires has seen no active alert (`Prepared`); the active ones are owned, by an injection, by engines that have ended their cycle in this minute (`Shared`) |
| `OpsCommandProofs`: `TypeCorrect`, `CommandsRunAsConfirmed`, `OnlineFlagIsBacked` | a "confirm" on its way to a waiting tool is of a tab that confirmed while it waited (`Approved`); what has left for the host is of a tool that went on after it (`Tracked`); of the copies that all relays get only those on the agent's own connection can arrive, and there is one (`OneCopy`); what was not sent is nowhere (`Untouched`). For the flag: whoever sets it still runs and will try to remove it, or `left` says that the attempt failed |
| `RequestProofs`: `EndedSessionsStayEnded` | the active session of an account has tokens of that account, or nobody's (`Belongs`); a refresh that brings back an ended one had passed its check before the end (`Late`) |
| `RequestProofs`: `AtMostOneLayoutActive` | rows that an activation has written stay locked until its COMMIT (`Held`), and are all it could see (`Written`) |
| `RequestProofs`: `NobodyBookedTwice` | what a request is about to commit conflicts with no schedule that is untouched since its check (`Free`), and what it has read is current until touched (`ReadIsCurrent`) |
| `RequestProofs`: `ConfigListsStaySound` | each list that was read or is about to be written is sound, although they overwrite each other |
| `RecordProofs`: `GeneratingReportsAreWorkedOn`, `FileFollowsRules`, `InventoryStaysWhole` | the row and its writer move together; an export that is not the newest knows it or another is under way (`Newest`); a link about to be made has its ends, or knows that it crossed their deletion (`LinkEnds`), which in turn has read all links (`LinksRead`) |
| `RecordProofs`: `RecordsExplainTheAlert` | what a request writes and records comes from the one row it has read |
| `RecordProofs`: `ServicesDeclaredMetWere` | checks are only added, of whatever day, so the second count of a day is at least what it would have been beside the first, the sums over days likewise, and a percentage (division included) falls as failures grow |
| `RecordProofs`: `NoFalseGreen` | what was read of each count lies between its value at the beginning and now, the two of a ratio in step (`ReadBetween`); no penalty shrinks as its count grows or its total shrinks (lemmas) |
| `LogProofs`: `SavedOffsetsAreStored` | what a tailer has read is stored, accounted for or in memory (`Covered`); an entry handed over is what was pending and the line read (`Handing`); nothing waits in the buffer while a batch is reported (`Locked`) |
| `LogProofs`: `NewestBatchesKept` | a queue holds the newest batches in order up to the last one published; what is newer than `Capacity` of them and not in it was shown or is being sent (`Seen`) |
| `LogProofs`: `ScansLeaveNoGap` (finite `Lines`) | a line no insight is about was crowded out, is in the call that runs, or is so young that the next scan reads it (`Pending`), as long as the call has not outlasted what the window leaves beyond the pause (`Grace`), which nothing in the code limits: a longer one is a miss |
| `LogProofs`: `MigrationHandsOnOnce` | undisturbed, the counted rows have the lowest numbers (`Below`), and exactly those on the pages read were handed on (`Paged`) |
| `GateProofs`: `UpdatesChangeTheVersion`, `RowsAreKeptAsAsked`, `CleanupReadsOnlyDrafts` | from the comparison on the version differs from the running one; uncommitted deletions are older than the shortest setting since the request began; a run that has touched its session is young until its message is saved |
| `GateProofs`: `OnlyEnabledRunbooksRun` | a diagnosis or approval remembers an edition that there was (`Remembered`), and editions only come |
| `GateProofs`: `OnlyTheFrequentAreRefused` | the sorted set of a key holds stamps of requests that one caller made |
| `GateProofs`: `KeywordAlertsAreRaisedRightly` | a check holds the mutes that were in force when it read (`Heard`), and the recent alerts it had seen (`Looked`) |
| `GateProofs`: `TestedChannelsDeliver` | for each of the seven types the handlers of the test and of the alert agree on the same config (`SentAsTested`); an alert that is sure of its way holds a config whose test would still succeed, though the row may have another by now |
| `GateProofs`: `EveryCallIsAnswered` | the context is made of messages whose calls are finite sets; the rest is about `Normalized`, whatever the context: the blocks it flattens lie one behind the other (`FlattenLaysOut`), so a placeholder stands in the block of its call, and a kept answer is reached over tool messages only |

What the proofs rest on beside the sizes of the constants: names that stand for
something else are apart (`None` is no answer of a tab, `NoClient` no client, a
tailer is not called "flush", a user's key is no address's, a dependency of two
services no link of a server and a group: ids of different tables and types);
at least one worker runs (`Workers # {}`), and a scan looks back as long as the
loop sleeps, or longer.

**What proving changed.** `PushedIsBetween` had excepted only a first alert among
acknowledged ones. The proof did not close for exactly two acknowledged alerts,
and TLC showed why: one that fires between the two queries is taken for a third
acknowledged one. `Crossed` leaves out that case now. `HistoryExplains` is stated
by positions, `Score` as a sum, `Sla`'s counts as cardinalities of a set of
rows, and `WithoutHint` by the same flattening as `Normalized`, which is what
the prover can reason about; the code they stand for is the same.

**Induction.** The library's induction theorems take an operator and cannot be
used. `GateProofs` gets induction over numbers for a *set* of numbers
(`AllNumbers`) from the well-foundedness of finite sets under inclusion. So
what `FlattenSeq` computes, with its recursive function, could be proved for
every input.

**Only model-checked:** the liveness properties (`WorkIsConcluded`,
`MetricIsFollowed`, `CallsEnd` and the five of `PlatformLive`), which with
ENABLED are out of the prover's reach; and what no run lists but the modules
state, such as `ReloadIsWellFormed`. The counterexamples of the four runs that end
in one are not proved, they are shown.

## Not modelled

* Read-only endpoints and adapters: the MCP server, PromQL, dashboards of hosts
  and databases, statistics and lists; the frontend, but for the form of
  notification channels.
* Code that never runs or is never asked: `service_checker.py` is not started,
  `ai_engine.py` and `OnCallService` for notifications have no caller, the
  limiter of `tools/safety.py` is not consulted, the escalation scans find
  nothing, and no code writes an SLA violation.
* Collection of metrics, the installers and exporter provisioning: I/O on a host.
* Prompts, wording of messages, JWT and mail encoding: abstracted to what the
  code does with them.
* Silences of AlertManager, the demo, AI feedback, streaming of tokens: no
  state that another part decides by.
* `evaluate_service_rules` for any but one service (`HostPresence`), the cleanup
  of orphans, alert groups, and notification silence windows.

## Where the code does not keep what one might expect

Met while modelling; each model has the behaviour. Some are stated as a formula
beside the properties that hold, and named here, but no run lists them.

* **Alerts.** Engines of several workers double an alert. A recovery deletes the
  record on its first good sample, so a rule with a duration is never resolved
  (`ResolvedOnRecovery`). An acknowledgement may overwrite a resolution. The
  notification and the event precede the COMMIT.
* **Remediation.** Two overlapping decisions both succeed
  (`DecidedOnlyWhenPending`): two approvals execute the runbook twice, which is
  why `LifecycleSpec` is checked and proved for decisions that do not overlap,
  and an approval may follow a rejection that was answered with success; trigger
  and listener do not see each other's logs (`TriggeredAlone`). An approved
  runbook's checks are judged on a synthetic alert. A runbook edited between
  review and execution runs unreviewed; an update with an empty list of steps
  skips validation. A verification template with a pipe raises after the
  commands ran. The listener's log row is only flushed until the end, so that a
  restart leaves executions without a trace.
* **Channels.** A lone brace in a template raises what the handler does not
  catch. A list masks secrets, and the page saves the mask back. A robot's
  refusal inside an HTTP 200 counts as sent. The results of a remediation are
  sent only to Slack addresses that were checked. Channel tasks share one
  session and commit their caller's; the retry endpoint imports a function
  that does not exist; template copies are not invalidated, and a kind may
  get two defaults (`OneDefault`). Alerts of rules that name no channels go to a
  copy of the configs that lives for half an hour, and that a send may store
  behind an edit's deletion of it: a test of the new config succeeds while such
  alerts go to the old one.
* **Escalation.** Each escalation by hand ends in an error after its COMMIT,
  because `log_audit` gets a dict; a retry escalates again. `next_escalation_at`
  is never set. One resolved between read and COMMIT is still escalated.
* **SLA.** Checks bear the agent's time, so that a finished day's verdict may
  change after it was given. A target may be reported as missed, even with a
  negative percentage; `MetIsTrue` is the half that holds.
* **Webhook.** An alert that raises rolls back the batch while the dedup keys
  stay, so the others are dropped for five minutes. An alert whose IP is that of
  two hosts raises at each delivery, and the others of its group may never be
  stored: `FiringIsStored` leaves out such groups, and hosts that are unknown.
  The remediation task of a stored alert fails on a missing argument
  (`StoredIsHandled`).
* **Presence and agent.** A host that is back online may stay without the alert
  of a service that is down (`ReevaluatedWhenBack`). A container that was
  registered as stopped is never reported as up again (`RestartedIsUp`); a
  service found by `ss` that stops while its agent restarts stays "up". An
  empty answer of docker reports all running containers down. A failed
  registration is not retried. Registration sets no heartbeat key. Releases
  are sorted as strings (`NeverOlder` fails). The end of an old connection's
  handler takes the new one's host off the online set (`OnlineShowsConnection`),
  and an SREM that fails leaves a host in it.
* **Sessions and assistant.** External logins fail after they replaced the
  session; a refresh does not look at the blacklist and may revive an ended
  session (`OnlyLoginsSupersede`). Drafts may be deleted in the last moment
  (`TalksSurvive`); a loaded skill puts system context between a call and its
  result (`OrderIsKept`). Concurrent edits overwrite the AI list, and the default
  may be of none in it (`DefaultExists`).
* **Logs.** Lines of a failed report are lost once a later save happens, and
  pending multi-line entries in a crash. ClickHouse's address is built with a
  port twice, so it is never reached: its searches are empty (`StoredIsFound`),
  and a migration reports all rows as migrated. A live tail with a filter is
  closed by an AttributeError, and each worker broadcasts to its own tails only.
  Slots of an event stream may leak (`SlotsAreFreed`).
* **Cleanup and limits.** The nightly task calls `query` on an AsyncSession and
  fails every night (`ExpiredGoes`); the loops have days of their own. Requests
  of one second count as one (`LimitIsReached`), and refused ones count too.
* **Rows.** Crossing requests leave two active layouts or none, double names
  (`NamesAreUnique`), dangling links or double dependencies, which
  `scalar_one_or_none` then refuses for ever. Quick configuration of a layout
  stores nothing. Reactivating an on-call schedule checks nothing. Scheduled
  reports are never generated, because dates with and without zone are compared.
* **Prometheus.** Crossing exports may leave a stale file until the next edit; a
  deletion of a rule decides by what it read. One active service with a malformed
  port in its URL stops the export of all targets, the hosts' too.
* **Health score.** A host that registers between the two queries of hosts hides
  an offline one, one that is deleted counts as offline; an alert that fires
  between those of alerts is taken for another acknowledged one.
* **Suppression.** A rule that suppresses only notifications silences keyword
  alerts; an end cannot be cleared. The anomaly scan cuts off at 500 lines
  before it drops suppressed ones; no timeout ends a call that trickles, and a
  scan that takes more than half an hour leaves lines unread.

`TypeOK` of the modules that have one, `ListenerSerial`,
`TargetsAreFollowed`, `ReloadIsWellFormed` and `StreamsAreCounted` hold and may
be added to a configuration; the runs keep to what is harder to get right.

## What is next

1. Proofs: action properties that the modules state beside the runs, such as
   `ReloadIsWellFormed`; `OneActive` and its companions with acknowledgements
   that overlap cycles, as far as they hold; safety halves of the liveness
   properties (what a task that waits is waiting for exists).
2. Models: `AlertEngine` composed with `Remediation`, for messages that precede
   their COMMIT; executions without a trace; orphans and alert groups.

## Running

    tlc -config RemediationSerial.cfg MCRemediation
    tlc -config AlertEngine.cfg MCAlertEngine
    tlc -config MCOpsCommand.cfg MCOpsCommand
    tlc -config PlatformSafety.cfg PlatformSafety
    tlc -config PlatformLive.cfg PlatformLive
    tlapm RemediationProofs.tla    (and the seven other modules named ..Proofs)

and likewise the other configurations of `MCRemediation` and `MCAlertEngine`;
`RemediationThrottle.cfg` belongs to `RemediationGate`, `ChannelSilent.cfg` to
`ChannelDelivery`. `PROJECT.json` lists components, runs, the code each
definition models, for each property plausible bugs that would break it, the
hazards and the theorems.
