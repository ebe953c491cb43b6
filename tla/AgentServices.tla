--------------------------- MODULE AgentServices ----------------------------
(***************************************************************************)
(* What an agent knows of the services and databases of its host. Services *)
(* come from its configuration and from discovery (docker ps, and ss for   *)
(* the others); each is registered once and checked by a loop of its own,  *)
(* and a discovery round also reports as down what it no longer sees. The  *)
(* databases that administrators assign to the host are fetched at every   *)
(* round, and each has a task.                                             *)
(*                                                                         *)
(* Left out: names and ports, how a check is made, what is collected of a  *)
(* database.                                                               *)
(***************************************************************************)
EXTENDS Naturals, FiniteSets

CONSTANTS
  Services,
  Manual,       \* those of them that the configuration lists
  Docker,       \* those that run in containers
  Targets,      \* monitored databases
  MaxRestarts   \* bound on restarts of the agent

ASSUME AgentAssumption ==
  /\ Manual \subseteq Services /\ Docker \subseteq Services \ Manual
  /\ MaxRestarts \in Nat

VARIABLES
  runs,        \* services that run on the host
  reported,    \* status the backend last got of each, "none" without a row
  known,       \* config.services
  registered,  \* _service_ids
  checked,     \* services with a loop that checks them
  probe,       \* result that a loop has not sent yet, "none" without one
  round,       \* the discovery round (or the start)
  target,      \* the backend's row: its settings, or "off"
  task,        \* settings the task of a target was started with, or "off"
  starts

serviceVars == <<runs, reported>>
knowledgeVars == <<known, registered, checked, probe>>
agentServicesVars == <<serviceVars, knowledgeVars, round, target, task, starts>>

NoRound == [pc |-> "sleep", old |-> {}, new |-> {}, exited |-> {}, seen |-> {}, gone |-> {}]

\* Mutant: the services of the configuration count as discovered ones.
DiscoveredAll == Services

Discovered == Services \ Manual

-----------------------------------------------------------------------------
(* The host.                                                               *)

ServiceStarts(s) ==
  /\ runs' = runs \cup {s}
  /\ UNCHANGED <<reported, knowledgeVars, round, target, task, starts>>

ServiceStops(s) ==
  /\ runs' = runs \ {s}
  /\ UNCHANGED <<reported, knowledgeVars, round, target, task, starts>>

\* What docker and ss list; each may fail or be missing, and lists nothing.
DockerSees == {runs \cap Docker, {}}

HostSees == {runs \ (Docker \cup Manual), {}}

DockerExited == {Docker \ runs, {}}

-----------------------------------------------------------------------------
(* The agent starts: its list holds the configured and the seen services.  *)

AgentServicesInit ==
  /\ runs \in SUBSET Services
  /\ reported = [s \in Services |-> "none"]
  /\ known = Manual /\ registered = {} /\ checked = {}
  /\ probe = [s \in Services |-> "none"]
  /\ round = [NoRound EXCEPT !.pc = "start"]
  /\ target = [t \in Targets |-> "off"] /\ task = target
  /\ starts = 0

StartScan ==
  /\ round.pc = "start"
  /\ \E d \in DockerSees, h \in HostSees :
       /\ known' = known \cup d \cup h
       /\ round' = [round EXCEPT !.pc = "sync", !.new = known']
  /\ UNCHANGED <<serviceVars, registered, checked, probe, target, task, starts>>

RestartAgent ==
  /\ starts < MaxRestarts /\ starts' = starts + 1
  /\ known' = Manual /\ registered' = {} /\ checked' = {}
  /\ probe' = [s \in Services |-> "none"]
  /\ round' = [NoRound EXCEPT !.pc = "start"]
  /\ task' = [t \in Targets |-> "off"]
  /\ UNCHANGED <<serviceVars, target>>

\* The backend's handler of a registration: an existing row keeps its status.
Row(s) == IF reported[s] = "none" THEN "unknown" ELSE reported[s]

\* A registration; it may fail, and its answer may be lost.
Register(s) ==
  /\ round.pc \in {"first", "round"} /\ s \in round.new
  /\ round' = [round EXCEPT !.new = @ \ {s}]
  /\ \E got, answered \in BOOLEAN :
       /\ reported' = IF got THEN [reported EXCEPT ![s] = Row(s)] ELSE reported
       /\ registered' = IF got /\ answered THEN registered \cup {s} ELSE registered
       /\ checked' = IF got /\ answered /\ round.pc = "round" THEN checked \cup {s} ELSE checked
  /\ UNCHANGED <<runs, known, probe, target, task, starts>>

\* All tasks are created.
StartEnds ==
  /\ round.pc = "first" /\ round.new = {}
  /\ checked' = known \cap registered
  /\ round' = NoRound
  /\ UNCHANGED <<serviceVars, known, registered, probe, target, task, starts>>

-----------------------------------------------------------------------------
(* _service_check_loop.                                                    *)

\* run_check.
Probe(s) ==
  /\ s \in checked /\ probe[s] = "none"
  /\ probe' = [probe EXCEPT ![s] = IF s \in runs THEN "up" ELSE "down"]
  /\ UNCHANGED <<serviceVars, known, registered, checked, round, target, task, starts>>

\* report_service_check; a report that fails is dropped.
Report(s, ok) ==
  /\ probe[s] # "none"
  /\ reported' = IF ok THEN [reported EXCEPT ![s] = probe[s]] ELSE reported
  /\ probe' = [probe EXCEPT ![s] = "none"]
  /\ UNCHANGED <<runs, known, registered, checked, round, target, task, starts>>

-----------------------------------------------------------------------------
(* The second of the two _discovery_loop, which replaces the first.        *)

\* Mutant: a task that runs is left alone.
SameSettingsAny(t) == task[t] # "off"

SameSettings(t) == task[t] = target[t]

\* _sync_remote_db_targets: new and changed targets get a new task, and the
\* tasks of the others end. Without an answer nothing changes. It begins a
\* round, and precedes the registrations of the start.
SyncTargets(ok) ==
  /\ round.pc \in {"sync", "sleep"}
  /\ task' = IF ok THEN [t \in Targets |-> IF target[t] = "off" THEN "off"
                                            ELSE IF SameSettings(t) THEN task[t] ELSE target[t]]
             ELSE task
  /\ round' = [round EXCEPT !.pc = IF @ = "sync" THEN "first" ELSE "scan"]
  /\ UNCHANGED <<serviceVars, knowledgeVars, target, starts>>

\* What is seen for the first time becomes known before it is registered.
DiscoveryScan ==
  /\ round.pc = "scan"
  /\ \E d \in DockerSees, h \in HostSees, x \in DockerExited :
       /\ round' = [pc |-> "round", old |-> known, new |-> (d \cup h) \ known,
                    exited |-> x \ d, seen |-> d \cup h, gone |-> {}]
       /\ known' = known \cup d \cup h
  /\ UNCHANGED <<serviceVars, registered, checked, probe, target, task, starts>>

\* A container that was never seen and has exited: it is registered and
\* reported as down, and no loop checks it.
RegisterExited(s) ==
  /\ round.pc = "round" /\ round.new = {} /\ s \in round.exited
  /\ round' = [round EXCEPT !.exited = @ \ {s}]
  /\ IF s \in round.old \cup registered THEN UNCHANGED <<reported, known, registered>>
     ELSE \E got, answered, down \in BOOLEAN :
            /\ reported' = IF ~got THEN reported
                           ELSE [reported EXCEPT ![s] = IF answered /\ down THEN "down" ELSE Row(s)]
            /\ registered' = IF got /\ answered THEN registered \cup {s} ELSE registered
            /\ known' = IF got /\ answered THEN known \cup {s} ELSE known
  /\ UNCHANGED <<runs, checked, probe, target, task, starts>>

\* The known services that were discovered and are not seen any more ...
Vanished ==
  /\ round.pc = "round" /\ round.new = {} /\ round.exited = {}
  /\ round' = [round EXCEPT !.pc = "gone",
                            !.gone = (known \cap Discovered \cap registered) \ round.seen]
  /\ UNCHANGED <<serviceVars, knowledgeVars, target, task, starts>>

\* ... are reported as down, in every round.
ReportVanished(s, ok) ==
  /\ round.pc = "gone" /\ s \in round.gone
  /\ reported' = IF ok THEN [reported EXCEPT ![s] = "down"] ELSE reported
  /\ round' = [round EXCEPT !.gone = @ \ {s}]
  /\ UNCHANGED <<runs, knowledgeVars, target, task, starts>>

RoundEnds ==
  /\ round.pc = "gone" /\ round.gone = {}
  /\ round' = NoRound
  /\ UNCHANGED <<serviceVars, knowledgeVars, target, task, starts>>

-----------------------------------------------------------------------------
(* Administration of targets (databases.py).                               *)

\* Created, edited or, with "off", deleted.
SetTarget(t, settings) ==
  /\ target' = [target EXCEPT ![t] = settings]
  /\ UNCHANGED <<serviceVars, knowledgeVars, round, task, starts>>

-----------------------------------------------------------------------------
RoundStep ==
  \/ StartScan \/ StartEnds \/ DiscoveryScan \/ Vanished \/ RoundEnds
  \/ \E ok \in BOOLEAN : SyncTargets(ok)
  \/ \E s \in Services : Register(s) \/ RegisterExited(s) \/ \E ok \in BOOLEAN : ReportVanished(s, ok)

AgentServicesNext ==
  \/ RoundStep \/ RestartAgent
  \/ \E s \in Services : \/ ServiceStarts(s) \/ ServiceStops(s) \/ Probe(s)
                         \/ \E ok \in BOOLEAN : Report(s, ok)
  \/ \E t \in Targets, settings \in {"off", "old", "new"} : SetTarget(t, settings)

\* The loops go on, and their requests succeed again and again.
AgentServicesFairness ==
  /\ WF_agentServicesVars(RoundStep)
  /\ SF_agentServicesVars(SyncTargets(TRUE))
  /\ \A s \in Services :
       WF_agentServicesVars(Probe(s)) /\ SF_agentServicesVars(Report(s, TRUE))

AgentServicesSpec ==
  AgentServicesInit /\ [][AgentServicesNext]_agentServicesVars /\ AgentServicesFairness

-----------------------------------------------------------------------------
\* A configured service is never reported by the discovery, so that its loop
\* has the last word: the backend is at last told how it is, and goes on being
\* told so (_service_check_loop against _discovery_loop).
CheckedIsReported ==
  \A s \in Manual :
    /\ (<>[](s \in checked /\ s \in runs)) => <>[](reported[s] = "up")
    /\ (<>[](s \in checked /\ s \notin runs)) => <>[](reported[s] = "down")

\* The task of a database target ends up with the settings that the target
\* was last given, or is over when it was deleted (_sync_remote_db_targets).
TargetsAreFollowed ==
  \A t \in Targets, x \in {"off", "old", "new"} :
    (<>[](target[t] = x)) => <>[](task[t] = x)

\* "containers that are stopped are registered and marked down": one that is
\* started again and stays up is at last reported as up.
RestartedIsUp ==
  \A s \in Docker : (<>[](s \in registered /\ s \in runs)) => <>(reported[s] = "up")
=============================================================================
