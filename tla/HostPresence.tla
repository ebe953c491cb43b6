---------------------------- MODULE HostPresence ----------------------------
(***************************************************************************)
(* Is a host there, and are its services? One host with one service.       *)
(*                                                                         *)
(* The agent registers and sends heartbeats, which set a column of the     *)
(* host's row and, after the commit, a key in Redis that expires. The      *)
(* offline detector marks a silent host offline and resolves its service   *)
(* alerts. The service's status is that of the agent's last report (module *)
(* AgentServices); nothing starts the backend's own service checker.       *)
(* The alert engine turns "host offline" and "service down" into alerts    *)
(* through a deduplication record each, and skips the services of hosts    *)
(* that were offline when its cycle began.                                 *)
(*                                                                         *)
(* Detector and engine run once in every interval; within it they and the  *)
(* agent interleave at their awaits. The ORM writes a column only when its *)
(* new value differs from the one that was read.                           *)
(***************************************************************************)
EXTENDS Naturals

CONSTANTS
  Timeout,      \* intervals without a heartbeat before a host is offline
  Cooldown,     \* intervals between two notifications of one violation
  Continuous,   \* the rules' continuous_alert
  MaxAborted    \* bound on engine cycles that end before their COMMIT

ASSUME PresenceAssumption ==
  /\ {Timeout, Cooldown} \subseteq Nat \ {0} /\ MaxAborted \in Nat
  /\ Continuous \in BOOLEAN

VARIABLES
  alive,      \* does the agent run and reach the backend?
  beat,       \* the heartbeat on its way: what it has read of the row
  beaten,     \* has the agent sent a heartbeat in this interval?
  status,     \* hosts.status
  silence,    \* intervals since hosts.last_heartbeat
  key,        \* intervals until the key heartbeat:{id} expires, 0 without it
  detector,   \* [pc, alert]: what the detector has read
  service,    \* services.status
  engine,     \* [pc, rule, bad, offline, answer]: the engine's cycle
  dedup,      \* deduplication record of each rule
  active,     \* has the rule an alert that is not resolved?
  aborted

agentVars == <<alive, beat, beaten>>
hostVars == <<status, silence, key>>
alertVars == <<dedup, active, aborted>>
presenceVars == <<agentVars, hostVars, detector, service, engine, alertVars>>

NoRecord == [triggered |-> FALSE, age |-> 0]
Sleeping == [pc |-> "done", rule |-> "host", bad |-> FALSE, offline |-> FALSE, answer |-> "no"]

PresenceInit ==
  /\ alive = TRUE /\ beat = "none" /\ beaten = TRUE
  /\ status = "online" /\ silence = 0 /\ key = Timeout
  /\ detector = [pc |-> "done", alert |-> FALSE]
  /\ service = "up"
  /\ engine = Sleeping
  /\ dedup = [r \in {"host", "service"} |-> NoRecord]
  /\ active = [r \in {"host", "service"} |-> FALSE]
  /\ aborted = 0

-----------------------------------------------------------------------------
(* The agent.                                                              *)

\* The agent, its host or the network fails.
AgentStops ==
  /\ alive /\ alive' = FALSE
  /\ UNCHANGED <<beat, beaten, hostVars, detector, service, engine, alertVars>>

\* The agent starts: POST /register finds the host's row; it sets no key.
AgentStarts ==
  /\ ~alive /\ beat = "none" /\ detector.pc # "marking"
  /\ alive' = TRUE /\ status' = "online" /\ silence' = 0
  /\ UNCHANGED <<beat, beaten, key, detector, service, engine, alertVars>>

\* The network is back; the agent has kept running.
AgentReturns ==
  /\ ~alive /\ beat = "none"
  /\ alive' = TRUE
  /\ UNCHANGED <<beat, beaten, hostVars, detector, service, engine, alertVars>>

\* POST /heartbeat reads the row ...
BeatRead ==
  /\ alive /\ ~beaten /\ beat = "none"
  /\ beat' = status /\ beaten' = TRUE
  /\ UNCHANGED <<alive, hostVars, detector, service, engine, alertVars>>

\* Mutant: a heartbeat renews last_heartbeat only.
OnlineAfterTimeOnly(read) == status

\* The status is written when the row that was read was not online.
OnlineAfter(read) == IF read = "offline" THEN "online" ELSE status

\* It is committed, after the detector's COMMIT if that holds the row's lock ...
BeatCommit ==
  /\ beat \in {"online", "offline"} /\ detector.pc # "marking"
  /\ status' = OnlineAfter(beat) /\ silence' = 0 /\ beat' = "key"
  /\ UNCHANGED <<alive, beaten, key, detector, service, engine, alertVars>>

\* ... and then the key is set, with the detector's timeout as its life.
BeatKey ==
  /\ beat = "key"
  /\ beat' = "none" /\ key' = Timeout
  /\ UNCHANGED <<alive, beaten, status, silence, detector, service, engine, alertVars>>

-----------------------------------------------------------------------------
(* The offline detector.                                                   *)

\* The hosts that are online with an old heartbeat.
DetectorScans ==
  /\ detector.pc = "due"
  /\ detector' = [detector EXCEPT !.pc =
                    IF status = "online" /\ silence > Timeout THEN "suspects" ELSE "done"]
  /\ UNCHANGED <<agentVars, hostVars, service, engine, alertVars>>

\* Mutant: any recorded heartbeat key, expired or not, counts.
KeyFoundAlways == TRUE

KeyFound == key > 0

\* The key decides; without it the host's update is sent and its service
\* alerts are read.
DetectorMarks ==
  /\ detector.pc = "suspects"
  /\ detector' = IF KeyFound THEN [pc |-> "done", alert |-> FALSE]
                 ELSE [pc |-> "marking", alert |-> active["service"]]
  /\ UNCHANGED <<agentVars, hostVars, service, engine, alertVars>>

DetectorCommits ==
  /\ detector.pc = "marking"
  /\ status' = "offline"
  /\ active' = [active EXCEPT !["service"] = @ /\ ~detector.alert]
  /\ detector' = [pc |-> "done", alert |-> FALSE]
  /\ UNCHANGED <<agentVars, silence, key, service, engine, dedup, aborted>>

-----------------------------------------------------------------------------
(* The service's status.                                                   *)

\* POST /agent/services of a running agent.
AgentReports(s) ==
  /\ alive /\ service' = s /\ service # s
  /\ UNCHANGED <<agentVars, hostVars, detector, engine, alertVars>>

-----------------------------------------------------------------------------
(* The alert engine: evaluate_host_rules, then evaluate_service_rules.     *)

\* The hosts, or the ids of those that are offline, are read.
EngineReadsHosts ==
  /\ engine.pc = "due"
  /\ engine' = IF engine.rule = "host"
                 THEN [engine EXCEPT !.pc = "read", !.bad = status = "offline"]
                 ELSE [engine EXCEPT !.pc = "hosts", !.offline = status = "offline"]
  /\ UNCHANGED <<agentVars, hostVars, detector, service, alertVars>>

\* The services are read; those of the offline hosts are skipped.
EngineReadsServices ==
  /\ engine.pc = "hosts"
  /\ engine' = IF engine.offline THEN Sleeping
               ELSE [engine EXCEPT !.pc = "read", !.bad = service = "down"]
  /\ UNCHANGED <<agentVars, hostVars, detector, service, alertVars>>

\* Mutant: after the first notification a violation stays quiet.
ViolatedOnce(d) ==
  IF ~d.triggered THEN [answer |-> "first", age |-> 0] ELSE [answer |-> "no", age |-> d.age]

\* process_alert_evaluation.
Violated(d) ==
  IF ~d.triggered THEN [answer |-> "first", age |-> 0]
  ELSE IF Continuous /\ d.age >= Cooldown THEN [answer |-> "continuous", age |-> 0]
  ELSE [answer |-> "no", age |-> d.age]

\* The deduplication service decides and commits; a record is deleted when
\* the violation is over.
EngineDecides ==
  /\ engine.pc = "read"
  /\ LET r == engine.rule  v == Violated(dedup[r]) IN
       IF engine.bad
         THEN /\ dedup' = [dedup EXCEPT ![r] = [triggered |-> TRUE, age |-> v.age]]
              /\ engine' = [engine EXCEPT !.pc = "decided", !.answer = v.answer]
         ELSE /\ dedup' = [dedup EXCEPT ![r] = NoRecord]
              /\ engine' = [engine EXCEPT !.pc = "decided",
                              !.answer = IF dedup[r].triggered THEN "recovery" ELSE "no"]
  /\ UNCHANGED <<agentVars, hostVars, detector, service, active, aborted>>

\* The alerts are read: one is inserted if none is active, or resolved.
EngineWrites ==
  /\ engine.pc = "decided"
  /\ LET here == active[engine.rule] IN
       engine' = [engine EXCEPT !.pc = "written", !.answer =
                    CASE engine.bad /\ ~here /\ engine.answer # "no" -> "fire"
                      [] ~engine.bad /\ here /\ engine.answer = "recovery" -> "resolve"
                      [] OTHER -> "no"]
  /\ UNCHANGED <<agentVars, hostVars, detector, service, alertVars>>

Onwards ==
  IF engine.rule = "host" THEN [Sleeping EXCEPT !.pc = "due", !.rule = "service"] ELSE Sleeping

EngineCommits ==
  /\ engine.pc = "written"
  /\ active' = [active EXCEPT ![engine.rule] = (@ \/ engine.answer = "fire") /\ engine.answer # "resolve"]
  /\ engine' = Onwards
  /\ UNCHANGED <<agentVars, hostVars, detector, service, dedup, aborted>>

\* An exception ends the whole cycle without its COMMIT.
EngineAborts ==
  /\ engine.pc \in {"decided", "written"} /\ aborted < MaxAborted
  /\ aborted' = aborted + 1
  /\ engine' = Sleeping
  /\ UNCHANGED <<agentVars, hostVars, detector, service, dedup, active>>

-----------------------------------------------------------------------------
UpTo(n, bound) == IF n < bound THEN n + 1 ELSE n

\* An interval is over: the loops and the running agent are due again.
Interval ==
  /\ detector.pc = "done" /\ engine.pc = "done"
  /\ beat = "none" /\ (alive => beaten)
  /\ beaten' = FALSE
  /\ silence' = UpTo(silence, Timeout + 1)
  /\ key' = IF key > 0 THEN key - 1 ELSE 0
  /\ detector' = [detector EXCEPT !.pc = "due"]
  /\ engine' = [engine EXCEPT !.pc = "due"]
  /\ dedup' = [r \in DOMAIN dedup |-> [dedup[r] EXCEPT !.age = UpTo(@, Cooldown)]]
  /\ UNCHANGED <<alive, beat, status, service, active, aborted>>

BeatSteps == BeatRead \/ BeatCommit \/ BeatKey
DetectorSteps == DetectorScans \/ DetectorMarks \/ DetectorCommits
EngineSteps ==
  \/ EngineReadsHosts \/ EngineReadsServices \/ EngineDecides \/ EngineWrites \/ EngineCommits

PresenceLoops == BeatSteps \/ DetectorSteps \/ EngineSteps \/ Interval

PresenceNext ==
  \/ AgentStops \/ AgentStarts \/ AgentReturns \/ EngineAborts \/ PresenceLoops
  \/ \E s \in {"up", "down"} : AgentReports(s)

\* The loops sleep and run again for ever; every commit that is under way ends.
\* The work of an interval is finite, so that none of it waits for ever.
PresenceFairness == WF_presenceVars(PresenceLoops)

PresenceSpec == PresenceInit /\ [][PresenceNext]_presenceVars /\ PresenceFairness

-----------------------------------------------------------------------------
\* A host whose agent has stopped for good ends offline, with an alert that
\* stays, whatever cycle was lost; one whose agent keeps running ends online,
\* although a heartbeat may have crossed the detector's commit
\* (offline_detector_loop, evaluate_host_rules, heartbeat, register_agent).
PresenceIsKnown ==
  /\ (<>[]~alive) => <>[](status = "offline" /\ active["host"])
  /\ (<>[]alive) => <>[](status = "online")

\* "after the host is online again these alerts are re-evaluated by the engine
\* from the service's actual state" (_suppress_service_alerts_for_host): a
\* service that stays down on a host that stays online has an alert that stays.
ReevaluatedWhenBack ==
  (<>[](alive /\ status = "online" /\ service = "down")) => <>[]active["service"]
=============================================================================
