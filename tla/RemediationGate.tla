---------------------------- MODULE RemediationGate ----------------------------
(***************************************************************************)
(* Which runbook an alert of a host gets, and whether it runs at once, only *)
(* after an approval, or not at all: the custom runbooks, their registry,  *)
(* the AI's diagnosis, the risk assessment, the preflight checks, and the  *)
(* rate limiter and circuit breaker of a RemediationAgent. Listener and    *)
(* manual trigger build an agent, with empty histories, for every alert.   *)
(*                                                                         *)
(* What runs on the host is RunbookExecution, what becomes of the log is   *)
(* Remediation; here an execution is one step, at a time of a coarse clock. *)
(***************************************************************************)
EXTENDS Naturals, Sequences, FiniteSets

CONSTANTS
  Runbooks,     \* names of runbooks
  CheckSets,      \* sets of preflight rules that runbooks have
  Agents,       \* listeners and tasks that handle an alert each
  Cooldown,     \* 300 s
  BreakWindow,  \* 1800 s
  BreakAfter, ConfirmAfter, BlockAfter,  \* 3 failures; 3 and 5 executions within an hour
  MaxNow, MaxAlerts, MaxRunbookEdits     \* bounds on the clock, alerts and edits

ASSUME GateAssumption ==
  /\ BreakAfter \in Nat \ {0} /\ ConfirmAfter \in Nat \ {0} /\ BlockAfter \in Nat
  /\ ConfirmAfter <= BlockAfter /\ Cooldown \in Nat /\ BreakWindow \in Nat

VARIABLES
  editions,     \* what custom_runbooks has held: sequence of functions of names
  clock,
  agent,        \* what each agent does, and its histories
  waiting,      \* logs that are pending_approval or approved
  ran,          \* executions: sequence of [by, name, row, alert, from, at]
  handled       \* number of alerts

gateVars == <<editions, clock, agent, waiting, ran, handled>>

\* The rules a runbook may have: alert_type, severity:critical, and those on
\* labels and the host. An alert is the set of the rules that hold for it.
Rules == (UNION CheckSets) \cup {"alert_type", "severity:critical"}
Gone == [risk |-> "none", active |-> FALSE, checks |-> {}]
\* register_custom: "manual" and unknown risks are "confirm".
Rows == [risk : {"auto", "confirm", "block"}, active : BOOLEAN, checks : CheckSets]
Edition == Len(editions)
Row(n) == editions[Edition][n]

FreshAgent == [pc |-> "idle", alert |-> {}, confidence |-> "none", suggested |-> {},
               from |-> 0, name |-> {}, runs |-> <<>>, failures |-> <<>>]

GateInit ==
  /\ editions \in {<<rows>> : rows \in [Runbooks -> Rows \cup {Gone}]}
  /\ clock = 0 /\ agent = [g \in Agents |-> FreshAgent]
  /\ waiting = {} /\ ran = <<>> /\ handled = 0

-----------------------------------------------------------------------------
(* The safety module.                                                      *)

Within(times, window) == Cardinality({i \in DOMAIN times : clock - times[i] < window})

\* RateLimiter.recent_count, over an hour that no run of the model exceeds.
RecentCount(g) == Len(agent[g].runs)

\* RateLimiter.can_execute: the history of this runbook on this host.
CanExecute(g, n) ==
  ~ \E i \in DOMAIN agent[g].runs : agent[g].runs[i].name = n /\ clock - agent[g].runs[i].at < Cooldown

\* CircuitBreaker.is_open.
IsOpen(g) == Within(agent[g].failures, BreakWindow) >= BreakAfter

\* assess_risk: confidence below 0.3 is "low", below 0.7 "some".
AssessRisk(base, confidence, recent) ==
  IF confidence = "low" THEN "block"
  ELSE IF confidence = "some" /\ base = "auto" THEN "confirm"
  ELSE IF recent >= BlockAfter THEN "block"
  ELSE IF recent >= ConfirmAfter /\ base = "auto" THEN "confirm"
  ELSE base

\* evaluate_safety_checks.
ChecksPass(row, alert) == row.checks \subseteq alert

-----------------------------------------------------------------------------
(* The agent.                                                              *)

\* handle_alert begins with the breaker ...
BeginAlert(g, alert) ==
  /\ agent[g].pc = "idle" /\ handled < MaxAlerts
  /\ handled' = handled + 1
  /\ agent' = [agent EXCEPT ![g] =
       IF IsOpen(g) THEN @ ELSE [@ EXCEPT !.pc = "diagnosing", !.alert = alert]]
  /\ UNCHANGED <<editions, clock, waiting, ran>>

\* ... and asks the AI, which may suggest a runbook, known or not. A call that
\* fails counts as confidence 0.5 without a suggestion.
Diagnose(g, confidence, suggested) ==
  /\ agent[g].pc = "diagnosing"
  /\ agent' = [agent EXCEPT ![g] = [@ EXCEPT !.pc = "matching", !.confidence = confidence,
                                             !.suggested = suggested, !.from = Edition]]
  /\ UNCHANGED <<editions, clock, waiting, ran, handled>>

\* Mutant: the registry keeps what it loaded first.
FirstRegistry(g) == {n \in Runbooks : editions[1][n].active}

\* load_from_db: the runbooks that are enabled now.
Registry(g) == {n \in Runbooks : Row(n).active}

\* match: the suggestion if the registry has it, or one that alert type or
\* keywords select; which ones these are is left open.
Matches(g) ==
  LET known == agent[g].suggested \cap Registry(g) IN
    IF known # {} THEN known ELSE Registry(g)

\* What handle_alert decides about runbook n.
Verdict(g, n) ==
  LET risk == AssessRisk(Row(n).risk, agent[g].confidence, RecentCount(g)) IN
    IF ~ CanExecute(g, n) THEN "limited"
    ELSE IF risk # "auto" THEN risk
    ELSE IF ChecksPass(Row(n), agent[g].alert) THEN "run" ELSE "unfit"

\* The agent is dropped with its histories.
Dropped(g) == agent' = [agent EXCEPT ![g] = FreshAgent]

NoRunbook(g) ==
  /\ agent[g].pc = "matching"
  /\ Dropped(g)
  /\ UNCHANGED <<editions, clock, waiting, ran, handled>>

\* From load_from_db to the flush of "executing" nothing is awaited. A command
\* that is unsafe once its variables are filled in ends as Refused does.
Decide(g, n) ==
  LET verdict == Verdict(g, n) IN
    /\ agent[g].pc = "matching" /\ n \in Matches(g)
    /\ IF verdict = "run"
         THEN /\ ran' = Append(ran, [by |-> "agent", name |-> n, row |-> Row(n),
                                     alert |-> agent[g].alert, from |-> agent[g].from, at |-> clock])
              /\ agent' = [agent EXCEPT ![g] = [@ EXCEPT !.pc = "running", !.name = {n}]]
              /\ UNCHANGED waiting
         ELSE /\ waiting' = IF verdict # "confirm" THEN waiting
                            ELSE waiting \cup {[name |-> n, alert |-> agent[g].alert, from |-> 0]}
              /\ Dropped(g) /\ UNCHANGED ran
    /\ UNCHANGED <<editions, clock, handled>>

\* record_execution, and record_success or record_failure.
Recorded(g, success) ==
  [agent[g] EXCEPT !.runs = @ \o <<[name |-> CHOOSE n \in agent[g].name : TRUE, at |-> clock]>>,
                   !.failures = IF success THEN <<>> ELSE Append(@, clock),
                   !.pc = "recorded"]

EndRun(g, success) ==
  /\ agent[g].pc = "running"
  /\ agent' = [agent EXCEPT ![g] = Recorded(g, success)]
  /\ UNCHANGED <<editions, clock, waiting, ran, handled>>

\* _update_log, and the end of the agent.
EndAlert(g) ==
  /\ agent[g].pc = "recorded"
  /\ Dropped(g)
  /\ UNCHANGED <<editions, clock, waiting, ran, handled>>

-----------------------------------------------------------------------------
(* Approved executions.                                                    *)

ApproveRunbook(log) ==
  /\ log.from = 0
  /\ waiting' = (waiting \ {log}) \cup {[log EXCEPT !.from = Edition]}
  /\ UNCHANGED <<editions, clock, agent, ran, handled>>

RejectRunbook(log) ==
  /\ log.from = 0
  /\ waiting' = waiting \ {log}
  /\ UNCHANGED <<editions, clock, agent, ran, handled>>

\* The rules that hold for the alert _execute_approved_remediation builds: its
\* type is "approved_execution" and its severity "critical".
AsApproved(alert) == (alert \ {"alert_type"}) \cup {"severity:critical"}

\* The runbook is looked up by its name; risk, limiter and breaker are not asked.
RunApproved(log) ==
  LET row == Row(log.name) IN
    /\ log.from # 0
    /\ waiting' = waiting \ {log}
    /\ ran' = IF log.name \in Registry("approved") /\ ChecksPass(row, AsApproved(log.alert))
                THEN Append(ran, [by |-> "approval", name |-> log.name, row |-> row,
                                  alert |-> log.alert, from |-> log.from, at |-> clock])
                ELSE ran
    /\ UNCHANGED <<editions, clock, agent, handled>>

-----------------------------------------------------------------------------
(* The runbooks.                                                           *)

Replaced(n, row) ==
  /\ Edition <= MaxRunbookEdits
  /\ editions' = Append(editions, [editions[Edition] EXCEPT ![n] = row])
  /\ UNCHANGED <<clock, agent, waiting, ran, handled>>

\* POST refuses a name that exists; the unique index refuses the one that
\* crosses another.
CreateRunbook(n, row) == Row(n) = Gone /\ Replaced(n, row)

\* Import, in one COMMIT: names that exist are skipped.
ImportRunbooks(rows) ==
  LET new == {n \in DOMAIN rows : Row(n) = Gone} IN
    /\ new # {} /\ Edition <= MaxRunbookEdits
    /\ editions' = Append(editions,
         [n \in Runbooks |-> IF n \in new THEN rows[n] ELSE Row(n)])
    /\ UNCHANGED <<clock, agent, waiting, ran, handled>>

UpdateRunbook(n, row) == Row(n) # Gone /\ Row(n) # row /\ Replaced(n, row)
DeleteRunbook(n) == Row(n) # Gone /\ Replaced(n, Gone)

Tick ==
  /\ clock < MaxNow /\ clock' = clock + 1
  /\ UNCHANGED <<editions, agent, waiting, ran, handled>>

GateNext ==
  \/ Tick
  \/ \E g \in Agents :
       \/ NoRunbook(g) \/ EndAlert(g)
       \/ \E alert \in SUBSET Rules : BeginAlert(g, alert)
       \/ \E confidence \in {"low", "some", "high"}, suggested \in {{}} \cup {{n} : n \in Runbooks} :
            Diagnose(g, confidence, suggested)
       \/ \E n \in Runbooks : Decide(g, n)
       \/ \E success \in BOOLEAN : EndRun(g, success)
  \/ \E log \in waiting : ApproveRunbook(log) \/ RejectRunbook(log) \/ RunApproved(log)
  \/ \E n \in Runbooks :
       \/ DeleteRunbook(n)
       \/ \E row \in Rows : CreateRunbook(n, row) \/ UpdateRunbook(n, row)
  \/ \E names \in SUBSET Runbooks : \E rows \in [names -> Rows] : ImportRunbooks(rows)

GateSpec == GateInit /\ [][GateNext]_gateVars

-----------------------------------------------------------------------------
\* Edits race with diagnoses and approvals: what runs was enabled, as it runs,
\* after the diagnosis or the approval. Without an approval it was "auto" then,
\* and its preflight checks held for the alert (handle_alert loads the registry
\* after the diagnosis, _execute_approved_remediation after the approval).
RunsWhatIsEnabled ==
  \A i \in DOMAIN ran :
    /\ \E e \in ran[i].from .. Edition : editions[e][ran[i].name] = ran[i].row
    /\ ran[i].row.active
    /\ ran[i].by = "agent" => ran[i].row.risk = "auto" /\ ChecksPass(ran[i].row, ran[i].alert)

\* "Rate limiting ... preventing frequent execution of the same remediation
\* operations in short time" (safety.py:367): the agents do not run a runbook
\* on a host twice within its cooldown.
CooldownIsKept ==
  \A i, j \in DOMAIN ran :
    i < j /\ ran[i].by = "agent" /\ ran[j].by = "agent" /\ ran[i].name = ran[j].name
      => ran[j].at - ran[i].at >= Cooldown
=============================================================================
