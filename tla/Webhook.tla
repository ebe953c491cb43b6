------------------------------- MODULE Webhook -------------------------------
(***************************************************************************)
(* POST /api/v1/webhooks/alertmanager: AlertManager delivers its groups of *)
(* alerts, again and again while they fire, and at once when a delivery    *)
(* was not answered with success. A key in Redis, set before an alert is   *)
(* processed and gone after five minutes, lets a repeated alert pass as a  *)
(* duplicate. The rows of a batch are committed together at its end; a     *)
(* remediation or a diagnosis is started for each of them before that.     *)
(*                                                                         *)
(* Authentication, parsing and the mapping of labels are left out: the     *)
(* address of an alert is that of one host, of none or of several.         *)
(***************************************************************************)
EXTENDS Naturals, FiniteSets

CONSTANTS
  Incoming,     \* alerts AlertManager knows, by alertname, instance, startsAt
  Deliveries,   \* requests that may be under way at a time
  Remediate,    \* settings.enable_remediation
  MaxErrors     \* bound on Redis failures and on requests that fail by chance

ASSUME WebhookAssumption == Remediate \in BOOLEAN /\ MaxErrors \in Nat

VARIABLES
  hosts,      \* how many hosts have the address of each alert
  groups,     \* AlertManager's groups of alerts
  marks,      \* alerts whose dedup key is there
  request,    \* each delivery: what is left of it, what it let through, its stage
  stored,     \* alerts with a committed row
  passed,     \* history: alerts that were let through
  handled,    \* alerts whose remediation or diagnosis has reported
  background, \* alerts a task was started for
  errors

worldVars == <<hosts, groups>>
historyVars == <<stored, passed, handled>>
webhookVars == <<worldVars, marks, request, historyVars, background, errors>>

NoRequest == [stage |-> "none", todo |-> {}, new |-> {}]

\* A route that groups by nothing or by alertname and instance.
WebhookInit ==
  /\ hosts \in [Incoming -> {"one", "none", "several"}]
  /\ groups \in {{Incoming}, {{a} : a \in Incoming}}
  /\ marks = {} /\ stored = {} /\ passed = {} /\ handled = {} /\ background = {} /\ errors = 0
  /\ request = [d \in Deliveries |-> NoRequest]

\* What fires of a group is delivered; resolved alerts in it are skipped.
Deliver(d, batch) ==
  /\ request[d] = NoRequest /\ batch # {}
  /\ \E g \in groups : batch \subseteq g
  /\ request' = [request EXCEPT ![d] = [stage |-> "checks", todo |-> batch, new |-> {}]]
  /\ UNCHANGED <<worldVars, marks, historyVars, background, errors>>

\* _is_duplicate: SET NX found the key; the alert is skipped.
Skip(d, a) ==
  /\ request[d].stage = "checks" /\ a \in request[d].todo
  /\ a \in marks
  /\ request' = [request EXCEPT ![d].todo = @ \ {a}]
  /\ UNCHANGED <<worldVars, marks, historyVars, background, errors>>

LetThrough(d, a) ==
  /\ request[d].stage = "checks" /\ a \in request[d].todo
  /\ request' = [request EXCEPT ![d] = [@ EXCEPT !.stage = "claimed", !.todo = @ \ {a}, !.new = @ \cup {a}]]
  /\ passed' = passed \cup {a}
  /\ UNCHANGED <<worldVars, stored, handled, background>>

\* The key is set with its expiry.
Claim(d, a) ==
  /\ LetThrough(d, a)
  /\ a \notin marks /\ marks' = marks \cup {a}
  /\ UNCHANGED errors

\* Without Redis the alert passes.
ClaimBlindly(d, a) ==
  /\ LetThrough(d, a)
  /\ errors < MaxErrors /\ errors' = errors + 1
  /\ UNCHANGED marks

\* map_to_host: scalar_one_or_none raises when several hosts have the address.
Ambiguous(batch) == \E a \in batch : hosts[a] = "several"

\* _process_alert: a row is flushed and a background task is created; without
\* a host there is a diagnosis only, and no row.
Process(d) ==
  /\ request[d].stage = "claimed" /\ ~Ambiguous(request[d].new)
  /\ request' = [request EXCEPT ![d].stage = "checks"]
  /\ background' = background \cup {a \in request[d].new : Remediate => hosts[a] = "one"}
  /\ UNCHANGED <<worldVars, marks, historyVars, errors>>

\* The request ends with an error: the batch is rolled back, the keys stay.
Abort(d) ==
  /\ request' = [request EXCEPT ![d] = NoRequest]
  /\ UNCHANGED <<worldVars, marks, historyVars, background>>

\* So it does whenever it lets an alert with several hosts through.
RaisesAlways(d) ==
  /\ request[d].stage = "claimed" /\ Ambiguous(request[d].new)
  /\ Abort(d) /\ UNCHANGED errors

\* The database fails, or the worker dies.
Raises(d) ==
  /\ request[d].stage \in {"claimed", "checks"} /\ request[d].new # {}
  /\ errors < MaxErrors /\ errors' = errors + 1
  /\ Abort(d)

\* The batch is committed and answered with 202.
Accept(d) ==
  /\ request[d].stage = "checks" /\ request[d].todo = {}
  /\ stored' = stored \cup {a \in request[d].new : hosts[a] = "one"}
  /\ request' = [request EXCEPT ![d] = NoRequest]
  /\ UNCHANGED <<worldVars, marks, passed, handled, background, errors>>

\* The task for an alert ends. RemediationAgent() lacks its ai_client: the
\* TypeError is logged and no remediation is recorded.
BackgroundEnds(a) ==
  /\ a \in background
  /\ background' = background \ {a}
  /\ handled' = IF Remediate THEN handled ELSE handled \cup {a}
  /\ UNCHANGED <<worldVars, marks, request, stored, passed, errors>>

\* Mutant: the key is set without an expiry.
ExpiresNever(a) == FALSE

Expires(a) == a \in marks

\* Five minutes after it was set the key is gone; no request takes so long.
KeyExpires(a) ==
  /\ Expires(a)
  /\ \A d \in Deliveries : a \notin request[d].new
  /\ marks' = marks \ {a}
  /\ UNCHANGED <<worldVars, request, historyVars, background, errors>>

Works(d) ==
  \/ \E a \in Incoming : Skip(d, a) \/ Claim(d, a)
  \/ Process(d) \/ RaisesAlways(d) \/ Accept(d)

\* An alert is delivered with whatever of its group fires at the time.
Repeats(a) == \E d \in Deliveries, others \in SUBSET Incoming : Deliver(d, others \cup {a})

WebhookNext ==
  \/ \E d \in Deliveries : \/ Works(d) \/ Raises(d)
                            \/ \E batch \in SUBSET Incoming : Deliver(d, batch)
                            \/ \E a \in Incoming : ClaimBlindly(d, a)
  \/ \E a \in Incoming : BackgroundEnds(a) \/ KeyExpires(a)

\* Requests and tasks run to their end and keys expire. AlertManager repeats
\* an alert while it fires.
WebhookFairness ==
  /\ \A d \in Deliveries : WF_webhookVars(Works(d))
  /\ \A a \in Incoming : /\ WF_webhookVars(BackgroundEnds(a)) /\ WF_webhookVars(KeyExpires(a))
                         /\ SF_webhookVars(Repeats(a))

WebhookSpec == WebhookInit /\ [][WebhookNext]_webhookVars /\ WebhookFairness

-----------------------------------------------------------------------------
\* An alert that was let through and keeps firing is stored at last, although
\* the key of a request that failed makes its retries duplicates for a while
\* and other groups may fail for ever. Two kinds are never stored and are
\* excepted: one whose host is not known, and one whose group holds an alert
\* with several hosts, which fails the request of both whenever its key is not
\* there (_is_duplicate, map_to_host, receive_alertmanager_webhook).
FiringIsStored ==
  \A a \in Incoming :
    a \in passed ~> \/ a \in stored \/ hosts[a] = "none"
                    \/ \E g \in groups : a \in g /\ Ambiguous(g)

\* "parses the alerts and triggers AI diagnosis and remediation": a stored alert
\* is remediated or diagnosed (webhooks.py, _process_alert).
StoredIsHandled == \A a \in Incoming : a \in stored ~> a \in handled
=============================================================================
