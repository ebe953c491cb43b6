----------------------------- MODULE AlertEngine -----------------------------
(***************************************************************************)
(* The alert engine and its deduplication record, for one metric rule on   *)
(* one host.                                                               *)
(*                                                                         *)
(* An agent reports samples: the latest one and a history are kept in      *)
(* Redis.  Once a minute the engine of every backend worker compares the   *)
(* latest sample with the rule, lets AlertDeduplicationService decide in a *)
(* database session of its own whether to notify, and only then looks at   *)
(* the history (has the metric been bad, or good, for duration_seconds?)   *)
(* and at the alerts table.  What it inserts and resolves is committed at  *)
(* the end of the cycle, what the deduplication decided at once: the       *)
(* properties are about the two staying together.                          *)
(*                                                                         *)
(* Each action ends where the code awaits Redis, the thread pool or the    *)
(* database.  The clock moves while every engine sleeps: a cycle is        *)
(* shorter than CHECK_INTERVAL.                                            *)
(***************************************************************************)
EXTENDS Naturals, Sequences, FiniteSets

CONSTANTS
    Engines,    \* the engines: one in each worker of the backend
    Rules,      \* [duration, cooldown, continuous] of the rules considered
    Rows,       \* ids of alerts, handed out by the table's sequence
    Slots,      \* length of the history kept in Redis
    Clock,      \* bound on the minutes counted since a notification
    Overlap,    \* what may overlap an engine's cycle: "engines", "acks"
    Faults,     \* may a cycle raise, or Redis and a suppression check fail?
    MaxAborts,  \* bound on cycles that do not reach their COMMIT
    Mutes       \* may administrators edit suppression rules?

ASSUME RuleAssumption ==
    /\ Slots \in Nat \ {0} /\ Clock \in Nat
    /\ Rules \subseteq [duration: 0..Slots, cooldown: 1..Clock, continuous: BOOLEAN]
ASSUME BoundsAssumption == Rows \subseteq Nat /\ MaxAborts \in Nat
ASSUME SwitchAssumption ==
    Overlap \subseteq {"engines", "acks"} /\ {Faults, Mutes} \subseteq BOOLEAN

VARIABLES
    rule,      \* the rule; read from the database in every cycle
    latest,    \* metrics:latest, "none" once it has expired
    arriving,  \* a report that has set latest and not yet the history
    window,    \* metrics:history, "none" where no sample arrived
    muted,     \* what suppression rules cover now: "alerts", "notifications"
    dedup,     \* the alert_deduplications row
    alerts,    \* committed status of each row of alerts
    taken,     \* ids the sequence has handed out
    pc,        \* program counter of each engine
    seen,      \* the sample the engine goes by in this cycle
    held,      \* the dedup row as the engine has read it
    result,    \* what the deduplication service has answered
    pending,   \* the row an engine's session has changed and not committed
    acks,      \* acknowledgements that have read their alert
    quiet,     \* history: minutes since an alert was last notified as a problem
    hasty,     \* history: alerts notified again before the cooldown was over
    aborts     \* cycles that have failed

sample == <<latest, arriving, window>>
table  == <<alerts, taken>>
cycle  == <<seen, held, result, pending>>
notice == <<quiet, hasty>>
vars   == <<rule, sample, muted, dedup, table, pc, cycle, acks, notice, aborts>>

Sample == {"bad", "ok"}
PC     == {"asleep", "awake", "loaded", "read", "decided", "checked", "written"}
Dedup  == [exists: BOOLEAN, triggered: BOOLEAN, age: 0..Clock]
NoDedup == [exists |-> FALSE, triggered |-> FALSE, age |-> 0]

Active == {r \in Rows : alerts[r] \in {"firing", "acknowledged"}}
Asleep == \A e \in Engines : pc[e] = "asleep"

TypeOK ==
    /\ rule \in Rules
    /\ latest \in Sample \cup {"none"}
    /\ arriving \in Sample \cup {"none"}
    /\ window \in [1..Slots -> Sample \cup {"none"}]
    /\ muted \subseteq {"alerts", "notifications"}
    /\ dedup \in Dedup
    /\ alerts \in [Rows -> {"absent", "firing", "acknowledged", "resolved"}]
    /\ taken \subseteq Rows
    /\ pc \in [Engines -> PC]
    /\ seen \in [Engines -> Sample]
    /\ held \in [Engines -> Dedup]
    /\ result \in [Engines -> {"no", "first", "continuous", "recovery"}]
    /\ pending \in [Engines -> [to: {"firing", "resolved"}, rows: SUBSET Rows]]
    /\ acks \subseteq Rows
    /\ quiet \in [Rows -> 0..Clock]
    /\ hasty \subseteq Rows
    /\ aborts \in 0..MaxAborts

NoChange == [to |-> "firing", rows |-> {}]

Init ==
    /\ rule \in Rules
    /\ latest = "none" /\ arriving = "none"
    /\ window = [i \in 1..Slots |-> "none"]
    /\ muted = {}
    /\ dedup = NoDedup
    /\ alerts = [r \in Rows |-> "absent"]
    /\ taken = {}
    /\ pc = [e \in Engines |-> "asleep"]
    /\ seen = [e \in Engines |-> "ok"]
    /\ held = [e \in Engines |-> NoDedup]
    /\ result = [e \in Engines |-> "no"]
    /\ pending = [e \in Engines |-> NoChange]
    /\ acks = {}
    /\ quiet = [r \in Rows |-> Clock]
    /\ hasty = {}
    /\ aborts = 0

-----------------------------------------------------------------------------
(* The agent's reports, the operators, the clock.                          *)

Shifted(s) == [i \in 1..Slots |-> IF i = Slots THEN s ELSE window[i + 1]]

\* POST /agent/metrics replaces metrics:latest ...
Report(s) ==
    /\ arriving = "none"
    /\ latest' = s
    /\ arriving' = s
    /\ UNCHANGED <<rule, window, muted, dedup, table, pc, cycle, acks, notice, aborts>>

\* ... and then appends to metrics:history; failing to is only logged.
Record ==
    /\ arriving # "none"
    /\ arriving' = "none"
    /\ window' = Shifted(arriving) \/ (Faults /\ window' = window)
    /\ UNCHANGED <<rule, latest, muted, dedup, table, pc, cycle, acks, notice, aborts>>

\* Time passes without a report; both keys expire after ten minutes.
Gap ==
    /\ arriving = "none"
    /\ window' = Shifted("none")
    /\ \/ latest' = latest
       \/ latest' = "none" /\ \A i \in 1..Slots : window'[i] = "none"
    /\ UNCHANGED <<rule, arriving, muted, dedup, table, pc, cycle, acks, notice, aborts>>

\* A suppression rule is created, edited, deleted, or starts or ends.
Mute(m) ==
    /\ Mutes
    /\ muted' = m
    /\ UNCHANGED <<rule, sample, dedup, table, pc, cycle, acks, notice, aborts>>

\* POST /alerts/{id}/ack reads the alert, refuses a resolved one ...
AckRead(r) ==
    /\ r \in Active \ acks
    /\ "acks" \in Overlap \/ Asleep
    /\ acks' = acks \cup {r}
    /\ UNCHANGED <<rule, sample, muted, dedup, table, pc, cycle, notice, aborts>>

\* ... and writes "acknowledged" whatever has happened since.
AckCommit(r) ==
    /\ r \in acks
    /\ acks' = acks \ {r}
    /\ alerts' = [alerts EXCEPT ![r] = "acknowledged"]
    /\ UNCHANGED <<rule, sample, muted, dedup, taken, pc, cycle, notice, aborts>>

Later(t) == IF t < Clock THEN t + 1 ELSE t

\* CHECK_INTERVAL is over: every engine starts a cycle.
Minute ==
    /\ Asleep
    /\ pc' = [e \in Engines |-> "awake"]
    /\ dedup' = [dedup EXCEPT !.age = Later(@)]
    /\ quiet' = [r \in Rows |-> Later(quiet[r])]
    /\ UNCHANGED <<rule, sample, muted, table, cycle, acks, hasty, aborts>>

-----------------------------------------------------------------------------
(* One cycle of an engine.                                                 *)

\* The latest metrics are loaded; without any the rule is skipped.
Load(e) ==
    /\ pc[e] = "awake"
    /\ "acks" \in Overlap \/ acks = {}
    /\ "engines" \in Overlap \/ \A f \in Engines : pc[f] \in {"asleep", "awake"}
    /\ IF latest = "none"
         THEN pc' = [pc EXCEPT ![e] = "asleep"] /\ seen' = seen
         ELSE pc' = [pc EXCEPT ![e] = "loaded"] /\ seen' = [seen EXCEPT ![e] = latest]
    /\ UNCHANGED <<rule, sample, muted, dedup, table, held, result, pending,
                   acks, notice, aborts>>

\* The service reads the dedup record; a violation creates and commits one.
\* (A second INSERT of the same fingerprint fails and reads the first.)
DedupRead(e) ==
    /\ pc[e] = "loaded"
    /\ dedup' = IF seen[e] = "bad" THEN [dedup EXCEPT !.exists = TRUE] ELSE dedup
    /\ held' = [held EXCEPT ![e] = dedup']
    /\ pc' = [pc EXCEPT ![e] = "read"]
    /\ UNCHANGED <<rule, sample, muted, table, seen, result, pending, acks,
                   notice, aborts>>

\* (The cooldown is not restarted by a continuous notification.)
ViolationNotRestarted(d) ==
    IF ~d.triggered
      THEN [answer |-> "first", age |-> 0]
      ELSE IF rule.continuous /\ d.age >= rule.cooldown
             THEN [answer |-> "continuous", age |-> d.age]
             ELSE [answer |-> "no", age |-> d.age]

\* (Silent aggregation that answers with what it did.)
ViolationAggregated(d) ==
    IF ~d.triggered
      THEN [answer |-> "first", age |-> 0]
      ELSE IF rule.continuous /\ d.age >= rule.cooldown
             THEN [answer |-> "continuous", age |-> 0]
             ELSE [answer |-> "aggregated", age |-> d.age]

\* process_alert_evaluation: what to notify, and the new cooldown.
Violation(d) ==
    IF ~d.triggered
      THEN [answer |-> "first", age |-> 0]
      ELSE IF rule.continuous /\ d.age >= rule.cooldown
             THEN [answer |-> "continuous", age |-> 0]
             ELSE [answer |-> "no", age |-> d.age]

\* The violation is committed to the record as it was read.
DedupViolated(e) ==
    /\ pc[e] = "read" /\ seen[e] = "bad" /\ held[e].exists
    /\ LET v == Violation(held[e]) IN
         /\ dedup' = [exists |-> TRUE, triggered |-> TRUE, age |-> v.age]
         /\ result' = [result EXCEPT ![e] = v.answer]
    /\ pc' = [pc EXCEPT ![e] = "decided"]
    /\ UNCHANGED <<rule, sample, muted, table, seen, held, pending, acks,
                   notice, aborts>>

\* process_recovery deletes the record; engines about to update it will fail.
DedupRecovered(e) ==
    /\ pc[e] = "read" /\ seen[e] = "ok"
    /\ dedup' = IF held[e].exists THEN NoDedup ELSE dedup
    /\ held' = [f \in Engines |->
                  IF held[e].exists /\ pc[f] = "read" /\ seen[f] = "bad"
                    THEN NoDedup ELSE held[f]]
    /\ result' = [result EXCEPT ![e] = IF held[e].triggered THEN "recovery" ELSE "no"]
    /\ pc' = [pc EXCEPT ![e] = IF held[e].triggered THEN "decided" ELSE "written"]
    /\ UNCHANGED <<rule, sample, muted, table, seen, pending, acks, notice, aborts>>

\* The samples of the last duration_seconds in a history.
Recent(h) == {h[i] : i \in (Slots - rule.duration + 1)..Slots} \ {"none"}

\* (The window is one sample too long.)
SustainedLonger(s, h) ==
    LET longer == {h[i] : i \in {j \in 1..Slots : j >= Slots - rule.duration}} IN
      IF s = "bad" THEN longer \ {"none"} = {"bad"} ELSE "bad" \notin longer

\* check_duration_continuously_violated / _normal.
Sustained(s, h) ==
    \/ rule.duration = 0
    \/ (s = "bad" /\ Recent(h) = {"bad"})
    \/ (s = "ok" /\ "bad" \notin Recent(h))

\* The duration check; an unreadable history counts as an empty one.
Check(e) ==
    /\ pc[e] = "decided"
    /\ \E h \in {window} \cup (IF Faults THEN {[i \in 1..Slots |-> "none"]} ELSE {}) :
         pc' = [pc EXCEPT ![e] = IF Sustained(seen[e], h) THEN "checked" ELSE "written"]
    /\ UNCHANGED <<rule, sample, muted, dedup, table, cycle, acks, notice, aborts>>

\* A suppression check that raises counts as "not suppressed".
Suppressed(what) == {what \in muted} \cup (IF Faults THEN {FALSE} ELSE {})

\* (Acknowledged alerts are left out, as cleanup_orphaned_alerts does.)
NewestFiring(r) == alerts[r] = "firing" /\ \A s \in Active : s <= r

Newest(r) == r \in Active /\ \A s \in Active : s <= r
NextRow(r) == r \in Rows \ taken /\ \A s \in Rows \ taken : r <= s

\* send_alert_notification of a problem.
Notify(r) ==
    /\ quiet' = [quiet EXCEPT ![r] = 0]
    /\ hasty' = IF quiet[r] < rule.cooldown THEN hasty \cup {r} ELSE hasty

\* An active alert is only notified again, and only when a cooldown is over.
Remind(e) ==
    /\ pc[e] = "checked" /\ seen[e] = "bad" /\ Active # {}
    /\ \E quietly \in Suppressed("notifications"), r \in Rows :
         /\ Newest(r)
         /\ IF result[e] = "continuous" /\ ~quietly THEN Notify(r) ELSE UNCHANGED notice
    /\ pc' = [pc EXCEPT ![e] = "written"]
    /\ UNCHANGED <<rule, sample, muted, dedup, table, cycle, acks, aborts>>

\* (An alert is inserted without looking for an active one.)
MayFireAgain(e) == pc[e] = "checked" /\ seen[e] = "bad" /\ result[e] # "no"

\* (Only a first notification creates an alert.)
MayFireFirst(e) ==
    pc[e] = "checked" /\ seen[e] = "bad" /\ Active = {} /\ result[e] = "first"

MayFire(e) ==
    pc[e] = "checked" /\ seen[e] = "bad" /\ Active = {} /\ result[e] # "no"

\* An alert is inserted, notified and published; not yet committed.
Fire(e) ==
    /\ MayFire(e)
    /\ FALSE \in Suppressed("alerts")
    /\ \E r \in Rows :
         /\ NextRow(r)
         /\ taken' = taken \cup {r}
         /\ pending' = [pending EXCEPT ![e] = [to |-> "firing", rows |-> {r}]]
         /\ Notify(r)
    /\ pc' = [pc EXCEPT ![e] = "written"]
    /\ UNCHANGED <<rule, sample, muted, dedup, alerts, seen, held, result,
                   acks, aborts>>

\* Nothing to notify, or the alert's creation is suppressed.
KeepQuiet(e) ==
    /\ pc[e] = "checked" /\ seen[e] = "bad" /\ Active = {}
    /\ result[e] = "no" \/ TRUE \in Suppressed("alerts")
    /\ pc' = [pc EXCEPT ![e] = "written"]
    /\ UNCHANGED <<rule, sample, muted, dedup, table, cycle, acks, notice, aborts>>

\* The newest active alert is resolved.  A suppressed recovery notification
\* commits the resolution on the spot (is_suppressed counts its match).
Resolve(e) ==
    /\ pc[e] = "checked" /\ seen[e] = "ok"
    /\ LET newest == {r \in Rows : Newest(r)} IN
         \E quietly \in Suppressed("notifications") :
           IF quietly
             THEN /\ alerts' = [r \in Rows |-> IF r \in newest THEN "resolved" ELSE alerts[r]]
                  /\ pending' = pending
             ELSE /\ pending' = [pending EXCEPT ![e] = [to |-> "resolved", rows |-> newest]]
                  /\ alerts' = alerts
    /\ pc' = [pc EXCEPT ![e] = "written"]
    /\ UNCHANGED <<rule, sample, muted, dedup, taken, seen, held, result, acks,
                   notice, aborts>>

\* The cycle is over; its locals and its session are gone.
Sleep(e) ==
    /\ pc' = [pc EXCEPT ![e] = "asleep"]
    /\ seen' = [seen EXCEPT ![e] = "ok"]
    /\ held' = [held EXCEPT ![e] = NoDedup]
    /\ result' = [result EXCEPT ![e] = "no"]
    /\ pending' = [pending EXCEPT ![e] = NoChange]

\* evaluate_host_rules' single COMMIT.
Commit(e) ==
    /\ pc[e] = "written"
    /\ alerts' = [r \in Rows |-> IF r \in pending[e].rows THEN pending[e].to ELSE alerts[r]]
    /\ Sleep(e)
    /\ UNCHANGED <<rule, sample, muted, dedup, taken, acks, notice, aborts>>

\* The cycle ends in a rollback.
Fail(e) ==
    /\ Sleep(e)
    /\ UNCHANGED <<rule, sample, muted, dedup, table, acks, notice>>

\* The record the engine wants to update was deleted: the cycle raises.
Stale(e) ==
    /\ pc[e] = "read" /\ seen[e] = "bad" /\ ~held[e].exists
    /\ Fail(e)
    /\ UNCHANGED aborts

\* The cycle raises, for this rule or for another one it shares the session
\* with, or the process is restarted: the session rolls back.
Abort(e) ==
    /\ Faults
    /\ aborts < MaxAborts
    /\ pc[e] \notin {"asleep", "awake"}
    /\ aborts' = aborts + 1
    /\ Fail(e)

Cycle(e) == \/ Load(e) \/ DedupRead(e) \/ DedupViolated(e) \/ DedupRecovered(e)
            \/ Check(e) \/ Remind(e) \/ Fire(e) \/ KeepQuiet(e) \/ Resolve(e)
            \/ Commit(e) \/ Stale(e) \/ Abort(e)

Next ==
    \/ \E s \in Sample : Report(s)
    \/ Record \/ Gap \/ Minute
    \/ \E m \in SUBSET {"alerts", "notifications"} : Mute(m)
    \/ \E r \in Rows : AckRead(r) \/ AckCommit(r)
    \/ \E e \in Engines : Cycle(e)

Spec == Init /\ [][Next]_vars

\* Time passes, the engines' loops go on and requests that have started end.
\* No agent has to report and no operator has to act.
Fairness ==
    /\ WF_vars(Minute) /\ WF_vars(Record)
    /\ \A r \in Rows : WF_vars(AckCommit(r))
    /\ \A e \in Engines : WF_vars(Cycle(e))

FairSpec == Spec /\ Fairness

-----------------------------------------------------------------------------
(* What the engine guarantees.                                             *)

\* Engines and acknowledgements that do not overlap never leave two active
\* alerts of one rule on one host, whatever is muted, fails or is rolled back.
AtMostOneActive == Cardinality(Active) <= 1

\* Engines that overlap all may fire for the same violation, each once: the
\* duplicates stop at one active alert per engine.
OnePerEngine == Cardinality(Active) <= Cardinality(Engines)

\* docs/faq.md: the same alert is not notified again within its cooldown, also
\* when it recovers for a moment and its dedup record starts afresh.
CooldownRespected == hasty = {}

\* Between the cycles of a rule without a duration an active alert has its
\* dedup record: without it no recovery is ever noticed.  (A failed cycle
\* separates the two for good: it has committed one and not the other.)
NoOrphan ==
    rule.duration = 0 /\ aborts = 0 /\ Asleep /\ Active # {} => dedup.triggered

\* The metric is bad for the rule's duration, nothing hides the alert.
Violated == latest = "bad" /\ Sustained("bad", window) /\ "alerts" \notin muted
Recovered == latest = "ok" /\ "bad" \notin {window[i] : i \in 1..Slots}

\* A rule with continuous_alert raises an alert for a violation that does not
\* end, although the first notification is spent before the duration is over:
\* the cooldown brings another one (unless the bounded ids run out).
RaisedByReminder ==
    rule.continuous /\ <>[]Violated => <>[](Active # {} \/ taken = Rows)

\* A rule without a duration resolves its alert when the metric has recovered.
ResolvedAtOnce == rule.duration = 0 /\ <>[]Recovered => <>[](Active = {})

\* Both: where a rule can do it at all, an alert at last follows the metric,
\* into a violation that lasts and out of one that is over.
MetricIsFollowed == RaisedByReminder /\ ResolvedAtOnce

-----------------------------------------------------------------------------
(* What the documentation says and the code does not keep.                 *)

\* docs/user-manual.md: a metric beyond its threshold for the rule's duration
\* raises the alert.  A rule without continuous_alert spends its only
\* notification on the first bad sample, before the duration has passed.
RaisedAfterDuration == <>[]Violated => <>[](Active # {} \/ taken = Rows)

\* alert_engine.py: a recovery is always notified.  The first good sample
\* deletes the dedup record, and when the duration has passed nothing is left
\* to tell the engine that there is an alert to resolve.
ResolvedOnRecovery == <>[]Recovered => <>[](Active = {})
=============================================================================
