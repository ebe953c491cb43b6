----------------------------- MODULE Retention ------------------------------
(***************************************************************************)
(* How long rows are kept. Three things delete them: an administrator's    *)
(* request and the nightly task, both after the configured days of each    *)
(* type, and an hourly loop for some of the types, after the days of its   *)
(* environment variable or code, whatever was configured.                  *)
(*                                                                         *)
(* Of the rows of a type the model keeps which ages (in days) occur;       *)
(* requests and nights are short, so that no row ages during one.          *)
(***************************************************************************)
EXTENDS Naturals, FiniteSets

CONSTANTS
  Configured,   \* types with a setting: host_metrics, log_entries, ...
  Looped,       \* types with an hourly loop: log_entries, db_metrics, dedup records
  LoopDays,     \* days of the loops
  MaxDays       \* bound on settings and ages

ASSUME RetentionAssumption == LoopDays \in 1 .. MaxDays /\ MaxDays \in Nat

VARIABLES
  ages,         \* ages of the rows of each type; MaxDays + 1 and more are one
  days,         \* setting of each type
  doomed,       \* rows deleted by the request, not yet committed: function of types
  shortest,     \* shortest setting of each type since the request began
  night,        \* "day", "due" or "failed": the nightly task
  loop          \* "run" or "sleep": the hourly loop of each type

retentionVars == <<ages, days, doomed, shortest, night, loop>>

Stored == Configured \cup Looped
Older(t, d) == {a \in ages[t] : a > d}

\* The lifespan of main.py has written the defaults before it serves.
RetentionInit ==
  /\ ages = [t \in Stored |-> {}] /\ days \in [Configured -> 1 .. MaxDays]
  /\ doomed = <<>> /\ shortest = days
  /\ night = "day" /\ loop = [t \in Looped |-> "run"]

StoreRow(t) ==
  /\ ages' = [ages EXCEPT ![t] = @ \cup {0}]
  /\ UNCHANGED <<days, doomed, shortest, night, loop>>

-----------------------------------------------------------------------------
(* The requests.                                                           *)

\* PUT /data-retention/settings writes all settings in one COMMIT.
SetRetention(new) ==
  /\ days' = new
  /\ shortest' = [t \in Configured |->
       IF doomed = <<>> \/ new[t] < shortest[t] THEN new[t] ELSE shortest[t]]
  /\ UNCHANGED <<ages, doomed, night, loop>>

\* Mutant: the days of one type are used for another.
RetentionDaysOfAny(t) == days[CHOOSE u \in Configured : TRUE]

\* _get_retention_days.
RetentionDays(t) == days[t]

\* POST /data-retention/cleanup: type by type, the setting is read and older
\* rows are deleted; no one sees it ...
CleanType(t) ==
  /\ t \notin DOMAIN doomed
  /\ doomed' = [u \in DOMAIN doomed \cup {t} |->
                  IF u = t THEN Older(t, RetentionDays(t)) ELSE doomed[u]]
  /\ UNCHANGED <<ages, days, shortest, night, loop>>

\* ... before the COMMIT.
CleanCommits ==
  /\ DOMAIN doomed = Configured
  /\ ages' = [t \in Stored |-> IF t \in Configured THEN ages[t] \ doomed[t] ELSE ages[t]]
  /\ doomed' = <<>> /\ shortest' = days
  /\ UNCHANGED <<days, night, loop>>

CleanFails ==
  /\ doomed # <<>> /\ doomed' = <<>> /\ shortest' = days
  /\ UNCHANGED <<ages, days, night, loop>>

-----------------------------------------------------------------------------
(* The tasks.                                                              *)

\* _execute_data_cleanup hands an AsyncSession to DataRetentionService, whose
\* first call is the session's "query": an asynchronous session has none, and
\* the AttributeError ends the night before anything is deleted.
NightlyCleanup ==
  /\ night = "due" /\ night' = "failed"
  /\ UNCHANGED <<ages, days, doomed, shortest, loop>>

\* log_cleanup_loop, db_metric_cleanup_loop, alert_deduplication_cleanup_loop.
LoopCleans(t) ==
  /\ loop[t] = "run"
  /\ ages' = [ages EXCEPT ![t] = @ \ Older(t, LoopDays)]
  /\ loop' = [loop EXCEPT ![t] = "sleep"]
  /\ UNCHANGED <<days, doomed, shortest, night>>

\* An exception is logged and the loop sleeps as well.
LoopFails(t) ==
  /\ loop[t] = "run" /\ loop' = [loop EXCEPT ![t] = "sleep"]
  /\ UNCHANGED <<ages, days, doomed, shortest, night>>

DayPasses ==
  /\ doomed = <<>> /\ night # "due" /\ \A t \in Looped : loop[t] = "sleep"
  /\ ages' = [t \in Stored |-> {IF a > MaxDays THEN a ELSE a + 1 : a \in ages[t]}]
  /\ night' = "due" /\ loop' = [t \in Looped |-> "run"]
  /\ UNCHANGED <<days, doomed, shortest>>

RetentionNext ==
  \/ CleanCommits \/ CleanFails \/ NightlyCleanup \/ DayPasses
  \/ \E new \in [Configured -> 1 .. MaxDays] : SetRetention(new)
  \/ \E t \in Configured : CleanType(t)
  \/ \E t \in Stored : StoreRow(t)
  \/ \E t \in Looped : LoopCleans(t) \/ LoopFails(t)

RetentionSpec == RetentionInit /\ [][RetentionNext]_retentionVars

\* The event loop runs the tasks and time goes on; a cleanup that can succeed
\* does not fail for ever.
RetentionFairSpec ==
  /\ RetentionSpec
  /\ WF_retentionVars(NightlyCleanup) /\ SF_retentionVars(DayPasses)
  /\ \A t \in Looped : /\ SF_retentionVars(LoopCleans(t))
                       /\ WF_retentionVars(LoopCleans(t) \/ LoopFails(t))
  /\ WF_retentionVars(CleanCommits \/ CleanFails)

-----------------------------------------------------------------------------
\* A row without a loop of its own goes only when it is older than some
\* setting its type had while the request ran, although settings change
\* between the types of one request (trigger_data_cleanup).
KeptAsAsked ==
  [][\A t \in Configured \ Looped :
       \A a \in ages[t] : a \notin ages'[t] /\ night' = night => a > shortest[t]]_retentionVars

\* "cleans up expired data every day after the configured days": what is
\* older than the setting goes at last (data_retention_task).
ExpiredGoes ==
  \A t \in Configured : (<>[](days[t] = 1)) => []<>(Older(t, 1) = {})
=============================================================================
