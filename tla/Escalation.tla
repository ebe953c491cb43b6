------------------------------ MODULE Escalation ------------------------------
(***************************************************************************)
(* Escalation of one alert by hand. A request reads the alert, writes what *)
(* it changes and its record in one COMMIT, and fails after that, because  *)
(* the audit log does not take its details: the client sees an error and   *)
(* may ask again.                                                          *)
(*                                                                         *)
(* Nothing in the program gives an alert its next_escalation_at, so the    *)
(* scans for alerts that are due find none: they are left out, and with    *)
(* them the rules, which only they read.                                   *)
(***************************************************************************)
EXTENDS Naturals, Sequences, SequencesExt

CONSTANTS
  Severities,
  EscalationRequests,
  MaxEscalations  \* bound on the records

ASSUME EscalationAssumption == MaxEscalations \in Nat

VARIABLES
  alertRow,    \* the alert's row: [status, severity, level]
  history,     \* its records, in the order of their COMMITs: [from, to, level]
  escalating,  \* each request: [pc, to, read], with the row it has read
  original     \* history: the severity the alert was raised with

escalationVars == <<alertRow, history, escalating, original>>

NoAlertRow == [status |-> "gone", severity |-> "none", level |-> 0]
NotEscalating == [pc |-> "idle", to |-> "none", read |-> NoAlertRow]

EscalationInit ==
  /\ original \in Severities
  /\ alertRow = [status |-> "firing", severity |-> original, level |-> 0]
  /\ history = <<>>
  /\ escalating = [r \in EscalationRequests |-> NotEscalating]

-----------------------------------------------------------------------------
\* An alert that is resolved, or not there, is refused.
ReadForEscalation(r, to) ==
  /\ escalating[r].pc = "idle"
  /\ alertRow.status \notin {"gone", "resolved"}
  /\ escalating' = [escalating EXCEPT ![r] = [pc |-> "read", to |-> to, read |-> alertRow]]
  /\ UNCHANGED <<alertRow, history, original>>

\* Only columns whose value differs from the one read are written.
Escalated(q) ==
  [alertRow EXCEPT !.severity = IF q.to # q.read.severity THEN q.to ELSE @,
                 !.level = q.read.level + 1]

\* Mutant: the record is made of the row as it is in the database by now.
RecordOfRow(q) == [from |-> alertRow.severity, to |-> q.to, level |-> alertRow.level + 1]

RecordOf(q) == [from |-> q.read.severity, to |-> q.to, level |-> q.read.level + 1]

CommitEscalation(r) ==
  /\ escalating[r].pc = "read" /\ alertRow # NoAlertRow
  /\ Len(history) < MaxEscalations
  /\ alertRow' = Escalated(escalating[r])
  /\ history' = Append(history, RecordOf(escalating[r]))
  /\ escalating' = [escalating EXCEPT ![r].pc = "committed"]
  /\ UNCHANGED original

\* log_audit gets a dict for a column of text. (A request for an alert that
\* is deleted meanwhile fails before.)
EscalationFails(r) ==
  /\ escalating[r].pc = "committed" \/ (escalating[r].pc = "read" /\ alertRow = NoAlertRow)
  /\ escalating' = [escalating EXCEPT ![r] = NotEscalating]
  /\ UNCHANGED <<alertRow, history, original>>

\* An acknowledgement, and the engine's resolution.
MoveAlert(status) ==
  /\ alertRow.status \notin {"gone", "resolved", status}
  /\ alertRow' = [alertRow EXCEPT !.status = status]
  /\ UNCHANGED <<history, escalating, original>>

\* The cleanup of old alerts: see Retention.
RemoveAlert ==
  /\ alertRow # NoAlertRow /\ alertRow' = NoAlertRow
  /\ UNCHANGED <<history, escalating, original>>

EscalationNext ==
  \/ \E r \in EscalationRequests :
       CommitEscalation(r) \/ EscalationFails(r) \/ \E to \in Severities : ReadForEscalation(r, to)
  \/ \E status \in {"acknowledged", "resolved"} : MoveAlert(status)
  \/ RemoveAlert

EscalationSpec == EscalationInit /\ [][EscalationNext]_escalationVars

(***************************************************************************)
(* The history explains the alert, however requests overlap: its level is  *)
(* that of the record that was committed last, and its severity the target *)
(* of the last record that says it changed one. (Levels may repeat and go  *)
(* back, and a record may start from a severity the alert no longer had.)  *)
(***************************************************************************)
Changed(k) == history[k].to # history[k].from

HistoryExplains ==
  alertRow # NoAlertRow =>
    /\ alertRow.level = IF history = <<>> THEN 0 ELSE Last(history).level
    /\ (\A k \in DOMAIN history : ~ Changed(k)) => alertRow.severity = original
    /\ \A k \in DOMAIN history :
         Changed(k) /\ (\A j \in k + 1 .. Len(history) : ~ Changed(j)) =>
           alertRow.severity = history[k].to
=============================================================================
