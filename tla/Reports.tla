------------------------------- MODULE Reports -------------------------------
(***************************************************************************)
(* Reports: a row is committed as "generating", data is collected, a model *)
(* writes the text, and the row becomes "completed" or "failed". Operators *)
(* ask for reports; a task should make the daily and weekly ones.          *)
(***************************************************************************)
EXTENDS Naturals, FiniteSets

CONSTANTS ReportIds, MaxReportRestarts

VARIABLES
  reports,      \* status of the reports that exist
  writers,      \* what the generation of each report does
  interrupted,  \* reports whose generation ended without an answer in the row
  minute,       \* of the report task: "before", "at" or "after" 2:00
  reportRestarts

reportVars == <<reports, writers, interrupted, minute, reportRestarts>>

ReportsInit ==
  /\ reports = [r \in {} |-> "none"] /\ writers = [r \in ReportIds |-> "none"]
  /\ interrupted = {} /\ minute = "before" /\ reportRestarts = 0

\* POST /reports/generate: generate_report inserts and commits.
GenerateStarts(r) ==
  /\ r \notin DOMAIN reports /\ writers[r] = "none" /\ r \notin interrupted
  /\ reports' = [x \in DOMAIN reports \cup {r} |-> IF x = r THEN "generating" ELSE reports[x]]
  /\ writers' = [writers EXCEPT ![r] = "collect"]
  /\ UNCHANGED <<interrupted, minute, reportRestarts>>

\* The summaries are read. An error of the database leaves a transaction that
\* can not write "failed" either.
Collects(r, readable) ==
  /\ writers[r] = "collect"
  /\ writers' = [writers EXCEPT ![r] = IF readable THEN "ask" ELSE "over"]
  /\ interrupted' = IF readable THEN interrupted ELSE interrupted \cup {r}
  /\ UNCHANGED <<reports, minute, reportRestarts>>

\* Mutant: the exception is only logged.
OutcomeLogged(answered) == IF answered THEN "completed" ELSE "generating"

Outcome(answered) == IF answered THEN "completed" ELSE "failed"

\* chat_completion answers or raises, and the row is written. A row that was
\* deleted meanwhile stays deleted: the update matches nothing, and raises.
GenerateEnds(r, answered) ==
  /\ writers[r] = "ask"
  /\ reports' = [x \in DOMAIN reports |-> IF x = r THEN Outcome(answered) ELSE reports[x]]
  /\ writers' = [writers EXCEPT ![r] = "over"]
  /\ UNCHANGED <<interrupted, minute, reportRestarts>>

\* DELETE /reports/{id}, of any report.
DeleteReport(r) ==
  /\ r \in DOMAIN reports
  /\ reports' = [x \in DOMAIN reports \ {r} |-> reports[x]]
  /\ UNCHANGED <<writers, interrupted, minute, reportRestarts>>

\* The task looks once a minute and a little more, so that it may not look at 2:00.
MinutePasses ==
  /\ minute' = CASE minute = "before" -> "at" [] minute = "at" -> "after" [] OTHER -> "before"
  /\ UNCHANGED <<reports, writers, interrupted, reportRestarts>>

\* At 2:00 _report_exists compares a column without a time zone with a time
\* that has one; the driver refuses the query, and the exception is logged.
SchedulerLooks ==
  /\ minute = "at" /\ minute' = "after"
  /\ UNCHANGED <<reports, writers, interrupted, reportRestarts>>

RestartReports ==
  /\ reportRestarts < MaxReportRestarts /\ reportRestarts' = reportRestarts + 1
  /\ interrupted' = interrupted \cup {r \in ReportIds : writers[r] \in {"collect", "ask"}}
  /\ writers' = [r \in ReportIds |-> IF writers[r] = "none" THEN "none" ELSE "over"]
  /\ UNCHANGED <<reports, minute>>

ReportsNext ==
  \/ MinutePasses \/ SchedulerLooks \/ RestartReports
  \/ \E r \in ReportIds :
       \/ GenerateStarts(r) \/ DeleteReport(r)
       \/ \E readable \in BOOLEAN : Collects(r, readable)
       \/ \E answered \in BOOLEAN : GenerateEnds(r, answered)

ReportsSpec == ReportsInit /\ [][ReportsNext]_reportVars

-----------------------------------------------------------------------------
\* A report that is "generating" is being generated, unless the database or
\* the process failed meanwhile; nothing ever ends it then (generate_report).
GeneratingIsRunning ==
  \A r \in DOMAIN reports :
    reports[r] = "generating" => writers[r] \in {"collect", "ask"} \/ r \in interrupted
=============================================================================
