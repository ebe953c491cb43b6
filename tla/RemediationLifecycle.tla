------------------------ MODULE RemediationLifecycle ------------------------
(***************************************************************************)
(* What the remediation subsystem promises about one remediation log: the  *)
(* statuses of models/remediation_log.py, who may leave each of them, and  *)
(* that the runbook's commands are executed at most once, for a log that   *)
(* asked for approval only after it was approved.                          *)
(***************************************************************************)
EXTENDS Naturals

CONSTANTS Logs

VARIABLES status,    \* what a reader of remediation_logs sees
          executed   \* how often the runbook's commands have been run for the log

vars == <<status, executed>>

Fresh == {"absent", "pending"}

Init ==
    /\ status = [l \in Logs |-> "absent"]
    /\ executed = [l \in Logs |-> 0]

Move(l, from, to) ==
    /\ status[l] \in from
    /\ \E s \in to : status' = [status EXCEPT ![l] = s]
    /\ UNCHANGED executed

Open(l)    == Move(l, {"absent"}, {"pending"})
Settle(l)  == executed[l] = 0 /\ Move(l, Fresh, {"escalated", "pending_approval"})
Report(l)  == executed[l] = 1 /\ Move(l, Fresh \cup {"executing"}, {"success", "failed"})
Approve(l) == Move(l, {"pending_approval"}, {"approved"})
Reject(l)  == Move(l, {"pending_approval"}, {"rejected"})
Start(l)   == Move(l, {"approved"}, {"executing"})
Fail(l)    == Move(l, {"approved", "executing"}, {"failed"})

\* The commands run under handle_alert (the log is still fresh) or, after an
\* approval, under the log's status "executing".
Execute(l) ==
    /\ status[l] \in Fresh \cup {"executing"}
    /\ executed[l] = 0
    /\ executed' = [executed EXCEPT ![l] = 1]
    /\ UNCHANGED status

Next == \E l \in Logs :
    \/ Open(l) \/ Settle(l) \/ Report(l) \/ Approve(l) \/ Reject(l)
    \/ Start(l) \/ Fail(l) \/ Execute(l)

Spec == Init /\ [][Next]_vars
=============================================================================
