---------------------------- MODULE Remediation ----------------------------
(***************************************************************************)
(* The life of a remediation log.                                          *)
(*                                                                         *)
(* A remediation is opened in two ways: the Redis listener hands a new     *)
(* alert to RemediationAgent.handle_alert ("auto"), or an operator calls   *)
(* POST /alerts/{id}/remediate, which commits a "pending" row and starts   *)
(* handle_alert as a background task ("manual").  handle_alert either      *)
(* escalates, asks for approval, or executes the runbook itself.  An       *)
(* approval commits "approved" and starts a second background task that    *)
(* executes the runbook.                                                   *)
(*                                                                         *)
(* The database is PostgreSQL under READ COMMITTED: status, approved and   *)
(* completed are the COMMITTED columns of remediation_logs.  A flush that  *)
(* is not followed by a commit ("diagnosing", and "executing" inside       *)
(* handle_alert) is visible to nobody else, so it is a program counter of  *)
(* the task (run) and not a status.  Every action ends where the code      *)
(* awaits the database, the executor or the network.                       *)
(*                                                                         *)
(* The backend is started with several uvicorn workers, and each of them   *)
(* runs the background tasks: every worker has a listener of its own, and  *)
(* Redis delivers every message to all of them.                            *)
(***************************************************************************)
EXTENDS Naturals, Sequences, FiniteSets

CONSTANTS
    Workers,     \* processes of the backend
    Alerts,      \* alert ids
    Logs,        \* ids of remediation_logs, handed out by the sequence
    Decisions,   \* calls of approve/reject, each with the task it may start
    Triggers,    \* concurrent calls of POST /alerts/{id}/remediate
    Plans,       \* contents the stored runbook may have
    Edits,       \* what an administrator may set the runbook to
    Overlap,     \* may two calls run between each other's read and commit?
    Faults,      \* may tasks raise and the Redis connection drop?
    MaxCrashes,  \* bound on process restarts
    Agent,       \* tag of the executions handle_alert makes itself
    NoPlan,      \* the runbook is deleted or inactive
    None

ASSUME OverlapAssumption == Overlap \in BOOLEAN /\ Faults \in BOOLEAN
ASSUME BoundAssumption == MaxCrashes \in Nat /\ Logs \subseteq Nat
ASSUME PlanAssumption ==
    NoPlan \notin Plans /\ Plans # {} /\ Edits \subseteq Plans \cup {NoPlan}
ASSUME TagAssumption ==
    Agent \notin Decisions /\ None \notin Logs \cup Alerts \cup Workers

VARIABLES
    status,      \* committed remediation_logs.status, "absent" before INSERT
    approved,    \* is remediation_logs.approved_by set?
    completed,   \* is remediation_logs.completed_at set?
    run,         \* program counter of the handle_alert task of a log
    alertOf,     \* the alert a log id was handed out for
    owner,       \* the worker whose listener took it ("auto"), None if "manual"
    dec,         \* program counter of a decision and of its execution task
    target,      \* the log a decision is about
    plan,        \* the runbook an execution task has loaded
    trig,        \* the alert a trigger call has checked, before its commit
    fired,       \* alerts the alert engine has committed
    feed,        \* messages buffered on each listener's subscription
    listener,    \* of each worker: "down", "waiting" or "busy"
    book,        \* the runbook as stored now
    ran,         \* history: who executed the runbook's commands for a log
    times,       \* history: how often they were executed
    crashes      \* restarts so far

row    == <<status, approved, completed>>
task   == <<run, alertOf, owner>>
order  == <<dec, target, plan>>
source == <<fired, feed>>
done   == <<ran, times>>
vars   == <<row, task, order, trig, source, listener, book, done, crashes>>

Status == {"absent", "pending", "pending_approval", "approved", "executing",
           "success", "failed", "escalated", "rejected"}
Final  == {"success", "failed", "escalated", "rejected"}
\* The statuses POST /remediate looks for; "diagnosing" and "verifying" are on
\* the code's list too, but nothing ever commits them.
InProgress == {"pending", "executing", "pending_approval"}
RunPC  == {"free", "scheduled", "diagnosing", "executing", "over"}
DecPC  == {"idle", "approving", "rejecting", "scheduled", "ready",
           "executing", "running", "over"}

Active(l) == run[l] \in {"scheduled", "diagnosing", "executing"}

\* The next id of the table's sequence.
NextId(l) ==
    /\ run[l] = "free"
    /\ \A m \in Logs : run[m] = "free" => l <= m

TypeOK ==
    /\ status \in [Logs -> Status]
    /\ approved \in [Logs -> BOOLEAN]
    /\ completed \in [Logs -> BOOLEAN]
    /\ run \in [Logs -> RunPC]
    /\ alertOf \in [Logs -> Alerts \cup {None}]
    /\ owner \in [Logs -> Workers \cup {None}]
    /\ dec \in [Decisions -> DecPC]
    /\ target \in [Decisions -> Logs \cup {None}]
    /\ plan \in [Decisions -> Plans \cup {NoPlan}]
    /\ trig \in [Triggers -> Alerts \cup {None}]
    /\ fired \subseteq Alerts
    /\ feed \in [Workers -> Seq(Alerts)]
    /\ listener \in [Workers -> {"down", "waiting", "busy"}]
    /\ book \in Plans \cup {NoPlan}
    /\ ran \in [Logs -> SUBSET [by: Decisions \cup {Agent}, plan: Plans]]
    /\ times \in [Logs -> Nat]
    /\ crashes \in 0..MaxCrashes

Init ==
    /\ status = [l \in Logs |-> "absent"]
    /\ approved = [l \in Logs |-> FALSE]
    /\ completed = [l \in Logs |-> FALSE]
    /\ run = [l \in Logs |-> "free"]
    /\ alertOf = [l \in Logs |-> None]
    /\ owner = [l \in Logs |-> None]
    /\ dec = [d \in Decisions |-> "idle"]
    /\ target = [d \in Decisions |-> None]
    /\ plan = [d \in Decisions |-> NoPlan]
    /\ trig = [t \in Triggers |-> None]
    /\ fired = {}
    /\ feed = [w \in Workers |-> <<>>]
    /\ listener = [w \in Workers |-> "down"]
    /\ book \in Plans
    /\ ran = [l \in Logs |-> {}]
    /\ times = [l \in Logs |-> 0]
    /\ crashes = 0

-----------------------------------------------------------------------------
(* Alerts, the subscription and the listener.                              *)

\* The alert engine publishes on nightmend:alert:new and commits the alert.
\* Pub/sub keeps nothing for a subscriber that is not there.
FireAlert(a) ==
    /\ a \notin fired
    /\ fired' = fired \cup {a}
    /\ feed' = [w \in Workers |->
                  IF listener[w] = "down" THEN feed[w] ELSE Append(feed[w], a)]
    /\ UNCHANGED <<row, task, order, trig, listener, book, done, crashes>>

\* start_listener subscribes; also what the task monitor's restart does.
Subscribe(w) ==
    /\ listener[w] = "down"
    /\ listener' = [listener EXCEPT ![w] = "waiting"]
    /\ UNCHANGED <<row, task, order, trig, source, book, done, crashes>>

\* pubsub.listen() raises: only the task monitor brings the listener back,
\* what was buffered is gone.
ConnectionLost(w) ==
    /\ Faults
    /\ listener[w] = "waiting"
    /\ listener' = [listener EXCEPT ![w] = "down"]
    /\ feed' = [feed EXCEPT ![w] = <<>>]
    /\ UNCHANGED <<row, task, order, trig, fired, book, done, crashes>>

\* (A listener that spawns handle_alert instead of awaiting it.)
CanTakeConcurrently(w) == listener[w] # "down"

\* A listener takes the next message only once handle_alert has returned.
CanTake(w) == listener[w] = "waiting"

\* One message: the listener calls handle_alert with no existing log, which
\* INSERTs (flush, not commit) a row in status "diagnosing".
ListenerTake(w, l) ==
    /\ CanTake(w)
    /\ feed[w] # <<>>
    /\ NextId(l)
    /\ run' = [run EXCEPT ![l] = "diagnosing"]
    /\ alertOf' = [alertOf EXCEPT ![l] = Head(feed[w])]
    /\ owner' = [owner EXCEPT ![l] = w]
    /\ feed' = [feed EXCEPT ![w] = Tail(feed[w])]
    /\ listener' = [listener EXCEPT ![w] = "busy"]
    /\ UNCHANGED <<row, order, trig, fired, book, done, crashes>>

-----------------------------------------------------------------------------
(* POST /alerts/{id}/remediate.                                            *)

ActiveLogs(a) == {l \in Logs : alertOf[l] = a /\ status[l] \in InProgress}

\* The call reads the alert and the logs in progress; any such log makes it
\* fail (409, or a 500 when scalar_one_or_none meets several).
TriggerCheck(t, a) ==
    /\ trig[t] = None
    /\ a \in fired
    /\ Overlap \/ \A u \in Triggers : trig[u] # a
    /\ ActiveLogs(a) = {}
    /\ trig' = [trig EXCEPT ![t] = a]
    /\ UNCHANGED <<row, task, order, source, listener, book, done, crashes>>

\* INSERT, audit and COMMIT, then the background task is created.
TriggerCommit(t, l) ==
    /\ trig[t] # None
    /\ NextId(l)
    /\ status' = [status EXCEPT ![l] = "pending"]
    /\ run' = [run EXCEPT ![l] = "scheduled"]
    /\ alertOf' = [alertOf EXCEPT ![l] = trig[t]]
    /\ owner' = [owner EXCEPT ![l] = None]
    /\ trig' = [trig EXCEPT ![t] = None]
    /\ UNCHANGED <<approved, completed, order, source, listener, book, done,
                   crashes>>

-----------------------------------------------------------------------------
(* RemediationAgent.handle_alert.                                          *)

\* (A listener that does not come back to its subscription.)
ReturnNowhere(l) == listener

\* Where the listeners are once handle_alert has returned or raised.
Return(l) ==
    IF owner[l] = None THEN listener
                       ELSE [listener EXCEPT ![owner[l]] = "waiting"]

\* The manual task starts: flush of "diagnosing", not committed.
RunStart(l) ==
    /\ run[l] = "scheduled"
    /\ run' = [run EXCEPT ![l] = "diagnosing"]
    /\ UNCHANGED <<row, alertOf, owner, order, trig, source, listener, book,
                   done, crashes>>

\* _update_log: status and completed_at in one COMMIT; handle_alert returns.
Conclude(l, s) ==
    /\ status' = [status EXCEPT ![l] = s]
    /\ completed' = [completed EXCEPT ![l] = TRUE]
    /\ run' = [run EXCEPT ![l] = "over"]
    /\ listener' = Return(l)

\* (A refusal that returns without _update_log.)
RunEscalateSilently(l) ==
    /\ run[l] = "diagnosing"
    /\ run' = [run EXCEPT ![l] = "over"]
    /\ listener' = Return(l)
    /\ UNCHANGED <<row, alertOf, owner, order, trig, source, book, done, crashes>>

\* No runbook, risk BLOCK, failed safety checks or an unsafe command.
RunEscalate(l) ==
    /\ run[l] = "diagnosing"
    /\ Conclude(l, "escalated")
    /\ UNCHANGED <<approved, alertOf, owner, order, trig, source, book, done,
                   crashes>>

\* The executor runs a runbook's commands for a log.
Executed(l, who, p) ==
    /\ ran' = [ran EXCEPT ![l] = @ \cup {[by |-> who, plan |-> p]}]
    /\ times' = [times EXCEPT ![l] = @ + 1]

\* (A confirm-risk log that handle_alert executes all the same.)
RunAskApprovalUngated(l) ==
    /\ run[l] = "diagnosing"
    /\ book # NoPlan
    /\ Conclude(l, "pending_approval")
    /\ Executed(l, Agent, book)
    /\ UNCHANGED <<approved, alertOf, owner, order, trig, source, book,
                   crashes>>

\* Risk CONFIRM: the runbook's name is stored and the log waits.
RunAskApproval(l) ==
    /\ run[l] = "diagnosing"
    /\ book # NoPlan
    /\ Conclude(l, "pending_approval")
    /\ UNCHANGED <<approved, alertOf, owner, order, trig, source, book, done,
                   crashes>>

\* Risk AUTO: "executing" is flushed and the commands start.
RunExecute(l) ==
    /\ run[l] = "diagnosing"
    /\ book # NoPlan
    /\ run' = [run EXCEPT ![l] = "executing"]
    /\ Executed(l, Agent, book)
    /\ UNCHANGED <<row, alertOf, owner, order, trig, source, listener, book,
                   crashes>>

RunFinish(l) ==
    /\ run[l] = "executing"
    /\ \E s \in {"success", "failed"} : Conclude(l, s)
    /\ UNCHANGED <<approved, alertOf, owner, order, trig, source, book, done,
                   crashes>>

\* An exception leaves handle_alert (a command template it refuses to
\* resolve, a database error): the session rolls back, the caller only logs.
RunRaise(l) ==
    /\ Faults
    /\ Active(l)
    /\ run' = [run EXCEPT ![l] = "over"]
    /\ listener' = Return(l)
    /\ UNCHANGED <<row, alertOf, owner, order, trig, source, book, done,
                   crashes>>

-----------------------------------------------------------------------------
(* POST /remediations/{id}/approve and /reject.                            *)

MayDecide(l) == status[l] = "pending_approval"

Decide(d, l, choice) ==
    /\ dec[d] = "idle"
    /\ Overlap \/ \A e \in Decisions :
                    dec[e] \in {"approving", "rejecting"} => target[e] # l
    /\ MayDecide(l)
    /\ dec' = [dec EXCEPT ![d] = choice]
    /\ target' = [target EXCEPT ![d] = l]
    /\ UNCHANGED <<row, task, plan, trig, source, listener, book, done, crashes>>

\* The UPDATE names only the row's id: whatever was committed since the read
\* is overwritten.  The execution task is created after the COMMIT.
ApproveCommit(d) ==
    /\ dec[d] = "approving"
    /\ status' = [status EXCEPT ![target[d]] = "approved"]
    /\ approved' = [approved EXCEPT ![target[d]] = TRUE]
    /\ dec' = [dec EXCEPT ![d] = "scheduled"]
    /\ UNCHANGED <<completed, task, target, plan, trig, source,
                   listener, book, done, crashes>>

RejectCommit(d) ==
    /\ dec[d] = "rejecting"
    /\ status' = [status EXCEPT ![target[d]] = "rejected"]
    /\ completed' = [completed EXCEPT ![target[d]] = TRUE]
    /\ dec' = [dec EXCEPT ![d] = "over"]
    /\ UNCHANGED <<approved, task, target, plan, trig, source,
                   listener, book, done, crashes>>

-----------------------------------------------------------------------------
(* _execute_approved_remediation.                                          *)

\* The task reads the log: it goes on only if the log is still approved, and
\* loads the runbook the log names.
ExecRead(d) ==
    /\ dec[d] = "scheduled"
    /\ IF status[target[d]] = "approved"
         THEN /\ dec' = [dec EXCEPT ![d] = "ready"]
              /\ plan' = [plan EXCEPT ![d] = book]
         ELSE /\ dec' = [dec EXCEPT ![d] = "over"]
              /\ plan' = plan
    /\ UNCHANGED <<row, task, target, trig, source, listener, book,
                   done, crashes>>

\* status, completed_at and the task's end in one COMMIT.
ExecConclude(d, s) ==
    /\ status' = [status EXCEPT ![target[d]] = s]
    /\ completed' = [completed EXCEPT ![target[d]] = TRUE]
    /\ dec' = [dec EXCEPT ![d] = "over"]

\* (A refusal that only logs.)
ExecRefuseSilently(d) ==
    /\ dec[d] \in {"ready", "executing"}
    /\ dec' = [dec EXCEPT ![d] = "over"]
    /\ UNCHANGED <<row, task, target, plan, trig, source, listener,
                   book, done, crashes>>

\* No such runbook, or its safety checks fail (before "executing"); an unsafe
\* command (after it).
ExecRefuse(d) ==
    /\ dec[d] \in {"ready", "executing"}
    /\ ExecConclude(d, "failed")
    /\ UNCHANGED <<approved, task, target, plan, trig, source,
                   listener, book, done, crashes>>

\* (A runbook that was deleted since the proposal is executed all the same.)
ExecStartUnchecked(d) ==
    /\ dec[d] = "ready"
    /\ status' = [status EXCEPT ![target[d]] = "executing"]
    /\ dec' = [dec EXCEPT ![d] = "executing"]
    /\ UNCHANGED <<approved, completed, task, target, plan, trig,
                   source, listener, book, done, crashes>>

ExecStart(d) ==
    /\ dec[d] = "ready"
    /\ plan[d] # NoPlan
    /\ status' = [status EXCEPT ![target[d]] = "executing"]
    /\ dec' = [dec EXCEPT ![d] = "executing"]
    /\ UNCHANGED <<approved, completed, task, target, plan, trig,
                   source, listener, book, done, crashes>>

ExecRun(d) ==
    /\ dec[d] = "executing"
    /\ dec' = [dec EXCEPT ![d] = "running"]
    /\ Executed(target[d], d, plan[d])
    /\ UNCHANGED <<row, task, target, plan, trig, source, listener,
                   book, crashes>>

ExecFinish(d) ==
    /\ dec[d] = "running"
    /\ \E s \in {"success", "failed"} : ExecConclude(d, s)
    /\ UNCHANGED <<approved, task, target, plan, trig, source,
                   listener, book, done, crashes>>

\* The task's except clause writes "failed"; if that raises too the row stays.
ExecRaise(d) ==
    /\ Faults
    /\ dec[d] \in {"scheduled", "ready", "executing", "running"}
    /\ \/ ExecConclude(d, "failed")
       \/ dec' = [dec EXCEPT ![d] = "over"] /\ UNCHANGED <<status, completed>>
    /\ UNCHANGED <<approved, task, target, plan, trig, source,
                   listener, book, done, crashes>>

-----------------------------------------------------------------------------
(* The runbook's editor, and a restart of the backend process.             *)

EditRunbook(p) ==
    /\ p \in Edits \ {book}
    /\ book' = p
    /\ UNCHANGED <<row, task, order, trig, source, listener, done, crashes>>

\* (A startup that takes executions up again whose log was left "executing".)
CrashResumes ==
    /\ crashes < MaxCrashes
    /\ crashes' = crashes + 1
    /\ run' = [l \in Logs |-> IF Active(l) THEN "over" ELSE run[l]]
    /\ dec' = [d \in Decisions |->
                 CASE dec[d] = "idle" -> "idle"
                   [] dec[d] \in {"executing", "running"} -> "executing"
                   [] OTHER -> "over"]
    /\ trig' = [t \in Triggers |-> None]
    /\ listener' = [w \in Workers |-> "down"]
    /\ feed' = [w \in Workers |-> <<>>]
    /\ UNCHANGED <<row, alertOf, owner, target, plan, fired, book,
                   done>>

\* Every task and request dies; nothing looks at unfinished logs on startup.
Crash ==
    /\ crashes < MaxCrashes
    /\ crashes' = crashes + 1
    /\ run' = [l \in Logs |-> IF Active(l) THEN "over" ELSE run[l]]
    /\ dec' = [d \in Decisions |-> IF dec[d] = "idle" THEN "idle" ELSE "over"]
    /\ trig' = [t \in Triggers |-> None]
    /\ listener' = [w \in Workers |-> "down"]
    /\ feed' = [w \in Workers |-> <<>>]
    /\ UNCHANGED <<row, alertOf, owner, target, plan, fired, book,
                   done>>

Run(l)  == \/ RunStart(l) \/ RunEscalate(l) \/ RunAskApproval(l)
           \/ RunExecute(l) \/ RunFinish(l) \/ RunRaise(l)
Exec(d) == \/ ApproveCommit(d) \/ RejectCommit(d) \/ ExecRead(d)
           \/ ExecRefuse(d) \/ ExecStart(d) \/ ExecRun(d) \/ ExecFinish(d)
           \/ ExecRaise(d)

Next ==
    \/ \E a \in Alerts : FireAlert(a)
    \/ \E w \in Workers : Subscribe(w) \/ ConnectionLost(w)
    \/ \E w \in Workers, l \in Logs : ListenerTake(w, l)
    \/ \E l \in Logs : Run(l)
    \/ \E t \in Triggers, a \in Alerts : TriggerCheck(t, a)
    \/ \E t \in Triggers, l \in Logs : TriggerCommit(t, l)
    \/ \E d \in Decisions, l \in Logs, choice \in {"approving", "rejecting"} :
         Decide(d, l, choice)
    \/ \E d \in Decisions : Exec(d)
    \/ \E p \in Plans \cup {NoPlan} : EditRunbook(p)
    \/ Crash

Spec == Init /\ [][Next]_vars

\* The event loop runs every task it has created, the restarted listener
\* subscribes again, and handlers that have started finish.  Nobody has to
\* open, approve or reject anything.
Fairness ==
    /\ \A w \in Workers :
         WF_vars(Subscribe(w)) /\ WF_vars(\E l \in Logs : ListenerTake(w, l))
    /\ \A t \in Triggers : WF_vars(\E l \in Logs : TriggerCommit(t, l))
    /\ \A l \in Logs : WF_vars(Run(l))
    /\ \A d \in Decisions : WF_vars(Exec(d))

FairSpec == Spec /\ Fairness

-----------------------------------------------------------------------------
(* What the subsystem guarantees.                                          *)

\* However approvals, rejections, restarts and faults interleave, the commands
\* of a log run either under handle_alert, for a log that never waits for an
\* operator, or under a task whose approval is committed; never both ways
\* (agent.py's CONFIRM branch against routers/remediation.py's executor).
ApprovalGate ==
    \A l \in Logs : \A r \in ran[l] :
        IF r.by = Agent
          THEN ~approved[l] /\ status[l] \notin {"pending_approval", "approved"}
          ELSE approved[l]

\* A listener works on one alert at a time: between two handle_alert calls
\* it started, one has returned (the await in listener.py's loop).
ListenerSerial ==
    \A l, m \in Logs :
        Active(l) /\ Active(m) /\ owner[l] = owner[m] /\ owner[l] # None => l = m

\* When no two decisions about a log overlap, the committed statuses and the
\* executions follow RemediationLifecycle: final statuses stay, a rejected log
\* is never executed, and no log is executed a second time, whatever is
\* restarted, raises or is lost (times counts the executions).
Lifecycle == INSTANCE RemediationLifecycle WITH
                 executed <- times
LifecycleSpec == Lifecycle!Spec

\* Without restarts and faults every pending remediation gets an answer: its
\* task is created after the COMMIT and always ends in _update_log.
PendingIsAnswered ==
    \A l \in Logs : status[l] = "pending" ~>
                        status[l] \in Final \cup {"pending_approval"}

\* Every approved remediation is over some day, even when approvals and
\* rejections overwrite each other: an executor task always concludes.
ApprovedIsConcluded ==
    \A l \in Logs : status[l] = "approved" ~> status[l] \in Final

\* An alert that reached a subscription is handled there although a listener
\* takes one alert at a time (or the model has run out of log ids).
MessageIsHandled ==
    \A w \in Workers, a \in Alerts : (\E i \in 1..Len(feed[w]) : feed[w][i] = a) ~>
        \/ \E l \in Logs : alertOf[l] = a /\ owner[l] = w /\ run[l] = "over"
        \/ \A l \in Logs : run[l] = "over"

\* All of a remediation's work comes to its end: the listener's alerts, the
\* tasks of triggers and the executors of approved logs.
WorkIsConcluded == PendingIsAnswered /\ ApprovedIsConcluded /\ MessageIsHandled

-----------------------------------------------------------------------------
(* What the documentation says and the code does not keep.                 *)

\* docs/api-reference.md of approve: "Only works when status is
\* `pending_approval`."  Two overlapping calls both pass the check, and a log
\* whose caller was told it is rejected may be executed.
DecidedOnlyWhenPending ==
    [][\A l \in Logs : status'[l] # status[l] /\ status'[l] \in {"approved", "rejected"}
                          => status[l] = "pending_approval"]_vars

\* POST /remediate fails with 409 while a remediation of the alert is in
\* progress: nothing else works on the alert when a new log is committed.
Busy(l) == Active(l) \/ status[l] \in InProgress \cup {"approved"}
TriggeredAlone ==
    [][\A l \in Logs : status[l] = "absent" /\ status'[l] = "pending"
        => \A m \in Logs \ {l} : alertOf[m] = alertOf'[l] => ~Busy(m)]_vars
=============================================================================
