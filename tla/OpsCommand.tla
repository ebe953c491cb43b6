----------------------------- MODULE OpsCommand -----------------------------
(***************************************************************************)
(* Commands of the operations assistant, from the question to the user to  *)
(* the result: the tool execute_command, the ApprovalService it waits on,  *)
(* the answers of browser tabs (routers/ops.py), the relay to the agent    *)
(* (AgentLink), the agent's command threads and the way back through       *)
(* _route_command_result. All commands belong to one session; a session    *)
(* has one OpsAgentLoop in every worker its tabs are connected to, and a   *)
(* loop executes one tool at a time.                                       *)
(***************************************************************************)
EXTENDS AgentLink, FiniteSets

CONSTANTS
  Tabs,         \* browser connections of the session
  MaxReplies,   \* bound on the answers the tabs send
  None

ASSUME CommandAssumption ==
  /\ Requests \subseteq Nat
  /\ MaxReplies \in Nat
  /\ None \notin Requests /\ None \notin {"confirm", "reject"}

VARIABLES
  cmd,          \* the tool call of every request
  status,       \* the status in the content of its command_request message
  pending,      \* requests in ApprovalService._pending of their loop
  result,       \* ApprovalService._results
  reply,        \* what every tab's handler is doing
  sent,         \* number of answers sent so far
  mapped,       \* requests with a key cmd_req_session
  inbox,        \* results in the subscription of every request's tool
  threads,      \* the agent's command threads: request and connection
  ran,          \* how often every command was executed on the host
  consent       \* history: requests a tab confirmed while their tool waited

commandVars == <<cmd, status, pending, result, reply, sent, mapped, inbox, threads, ran, consent>>
opsVars == <<linkVars, commandVars>>

Actions == {"confirm", "reject"}
CmdStages == {"idle", "saved", "waiting", "expiring", "confirmed", "published",
              "listening", "done", "dead"}
Outcomes == {"none", "blocked", "rejected", "expired", "timeout", "result"}
Idle == [stage |-> "idle", req |-> None, action |-> None, live |-> FALSE, at |-> None]

TypeOK ==
  /\ LinkTypeOK
  /\ cmd \in [Requests -> [stage : CmdStages, worker : Workers,
                           outcome : Outcomes, got : Requests \cup {None}]]
  /\ status \in [Requests -> {None, "pending", "confirmed", "rejected", "expired"}]
  /\ pending \subseteq Requests
  /\ \A r \in pending : cmd[r].stage \in {"waiting", "expiring"}
  /\ result \in [Requests -> Actions \cup {None}]
  /\ sent \in 0..MaxReplies
  /\ mapped \subseteq Requests
  /\ inbox \in [Requests -> Seq(Requests)]
  /\ threads \subseteq Requests \X Conns
  /\ ran \in [Requests -> Nat]
  /\ consent \subseteq Requests

OpsInit ==
  /\ LinkInit
  /\ cmd = [r \in Requests |-> [stage |-> "idle", worker |-> CHOOSE w \in Workers : TRUE,
                                outcome |-> "none", got |-> None]]
  /\ status = [r \in Requests |-> None]
  /\ pending = {}
  /\ result = [r \in Requests |-> None]
  /\ reply = [t \in Tabs |-> Idle]
  /\ sent = 0
  /\ mapped = {}
  /\ inbox = [r \in Requests |-> <<>>]
  /\ threads = {}
  /\ ran = [r \in Requests |-> 0]
  /\ consent = {}

To(r, stage) == cmd' = [cmd EXCEPT ![r].stage = stage]
Conclude(r, outcome) == cmd' = [cmd EXCEPT ![r].stage = "done", ![r].outcome = outcome]

-----------------------------------------------------------------------------
(* The tool: question, answer or timeout.                                  *)

LoopFree(w) == \A q \in Requests : cmd[q].worker = w => cmd[q].stage \in {"idle", "done", "dead"}

\* The model calls execute_command: a dangerous command is refused at once,
\* any other is saved as a message with status pending.
Ask(r, w) ==
  /\ cmd[r].stage = "idle"
  /\ \A q \in Requests : q < r => cmd[q].stage # "idle"
  /\ LoopFree(w)
  /\ \/ /\ cmd' = [cmd EXCEPT ![r] = [stage |-> "done", worker |-> w, outcome |-> "blocked", got |-> None]]
        /\ UNCHANGED status
     \/ /\ cmd' = [cmd EXCEPT ![r] = [stage |-> "saved", worker |-> w, outcome |-> "none", got |-> None]]
        /\ status' = [status EXCEPT ![r] = "pending"]
  /\ UNCHANGED <<linkVars, pending, result, reply, sent, mapped, inbox, threads, ran, consent>>

Register(r) ==
  /\ cmd[r].stage = "saved"
  /\ To(r, "waiting")
  /\ pending' = pending \cup {r}
  /\ result' = [result EXCEPT ![r] = None]
  /\ UNCHANGED <<linkVars, status, reply, sent, mapped, inbox, threads, ran, consent>>

\* A tab answers, at the worker it is connected to: resolve() looks the
\* request up in that worker's loop, then writes the message and only then
\* hands the answer to the waiter.
Reply(t, r, a, w) ==
  /\ reply[t] = Idle
  /\ sent < MaxReplies
  /\ status[r] # None
  /\ sent' = sent + 1
  /\ reply' = [reply EXCEPT ![t] = [stage |-> "writing", req |-> r, action |-> a,
                                    live |-> r \in pending /\ cmd[r].worker = w, at |-> w]]
  /\ consent' = IF reply'[t].live /\ a = "confirm" THEN consent \cup {r} ELSE consent
  /\ UNCHANGED <<linkVars, cmd, status, pending, result, mapped, inbox, threads, ran>>

ReplyWritten(t) ==
  /\ reply[t].stage = "writing"
  /\ reply' = [reply EXCEPT ![t].stage = "written"]
  /\ status' = [status EXCEPT ![reply[t].req] =
                  IF reply[t].action = "confirm" THEN "confirmed" ELSE "rejected"]
  /\ UNCHANGED <<linkVars, cmd, pending, result, sent, mapped, inbox, threads, ran, consent>>

ReplyDelivered(t) ==
  /\ reply[t].stage = "written"
  /\ reply' = [reply EXCEPT ![t] = Idle]
  /\ result' = IF reply[t].live THEN [result EXCEPT ![reply[t].req] = reply[t].action] ELSE result
  /\ UNCHANGED <<linkVars, cmd, status, pending, sent, mapped, inbox, threads, ran, consent>>

\* The waiter wakes up with the answer.
Answered(r) ==
  /\ cmd[r].stage = "waiting"
  /\ result[r] # None
  /\ pending' = pending \ {r}
  /\ result' = [result EXCEPT ![r] = None]
  /\ IF result[r] = "confirm" THEN To(r, "confirmed") ELSE Conclude(r, "rejected")
  /\ UNCHANGED <<linkVars, status, reply, sent, mapped, inbox, threads, ran, consent>>

\* After 60 seconds the waiter resolves the request itself: it writes the
\* message (Expired) and ignores an answer that arrives meanwhile.
Expire(r) ==
  /\ cmd[r].stage = "waiting"
  /\ To(r, "expiring")
  /\ UNCHANGED <<linkVars, status, pending, result, reply, sent, mapped, inbox, threads, ran, consent>>

\* Mutant: every action that is not a rejection goes on to the agent.
ExpiredGoesOn(r) ==
  /\ cmd[r].stage = "expiring"
  /\ status' = [status EXCEPT ![r] = "expired"]
  /\ pending' = pending \ {r}
  /\ result' = [result EXCEPT ![r] = None]
  /\ IF result[r] # "reject" THEN To(r, "confirmed") ELSE Conclude(r, "expired")
  /\ UNCHANGED <<linkVars, reply, sent, mapped, inbox, threads, ran, consent>>

\* Mutant: the waiter removes itself only when it was answered.
ExpiredStaysPending(r) ==
  /\ cmd[r].stage = "expiring"
  /\ status' = [status EXCEPT ![r] = "expired"]
  /\ Conclude(r, "expired")
  /\ UNCHANGED <<linkVars, pending, result, reply, sent, mapped, inbox, threads, ran, consent>>

Expired(r) ==
  /\ cmd[r].stage = "expiring"
  /\ status' = [status EXCEPT ![r] = "expired"]
  /\ pending' = pending \ {r}
  /\ result' = [result EXCEPT ![r] = None]
  /\ Conclude(r, "expired")
  /\ UNCHANGED <<linkVars, reply, sent, mapped, inbox, threads, ran, consent>>

-----------------------------------------------------------------------------
(* The command on its way to the host and its result on the way back.      *)

Publish(r) ==
  /\ cmd[r].stage = "confirmed"
  /\ To(r, "published")
  /\ mapped' = mapped \cup {r}
  /\ mail' = Relayed(r)
  /\ UNCHANGED <<clients, online, conn, relay, wire, agentConn, left, crashes,
                 status, pending, result, reply, sent, inbox, threads, ran, consent>>

\* Only after the audit log is written does the tool subscribe to the results
\* of its session; a result that is published earlier is lost.
Listen(r) ==
  /\ cmd[r].stage = "published"
  /\ To(r, "listening")
  /\ UNCHANGED <<linkVars, status, pending, result, reply, sent, mapped, inbox, threads, ran, consent>>

\* The agent takes a command from its socket and starts a thread for it. The
\* thread refuses commands that are not on the agent's list.
AgentReceives ==
  /\ agentConn # NoConn
  /\ wire[agentConn] # <<>>
  /\ LET r == Head(wire[agentConn]) IN
     /\ threads' = threads \cup {<<r, agentConn>>}
     /\ \E executes \in {0, 1} : ran' = [ran EXCEPT ![r] = @ + executes]
  /\ wire' = [wire EXCEPT ![agentConn] = Tail(@)]
  /\ UNCHANGED <<clients, online, conn, relay, mail, agentConn, left, crashes,
                 cmd, status, pending, result, reply, sent, mapped, inbox, consent>>

\* The subscriptions of a session's channel all get the result.
Published(r) == [q \in Requests |-> IF cmd[q].stage = "listening" THEN Append(inbox[q], r) ELSE inbox[q]]

\* A thread reports on the socket it was started for. If that is still the
\* connection and its handler runs, the handler looks the session up, publishes
\* the result and deletes the key; otherwise the report is lost.
Report(r, c) ==
  /\ <<r, c>> \in threads
  /\ threads' = threads \ {<<r, c>>}
  /\ IF c = agentConn /\ conn[c].stage = "open" /\ r \in mapped
     THEN inbox' = Published(r) /\ mapped' = mapped \ {r}
     ELSE UNCHANGED <<inbox, mapped>>
  /\ UNCHANGED <<linkVars, cmd, status, pending, result, reply, sent, ran, consent>>

\* Mutant: the result is taken without comparing the request's id.
IsOwnAny(r, q) == TRUE

IsOwn(r, q) == q = r

TakeResult(r) ==
  /\ cmd[r].stage = "listening"
  /\ inbox[r] # <<>>
  /\ IF IsOwn(r, Head(inbox[r]))
     THEN /\ cmd' = [cmd EXCEPT ![r].stage = "done", ![r].outcome = "result", ![r].got = Head(inbox[r])]
          /\ inbox' = [inbox EXCEPT ![r] = <<>>]
     ELSE /\ inbox' = [inbox EXCEPT ![r] = Tail(@)]
          /\ UNCHANGED cmd
  /\ UNCHANGED <<linkVars, status, pending, result, reply, sent, mapped, threads, ran, consent>>

\* Mutant: only the result ends the wait.
GiveUpNever(r) == FALSE /\ UNCHANGED opsVars

GiveUp(r) ==
  /\ cmd[r].stage = "listening"
  /\ Conclude(r, "timeout")
  /\ inbox' = [inbox EXCEPT ![r] = <<>>]
  /\ UNCHANGED <<linkVars, status, pending, result, reply, sent, mapped, threads, ran, consent>>

\* The key cmd_req_session outlives the wait by 50 seconds.
MappingExpires(r) ==
  /\ r \in mapped
  /\ cmd[r].stage \in {"done", "dead"}
  /\ mapped' = mapped \ {r}
  /\ UNCHANGED <<linkVars, cmd, status, pending, result, reply, sent, inbox, threads, ran, consent>>

\* A worker is killed with the loops and the tabs' handlers it holds.
Die(w) ==
  LET Lost == {r \in Requests : cmd[r].worker = w /\ cmd[r].stage \notin {"idle", "done"}} IN
  /\ WorkerDies(w)
  /\ cmd' = [r \in Requests |-> IF r \in Lost THEN [cmd[r] EXCEPT !.stage = "dead"] ELSE cmd[r]]
  /\ pending' = pending \ Lost
  /\ result' = [r \in Requests |-> IF cmd[r].worker = w THEN None ELSE result[r]]
  /\ inbox' = [r \in Requests |-> IF r \in Lost THEN <<>> ELSE inbox[r]]
  /\ reply' = [t \in Tabs |-> IF reply[t].at = w THEN Idle ELSE reply[t]]
  /\ UNCHANGED <<status, sent, mapped, threads, ran, consent>>

OpsNext ==
  \/ LinkNext /\ UNCHANGED commandVars
  \/ \E r \in Requests, w \in Workers : Ask(r, w)
  \/ \E r \in Requests : \/ Register(r)
                         \/ Answered(r)
                         \/ Expire(r)
                         \/ Expired(r)
                         \/ Publish(r)
                         \/ Listen(r)
                         \/ TakeResult(r)
                         \/ GiveUp(r)
                         \/ MappingExpires(r)
  \/ \E t \in Tabs, r \in Requests, a \in Actions, w \in Workers : Reply(t, r, a, w)
  \/ \E t \in Tabs : ReplyWritten(t) \/ ReplyDelivered(t)
  \/ AgentReceives
  \/ \E r \in Requests, c \in Conns : Report(r, c)
  \/ \E w \in Workers : Die(w)

\* The event loop runs every task that can go on, and its timers fire; nothing
\* is assumed of the tabs, the network, the agent or the order of timers.
OpsFairness ==
  \A r \in Requests :
    WF_opsVars(Register(r) \/ Answered(r) \/ Expire(r) \/ Expired(r) \/ Publish(r) \/ Listen(r) \/ GiveUp(r))

OpsSpec == OpsInit /\ [][OpsNext]_opsVars /\ OpsFairness

-----------------------------------------------------------------------------
(* Properties.                                                             *)

\* A command runs on the host only when the wait for its approval ended with a
\* confirmation: not after a rejection, not after the wait has expired, however
\* late, double or misdirected answers are (execute_command.py, approval_service.py).
OnlyConfirmedRuns ==
  \A r \in Requests :
    ran[r] > 0 => r \in consent /\ cmd[r].outcome \notin {"blocked", "rejected", "expired"}

\* A command runs at most once, although every connection of the host has a
\* relay that gets a copy (agent.py: _redis_pubsub_listener sends on its own socket).
RunsAtMostOnce == \A r \in Requests : ran[r] <= 1

\* A tool returns the result of its own command and of no other command of the
\* session, also when late results of earlier commands share the channel.
OwnResult == \A r \in Requests : cmd[r].outcome = "result" => cmd[r].got = r

\* What a user may rely on who confirms a command (execute_command.py): it is
\* run if confirmed, once, and the result shown is its own.
RunsAsConfirmed == OnlyConfirmedRuns /\ RunsAtMostOnce /\ OwnResult

\* Every tool call ends, whatever the tabs, the network and the agent do,
\* unless its worker is killed: the loop is never stuck.
CallsEnd ==
  \A r \in Requests : (cmd[r].stage = "saved") ~> (cmd[r].stage \in {"done", "dead"})
=============================================================================
