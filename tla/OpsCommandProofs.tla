-------------------------- MODULE OpsCommandProofs --------------------------
(***************************************************************************)
(* Theorems about OpsCommand and the AgentLink it runs over, for any       *)
(* number of workers, connections, tabs, commands and answers.             *)
(***************************************************************************)
EXTENDS OpsCommand, TLAPS

LEMMA NextCases ==
    ASSUME OpsNext
    PROVE  \/ \E c \in Conns, w \in Workers : AgentConnects(c, w) /\ UNCHANGED commandVars
           \/ AgentDrops /\ UNCHANGED commandVars
           \/ \E c \in Conns :
                /\ \/ MarkOnline(c) \/ RelaySubscribes(c) \/ Forward(c)
                   \/ Disconnected(c) \/ MarkOffline(c)
                   \/ MarkOnlineFails(c) \/ MarkOfflineFails(c)
                /\ UNCHANGED commandVars
           \/ \E r \in Requests, w \in Workers : Ask(r, w)
           \/ \E r \in Requests :
                \/ Register(r) \/ Answered(r) \/ Expire(r) \/ Expired(r)
                \/ Publish(r) \/ Listen(r) \/ TakeResult(r) \/ GiveUp(r)
                \/ MappingExpires(r)
           \/ \E t \in Tabs, r \in Requests, a \in Actions, w \in Workers : Reply(t, r, a, w)
           \/ \E t \in Tabs : ReplyWritten(t) \/ ReplyDelivered(t)
           \/ AgentReceives
           \/ \E r \in Requests, c \in Conns : Report(r, c)
           \/ \E w \in Workers : Die(w)
BY DEF OpsNext, LinkNext

-----------------------------------------------------------------------------
(* What a channel holds.                                                   *)

In(x, s) == \E i \in 1..Len(s) : s[i] = x
Once(s) == \A i, j \in 1..Len(s) : s[i] = s[j] => i = j

LEMMA EmptyChannel ==
    Once(<<>>) /\ \A x : ~In(x, <<>>)
BY DEF Once, In

LEMMA NoMail == <<>> \in Seq(Requests)
OBVIOUS

LEMMA AppendChannel ==
    ASSUME NEW S, NEW s \in Seq(S), NEW x \in S
    PROVE  /\ Append(s, x) \in Seq(S)
           /\ \A y : In(y, Append(s, x)) <=> In(y, s) \/ y = x
           /\ Once(s) /\ ~In(x, s) => Once(Append(s, x))
<1>1. /\ Append(s, x) \in Seq(S) /\ Len(Append(s, x)) = Len(s) + 1
      /\ Append(s, x)[Len(s) + 1] = x
      /\ \A i \in 1..Len(s) : Append(s, x)[i] = s[i]
      /\ Len(s) \in Nat
  OBVIOUS
<1>2. ASSUME NEW y PROVE In(y, Append(s, x)) <=> In(y, s) \/ y = x
  BY <1>1 DEF In
<1>3. ASSUME Once(s), ~In(x, s) PROVE Once(Append(s, x))
  BY <1>1, <1>3 DEF Once, In
<1> QED
  BY <1>1, <1>2, <1>3

LEMMA TailChannel ==
    ASSUME NEW S, NEW s \in Seq(S), s # <<>>
    PROVE  /\ Head(s) \in S /\ Tail(s) \in Seq(S)
           /\ In(Head(s), s)
           /\ \A y : In(y, Tail(s)) => In(y, s)
           /\ Once(s) => Once(Tail(s)) /\ ~In(Head(s), Tail(s))
<1>1. /\ Tail(s) \in Seq(S) /\ Len(s) \in Nat \ {0} /\ Len(Tail(s)) = Len(s) - 1
      /\ \A i \in 1..Len(Tail(s)) : Tail(s)[i] = s[i + 1]
      /\ Head(s) = s[1] /\ Head(s) \in S
  OBVIOUS
<1>2. \A i \in 1..Len(Tail(s)) : i + 1 \in 1..Len(s) /\ i + 1 # 1
  BY <1>1
<1>3. In(Head(s), s)
  BY <1>1 DEF In
<1>4. ASSUME NEW y, In(y, Tail(s)) PROVE In(y, s)
  BY <1>1, <1>2, <1>4 DEF In
<1>5. ASSUME Once(s) PROVE Once(Tail(s)) /\ ~In(Head(s), Tail(s))
  <2>1. Once(Tail(s))
    BY <1>1, <1>2, <1>5 DEF Once
  <2>2. ASSUME NEW i \in 1..Len(Tail(s)), Tail(s)[i] = Head(s) PROVE FALSE
    BY <1>1, <1>2, <1>5, <2>2 DEF Once
  <2> QED
    BY <2>1, <2>2 DEF In
<1> QED
  BY <1>1, <1>3, <1>4, <1>5

-----------------------------------------------------------------------------
(* Type correctness.                                                       *)

LEMMA LinkTypeInit == LinkInit => LinkTypeOK
<1>1. (CHOOSE w \in Workers : TRUE) \in Workers
  BY LinkAssumption
<1> QED
  <2> SUFFICES ASSUME LinkInit PROVE LinkTypeOK
    OBVIOUS
  <2>1. conn \in [Conns -> [worker : Workers, stage : Stages]]
    BY <1>1 DEF LinkInit, Stages
  <2>2. mail \in [Conns -> Seq(Requests)] /\ wire \in [Conns -> Seq(Requests)]
    BY NoMail DEF LinkInit
  <2>3. crashes \in 0..MaxCrashes
    BY LinkAssumption DEF LinkInit
  <2> QED
    BY <2>1, <2>2, <2>3 DEF LinkInit, LinkTypeOK

LEMMA LinkTypeNext == LinkTypeOK /\ LinkNext => LinkTypeOK'
<1> SUFFICES ASSUME LinkTypeOK, LinkNext PROVE LinkTypeOK'
  OBVIOUS
<1>1. ASSUME NEW c \in Conns, NEW w \in Workers, AgentConnects(c, w) PROVE LinkTypeOK'
  BY <1>1 DEF LinkTypeOK, AgentConnects, Stages
<1>2. CASE AgentDrops
  BY <1>2, NoMail DEF LinkTypeOK, AgentDrops
<1>3. ASSUME NEW c \in Conns,
             MarkOnline(c) \/ RelaySubscribes(c) \/ Disconnected(c) \/ MarkOffline(c)
             \/ MarkOnlineFails(c) \/ MarkOfflineFails(c)
      PROVE  LinkTypeOK'
  <2>1. conn' \in [Conns -> [worker : Workers, stage : Stages]]
    BY <1>3 DEF LinkTypeOK, MarkOnline, RelaySubscribes, Disconnected, MarkOffline, MarkOnlineFails, MarkOfflineFails, Stages
  <2>2. clients' \in [Workers -> Conns \cup {NoConn}]
    BY <1>3 DEF LinkTypeOK, MarkOnline, RelaySubscribes, Disconnected, MarkOffline, MarkOnlineFails, MarkOfflineFails
  <2>3. mail' \in [Conns -> Seq(Requests)]
    BY <1>3, NoMail
       DEF LinkTypeOK, MarkOnline, RelaySubscribes, Disconnected, MarkOffline, MarkOnlineFails, MarkOfflineFails
  <2> QED
    BY <1>3, <2>1, <2>2, <2>3
       DEF LinkTypeOK, MarkOnline, RelaySubscribes, Disconnected, MarkOffline, MarkOnlineFails, MarkOfflineFails
<1>4. ASSUME NEW c \in Conns, Forward(c) PROVE LinkTypeOK'
  <2>1. /\ mail[c] \in Seq(Requests) /\ mail[c] # <<>>
        /\ UNCHANGED <<clients, online, conn, agentConn, left, crashes>>
    BY <1>4 DEF LinkTypeOK, Forward
  <2>2. Head(mail[c]) \in Requests /\ Tail(mail[c]) \in Seq(Requests)
    BY <2>1, TailChannel
  <2>3. mail' \in [Conns -> Seq(Requests)] /\ relay' \in [Conns -> {"none", "starting", "listening", "ended"}]
    BY <1>4, <2>2, NoMail DEF LinkTypeOK, Forward
  <2>4. wire' \in [Conns -> Seq(Requests)]
    <3>1. CASE wire' = wire
      BY <3>1 DEF LinkTypeOK
    <3>2. CASE agentConn = c /\ wire' = [wire EXCEPT ![agentConn] = Append(@, Head(mail[c]))]
      BY <2>2, <3>2, AppendChannel DEF LinkTypeOK
    <3> QED
      BY <1>4, <3>1, <3>2 DEF Forward, Socket
  <2> QED
    BY <2>1, <2>3, <2>4 DEF LinkTypeOK
<1> QED
  BY <1>1, <1>2, <1>3, <1>4 DEF LinkNext

LEMMA WorkerDiesType ==
    ASSUME LinkTypeOK, NEW w \in Workers, WorkerDies(w)
    PROVE  LinkTypeOK'
<1> DEFINE Gone == {c \in Conns : conn[c].worker = w /\ conn[c].stage # "unused"}
<1>1. conn' = [c \in Conns |-> IF c \in Gone THEN [conn[c] EXCEPT !.stage = "closed"] ELSE conn[c]]
  BY DEF WorkerDies
<1>2. /\ mail' = [c \in Conns |-> IF c \in Gone THEN <<>> ELSE mail[c]]
      /\ wire' = [c \in Conns |-> IF c \in Gone THEN <<>> ELSE wire[c]]
      /\ relay' = [c \in Conns |-> IF c \in Gone THEN "ended" ELSE relay[c]]
      /\ agentConn' = IF agentConn \in Gone THEN NoConn ELSE agentConn
  BY DEF WorkerDies
<1>3. clients' \in [Workers -> Conns \cup {NoConn}] /\ online' \in BOOLEAN /\ left' \in BOOLEAN /\ crashes' \in 0..MaxCrashes
  BY LinkAssumption DEF WorkerDies, LinkTypeOK
<1> HIDE DEF Gone
<1>4. conn' \in [Conns -> [worker : Workers, stage : Stages]]
  BY <1>1 DEF LinkTypeOK, Stages
<1>5. mail' \in [Conns -> Seq(Requests)] /\ wire' \in [Conns -> Seq(Requests)]
  BY <1>2, NoMail DEF LinkTypeOK
<1> QED
  BY <1>2, <1>3, <1>4, <1>5 DEF LinkTypeOK

\* What a tab's handler holds: an answer of one tab at one worker.
Handlers ==
    reply \in [Tabs -> {Idle} \cup [stage : {"writing", "written"}, req : Requests,
                                    action : Actions, live : BOOLEAN, at : Workers]]

Typed == TypeOK /\ Handlers

Tool == [stage : CmdStages, worker : Workers, outcome : Outcomes, got : Requests \cup {None}]

LEMMA TypeInit == OpsInit => Typed
<1> SUFFICES ASSUME OpsInit PROVE Typed
  OBVIOUS
<1>1. (CHOOSE w \in Workers : TRUE) \in Workers
  BY LinkAssumption
<1>2. cmd \in [Requests -> Tool]
  BY <1>1 DEF OpsInit, Tool, CmdStages, Outcomes
<1>3. inbox \in [Requests -> Seq(Requests)]
  BY NoMail DEF OpsInit
<1>4. LinkTypeOK
  BY LinkTypeInit DEF OpsInit
<1>5. sent \in 0..MaxReplies /\ ran \in [Requests -> Nat]
  BY CommandAssumption DEF OpsInit
<1> QED
  BY <1>2, <1>3, <1>4, <1>5 DEF OpsInit, Typed, TypeOK, Handlers, Tool

\* A step of one tool call: what it may do to cmd and to who waits.
LEMMA ToolType ==
    ASSUME TypeOK, NEW r \in Requests, NEW v \in Tool, cmd' = [cmd EXCEPT ![r] = v],
           \/ pending' = pending /\ (r \in pending => v.stage \in {"waiting", "expiring"})
           \/ pending' = pending \ {r}
           \/ pending' = pending \cup {r} /\ v.stage = "waiting"
    PROVE  /\ cmd' \in [Requests -> Tool]
           /\ pending' \subseteq Requests
           /\ \A q \in pending' : cmd'[q].stage \in {"waiting", "expiring"}
BY DEF TypeOK, Tool

LEMMA ToStage ==
    ASSUME TypeOK, NEW r \in Requests, NEW p \in CmdStages, To(r, p)
    PROVE  \E v \in Tool : v.stage = p /\ cmd' = [cmd EXCEPT ![r] = v]
<1> DEFINE v == [cmd[r] EXCEPT !.stage = p]
<1>1. cmd[r] \in Tool
  BY DEF TypeOK, Tool
<1>2. v \in Tool /\ v.stage = p
  BY <1>1 DEF Tool
<1>3. cmd' = [cmd EXCEPT ![r] = v]
  BY DEF To
<1> QED
  BY <1>2, <1>3

LEMMA Concluded ==
    ASSUME TypeOK, NEW r \in Requests, NEW o \in Outcomes, Conclude(r, o)
    PROVE  \E v \in Tool : v.stage = "done" /\ cmd' = [cmd EXCEPT ![r] = v]
<1> DEFINE v == [cmd[r] EXCEPT !.stage = "done", !.outcome = o]
<1>1. cmd[r] \in Tool
  BY DEF TypeOK, Tool
<1>2. v \in Tool /\ v.stage = "done"
  BY <1>1 DEF Tool, CmdStages
<1>3. cmd' = [cmd EXCEPT ![r] = v]
  BY DEF Conclude
<1> QED
  BY <1>2, <1>3

LEMMA TypeNext == Typed /\ [OpsNext]_opsVars => Typed'
<1> SUFFICES ASSUME Typed, [OpsNext]_opsVars PROVE Typed'
  OBVIOUS
<1> USE DEF Typed
<1>1. CASE UNCHANGED opsVars
  BY <1>1 DEF TypeOK, LinkTypeOK, Handlers, opsVars, linkVars, commandVars
<1>2. CASE LinkNext /\ UNCHANGED commandVars
  <2>1. LinkTypeOK'
    BY <1>2, LinkTypeNext DEF TypeOK
  <2> QED
    BY <1>2, <2>1 DEF TypeOK, Handlers, commandVars
<1>3. ASSUME UNCHANGED linkVars PROVE LinkTypeOK'
  BY <1>3 DEF TypeOK, LinkTypeOK, linkVars
<1>4. ASSUME NEW r \in Requests, NEW w \in Workers, Ask(r, w) PROVE Typed'
  <2>1. cmd' \in [Requests -> Tool] /\ \A q \in pending : cmd'[q].stage \in {"waiting", "expiring"}
    <3>1. r \notin pending
      BY <1>4 DEF Ask, TypeOK
    <3>2. PICK v \in Tool : cmd' = [cmd EXCEPT ![r] = v]
      BY <1>4 DEF Ask, Tool, CmdStages, Outcomes
    <3> QED
      BY <3>1, <3>2 DEF TypeOK, Tool
  <2>2. status' \in [Requests -> {None, "pending", "confirmed", "rejected", "expired"}]
    BY <1>4 DEF Ask, TypeOK
  <2> QED
    BY <1>3, <1>4, <2>1, <2>2 DEF Ask, TypeOK, Handlers, Tool
<1>5. ASSUME NEW r \in Requests, Register(r) \/ Answered(r) \/ Expire(r) PROVE Typed'
  <2>1. PICK v \in Tool :
          /\ cmd' = [cmd EXCEPT ![r] = v]
          /\ \/ pending' = pending /\ (r \in pending => v.stage \in {"waiting", "expiring"})
             \/ pending' = pending \ {r}
             \/ pending' = pending \cup {r} /\ v.stage = "waiting"
    <3>1. CASE Register(r)
      BY <3>1, ToStage DEF Register, CmdStages
    <3>2. CASE Answered(r)
      BY <3>2, ToStage, Concluded DEF Answered, CmdStages, Outcomes
    <3>3. CASE Expire(r)
      BY <3>3, ToStage DEF Expire, CmdStages
    <3> QED
      BY <1>5, <3>1, <3>2, <3>3
  <2>2. result' \in [Requests -> Actions \cup {None}]
    BY <1>5 DEF Register, Answered, Expire, TypeOK
  <2>3. /\ cmd' \in [Requests -> Tool] /\ pending' \subseteq Requests
        /\ \A q \in pending' : cmd'[q].stage \in {"waiting", "expiring"}
    BY <2>1, ToolType
  <2> QED
    BY <1>3, <1>5, <2>2, <2>3 DEF Register, Answered, Expire, TypeOK, Handlers, Tool
<1>6. ASSUME NEW r \in Requests, Expired(r) PROVE Typed'
  <2>1. PICK v \in Tool : cmd' = [cmd EXCEPT ![r] = v]
    BY <1>6, Concluded DEF Expired, Outcomes
  <2>2. /\ cmd' \in [Requests -> Tool] /\ pending' \subseteq Requests
        /\ \A q \in pending' : cmd'[q].stage \in {"waiting", "expiring"}
    BY <1>6, <2>1, ToolType DEF Expired
  <2> QED
    BY <1>3, <1>6, <2>2 DEF Expired, TypeOK, Handlers, Tool
<1>7. ASSUME NEW r \in Requests, Publish(r) \/ Listen(r) PROVE Typed'
  <2>1. r \notin pending
    BY <1>7 DEF Publish, Listen, TypeOK
  <2>2. PICK v \in Tool : cmd' = [cmd EXCEPT ![r] = v]
    BY <1>7, ToStage DEF Publish, Listen, CmdStages
  <2>3. pending' = pending
    BY <1>7 DEF Publish, Listen
  <2>4. /\ cmd' \in [Requests -> Tool] /\ pending' \subseteq Requests
        /\ \A q \in pending' : cmd'[q].stage \in {"waiting", "expiring"}
    BY <2>1, <2>2, <2>3, ToolType
  <2>5. LinkTypeOK' /\ mapped' \subseteq Requests
    <3>1. CASE Listen(r)
      BY <1>3, <3>1 DEF Listen, TypeOK
    <3>2. CASE Publish(r)
      <4>1. \A c \in Conns : Append(mail[c], r) \in Seq(Requests)
        BY AppendChannel DEF TypeOK, LinkTypeOK
      <4>2. mail' \in [Conns -> Seq(Requests)]
        BY <3>2, <4>1 DEF Publish, Relayed, TypeOK, LinkTypeOK
      <4> QED
        BY <3>2, <4>2 DEF Publish, TypeOK, LinkTypeOK
    <3> QED
      BY <1>7, <3>1, <3>2
  <2> QED
    BY <1>7, <2>4, <2>5 DEF Publish, Listen, TypeOK, Handlers, Tool
<1>8. ASSUME NEW r \in Requests, TakeResult(r) PROVE Typed'
  <2>1. inbox[r] \in Seq(Requests) /\ inbox[r] # <<>> /\ r \notin pending
    BY <1>8 DEF TakeResult, TypeOK
  <2>2. Head(inbox[r]) \in Requests /\ Tail(inbox[r]) \in Seq(Requests)
    BY <2>1, TailChannel
  <2>3. cmd' \in [Requests -> Tool] /\ \A q \in pending : cmd'[q].stage \in {"waiting", "expiring"}
    <3>1. CASE cmd' = cmd
      BY <3>1 DEF TypeOK, Tool
    <3>2. CASE cmd' = [cmd EXCEPT ![r].stage = "done", ![r].outcome = "result", ![r].got = Head(inbox[r])]
      <4> DEFINE v == [cmd[r] EXCEPT !.stage = "done", !.outcome = "result", !.got = Head(inbox[r])]
      <4>1. cmd[r] \in Tool
        BY DEF TypeOK, Tool
      <4>2. v \in Tool
        BY <2>2, <4>1 DEF Tool, CmdStages, Outcomes
      <4>3. cmd' = [cmd EXCEPT ![r] = v]
        BY <3>2
      <4>4. pending' = pending
        BY <1>8 DEF TakeResult
      <4> QED
        BY <2>1, <4>2, <4>3, <4>4, ToolType
    <3> QED
      BY <1>8, <3>1, <3>2 DEF TakeResult
  <2>4. inbox' \in [Requests -> Seq(Requests)]
    BY <1>8, <2>2, NoMail DEF TakeResult, TypeOK
  <2> QED
    BY <1>3, <1>8, <2>3, <2>4 DEF TakeResult, TypeOK, Handlers, Tool
<1>9. ASSUME NEW r \in Requests, GiveUp(r) PROVE Typed'
  <2>1. PICK v \in Tool : cmd' = [cmd EXCEPT ![r] = v]
    BY <1>9, Concluded DEF GiveUp, Outcomes
  <2>2. r \notin pending /\ pending' = pending
    BY <1>9 DEF GiveUp, TypeOK
  <2>3. /\ cmd' \in [Requests -> Tool]
        /\ \A q \in pending' : cmd'[q].stage \in {"waiting", "expiring"}
    BY <2>1, <2>2, ToolType
  <2>4. inbox' \in [Requests -> Seq(Requests)]
    BY <1>9, NoMail DEF GiveUp, TypeOK
  <2> QED
    BY <1>3, <1>9, <2>2, <2>3, <2>4 DEF GiveUp, TypeOK, Handlers, Tool
<1>10. ASSUME NEW r \in Requests, MappingExpires(r) PROVE Typed'
  BY <1>3, <1>10 DEF MappingExpires, TypeOK, Handlers
<1>11. ASSUME NEW t \in Tabs, NEW r \in Requests, NEW a \in Actions, NEW w \in Workers,
              Reply(t, r, a, w)
       PROVE  Typed'
  <2>1. Handlers'
    BY <1>11 DEF Reply, Handlers
  <2>2. consent' \subseteq Requests
    BY <1>11 DEF Reply, TypeOK
  <2>3. sent' \in 0..MaxReplies
    BY <1>11, CommandAssumption DEF Reply, TypeOK
  <2> QED
    BY <1>3, <1>11, <2>1, <2>2, <2>3 DEF Reply, TypeOK
<1>12. ASSUME NEW t \in Tabs, ReplyWritten(t) \/ ReplyDelivered(t) PROVE Typed'
  <2>1. reply[t].req \in Requests /\ reply[t].action \in Actions
    BY <1>12 DEF ReplyWritten, ReplyDelivered, Handlers, Idle
  <2>2. Handlers'
    BY <1>12 DEF ReplyWritten, ReplyDelivered, Handlers, Idle
  <2>3. /\ status' \in [Requests -> {None, "pending", "confirmed", "rejected", "expired"}]
        /\ result' \in [Requests -> Actions \cup {None}]
    BY <1>12, <2>1 DEF ReplyWritten, ReplyDelivered, TypeOK
  <2> QED
    BY <1>3, <1>12, <2>2, <2>3 DEF ReplyWritten, ReplyDelivered, TypeOK
<1>13. CASE AgentReceives
  <2> DEFINE r == Head(wire[agentConn])
  <2>1. agentConn \in Conns /\ wire[agentConn] \in Seq(Requests) /\ wire[agentConn] # <<>>
    BY <1>13 DEF AgentReceives, TypeOK, LinkTypeOK
  <2>2. r \in Requests /\ Tail(wire[agentConn]) \in Seq(Requests)
    BY <2>1, TailChannel
  <2>3. threads' = threads \cup {<<r, agentConn>>} /\ wire' = [wire EXCEPT ![agentConn] = Tail(@)]
    BY <1>13 DEF AgentReceives
  <2>4. \E executes \in {0, 1} : ran' = [ran EXCEPT ![r] = @ + executes]
    BY <1>13 DEF AgentReceives
  <2> HIDE DEF r
  <2>5. threads' \subseteq Requests \X Conns /\ ran' \in [Requests -> Nat]
    BY <2>1, <2>2, <2>3, <2>4 DEF TypeOK
  <2>6. wire' \in [Conns -> Seq(Requests)]
    BY <2>1, <2>2, <2>3 DEF TypeOK, LinkTypeOK
  <2> QED
    BY <1>13, <2>5, <2>6 DEF AgentReceives, TypeOK, LinkTypeOK, Handlers
<1>14. ASSUME NEW r \in Requests, NEW c \in Conns, Report(r, c) PROVE Typed'
  <2>1. \A q \in Requests : Append(inbox[q], r) \in Seq(Requests)
    BY AppendChannel DEF TypeOK
  <2>2. inbox' = inbox \/ inbox' = Published(r)
    BY <1>14 DEF Report
  <2>3. inbox' \in [Requests -> Seq(Requests)]
    BY <2>1, <2>2 DEF Published, TypeOK
  <2>4. mapped' \subseteq Requests
    BY <1>14 DEF Report, TypeOK
  <2> QED
    BY <1>3, <1>14, <2>3, <2>4 DEF Report, TypeOK, Handlers
<1>15. ASSUME NEW w \in Workers, Die(w) PROVE Typed'
  <2> DEFINE Lost == {r \in Requests : cmd[r].worker = w /\ cmd[r].stage \notin {"idle", "done"}}
  <2>1. /\ WorkerDies(w)
        /\ cmd' = [r \in Requests |-> IF r \in Lost THEN [cmd[r] EXCEPT !.stage = "dead"] ELSE cmd[r]]
        /\ pending' = pending \ Lost
        /\ inbox' = [r \in Requests |-> IF r \in Lost THEN <<>> ELSE inbox[r]]
        /\ result' = [r \in Requests |-> IF cmd[r].worker = w THEN None ELSE result[r]]
        /\ reply' = [t \in Tabs |-> IF reply[t].at = w THEN Idle ELSE reply[t]]
    BY <1>15 DEF Die
  <2> HIDE DEF Lost
  <2>2. LinkTypeOK'
    BY <2>1, WorkerDiesType DEF TypeOK
  <2>3. cmd' \in [Requests -> Tool] /\ \A q \in pending' : cmd'[q].stage \in {"waiting", "expiring"}
    <3>1. \A r \in Requests : cmd[r] \in Tool
      BY DEF TypeOK, Tool
    <3>2. \A r \in Requests : [cmd[r] EXCEPT !.stage = "dead"] \in Tool
      BY <3>1 DEF Tool, CmdStages
    <3>3. \A r \in Requests : cmd'[r] \in Tool
      BY <2>1, <3>1, <3>2
    <3>4. \A q \in pending' : cmd'[q] = cmd[q]
      BY <2>1 DEF TypeOK
    <3> QED
      BY <2>1, <3>3, <3>4 DEF TypeOK
  <2>4. inbox' \in [Requests -> Seq(Requests)] /\ result' \in [Requests -> Actions \cup {None}]
    BY <2>1, NoMail DEF TypeOK
  <2>5. Handlers'
    BY <2>1 DEF Handlers
  <2> QED
    BY <1>15, <2>1, <2>2, <2>3, <2>4, <2>5 DEF Die, TypeOK, Tool
<1> QED
  BY <1>1, <1>2, <1>4, <1>5, <1>6, <1>7, <1>8, <1>9, <1>10, <1>11, <1>12,
     <1>13, <1>14, <1>15 DEF OpsNext

\* Type correctness of the tool calls, the link they run over and the answers.
THEOREM TypeCorrect == OpsSpec => []TypeOK
<1>1. Typed => TypeOK
  BY DEF Typed
<1> QED
  BY TypeInit, TypeNext, <1>1, PTL DEF OpsSpec

-----------------------------------------------------------------------------
(* Only confirmed commands run.  A "confirm" on its way to a waiting tool  *)
(* is of a tab that confirmed while the tool waited (Approved), and a      *)
(* command that has left for the host is of a tool that went on after it   *)
(* (Tracked).                                                              *)

Sent(r) == ran[r] > 0 \/ \E c \in Conns : In(r, mail[c]) \/ In(r, wire[c])

Approved ==
    /\ \A t \in Tabs : reply[t].live /\ reply[t].action = "confirm" => reply[t].req \in consent
    /\ \A r \in Requests : result[r] = "confirm" => r \in consent

Tracked ==
    \A r \in Requests :
        /\ cmd[r].stage # "done" => cmd[r].outcome = "none"
        /\ cmd[r].stage \in {"confirmed", "published", "listening"} => r \in consent
        /\ Sent(r) => /\ r \in consent
                      /\ cmd[r].stage \in {"published", "listening", "done", "dead"}
                      /\ cmd[r].outcome \notin {"blocked", "rejected", "expired"}

-----------------------------------------------------------------------------
(* A command runs at most once.  Every relay gets a copy, but a relay only *)
(* sends on the socket it was started for, and the agent never comes back  *)
(* to a socket it has left: of all copies, those on the way over the       *)
(* agent's connection are the only ones that can arrive.                   *)

Untouched ==
    \A c \in Conns : conn[c].stage = "unused" =>
        relay[c] = "none" /\ mail[c] = <<>> /\ wire[c] = <<>>

OneCopy ==
    agentConn # NoConn =>
        /\ conn[agentConn].stage # "unused"
        /\ Once(mail[agentConn]) /\ Once(wire[agentConn])
        /\ \A r \in Requests :
             /\ In(r, mail[agentConn]) => ~In(r, wire[agentConn])
             /\ In(r, mail[agentConn]) \/ In(r, wire[agentConn]) => ran[r] = 0

CopyInv == Untouched /\ OneCopy /\ RunsAtMostOnce

CommandInv == Approved /\ Tracked /\ CopyInv /\ OwnResult

LEMMA CommandInit == OpsInit => CommandInv
<1> SUFFICES ASSUME OpsInit PROVE CommandInv
  OBVIOUS
<1>1. Approved /\ OwnResult
  BY CommandAssumption DEF OpsInit, Approved, OwnResult, Idle
<1>2. \A r \in Requests : ~Sent(r)
  BY EmptyChannel DEF OpsInit, LinkInit, Sent
<1>3. Tracked
  BY <1>2 DEF OpsInit, Tracked
<1>4. CopyInv
  BY DEF OpsInit, LinkInit, CopyInv, Untouched, OneCopy, RunsAtMostOnce
<1> QED
  BY <1>1, <1>3, <1>4 DEF CommandInv

LEMMA ApprovedNext == Typed /\ Approved /\ [OpsNext]_opsVars => Approved'
<1> SUFFICES ASSUME Typed, Approved, [OpsNext]_opsVars PROVE Approved'
  OBVIOUS
<1>1. CASE UNCHANGED <<reply, result, consent>>
  BY <1>1 DEF Approved
<1>2. ASSUME \/ UNCHANGED opsVars
             \/ LinkNext /\ UNCHANGED commandVars
             \/ \E r \in Requests, w \in Workers : Ask(r, w)
             \/ \E r \in Requests : \/ Expire(r) \/ Publish(r) \/ Listen(r)
                                    \/ TakeResult(r) \/ GiveUp(r) \/ MappingExpires(r)
             \/ AgentReceives
             \/ \E r \in Requests, c \in Conns : Report(r, c)
      PROVE  Approved'
  BY <1>1, <1>2 DEF opsVars, commandVars, Ask, Expire, Publish, Listen,
                    TakeResult, GiveUp, MappingExpires, AgentReceives, Report
<1>3. ASSUME NEW r \in Requests, Register(r) \/ Answered(r) \/ Expired(r) PROVE Approved'
  <2>1. result' = [result EXCEPT ![r] = None] /\ UNCHANGED <<reply, consent>>
    BY <1>3 DEF Register, Answered, Expired
  <2> QED
    BY <2>1, CommandAssumption DEF Approved, Typed, TypeOK
<1>4. ASSUME NEW t \in Tabs, NEW r \in Requests, NEW a \in Actions, NEW w \in Workers,
             Reply(t, r, a, w)
      PROVE  Approved'
  <2>1. /\ reply' = [reply EXCEPT ![t] = [stage |-> "writing", req |-> r, action |-> a,
                                          live |-> r \in pending /\ cmd[r].worker = w, at |-> w]]
        /\ consent' = IF reply'[t].live /\ a = "confirm" THEN consent \cup {r} ELSE consent
        /\ result' = result
    BY <1>4 DEF Reply
  <2>2. reply'[t].req = r /\ reply'[t].action = a /\ \A q \in Tabs : q # t => reply'[q] = reply[q]
    BY <2>1 DEF Typed, Handlers
  <2>3. consent \subseteq consent'
    BY <2>1
  <2> QED
    BY <2>1, <2>2, <2>3 DEF Approved
<1>5. ASSUME NEW t \in Tabs, ReplyWritten(t) \/ ReplyDelivered(t) PROVE Approved'
  <2>1. \A q \in Tabs : reply'[q].live => /\ reply'[q].live = reply[q].live
                                          /\ reply'[q].action = reply[q].action
                                          /\ reply'[q].req = reply[q].req
    <3>1. CASE ReplyWritten(t)
      <4>1. reply[t] \in [stage : {"writing", "written"}, req : Requests,
                          action : Actions, live : BOOLEAN, at : Workers]
        BY <3>1 DEF ReplyWritten, Typed, Handlers, Idle
      <4>2. reply' = [reply EXCEPT ![t] = [reply[t] EXCEPT !.stage = "written"]]
        BY <3>1 DEF ReplyWritten
      <4> QED
        BY <4>1, <4>2 DEF Typed, Handlers
    <3>2. CASE ReplyDelivered(t)
      BY <3>2 DEF ReplyDelivered, Typed, Handlers, Idle
    <3> QED
      BY <1>5, <3>1, <3>2
  <2>2. consent' = consent
    BY <1>5 DEF ReplyWritten, ReplyDelivered
  <2>3. \A r \in Requests : result'[r] = "confirm" =>
          \/ result[r] = "confirm"
          \/ reply[t].live /\ reply[t].req = r /\ reply[t].action = "confirm"
    BY <1>5 DEF ReplyWritten, ReplyDelivered, Typed, TypeOK
  <2> QED
    BY <2>1, <2>2, <2>3 DEF Approved
<1>6. ASSUME NEW w \in Workers, Die(w) PROVE Approved'
  <2>1. /\ result' = [r \in Requests |-> IF cmd[r].worker = w THEN None ELSE result[r]]
        /\ reply' = [t \in Tabs |-> IF reply[t].at = w THEN Idle ELSE reply[t]]
        /\ consent' = consent
    BY <1>6 DEF Die
  <2> QED
    BY <2>1, CommandAssumption DEF Approved, Idle
<1> QED
  BY <1>2, <1>3, <1>4, <1>5, <1>6 DEF OpsNext

\* The link and the agent never send what was not sent already.
LEMMA SentLess ==
    ASSUME TypeOK, NEW r \in Requests, Sent(r)',
           \/ LinkNext /\ UNCHANGED commandVars
           \/ AgentReceives
           \/ \E w \in Workers : Die(w)
    PROVE  Sent(r)
<1>1. CASE UNCHANGED <<mail, wire, ran>>
  BY <1>1 DEF Sent
<1>2. ASSUME LinkNext, UNCHANGED commandVars PROVE Sent(r)
  <2>0. ran' = ran
    BY <1>2 DEF commandVars
  <2>1. CASE \E c \in Conns : \/ \E w \in Workers : AgentConnects(c, w)
                              \/ MarkOnline(c) \/ RelaySubscribes(c) \/ MarkOffline(c)
                              \/ MarkOnlineFails(c) \/ MarkOfflineFails(c)
    BY <1>1, <2>0, <2>1 DEF AgentConnects, MarkOnline, RelaySubscribes, MarkOffline, MarkOnlineFails, MarkOfflineFails
  <2>2. CASE AgentDrops
    <3>1. mail' = mail /\ \A c \in Conns : wire'[c] = <<>> \/ wire'[c] = wire[c]
      BY <2>2 DEF AgentDrops, TypeOK, LinkTypeOK
    <3> QED
      BY <2>0, <3>1, EmptyChannel DEF Sent
  <2>3. ASSUME NEW c \in Conns, Disconnected(c) PROVE Sent(r)
    <3>1. wire' = wire /\ \A d \in Conns : mail'[d] = <<>> \/ mail'[d] = mail[d]
      BY <2>3 DEF Disconnected, TypeOK, LinkTypeOK
    <3> QED
      BY <2>0, <3>1, EmptyChannel DEF Sent
  <2>4. ASSUME NEW c \in Conns, Forward(c) PROVE Sent(r)
    <3>1. mail[c] \in Seq(Requests) /\ mail[c] # <<>>
      BY <2>4 DEF Forward, TypeOK, LinkTypeOK
    <3>2. Head(mail[c]) \in Requests /\ In(Head(mail[c]), mail[c]) /\ (In(r, Tail(mail[c])) => In(r, mail[c]))
      BY <3>1, TailChannel
    <3>3. \A d \in Conns : mail'[d] \in {mail[d], <<>>} \/ (d = c /\ mail'[d] = Tail(mail[c]))
      BY <2>4 DEF Forward, TypeOK, LinkTypeOK
    <3>4. \A d \in Conns : In(r, mail'[d]) => In(r, mail[d])
      BY <3>2, <3>3, EmptyChannel
    <3>5. \A d \in Conns : wire'[d] = wire[d] \/ wire'[d] = Append(wire[d], Head(mail[c]))
      BY <2>4 DEF Forward, TypeOK, LinkTypeOK
    <3>6. ASSUME NEW d \in Conns, In(r, wire'[d]) PROVE In(r, wire[d]) \/ r = Head(mail[c])
      <4>1. wire[d] \in Seq(Requests) /\ Head(mail[c]) \in Requests
        BY <3>2 DEF TypeOK, LinkTypeOK
      <4>2. In(r, Append(wire[d], Head(mail[c]))) <=> In(r, wire[d]) \/ r = Head(mail[c])
        BY <4>1, AppendChannel
      <4> QED
        BY <3>5, <3>6, <4>2
    <3> QED
      BY <2>0, <3>2, <3>4, <3>6 DEF Sent
  <2> QED
    BY <1>2, <2>1, <2>2, <2>3, <2>4 DEF LinkNext
<1>3. ASSUME AgentReceives PROVE Sent(r)
  <2> DEFINE q == Head(wire[agentConn])
  <2>1. agentConn \in Conns /\ wire[agentConn] \in Seq(Requests) /\ wire[agentConn] # <<>>
    BY <1>3 DEF AgentReceives, TypeOK, LinkTypeOK
  <2>2. In(q, wire[agentConn]) /\ (In(r, Tail(wire[agentConn])) => In(r, wire[agentConn]))
    BY <2>1, TailChannel
  <2>3. /\ mail' = mail
        /\ \A c \in Conns : wire'[c] = wire[c] \/ (c = agentConn /\ wire'[c] = Tail(wire[c]))
    BY <1>3 DEF AgentReceives, TypeOK, LinkTypeOK
  <2>4. ran'[r] = ran[r] \/ r = q
    BY <1>3 DEF AgentReceives, TypeOK
  <2> QED
    BY <2>1, <2>2, <2>3, <2>4 DEF Sent
<1>4. ASSUME NEW w \in Workers, Die(w) PROVE Sent(r)
  <2>1. ran' = ran /\ \A c \in Conns : mail'[c] \in {mail[c], <<>>} /\ wire'[c] \in {wire[c], <<>>}
    BY <1>4 DEF Die, WorkerDies
  <2> QED
    BY <2>1, EmptyChannel DEF Sent
<1> QED
  BY <1>2, <1>3, <1>4

LEMMA TrackedNext ==
    Typed /\ Approved /\ Tracked /\ [OpsNext]_opsVars => Tracked'
<1> SUFFICES ASSUME Typed, Approved, Tracked, [OpsNext]_opsVars PROVE Tracked'
  OBVIOUS
<1> USE DEF Typed
<1>1. ASSUME UNCHANGED <<cmd, consent>>, \A r \in Requests : Sent(r)' => Sent(r) PROVE Tracked'
  BY <1>1 DEF Tracked
<1>2. ASSUME UNCHANGED <<mail, wire, ran>>, NEW r \in Requests PROVE Sent(r)' => Sent(r)
  BY <1>2 DEF Sent
<1>3. ASSUME \/ UNCHANGED opsVars
             \/ \E r \in Requests : MappingExpires(r)
             \/ \E t \in Tabs : ReplyWritten(t) \/ ReplyDelivered(t)
             \/ \E r \in Requests, c \in Conns : Report(r, c)
      PROVE  Tracked'
  BY <1>1, <1>2, <1>3 DEF opsVars, commandVars, linkVars, MappingExpires,
                          ReplyWritten, ReplyDelivered, Report
<1>4. ASSUME (LinkNext /\ UNCHANGED commandVars) \/ AgentReceives PROVE Tracked'
  <2>1. UNCHANGED <<cmd, consent>>
    BY <1>4 DEF commandVars, AgentReceives
  <2> QED
    BY <1>1, <1>4, <2>1, SentLess
\* A step of one tool call that has not left for the host, or stays where it was.
<1>5. ASSUME NEW r \in Requests, NEW v \in Tool, cmd' = [cmd EXCEPT ![r] = v],
             v.stage # "done" => v.outcome = "none",
             v.stage \in {"confirmed", "published", "listening"} => r \in consent,
             Sent(r) => /\ v.stage \in {"published", "listening", "done", "dead"}
                        /\ v.outcome \notin {"blocked", "rejected", "expired"},
             consent' = consent, UNCHANGED <<mail, wire, ran>>
      PROVE  Tracked'
  <2>1. \A q \in Requests : q # r => cmd'[q] = cmd[q]
    BY <1>5
  <2>2. cmd'[r] = v
    BY <1>5 DEF TypeOK
  <2> QED
    BY <1>2, <1>5, <2>1, <2>2 DEF Tracked
<1>6. ASSUME NEW r \in Requests, NEW w \in Workers, Ask(r, w) PROVE Tracked'
  <2>1. PICK v \in Tool : /\ cmd' = [cmd EXCEPT ![r] = v]
                          /\ (v.stage = "saved" /\ v.outcome = "none") \/ v.stage = "done"
    <3>1. /\ [stage |-> "done", worker |-> w, outcome |-> "blocked", got |-> None] \in Tool
          /\ [stage |-> "saved", worker |-> w, outcome |-> "none", got |-> None] \in Tool
      BY DEF Tool, CmdStages, Outcomes
    <3> QED
      BY <1>6, <3>1 DEF Ask
  <2>2. ~Sent(r) /\ consent' = consent /\ UNCHANGED <<mail, wire, ran>>
    BY <1>6 DEF Ask, Tracked, linkVars
  <2> QED
    BY <1>5, <2>1, <2>2
<1>7. ASSUME NEW r \in Requests, NEW p \in CmdStages, To(r, p), cmd[r].stage # "done",
             p \in {"confirmed", "published", "listening"} => r \in consent,
             Sent(r) => p \in {"published", "listening", "done", "dead"},
             consent' = consent, UNCHANGED <<mail, wire, ran>>
      PROVE  Tracked'
  <2> DEFINE v == [cmd[r] EXCEPT !.stage = p]
  <2>1. cmd[r] \in Tool /\ cmd[r].outcome = "none"
    BY <1>7 DEF TypeOK, Tool, Tracked
  <2>2. v \in Tool /\ v.stage = p /\ v.outcome = "none"
    BY <2>1 DEF Tool
  <2>3. cmd' = [cmd EXCEPT ![r] = v]
    BY <1>7 DEF To
  <2> HIDE DEF v
  <2> QED
    BY <1>5, <1>7, <2>2, <2>3
<1>8. ASSUME NEW r \in Requests, NEW o \in Outcomes, Conclude(r, o),
             Sent(r) => o \notin {"blocked", "rejected", "expired"},
             consent' = consent, UNCHANGED <<mail, wire, ran>>
      PROVE  Tracked'
  <2> DEFINE v == [cmd[r] EXCEPT !.stage = "done", !.outcome = o]
  <2>1. cmd[r] \in Tool
    BY DEF TypeOK, Tool
  <2>2. v \in Tool /\ v.stage = "done" /\ v.outcome = o
    BY <2>1 DEF Tool, CmdStages
  <2>3. cmd' = [cmd EXCEPT ![r] = v]
    BY <1>8 DEF Conclude
  <2> HIDE DEF v
  <2> QED
    BY <1>5, <1>8, <2>2, <2>3
<1>9. ASSUME NEW r \in Requests, Register(r) \/ Expire(r) PROVE Tracked'
  <2>1. cmd[r].stage \in {"saved", "waiting"} /\ (To(r, "waiting") \/ To(r, "expiring"))
    BY <1>9 DEF Register, Expire
  <2>2. ~Sent(r) /\ consent' = consent /\ UNCHANGED <<mail, wire, ran>>
    BY <1>9, <2>1 DEF Register, Expire, Tracked, linkVars
  <2> QED
    BY <1>7, <2>1, <2>2 DEF CmdStages
<1>10. ASSUME NEW r \in Requests, Answered(r) PROVE Tracked'
  <2>1. cmd[r].stage = "waiting" /\ consent' = consent /\ UNCHANGED <<mail, wire, ran>>
    BY <1>10 DEF Answered, linkVars
  <2>2. ~Sent(r)
    BY <2>1 DEF Tracked
  <2>3. (result[r] = "confirm" /\ To(r, "confirmed")) \/ Conclude(r, "rejected")
    BY <1>10 DEF Answered
  <2>4. result[r] = "confirm" => r \in consent
    BY DEF Approved
  <2> QED
    BY <1>7, <1>8, <2>1, <2>2, <2>3, <2>4 DEF CmdStages, Outcomes
<1>11. ASSUME NEW r \in Requests, Expired(r) \/ GiveUp(r) PROVE Tracked'
  <2>1. consent' = consent /\ UNCHANGED <<mail, wire, ran>>
    BY <1>11 DEF Expired, GiveUp, linkVars
  <2>2. Conclude(r, "timeout") \/ (Conclude(r, "expired") /\ ~Sent(r))
    <3>1. Expired(r) => ~Sent(r)
      BY DEF Expired, Tracked
    <3>2. Expired(r) => Conclude(r, "expired")
      BY DEF Expired
    <3>3. GiveUp(r) => Conclude(r, "timeout")
      BY DEF GiveUp
    <3> QED
      BY <1>11, <3>1, <3>2, <3>3
  <2> QED
    BY <1>8, <2>1, <2>2 DEF Outcomes
<1>12. ASSUME NEW r \in Requests, Publish(r) PROVE Tracked'
  <2>1. /\ cmd[r].stage = "confirmed" /\ To(r, "published")
        /\ mail' = Relayed(r) /\ UNCHANGED <<wire, ran, consent>>
    BY <1>12 DEF Publish
  <2>2. \A c \in Conns : mail[c] \in Seq(Requests)
    BY DEF TypeOK, LinkTypeOK
  <2>3. \A c \in Conns : mail'[c] = mail[c] \/ mail'[c] = Append(mail[c], r)
    BY <2>1 DEF Relayed
  <2>4. ASSUME NEW q \in Requests, q # r, Sent(q)' PROVE Sent(q)
    <3>1. \A c \in Conns : In(q, mail'[c]) => In(q, mail[c])
      BY <2>2, <2>3, <2>4, AppendChannel
    <3> QED
      BY <2>1, <2>4, <3>1 DEF Sent
  <2>5. \A q \in Requests : q # r => cmd'[q] = cmd[q]
    BY <2>1 DEF To, TypeOK
  <2>6. cmd'[r].stage = "published" /\ cmd'[r].outcome = "none" /\ r \in consent
    BY <2>1 DEF To, TypeOK, Tracked
  <2> QED
    BY <2>1, <2>4, <2>5, <2>6 DEF Tracked
<1>13. ASSUME NEW r \in Requests, Listen(r) PROVE Tracked'
  <2>1. cmd[r].stage = "published" /\ To(r, "listening") /\ consent' = consent
        /\ UNCHANGED <<mail, wire, ran>>
    BY <1>13 DEF Listen, linkVars
  <2> QED
    BY <1>7, <2>1 DEF CmdStages, Tracked
<1>14. ASSUME NEW r \in Requests, TakeResult(r) PROVE Tracked'
  <2>1. consent' = consent /\ UNCHANGED <<mail, wire, ran>>
    BY <1>14 DEF TakeResult, linkVars
  <2>2. CASE cmd' = cmd
    BY <1>1, <1>2, <2>1, <2>2
  <2>3. CASE cmd' = [cmd EXCEPT ![r].stage = "done", ![r].outcome = "result", ![r].got = Head(inbox[r])]
    <3>1. \A q \in Requests : q # r => cmd'[q] = cmd[q]
      BY <2>3 DEF TypeOK
    <3>2. cmd'[r].stage = "done" /\ cmd'[r].outcome = "result"
      BY <2>3 DEF TypeOK
    <3>3. Sent(r) => r \in consent
      BY DEF Tracked
    <3> QED
      BY <1>2, <2>1, <3>1, <3>2, <3>3 DEF Tracked
  <2> QED
    BY <1>14, <2>2, <2>3 DEF TakeResult
<1>15. ASSUME NEW t \in Tabs, NEW r \in Requests, NEW a \in Actions, NEW w \in Workers,
              Reply(t, r, a, w)
       PROVE  Tracked'
  <2>1. cmd' = cmd /\ consent \subseteq consent' /\ UNCHANGED <<mail, wire, ran>>
    BY <1>15 DEF Reply, linkVars
  <2> QED
    BY <1>2, <2>1 DEF Tracked
<1>16. ASSUME NEW w \in Workers, Die(w) PROVE Tracked'
  <2>1. consent' = consent
    BY <1>16 DEF Die
  <2>2. ASSUME NEW q \in Requests
        PROVE  \/ cmd'[q] = cmd[q]
               \/ /\ cmd[q].stage # "done"
                  /\ cmd'[q].stage = "dead" /\ cmd'[q].outcome = cmd[q].outcome
    BY <1>16 DEF Die, TypeOK
  <2> QED
    BY <1>16, <2>1, <2>2, SentLess DEF Tracked
<1> QED
  BY <1>3, <1>4, <1>6, <1>9, <1>10, <1>11, <1>12, <1>13, <1>14, <1>15, <1>16
     DEF OpsNext

LEMMA CopyNext ==
    Typed /\ Tracked /\ CopyInv /\ [OpsNext]_opsVars => CopyInv'
<1> SUFFICES ASSUME Typed, Tracked, CopyInv, [OpsNext]_opsVars PROVE CopyInv'
  OBVIOUS
<1> USE DEF Typed
<1>0. agentConn = NoConn \/ agentConn \in Conns
  BY DEF TypeOK, LinkTypeOK
<1>1. CASE UNCHANGED <<linkVars, ran>>
  BY <1>1 DEF linkVars, CopyInv, Untouched, OneCopy, RunsAtMostOnce
<1>2. ASSUME \/ UNCHANGED opsVars
             \/ \E r \in Requests, w \in Workers : Ask(r, w)
             \/ \E r \in Requests :
                  \/ Register(r) \/ Answered(r) \/ Expire(r) \/ Expired(r)
                  \/ Listen(r) \/ TakeResult(r) \/ GiveUp(r) \/ MappingExpires(r)
             \/ \E t \in Tabs, r \in Requests, a \in Actions, w \in Workers : Reply(t, r, a, w)
             \/ \E t \in Tabs : ReplyWritten(t) \/ ReplyDelivered(t)
             \/ \E r \in Requests, c \in Conns : Report(r, c)
      PROVE  CopyInv'
  BY <1>1, <1>2 DEF opsVars, commandVars, Ask, Register, Answered, Expire, Expired,
     Listen, TakeResult, GiveUp, MappingExpires, Reply, ReplyWritten,
     ReplyDelivered, Report
<1>3. ASSUME NEW c \in Conns, NEW w \in Workers, AgentConnects(c, w), UNCHANGED commandVars
      PROVE  CopyInv'
  <2>1. /\ conn[c].stage = "unused" /\ agentConn' = c
        /\ conn' = [conn EXCEPT ![c] = [worker |-> w, stage |-> "accepted"]]
        /\ UNCHANGED <<relay, mail, wire, ran>>
    BY <1>3 DEF AgentConnects, commandVars
  <2>2. mail[c] = <<>> /\ wire[c] = <<>>
    BY <2>1 DEF CopyInv, Untouched
  <2>3. conn'[c].stage = "accepted" /\ \A d \in Conns : d # c => conn'[d] = conn[d]
    BY <2>1 DEF TypeOK, LinkTypeOK
  <2>4. Untouched'
    BY <2>1, <2>3 DEF CopyInv, Untouched
  <2>5. OneCopy'
    BY <2>1, <2>2, <2>3, EmptyChannel DEF OneCopy
  <2> QED
    BY <2>1, <2>4, <2>5 DEF CopyInv, RunsAtMostOnce
<1>4. ASSUME AgentDrops, UNCHANGED commandVars PROVE CopyInv'
  <2>1. /\ agentConn' = NoConn /\ UNCHANGED <<conn, relay, mail, ran>>
        /\ wire' = [wire EXCEPT ![agentConn] = <<>>]
    BY <1>4 DEF AgentDrops, commandVars
  <2>2. \A c \in Conns : wire'[c] = <<>> \/ wire'[c] = wire[c]
    BY <2>1 DEF TypeOK, LinkTypeOK
  <2> QED
    BY <2>1, <2>2 DEF CopyInv, Untouched, OneCopy, RunsAtMostOnce
\* A step of one handler or its relay that sends nothing.
<1>5. ASSUME NEW c \in Conns, conn[c].stage # "unused", UNCHANGED <<wire, agentConn, ran>>,
             \A d \in Conns : d # c => /\ conn'[d] = conn[d] /\ relay'[d] = relay[d]
                                       /\ mail'[d] = mail[d],
             conn'[c].stage # "unused", mail'[c] = mail[c] \/ mail'[c] = <<>>
      PROVE  CopyInv'
  <2>1. Untouched'
    BY <1>5 DEF CopyInv, Untouched
  <2>2. OneCopy'
    BY <1>0, <1>5, EmptyChannel DEF CopyInv, OneCopy
  <2> QED
    BY <1>5, <2>1, <2>2 DEF CopyInv, RunsAtMostOnce
<1>6. ASSUME NEW c \in Conns, UNCHANGED commandVars,
             MarkOnline(c) \/ RelaySubscribes(c) \/ Disconnected(c) \/ MarkOffline(c)
             \/ MarkOnlineFails(c) \/ MarkOfflineFails(c)
      PROVE  CopyInv'
  <2>1. conn[c].stage # "unused"
    BY <1>6 DEF MarkOnline, RelaySubscribes, Disconnected, MarkOffline, MarkOnlineFails, MarkOfflineFails, CopyInv, Untouched
  <2>2. UNCHANGED <<wire, agentConn, ran>>
    BY <1>6 DEF MarkOnline, RelaySubscribes, Disconnected, MarkOffline, MarkOnlineFails, MarkOfflineFails, commandVars
  <2>3. \A d \in Conns : d # c => /\ conn'[d] = conn[d] /\ relay'[d] = relay[d]
                                  /\ mail'[d] = mail[d]
    BY <1>6 DEF MarkOnline, RelaySubscribes, Disconnected, MarkOffline, MarkOnlineFails, MarkOfflineFails, TypeOK, LinkTypeOK
  <2>4. conn'[c].stage # "unused"
    BY <1>6, <2>1 DEF MarkOnline, RelaySubscribes, Disconnected, MarkOffline, MarkOnlineFails, MarkOfflineFails, TypeOK, LinkTypeOK
  <2>5. mail'[c] = mail[c] \/ mail'[c] = <<>>
    BY <1>6 DEF MarkOnline, RelaySubscribes, Disconnected, MarkOffline, MarkOnlineFails, MarkOfflineFails, TypeOK, LinkTypeOK
  <2> QED
    BY <1>5, <2>1, <2>2, <2>3, <2>4, <2>5
<1>7. ASSUME NEW c \in Conns, Forward(c), UNCHANGED commandVars PROVE CopyInv'
  <2>1. /\ relay[c] = "listening" /\ mail[c] \in Seq(Requests) /\ mail[c] # <<>>
        /\ UNCHANGED <<conn, agentConn, ran>>
    BY <1>7 DEF Forward, TypeOK, LinkTypeOK, commandVars
  <2>2. conn[c].stage # "unused"
    BY <2>1 DEF CopyInv, Untouched
  <2> DEFINE h == Head(mail[c])
  <2>3. /\ h \in Requests /\ In(h, mail[c])
        /\ \A y : In(y, Tail(mail[c])) => In(y, mail[c])
        /\ Once(mail[c]) => Once(Tail(mail[c])) /\ ~In(h, Tail(mail[c]))
    BY <2>1, TailChannel
  <2>4. \/ mail' = [mail EXCEPT ![c] = Tail(@)] /\ relay' = relay
           /\ wire' = IF c = agentConn THEN [wire EXCEPT ![agentConn] = Append(@, h)] ELSE wire
        \/ mail' = [mail EXCEPT ![c] = <<>>] /\ relay' = [relay EXCEPT ![c] = "ended"]
           /\ wire' = wire
    BY <1>7 DEF Forward, Socket
  <2> HIDE DEF h
  <2>5. \A d \in Conns : d # c => mail'[d] = mail[d] /\ relay'[d] = relay[d] /\ wire'[d] = wire[d]
    BY <2>4 DEF TypeOK, LinkTypeOK
  <2>6. Untouched'
    BY <2>1, <2>2, <2>5 DEF CopyInv, Untouched
  <2>7. CASE c # agentConn
    <3>1. wire' = wire
      BY <2>4, <2>7
    <3>2. OneCopy'
      BY <1>0, <2>1, <2>5, <2>7, <3>1 DEF CopyInv, OneCopy
    <3> QED
      BY <2>1, <2>6, <3>2 DEF CopyInv, RunsAtMostOnce
  <2>8. CASE c = agentConn
    <3>1. wire[c] \in Seq(Requests) /\ c # NoConn
      BY LinkAssumption DEF TypeOK, LinkTypeOK, NoConn
    <3>2. /\ Once(mail[c]) /\ Once(wire[c])
          /\ \A r \in Requests : /\ In(r, mail[c]) => ~In(r, wire[c])
                                 /\ In(r, mail[c]) \/ In(r, wire[c]) => ran[r] = 0
      BY <2>8, <3>1 DEF CopyInv, OneCopy
    <3>3. /\ \A y : In(y, Append(wire[c], h)) <=> In(y, wire[c]) \/ y = h
          /\ Once(Append(wire[c], h))
      BY <2>3, <3>1, <3>2, AppendChannel
    <3>4. \/ mail'[c] = Tail(mail[c]) /\ wire'[c] = Append(wire[c], h)
          \/ mail'[c] = <<>> /\ wire'[c] = wire[c]
      BY <2>4, <2>8 DEF TypeOK, LinkTypeOK
    <3>5. /\ Once(mail'[c]) /\ Once(wire'[c])
          /\ \A r \in Requests : /\ In(r, mail'[c]) => ~In(r, wire'[c])
                                 /\ In(r, mail'[c]) \/ In(r, wire'[c]) => ran[r] = 0
      BY <2>3, <3>2, <3>3, <3>4, EmptyChannel
    <3>6. OneCopy'
      BY <2>1, <2>2, <2>8, <3>5 DEF OneCopy
    <3> QED
      BY <2>1, <2>6, <3>6 DEF CopyInv, RunsAtMostOnce
  <2> QED
    BY <2>7, <2>8
<1>8. ASSUME NEW r \in Requests, Publish(r) PROVE CopyInv'
  <2>1. /\ cmd[r].stage = "confirmed" /\ mail' = Relayed(r)
        /\ UNCHANGED <<conn, relay, wire, agentConn, ran>>
    BY <1>8 DEF Publish
  <2>2. ~Sent(r)
    BY <2>1 DEF Tracked
  <2>3. ran[r] = 0 /\ \A c \in Conns : ~In(r, mail[c]) /\ ~In(r, wire[c])
    BY <2>2 DEF Sent, TypeOK
  <2>4. \A c \in Conns : mail'[c] = IF relay[c] = "listening" THEN Append(mail[c], r) ELSE mail[c]
    BY <2>1 DEF Relayed
  <2>5. Untouched'
    BY <2>1, <2>4 DEF CopyInv, Untouched
  <2>6. OneCopy'
    <3> SUFFICES ASSUME agentConn # NoConn
                 PROVE  /\ conn[agentConn].stage # "unused"
                        /\ Once(mail'[agentConn]) /\ Once(wire[agentConn])
                        /\ \A q \in Requests :
                             /\ In(q, mail'[agentConn]) => ~In(q, wire[agentConn])
                             /\ In(q, mail'[agentConn]) \/ In(q, wire[agentConn]) => ran[q] = 0
      BY <2>1 DEF OneCopy
    <3>1. agentConn \in Conns /\ mail[agentConn] \in Seq(Requests)
      BY <1>0 DEF TypeOK, LinkTypeOK
    <3>2. /\ \A y : In(y, Append(mail[agentConn], r)) <=> In(y, mail[agentConn]) \/ y = r
          /\ Once(mail[agentConn]) => Once(Append(mail[agentConn], r))
      BY <2>3, <3>1, AppendChannel
    <3> QED
      BY <2>3, <2>4, <3>1, <3>2 DEF CopyInv, OneCopy
  <2> QED
    BY <2>1, <2>5, <2>6 DEF CopyInv, RunsAtMostOnce
<1>9. CASE AgentReceives
  <2> DEFINE h == Head(wire[agentConn])
  <2>1. agentConn \in Conns /\ wire[agentConn] \in Seq(Requests) /\ wire[agentConn] # <<>>
        /\ agentConn # NoConn
    BY <1>9 DEF AgentReceives, TypeOK, LinkTypeOK
  <2>2. /\ h \in Requests /\ In(h, wire[agentConn])
        /\ \A y : In(y, Tail(wire[agentConn])) => In(y, wire[agentConn])
        /\ Once(wire[agentConn]) =>
             Once(Tail(wire[agentConn])) /\ ~In(h, Tail(wire[agentConn]))
    BY <2>1, TailChannel
  <2>3. /\ wire' = [wire EXCEPT ![agentConn] = Tail(@)]
        /\ \E executes \in {0, 1} : ran' = [ran EXCEPT ![h] = @ + executes]
        /\ UNCHANGED <<conn, relay, mail, agentConn>>
    BY <1>9 DEF AgentReceives
  <2> HIDE DEF h
  <2>4. ran[h] = 0 /\ ~In(h, mail[agentConn])
    BY <2>1, <2>2 DEF CopyInv, OneCopy
  <2>5. ran'[h] \in {0, 1} /\ \A q \in Requests : q # h => ran'[q] = ran[q]
    BY <2>2, <2>3, <2>4 DEF TypeOK
  <2>6. RunsAtMostOnce'
    BY <2>2, <2>5 DEF CopyInv, RunsAtMostOnce
  <2>7. /\ wire'[agentConn] = Tail(wire[agentConn])
        /\ \A c \in Conns : c # agentConn => wire'[c] = wire[c]
    BY <2>1, <2>3 DEF TypeOK, LinkTypeOK
  <2>8. conn[agentConn].stage # "unused"
    BY <2>1 DEF CopyInv, OneCopy
  <2>9. Untouched'
    BY <2>3, <2>7, <2>8 DEF CopyInv, Untouched
  <2>10. OneCopy'
    BY <2>1, <2>2, <2>3, <2>4, <2>5, <2>7 DEF CopyInv, OneCopy
  <2> QED
    BY <2>6, <2>9, <2>10 DEF CopyInv
<1>10. ASSUME NEW w \in Workers, Die(w) PROVE CopyInv'
  <2> DEFINE Gone == {c \in Conns : conn[c].worker = w /\ conn[c].stage # "unused"}
  <2>1. /\ conn' = [c \in Conns |-> IF c \in Gone THEN [conn[c] EXCEPT !.stage = "closed"] ELSE conn[c]]
        /\ relay' = [c \in Conns |-> IF c \in Gone THEN "ended" ELSE relay[c]]
        /\ mail' = [c \in Conns |-> IF c \in Gone THEN <<>> ELSE mail[c]]
        /\ wire' = [c \in Conns |-> IF c \in Gone THEN <<>> ELSE wire[c]]
        /\ agentConn' = IF agentConn \in Gone THEN NoConn ELSE agentConn
        /\ ran' = ran
    BY <1>10 DEF Die, WorkerDies
  <2> HIDE DEF Gone
  <2>2. \A c \in Gone : conn'[c].stage # "unused"
    BY <2>1 DEF Gone, TypeOK, LinkTypeOK
  <2>3. Untouched'
    BY <2>1, <2>2 DEF CopyInv, Untouched
  <2>4. OneCopy'
    BY <1>0, <2>1 DEF CopyInv, OneCopy
  <2> QED
    BY <2>1, <2>3, <2>4 DEF CopyInv, RunsAtMostOnce
<1> QED
  BY <1>2, <1>3, <1>4, <1>6, <1>7, <1>8, <1>9, <1>10, NextCases

LEMMA OwnNext == Typed /\ OwnResult /\ [OpsNext]_opsVars => OwnResult'
<1> SUFFICES ASSUME Typed, OwnResult, [OpsNext]_opsVars PROVE OwnResult'
  OBVIOUS
<1> USE DEF Typed
\* A step that gives nobody a result.
<1>1. ASSUME \A r \in Requests : cmd'[r].outcome = "result" =>
               cmd[r].outcome = "result" /\ cmd'[r].got = cmd[r].got
      PROVE  OwnResult'
  BY <1>1 DEF OwnResult
<1>2. CASE cmd' = cmd
  BY <1>1, <1>2
<1>3. ASSUME \/ UNCHANGED opsVars
             \/ LinkNext /\ UNCHANGED commandVars
             \/ \E r \in Requests : MappingExpires(r)
             \/ \E t \in Tabs, r \in Requests, a \in Actions, w \in Workers : Reply(t, r, a, w)
             \/ \E t \in Tabs : ReplyWritten(t) \/ ReplyDelivered(t)
             \/ AgentReceives
             \/ \E r \in Requests, c \in Conns : Report(r, c)
      PROVE  OwnResult'
  BY <1>2, <1>3 DEF opsVars, commandVars, MappingExpires, Reply, ReplyWritten,
                    ReplyDelivered, AgentReceives, Report
<1>4. ASSUME NEW r \in Requests, NEW w \in Workers, Ask(r, w) PROVE OwnResult'
  <2>1. /\ \A q \in Requests : q # r => cmd'[q] = cmd[q]
        /\ cmd'[r].outcome \in {"blocked", "none"}
    BY <1>4 DEF Ask, TypeOK
  <2> QED
    BY <1>1, <2>1
<1>5. ASSUME NEW r \in Requests, NEW p \in CmdStages, To(r, p) PROVE OwnResult'
  BY <1>1, <1>5 DEF To, TypeOK
<1>6. ASSUME NEW r \in Requests, NEW o \in Outcomes \ {"result"}, Conclude(r, o) PROVE OwnResult'
  BY <1>1, <1>6 DEF Conclude, TypeOK
<1>7. ASSUME NEW r \in Requests,
             \/ Register(r) \/ Answered(r) \/ Expire(r) \/ Expired(r)
             \/ Publish(r) \/ Listen(r) \/ GiveUp(r)
      PROVE  OwnResult'
  <2>1. Register(r) => To(r, "waiting")
    BY DEF Register
  <2>2. Answered(r) => To(r, "confirmed") \/ Conclude(r, "rejected")
    BY DEF Answered
  <2>3. Expire(r) => To(r, "expiring")
    BY DEF Expire
  <2>4. Expired(r) => Conclude(r, "expired")
    BY DEF Expired
  <2>5. Publish(r) => To(r, "published")
    BY DEF Publish
  <2>6. Listen(r) => To(r, "listening")
    BY DEF Listen
  <2>7. GiveUp(r) => Conclude(r, "timeout")
    BY DEF GiveUp
  <2> QED
    BY <1>5, <1>6, <1>7, <2>1, <2>2, <2>3, <2>4, <2>5, <2>6, <2>7 DEF CmdStages, Outcomes
<1>8. ASSUME NEW r \in Requests, TakeResult(r) PROVE OwnResult'
  <2>1. CASE IsOwn(r, Head(inbox[r]))
    <3>1. cmd' = [cmd EXCEPT ![r].stage = "done", ![r].outcome = "result", ![r].got = r]
      BY <1>8, <2>1 DEF TakeResult, IsOwn
    <3>2. cmd'[r].got = r /\ \A q \in Requests : q # r => cmd'[q] = cmd[q]
      BY <3>1 DEF TypeOK
    <3> QED
      BY <3>2 DEF OwnResult
  <2>2. CASE ~IsOwn(r, Head(inbox[r]))
    BY <1>2, <1>8, <2>2 DEF TakeResult
  <2> QED
    BY <2>1, <2>2
<1>9. ASSUME NEW w \in Workers, Die(w) PROVE OwnResult'
  BY <1>1, <1>9 DEF Die, TypeOK
<1> QED
  BY <1>3, <1>4, <1>7, <1>8, <1>9 DEF OpsNext

\* A command the assistant proposes runs only after a tab confirmed it while
\* it was asked, at most once, and its tool returns no other command's result:
\* for any number of workers, connections and tabs, with lost connections,
\* copies for every relay, late answers and killed workers.
THEOREM CommandsRunAsConfirmed == OpsSpec => []RunsAsConfirmed
<1>1. Typed /\ CommandInv /\ [OpsNext]_opsVars => CommandInv'
  BY ApprovedNext, TrackedNext, CopyNext, OwnNext DEF CommandInv
<1>2. Typed /\ CommandInv => RunsAsConfirmed
  <2> SUFFICES ASSUME Typed, CommandInv PROVE RunsAsConfirmed
    OBVIOUS
  <2>1. OnlyConfirmedRuns
    BY DEF CommandInv, Tracked, Sent, OnlyConfirmedRuns
  <2> QED
    BY <2>1 DEF CommandInv, CopyInv, RunsAsConfirmed
<1> QED
  BY TypeInit, TypeNext, CommandInit, <1>1, <1>2, PTL DEF OpsSpec

-----------------------------------------------------------------------------
(* The online flag.                                                        *)

LEMMA OnlineNext == Typed /\ OnlineIsBacked /\ [OpsNext]_opsVars => OnlineIsBacked'
<1> SUFFICES ASSUME Typed, OnlineIsBacked, [OpsNext]_opsVars PROVE OnlineIsBacked'
  OBVIOUS
<1> USE DEF Typed
<1>1. CASE UNCHANGED <<conn, online, left>>
  BY <1>1 DEF OnlineIsBacked
<1>2. ASSUME \/ UNCHANGED linkVars
             \/ AgentReceives
             \/ AgentDrops
             \/ \E r \in Requests : Publish(r)
             \/ \E c \in Conns : RelaySubscribes(c) \/ Forward(c)
      PROVE  OnlineIsBacked'
  BY <1>1, <1>2 DEF linkVars, AgentReceives, AgentDrops, Publish, RelaySubscribes, Forward
<1>3. ASSUME NEW c \in Conns, NEW w \in Workers, AgentConnects(c, w) PROVE OnlineIsBacked'
  BY <1>3 DEF AgentConnects, OnlineIsBacked, TypeOK, LinkTypeOK
<1>4. ASSUME NEW c \in Conns, MarkOnline(c) \/ Disconnected(c) PROVE OnlineIsBacked'
  <2>1. conn'[c].stage \in {"open", "leaving"}
    BY <1>4 DEF MarkOnline, Disconnected, TypeOK, LinkTypeOK
  <2> QED
    BY <2>1 DEF OnlineIsBacked
<1>5. ASSUME NEW c \in Conns, MarkOffline(c) \/ MarkOfflineFails(c) PROVE OnlineIsBacked'
  BY <1>5 DEF MarkOffline, MarkOfflineFails, OnlineIsBacked
<1>6. ASSUME NEW w \in Workers, Die(w) PROVE OnlineIsBacked'
  BY <1>6 DEF Die, WorkerDies, OnlineIsBacked
<1>9. ASSUME NEW c \in Conns, MarkOnlineFails(c) PROVE OnlineIsBacked'
  <2>1. PICK added \in BOOLEAN : online' = (online \/ added) /\ left' = (left \/ added)
    BY <1>9 DEF MarkOnlineFails
  <2>2. \A d \in Conns : conn[d].stage \in {"open", "leaving"} => conn'[d] = conn[d]
    BY <1>9 DEF MarkOnlineFails, TypeOK, LinkTypeOK
  <2> QED
    BY <2>1, <2>2 DEF OnlineIsBacked
<1>7. ASSUME \/ \E r \in Requests, w \in Workers : Ask(r, w)
             \/ \E r \in Requests :
                  \/ Register(r) \/ Answered(r) \/ Expire(r) \/ Expired(r)
                  \/ Listen(r) \/ TakeResult(r) \/ GiveUp(r) \/ MappingExpires(r)
             \/ \E t \in Tabs, r \in Requests, a \in Actions, w \in Workers : Reply(t, r, a, w)
             \/ \E t \in Tabs : ReplyWritten(t) \/ ReplyDelivered(t)
             \/ \E r \in Requests, c \in Conns : Report(r, c)
      PROVE  UNCHANGED linkVars
  BY <1>7 DEF Ask, Register, Answered, Expire, Expired, Listen, TakeResult, GiveUp,
              MappingExpires, Reply, ReplyWritten, ReplyDelivered, Report
<1>8. UNCHANGED opsVars => UNCHANGED linkVars
  BY DEF opsVars
<1> QED
  BY <1>2, <1>3, <1>4, <1>5, <1>6, <1>7, <1>8, <1>9, NextCases

\* A host is shown online without a running handler only after a handler could
\* not remove it: it was killed, or Redis failed and the exception was swallowed.
THEOREM OnlineFlagIsBacked == OpsSpec => []OnlineIsBacked
<1>1. OpsInit => OnlineIsBacked
  BY DEF OpsInit, LinkInit, OnlineIsBacked
<1> QED
  BY TypeInit, TypeNext, OnlineNext, <1>1, PTL DEF OpsSpec
=============================================================================
