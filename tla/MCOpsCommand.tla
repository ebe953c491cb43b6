---------------------------- MODULE MCOpsCommand ----------------------------
(***************************************************************************)
(* OpsCommand on a small instance, as the union of slices that each keep   *)
(* one side busy: in "answers" two tabs answer one request as they like;   *)
(* in "loops" two workers run a command of the session each; in "links"    *)
(* the agent reconnects, to any worker, while two commands run one after   *)
(* the other; in "crash" a worker is killed; in "redis" the commands that  *)
(* keep the set of hosts online may fail.                                  *)
(***************************************************************************)
EXTENDS OpsCommand

VARIABLE slice
mcVars == <<opsVars, slice>>

FirstWorker == CHOOSE w \in Workers : TRUE
FirstTab == CHOOSE t \in Tabs : TRUE

\* One connection of the agent, to the first worker, that never breaks.
SteadyLink ==
  /\ crashes = 0
  /\ conn[1].stage \in {"unused", "accepted", "open"} /\ agentConn # 2
  /\ conn[1].stage # "unused" => agentConn = 1 /\ conn[1].worker = FirstWorker

\* One tab that confirms what is asked, while it is asked.
Confirming ==
  /\ sent <= 2
  /\ \A t \in Tabs : reply[t] # Idle =>
       t = FirstTab /\ reply[t].action = "confirm" /\ reply[t].live

InSlice ==
  \/ slice = "answers" /\ SteadyLink /\ cmd[2].stage = "idle"
  \/ slice = "loops" /\ SteadyLink /\ Confirming
  \/ slice = "links" /\ crashes = 0 /\ Confirming /\ conn[1].worker = FirstWorker
     /\ \A r \in Requests : cmd[r].worker = FirstWorker
  \/ slice = "crash" /\ Confirming /\ cmd[2].stage = "idle" /\ (conn[2].stage # "unused" => crashes > 0)
  \/ slice = "redis" /\ crashes = 0 /\ Confirming /\ cmd[2].stage = "idle" /\ conn[1].worker = FirstWorker

MCInit == OpsInit /\ slice \in {"answers", "loops", "links", "crash", "redis"}
RedisFails == \E c \in Conns : MarkOnlineFails(c) \/ MarkOfflineFails(c)
MCNext ==
  OpsNext /\ UNCHANGED slice /\ InSlice' /\ (RedisFails => slice = "redis")

MCFairness ==
  \A r \in Requests :
    WF_mcVars((Register(r) \/ Answered(r) \/ Expire(r) \/ Expired(r) \/ Publish(r) \/ Listen(r) \/ GiveUp(r))
              /\ UNCHANGED slice)
MCSpec == MCInit /\ [][MCNext]_mcVars /\ MCFairness
=============================================================================
