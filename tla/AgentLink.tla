------------------------------ MODULE AgentLink ------------------------------
(***************************************************************************)
(* The WebSocket between the agent of one host and the backend's workers:  *)
(* the endpoint agent_websocket with its registry agent_ws_clients (one    *)
(* per worker), the set agent_ws_online in Redis (shared by all workers),  *)
(* the relay task _redis_pubsub_listener of every connection, and the      *)
(* agent's reconnecting thread AgentReporter._connect_websocket.           *)
(*                                                                         *)
(* The two ends learn of a broken connection at different times: the agent *)
(* drops it and reconnects, perhaps to another worker, while the handler   *)
(* of the old connection still waits in receive_text.                      *)
(***************************************************************************)
EXTENDS Naturals, Sequences

CONSTANTS
  Workers,      \* backend processes
  Conns,        \* connections the agent opens, one after the other
  Requests,     \* identifiers of the commands that are relayed
  MaxCrashes    \* bound on the workers killed without cleaning up

ASSUME LinkAssumption ==
  /\ Workers # {}
  /\ Conns \subseteq Nat \ {0}
  /\ MaxCrashes \in Nat

NoConn == 0

VARIABLES
  clients,      \* agent_ws_clients[host_id] of every worker
  online,       \* host_id \in agent_ws_online
  conn,         \* the handler of every connection: its worker and its stage
  relay,        \* the relay task of every connection
  mail,         \* messages in the relay's subscription, not yet forwarded
  wire,         \* messages sent to the agent, not yet received
  agentConn,    \* the connection the agent holds (AgentReporter._ws)
  left,         \* history: the set holds a host that a handler failed to remove
  crashes

linkVars == <<clients, online, conn, relay, mail, wire, agentConn, left, crashes>>

Stages == {"unused", "accepted", "open", "leaving", "closed"}

LinkTypeOK ==
  /\ clients \in [Workers -> Conns \cup {NoConn}]
  /\ online \in BOOLEAN
  /\ conn \in [Conns -> [worker : Workers, stage : Stages]]
  /\ relay \in [Conns -> {"none", "starting", "listening", "ended"}]
  /\ mail \in [Conns -> Seq(Requests)]
  /\ wire \in [Conns -> Seq(Requests)]
  /\ agentConn \in Conns \cup {NoConn}
  /\ left \in BOOLEAN
  /\ crashes \in 0..MaxCrashes

LinkInit ==
  /\ clients = [w \in Workers |-> NoConn]
  /\ online = FALSE
  /\ conn = [c \in Conns |-> [worker |-> CHOOSE w \in Workers : TRUE, stage |-> "unused"]]
  /\ relay = [c \in Conns |-> "none"]
  /\ mail = [c \in Conns |-> <<>>]
  /\ wire = [c \in Conns |-> <<>>]
  /\ agentConn = NoConn
  /\ left = FALSE
  /\ crashes = 0

-----------------------------------------------------------------------------
(* The agent's side: connect when there is no connection; notice a loss.   *)

\* The handler accepts, checks the token and registers the socket; a wrong
\* token closes it and leaves nothing behind.
AgentConnects(c, w) ==
  /\ agentConn = NoConn
  /\ conn[c].stage = "unused"
  /\ \A d \in Conns : d < c => conn[d].stage # "unused"
  /\ agentConn' = c
  /\ conn' = [conn EXCEPT ![c] = [worker |-> w, stage |-> "accepted"]]
  /\ clients' = [clients EXCEPT ![w] = c]
  /\ UNCHANGED <<online, relay, mail, wire, left, crashes>>

AgentDrops ==
  /\ agentConn # NoConn
  /\ agentConn' = NoConn
  /\ wire' = [wire EXCEPT ![agentConn] = <<>>]
  /\ UNCHANGED <<clients, online, conn, relay, mail, left, crashes>>

-----------------------------------------------------------------------------
(* The server's side.                                                      *)

MarkOnline(c) ==
  /\ conn[c].stage = "accepted"
  /\ conn' = [conn EXCEPT ![c].stage = "open"]
  /\ online' = TRUE
  /\ relay' = [relay EXCEPT ![c] = "starting"]
  /\ UNCHANGED <<clients, mail, wire, agentConn, left, crashes>>

\* get_redis or SADD raises, with or without its effect, before the try block:
\* the handler ends, its entry in the registry stays and no relay is started.
MarkOnlineFails(c) ==
  /\ conn[c].stage = "accepted"
  /\ conn' = [conn EXCEPT ![c].stage = "closed"]
  /\ \E added \in BOOLEAN : online' = (online \/ added) /\ left' = (left \/ added)
  /\ UNCHANGED <<clients, relay, mail, wire, agentConn, crashes>>

RelaySubscribes(c) ==
  /\ relay[c] = "starting"
  /\ relay' = [relay EXCEPT ![c] = "listening"]
  /\ UNCHANGED <<clients, online, conn, mail, wire, agentConn, left, crashes>>

\* Mutant: the message goes to the registered socket instead of the relay's own.
SocketRegistered(c) == clients[conn[c].worker]

\* The socket a relay sends on: the one it was started for.
Socket(c) == c

\* A message of the subscription. Without an entry in the registry the loop
\* ends, and with it the subscription; a send on a socket the agent has
\* left disappears or raises, which ends the loop as well.
Forward(c) ==
  /\ relay[c] = "listening"
  /\ mail[c] # <<>>
  /\ \/ /\ clients[conn[c].worker] # NoConn
        /\ mail' = [mail EXCEPT ![c] = Tail(@)]
        /\ wire' = IF Socket(c) = agentConn
                   THEN [wire EXCEPT ![agentConn] = Append(@, Head(mail[c]))] ELSE wire
        /\ UNCHANGED relay
     \/ /\ clients[conn[c].worker] = NoConn \/ Socket(c) # agentConn
        /\ relay' = [relay EXCEPT ![c] = "ended"]
        /\ mail' = [mail EXCEPT ![c] = <<>>]
        /\ UNCHANGED wire
  /\ UNCHANGED <<clients, online, conn, agentConn, left, crashes>>

\* The handler notices that its connection is gone, or raises while it routes
\* a message of the agent. Its finally block cancels the relay and deletes the
\* host's entry, whichever connection it is of.
Disconnected(c) ==
  /\ conn[c].stage = "open"
  /\ conn' = [conn EXCEPT ![c].stage = "leaving"]
  /\ clients' = [clients EXCEPT ![conn[c].worker] = NoConn]
  /\ relay' = [relay EXCEPT ![c] = "ended"]
  /\ mail' = [mail EXCEPT ![c] = <<>>]
  /\ UNCHANGED <<online, wire, agentConn, left, crashes>>

\* Mutant: the finally block forgets the shared set.
MarkOfflineNot(c) ==
  /\ conn[c].stage = "leaving"
  /\ conn' = [conn EXCEPT ![c].stage = "closed"]
  /\ UNCHANGED <<clients, online, relay, mail, wire, agentConn, left, crashes>>

MarkOffline(c) ==
  /\ conn[c].stage = "leaving"
  /\ conn' = [conn EXCEPT ![c].stage = "closed"]
  /\ online' = FALSE
  /\ left' = FALSE
  /\ UNCHANGED <<clients, relay, mail, wire, agentConn, crashes>>

\* SREM raises and is swallowed (one that raises after its effect is as above).
MarkOfflineFails(c) ==
  /\ conn[c].stage = "leaving"
  /\ conn' = [conn EXCEPT ![c].stage = "closed"]
  /\ left' = (left \/ online)
  /\ UNCHANGED <<clients, online, relay, mail, wire, agentConn, crashes>>

\* A worker is killed: no finally block runs, agent_ws_online keeps the host.
WorkerDies(w) ==
  LET Gone == {c \in Conns : conn[c].worker = w /\ conn[c].stage # "unused"} IN
  /\ crashes < MaxCrashes
  /\ crashes' = crashes + 1
  /\ clients' = [clients EXCEPT ![w] = NoConn]
  /\ conn' = [c \in Conns |-> IF c \in Gone THEN [conn[c] EXCEPT !.stage = "closed"] ELSE conn[c]]
  /\ relay' = [c \in Conns |-> IF c \in Gone THEN "ended" ELSE relay[c]]
  /\ mail' = [c \in Conns |-> IF c \in Gone THEN <<>> ELSE mail[c]]
  /\ wire' = [c \in Conns |-> IF c \in Gone THEN <<>> ELSE wire[c]]
  /\ agentConn' = IF agentConn \in Gone THEN NoConn ELSE agentConn
  /\ left' = (left \/ online)
  /\ UNCHANGED online

\* redis.publish on cmd_to_agent:{host_id}: every relay that has subscribed
\* gets a copy; what is published while none has is gone.
Relayed(r) == [c \in Conns |-> IF relay[c] = "listening" THEN Append(mail[c], r) ELSE mail[c]]

LinkNext ==
  \/ \E c \in Conns, w \in Workers : AgentConnects(c, w)
  \/ AgentDrops
  \/ \E c \in Conns : \/ MarkOnline(c)
                      \/ MarkOnlineFails(c)
                      \/ RelaySubscribes(c)
                      \/ Forward(c)
                      \/ Disconnected(c)
                      \/ MarkOffline(c)
                      \/ MarkOfflineFails(c)

-----------------------------------------------------------------------------
(* Properties.                                                             *)

\* A host is shown online without a running handler only when a handler could
\* not remove it (it was killed, or its SADD or SREM failed), and only until
\* some handler of the host has removed it after that (agent.py: sadd on
\* connect, srem in the finally block, its exception swallowed).
OnlineIsBacked ==
  online /\ ~left => \E c \in Conns : conn[c].stage \in {"open", "leaving"}

\* "which hosts currently have a WS connection (visible to all workers)":
\* a host whose agent holds a connection with a running handler is in
\* agent_ws_online. An old handler's finally block removes it.
OnlineShowsConnection ==
  agentConn # NoConn /\ conn[agentConn].stage = "open" => online
=============================================================================
