------------------------------ MODULE LiveTail -------------------------------
(***************************************************************************)
(* What browsers are shown while it happens: the batches of log lines that *)
(* one process of the API has stored, through a bounded queue per          *)
(* WebSocket, and the diagnoses of the demo page, through event streams    *)
(* that take a slot each. Every one of the worker processes has subscribers *)
(* and slots of its own; this is one of them.                              *)
(***************************************************************************)
EXTENDS Naturals, Sequences, FiniteSets, Functions

CONSTANTS
  Tails,      \* WebSockets of /ws/logs
  Capacity,   \* batches that a queue holds, 100
  Streams,    \* event streams
  Ips,
  MaxSlots,   \* demo_sse_max_clients
  MaxPerIp,   \* 5
  MaxBatches  \* bound on the batches

ASSUME LiveTailAssumption == {Capacity, MaxSlots, MaxPerIp} \subseteq Nat \ {0}

VARIABLES
  committed,  \* batches in log_entries that are not published yet
  published,  \* batches published so far, which are numbered in that order
  tails,      \* [at, filtered, gone, since, queue, taken]
  shownTo,    \* history: the batches each tail was sent
  streams,    \* [pc, ip]
  slots,      \* _connection_count
  ipSlots,    \* _ip_connections
  throttled   \* the addresses whose last trigger was less than 5 s ago

tailVars == <<committed, published, tails, shownTo>>
streamVars == <<streams, slots, ipSlots, throttled>>
liveTailVars == <<tailVars, streamVars>>

Closed == [at |-> "closed", filtered |-> FALSE, gone |-> FALSE, since |-> 0,
           queue |-> <<>>, taken |-> 0]
NoStream(s) == [pc |-> "no", ip |-> CHOOSE ip \in Ips : TRUE]

LiveTailInit ==
  /\ committed = 0 /\ published = 0
  /\ tails = [t \in Tails |-> Closed] /\ shownTo = [t \in Tails |-> {}]
  /\ streams = [s \in Streams |-> NoStream(s)]
  /\ slots = 0 /\ ipSlots = [ip \in Ips |-> 0] /\ throttled = {}

\* Mutant: a full queue takes no more, as that of the class in routers/logs.py did.
PutIfRoom(queue, batch) == IF Len(queue) < Capacity THEN Append(queue, batch) ELSE queue

\* publish makes room by dropping the oldest batch.
Put(queue, batch) == Append(IF Len(queue) < Capacity THEN queue ELSE Tail(queue), batch)

\* ingest_logs: the rows are committed first, then the batch is published to
\* the subscribers of this process. Of two requests, either may come first.
StoreBatch ==
  /\ committed + published < MaxBatches /\ committed' = committed + 1
  /\ UNCHANGED <<published, tails, shownTo, streamVars>>

Subscribed(t) == tails[t].at # "closed"

PublishBatch ==
  /\ committed > 0 /\ committed' = committed - 1
  /\ published' = published + 1
  /\ tails' = [t \in Tails |-> IF Subscribed(t)
                 THEN [tails[t] EXCEPT !.queue = Put(@, published + 1)] ELSE tails[t]]
  /\ UNCHANGED <<shownTo, streamVars>>

\* The token and its session are looked at here and never again.
OpenTail(t, filtered) ==
  /\ ~ Subscribed(t)
  /\ tails' = [tails EXCEPT ![t] = [Closed EXCEPT !.at = "open", !.filtered = filtered,
                                                  !.since = published]]
  /\ shownTo' = [shownTo EXCEPT ![t] = {}]
  /\ UNCHANGED <<committed, published, streamVars>>

\* What is published is a list of lines. A filter asks it for a field of a
\* line: AttributeError, and the tail is closed and unsubscribed.
TakeBatch(t) ==
  /\ tails[t].at = "open" /\ tails[t].queue # <<>>
  /\ tails' = [tails EXCEPT ![t] =
       IF @.filtered THEN Closed
       ELSE [@ EXCEPT !.at = "sending", !.taken = Head(tails[t].queue),
                      !.queue = Tail(tails[t].queue)]]
  /\ UNCHANGED <<committed, published, shownTo, streamVars>>

\* A browser that left is noticed when something is sent to it.
SendBatch(t) ==
  /\ tails[t].at = "sending"
  /\ IF tails[t].gone
     THEN tails' = [tails EXCEPT ![t] = Closed] /\ UNCHANGED shownTo
     ELSE /\ tails' = [tails EXCEPT ![t].at = "open"]
          /\ shownTo' = [shownTo EXCEPT ![t] = @ \cup {tails[t].taken}]
  /\ UNCHANGED <<committed, published, streamVars>>

Leave(t) ==
  /\ Subscribed(t) /\ ~ tails[t].gone
  /\ tails' = [tails EXCEPT ![t].gone = TRUE]
  /\ UNCHANGED <<committed, published, shownTo, streamVars>>

-----------------------------------------------------------------------------
(* /api/v1/demo/alerts/stream and /trigger                                 *)

\* Mutant: the slots of one address are not looked at.
HasSlotAtAll(ip) == slots < MaxSlots
HasSlot(ip) == slots < MaxSlots /\ ipSlots[ip] < MaxPerIp

\* The lock covers the check and the count: a slot is taken before the answer starts.
Connect(s, ip) ==
  /\ streams[s].pc = "no" /\ HasSlot(ip)
  /\ streams' = [streams EXCEPT ![s] = [pc |-> "accepted", ip |-> ip]]
  /\ slots' = slots + 1 /\ ipSlots' = [ipSlots EXCEPT ![ip] = @ + 1]
  /\ UNCHANGED <<tailVars, throttled>>

\* The generator says that it is connected, then subscribes.
Start(s) ==
  /\ streams[s].pc = "accepted" /\ streams' = [streams EXCEPT ![s].pc = "connected"]
  /\ UNCHANGED <<tailVars, slots, ipSlots, throttled>>

Subscribe(s) ==
  /\ streams[s].pc = "connected" /\ streams' = [streams EXCEPT ![s].pc = "live"]
  /\ UNCHANGED <<tailVars, slots, ipSlots, throttled>>

\* The stream ends, by an error or because the browser left, and the "finally"
\* of the generator gives the slot back.
Release(s) ==
  /\ streams[s].pc \in {"connected", "live"}
  /\ streams' = [streams EXCEPT ![s] = NoStream(s)]
  /\ slots' = slots - 1
  /\ ipSlots' = [ipSlots EXCEPT ![streams[s].ip] = IF @ > 0 THEN @ - 1 ELSE 0]
  /\ UNCHANGED <<tailVars, throttled>>

\* A generator that never started has no "finally", and that of one which is
\* cancelled is cancelled again where it awaits the end of its subscription.
Leak(s) ==
  /\ streams[s].pc \in {"accepted", "live"}
  /\ streams' = [streams EXCEPT ![s].pc = "lost"]
  /\ UNCHANGED <<tailVars, slots, ipSlots, throttled>>

\* trigger_demo_alert: the 5 s begin before Redis is asked, whether it answers
\* or not. What the live streams show of it is left out.
Trigger(ip) ==
  /\ ip \notin throttled /\ throttled' = throttled \cup {ip}
  /\ UNCHANGED <<tailVars, streams, slots, ipSlots>>

FiveSecondsPass(ip) ==
  /\ ip \in throttled /\ throttled' = throttled \ {ip}
  /\ UNCHANGED <<tailVars, streams, slots, ipSlots>>

LiveTailNext ==
  \/ StoreBatch \/ PublishBatch
  \/ \E t \in Tails : \/ TakeBatch(t) \/ SendBatch(t) \/ Leave(t)
                      \/ \E filtered \in BOOLEAN : OpenTail(t, filtered)
  \/ \E s \in Streams : \/ Start(s) \/ Subscribe(s) \/ Release(s) \/ Leak(s)
                        \/ \E ip \in Ips : Connect(s, ip)
  \/ \E ip \in Ips : Trigger(ip) \/ FiveSecondsPass(ip)

LiveTailSpec == LiveTailInit /\ [][LiveTailNext]_liveTailVars

(***************************************************************************)
(* A browser that is slow misses old batches and no new ones: of what was  *)
(* published since it subscribed, each of the newest batches is shown, is  *)
(* being sent or waits in its queue.                                       *)
(***************************************************************************)
NewestKept ==
  \A t \in Tails : Subscribed(t) =>
    \A batch \in tails[t].since + 1 .. published :
      batch + Capacity > published =>
        batch \in shownTo[t] \cup {tails[t].taken} \cup Range(tails[t].queue)

(***************************************************************************)
(* The streams being served have the slots: no address has more than its   *)
(* share of them, and all together are within the limit.                   *)
(***************************************************************************)
Served == {s \in Streams : streams[s].pc \in {"accepted", "connected", "live"}}

StreamsAreCounted ==
  /\ Cardinality(Served) <= slots /\ slots <= MaxSlots
  /\ \A ip \in Ips : Cardinality({s \in Served : streams[s].ip = ip}) <= MaxPerIp

\* What the counters are for and what does not hold: a slot that nobody uses
\* is free. Each one that is lost is lost until the process restarts.
SlotsAreFreed == slots = Cardinality(Served)
=============================================================================
