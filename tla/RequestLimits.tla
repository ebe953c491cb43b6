---------------------------- MODULE RequestLimits ----------------------------
(***************************************************************************)
(* The limit on the frequency of requests: a sorted set in Redis for every *)
(* path and caller, with one member for every second in which a request    *)
(* came. A request is stamped by one of the processes and counted by Redis *)
(* a little later, so that stamps need not be counted in their order.      *)
(***************************************************************************)
EXTENDS Integers, FiniteSets, FiniteSetsExt

CONSTANTS
  Users, Nobody,                    \* Nobody: a request without an access token in its header
  Addresses,
  UserPaths,                        \* paths whose rule counts per user
  AddressPaths,                     \* and per address
  MaxInWindow, Window,              \* of the rules
  MaxSecond, MaxInFlight, MaxInAll  \* bounds

\* In a key a user is "user_..." and an address is "ip_...".
ASSUME RequestLimitsAssumption ==
  /\ Nobody \notin Users /\ Users \cap Addresses = {}
  /\ {MaxInWindow, Window} \subseteq Nat \ {0}

Paths == UserPaths \cup AddressPaths
Requests == [path : Paths, user : Users \cup {Nobody}, address : Addresses]

VARIABLES
  second,
  inFlight,  \* requests that are stamped and not counted: [request, stamp]
  counts,    \* the sorted set of each key
  made,      \* history: the requests and stamps of those that were counted, with their number
  refusal    \* history: the last request that was counted, if it was refused

limitVars == <<second, inFlight, counts, made, refusal>>

\* Mutant: whose requests they are is not part of the key.
KeyByAddress(r) == <<r.path, r.address>>

\* _build_rate_limit_key. A rule that counts per user falls back on the address.
Key(r) == <<r.path, IF r.path \in UserPaths /\ r.user # Nobody THEN r.user ELSE r.address>>
Keys == {Key(r) : r \in Requests}

LimitsInit ==
  /\ second = 1 /\ inFlight = {} /\ counts = [k \in {Key(r) : r \in Requests} |-> {}]
  /\ made = {} /\ refusal = {}

Stamp(r) ==
  /\ Cardinality(inFlight) < MaxInFlight /\ Cardinality(made) + Cardinality(inFlight) < MaxInAll
  /\ inFlight' = inFlight \cup {[request |-> r, stamp |-> second,
                                 number |-> Cardinality(made) + Cardinality(inFlight)]}
  /\ UNCHANGED <<second, counts, made, refusal>>

\* One pipeline: old members go, this second is added (once), and all are counted.
Counted(k, stamp) == {s \in counts[k] : s > stamp - Window} \cup {stamp}

CountRequest(f) ==
  LET k == Key(f.request) IN
  /\ counts' = [counts EXCEPT ![k] = Counted(k, f.stamp)]
  /\ refusal' = IF Cardinality(Counted(k, f.stamp)) > MaxInWindow THEN {f} ELSE {}
  /\ inFlight' = inFlight \ {f} /\ made' = made \cup {f}
  /\ UNCHANGED second

\* Redis does not answer, or the switch is off: the request passes.
PassUncounted(f) ==
  /\ inFlight' = inFlight \ {f} /\ refusal' = {}
  /\ UNCHANGED <<second, counts, made>>

\* Redis starts again without its data.
LoseCounts ==
  /\ \E k \in DOMAIN counts : counts[k] # {}
  /\ counts' = [k \in DOMAIN counts |-> {}] /\ refusal' = {}
  /\ UNCHANGED <<second, inFlight, made>>

\* A request is counted within a second.
SecondPasses ==
  /\ second < MaxSecond /\ \A f \in inFlight : f.stamp = second
  /\ second' = second + 1 /\ refusal' = {}
  /\ UNCHANGED <<inFlight, counts, made>>

LimitsNext ==
  \/ \E r \in Requests : Stamp(r)
  \/ \E f \in inFlight : CountRequest(f) \/ PassUncounted(f)
  \/ LoseCounts \/ SecondPasses

LimitsSpec == LimitsInit /\ [][LimitsNext]_limitVars

(***************************************************************************)
(* Who is refused has asked too often: the same caller has made more       *)
(* requests of that path than the rule allows, in the seconds after the    *)
(* one that is a window back. So a caller that waits as long as the answer *)
(* says is let through, whatever others ask for.                           *)
(***************************************************************************)
SameCaller(r, q) ==
  /\ r.path = q.path
  /\ IF r.path \in UserPaths /\ r.user # Nobody THEN r.user = q.user
     ELSE r.address = q.address /\ (r.path \in UserPaths => q.user = Nobody)

RefusedRightly ==
  \A f \in refusal :
    Cardinality({g \in made : /\ SameCaller(f.request, g.request)
                              /\ g.stamp > f.stamp - Window}) > MaxInWindow

\* What the rules say and what does not hold: as many requests as a rule
\* allows and one more are refused. The requests of a second count as one.
LimitIsReached ==
  \A r \in Requests :
    LET mine == {g \in made : SameCaller(r, g.request) /\ g.stamp > second - Window}
    IN  Cardinality(mine) <= MaxInWindow + MaxInFlight
=============================================================================
