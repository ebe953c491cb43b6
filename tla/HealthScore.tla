----------------------------- MODULE HealthScore -----------------------------
(***************************************************************************)
(* The health score of the dashboard, and the loop that pushes it to a     *)
(* browser. The loop reads one count after the other, each in a snapshot   *)
(* of its own, while the counts change; the score is computed from what it *)
(* read. Usage is in tenths of a percent, a penalty of it in hundredths of *)
(* a point; the usage None of no values is 0 here, as neither costs any.   *)
(***************************************************************************)
EXTENDS Integers

CONSTANTS
  HostTotal, ServiceTotal,  \* hosts and active services at the start
  Alerts, Errors, Usages,   \* sets of numbers that the instance starts with
  MaxChanges                \* bound on changes of the counts

ASSUME HealthAssumption ==
  /\ {HostTotal, ServiceTotal} \subseteq Nat
  /\ Alerts \cup Errors \subseteq Nat /\ Usages \subseteq 0 .. 1000

VARIABLES
  now,          \* the counts in the database
  seen,         \* those the loop has read
  stage,        \* the next count to read, or "sleep", "send", "closed"
  began,        \* history: those in the database when the reading began
  better,       \* history: something got better since then
  torn,         \* history: a host came or went between the two counts of hosts
  changes

healthVars == <<now, seen, stage, began, better, torn, changes>>

\* Python rounds a half to the even neighbour.
Rounded(n, d) ==
  LET q == n \div d
      twice == 2 * (n % d)
  IN  IF twice > d \/ (twice = d /\ q % 2 = 1) THEN q + 1 ELSE q

Least(a, b) == IF a < b THEN a ELSE b
Most(a, b) == IF a > b THEN a ELSE b

\* A share of the points, and a minimum as soon as there is a problem.
RatioPenalty(problems, total, points, atLeast) ==
  IF problems <= 0 \/ total <= 0 THEN 0
  ELSE Least(points, Most(atLeast, Rounded(problems * points, total)))

\* Mutant: the points of the middle range are lost beyond it.
ResourcePenaltyGap(usage, warning, high, critical, points) ==
  IF usage <= 10 * warning THEN 0
  ELSE LET over(limit) == usage - 10 * limit
           penalty == IF usage <= 10 * high THEN 2 * over(warning)
                      ELSE 20 * (high - warning) +
                           IF usage <= 10 * critical THEN 5 * over(high) ELSE 9 * over(critical)
       IN  Least(points, Most(1, Rounded(penalty, 100)))

\* Steeper with each range: 0.2, 0.5 and 0.9 points per percent.
ResourcePenalty(usage, warning, high, critical, points) ==
  IF usage <= 10 * warning THEN 0
  ELSE LET over(limit) == usage - 10 * limit
           penalty == IF usage <= 10 * high THEN 2 * over(warning)
                      ELSE IF usage <= 10 * critical
                           THEN 20 * (high - warning) + 5 * over(high)
                           ELSE 20 * (high - warning) + 50 * (critical - high) + 9 * over(critical)
       IN  Least(points, Most(1, Rounded(penalty, 100)))

\* Acknowledged alerts count only when none is firing.
AlertPenalty(firing, active) ==
  IF firing > 0 THEN Least(20, 4 + (firing - 1) * 4)
  ELSE IF active > 0 THEN Least(8, 2 + active) ELSE 0

ErrorPenalty(errors) == IF errors = 0 THEN 0 ELSE Least(12, 2 + 2 * ((errors + 9) \div 10))

\* Hosts that reported nothing for an hour.
SilencePenalty(hosts, metered) == IF hosts > 0 /\ ~ metered THEN 10 ELSE 0

Offline(c) == c.hosts - c.online

\* _build_health_breakdown
Breakdown(c) ==
  << RatioPenalty(Offline(c), c.hosts, 30, 8), RatioPenalty(c.down, c.services, 24, 6),
     AlertPenalty(c.firing, c.active), ErrorPenalty(c.errors),
     ResourcePenalty(c.cpu, 60, 75, 90, 16), ResourcePenalty(c.memory, 65, 80, 92, 18),
     ResourcePenalty(c.disk, 70, 85, 95, 14), SilencePenalty(c.hosts, c.metered) >>

Score(c) ==
  LET b == Breakdown(c)
  IN  Most(0, 100 - (b[1] + b[2] + b[3] + b[4] + b[5] + b[6] + b[7] + b[8]))

\* The queries the score needs, in the order of _collect_dashboard_data.
NextStage == [hosts |-> "online", online |-> "services", services |-> "down", down |-> "firing",
              firing |-> "active", active |-> "errors", errors |-> "usage", usage |-> "send"]

HealthInit ==
  /\ \E offline \in 0 .. 1, alerts, firing \in Alerts, errors \in Errors, usage \in Usages :
       /\ firing <= alerts /\ offline <= HostTotal
       /\ now = [hosts |-> HostTotal, online |-> HostTotal - offline, services |-> ServiceTotal, down |-> 0,
                 firing |-> firing, active |-> alerts, errors |-> errors,
                 cpu |-> usage, memory |-> usage, disk |-> usage, metered |-> TRUE]
  /\ seen = now /\ began = now /\ stage = "sleep"
  /\ better = FALSE /\ torn = FALSE /\ changes = 0

\* 30 s after the last push, or after the connection.
BeginPush ==
  /\ stage = "sleep" /\ stage' = "hosts"
  /\ seen' = now /\ began' = now /\ better' = FALSE /\ torn' = FALSE
  /\ UNCHANGED <<now, changes>>

\* The latest metrics of all hosts, for the three averages, are one query.
ReadCount ==
  /\ stage \in DOMAIN NextStage /\ stage' = NextStage[stage]
  /\ seen' = IF stage = "usage"
             THEN [seen EXCEPT !.cpu = now.cpu, !.memory = now.memory, !.disk = now.disk, !.metered = now.metered]
             ELSE [seen EXCEPT ![stage] = now[stage]]
  /\ UNCHANGED <<now, began, better, torn, changes>>

\* A query fails: the loop goes on with the next push.
ReadFails ==
  /\ stage \in DOMAIN NextStage /\ stage' = "sleep"
  /\ UNCHANGED <<now, seen, began, better, torn, changes>>

PushScore ==
  /\ stage = "send" /\ stage' = "sleep"
  /\ UNCHANGED <<now, seen, began, better, torn, changes>>

\* The browser left, or takes nothing for 5 s: the connection is closed, and
\* the browser asks for a new one.
PushFails ==
  /\ stage = "send" /\ stage' = "closed"
  /\ UNCHANGED <<now, seen, began, better, torn, changes>>

Reconnect ==
  /\ stage = "closed" /\ stage' = "sleep"
  /\ UNCHANGED <<now, seen, began, better, torn, changes>>

\* What the other components do to the counts: a host falls silent or is heard
\* again, registers as online or is deleted; a service fails or recovers, is
\* added or removed; an alert fires, ends, is acknowledged, or ends after that.
OneMore(by) ==
  {[now EXCEPT !.online = @ + by], [now EXCEPT !.down = @ + by], [now EXCEPT !.errors = @ + by],
   [now EXCEPT !.firing = @ + by, !.active = @ + by],
   [now EXCEPT !.cpu = @ + 50 * by, !.memory = @ + 50 * by, !.disk = @ + 50 * by]}

Moves ==
  OneMore(1) \cup OneMore(-1) \cup {[now EXCEPT !.firing = @ - 1], [now EXCEPT !.active = @ - 1]}
    \cup {[now EXCEPT !.hosts = @ + 1, !.online = @ + 1], [now EXCEPT !.services = @ + 1]}
    \cup {[now EXCEPT !.hosts = @ - 1, !.online = @ - n] : n \in 0 .. 1}
    \cup {[now EXCEPT !.services = @ - 1, !.down = @ - n] : n \in 0 .. 1}
    \cup {[now EXCEPT !.cpu = 0, !.memory = 0, !.disk = 0, !.metered = FALSE]}
    \cup {[now EXCEPT !.cpu = u, !.memory = u, !.disk = u, !.metered = TRUE] : u \in Usages}

Counts == [hosts : Nat, online : Nat, services : Nat, down : Nat, firing : Nat, active : Nat, errors : Nat,
           cpu : Nat, memory : Nat, disk : Nat, metered : BOOLEAN]

Sound(c) ==
  /\ c \in Counts /\ c.online <= c.hosts /\ c.down <= c.services /\ c.firing <= c.active
  /\ \A usage \in {c.cpu, c.memory, c.disk} : usage <= 1000 /\ (~ c.metered => usage = 0)

\* In no respect better. A host or service more is one good one more, and below
\* its first threshold usage is no matter.
NoBetter(c, d) ==
  /\ d.hosts <= c.hosts /\ (c.hosts > 0 => d.hosts > 0) /\ Offline(c) <= Offline(d)
  /\ d.services <= c.services /\ c.down <= d.down
  /\ c.firing <= d.firing /\ c.active - c.firing <= d.active - d.firing /\ c.errors <= d.errors
  /\ Most(c.cpu, 600) <= Most(d.cpu, 600) /\ Most(c.memory, 650) <= Most(d.memory, 650)
  /\ Most(c.disk, 700) <= Most(d.disk, 700) /\ (d.metered => c.metered)

Change ==
  /\ changes < MaxChanges /\ changes' = changes + 1
  /\ \E c \in Moves : Sound(c) /\ now' = c
  /\ better' = (better \/ ~ NoBetter(now, now'))
  /\ torn' = (torn \/ (stage = "online" /\ now'.hosts # now.hosts))
  /\ UNCHANGED <<seen, stage, began>>

HealthNext == BeginPush \/ ReadCount \/ ReadFails \/ PushScore \/ PushFails \/ Reconnect \/ Change

HealthSpec == HealthInit /\ [][HealthNext]_healthVars

(***************************************************************************)
(* No false green: as long as things only got worse while the loop read,   *)
(* the score it sends is not above the one when it began and not below the *)
(* one there is now. It takes penalties that never shrink as a count       *)
(* grows, and an order of the queries in which a new alert cannot be       *)
(* counted half, nor a service that fails and one that goes raise the      *)
(* score.  Two things the condition leaves out, as the code breaks it.     *)
(* Offline hosts are the difference of two queries: a host that registers  *)
(* between them hides an offline one, and one that is deleted counts as    *)
(* offline. And with two acknowledged alerts or more, an alert that fires  *)
(* between the queries is taken for a third, which costs more than it      *)
(* does; with more than two, the first one that fires raises the score.    *)
(***************************************************************************)
Crossed(c) == c.active - c.firing > 1

PushedIsBetween ==
  stage = "send" /\ ~ better /\ ~ torn /\ ~ Crossed(now) =>
    Score(now) <= Score(seen) /\ Score(seen) <= Score(began)
=============================================================================
