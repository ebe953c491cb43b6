-------------------------------- MODULE OnCall --------------------------------
(***************************************************************************)
(* Who is on call. A schedule books a user for a range of days; creating   *)
(* one, or changing its user or days, first looks for the user's other     *)
(* active schedules that overlap. Nothing in the database forbids an       *)
(* overlap, so that requests that cross, and those that are not checked,   *)
(* may make one.                                                           *)
(*                                                                         *)
(* A request reads the row it changes, checks, and commits the columns     *)
(* that differ from what it read; the update of the row is sent before the *)
(* check and locks it.                                                     *)
(***************************************************************************)
EXTENDS Naturals, FiniteSets, Functions

CONSTANTS
  Schedules, Groups, OnCallUsers,
  Days,         \* days that schedules are about, 1 .. n
  Clients,      \* operators with a request at a time
  MaxRequests   \* bound on requests about schedules

ASSUME OnCallAssumption == Days \subseteq Nat

VARIABLES
  sched,        \* on_call_schedules: function of the schedules that exist
  groupOn,      \* on_call_groups.is_active
  request,      \* request of each client
  crossed,      \* schedules committed by others during the request of each client
  excused,      \* pairs of schedules that were not checked against each other
  requests

onCallVars == <<sched, groupOn, request, crossed, excused, requests>>

NoRequest == [pc |-> "none"]

OnCallInit ==
  /\ sched = [s \in {} |-> 0]
  /\ groupOn = [g \in Groups |-> TRUE]
  /\ request = [c \in Clients |-> NoRequest]
  /\ crossed = [c \in Clients |-> {}]
  /\ excused = {} /\ requests = 0

Requested == requests < MaxRequests /\ requests' = requests + 1

\* Mutant: only a schedule that holds the first or the last day overlaps.
OverlapsAtAnEnd(row, from, to) ==
  \/ row.from <= from /\ row.to >= from
  \/ row.from <= to /\ row.to >= to

\* The clauses of check_schedule_conflicts and get_schedule_coverage.
Overlaps(row, from, to) ==
  \/ row.from <= from /\ row.to >= from
  \/ row.from <= to /\ row.to >= to
  \/ row.from >= from /\ row.to <= to

Conflict(s, row) ==
  \E x \in DOMAIN sched \ {s} :
    sched[x].user = row.user /\ sched[x].active /\ Overlaps(sched[x], row.from, row.to)

\* POST /on-call/schedules.
CreateChecks(c, s, row) ==
  /\ request[c] = NoRequest /\ s \notin DOMAIN sched
  /\ \A other \in Clients : request[other] # NoRequest => request[other].s # s
  /\ row.from <= row.to /\ ~Conflict(s, row)
  /\ request' = [request EXCEPT ![c] = [pc |-> "commit", s |-> s, write |-> row, checked |-> TRUE]]
  /\ Requested /\ UNCHANGED <<sched, groupOn, crossed, excused>>

\* PUT and DELETE /on-call/schedules/{id} read the row; DELETE clears is_active.
UpdateReads(c, s, change) ==
  /\ request[c] = NoRequest /\ s \in DOMAIN sched
  /\ request' = [request EXCEPT ![c] = [pc |-> "check", s |-> s, read |-> sched[s], change |-> change]]
  /\ Requested /\ UNCHANGED <<sched, groupOn, crossed, excused>>

Differing(read, change) == {field \in DOMAIN change : change[field] # read[field]}
IsLocked(s) ==
  \E c \in Clients : /\ request[c].pc = "commit" /\ request[c].s = s
                     /\ s \in DOMAIN sched /\ DOMAIN request[c].write # {}

NeedsCheck(change) == DOMAIN change \cap {"user", "from", "to"} # {}

\* A change of the user or the days is checked, with the rest of the row as
\* it was read. A conflict ends the request.
UpdateChecks(c) ==
  LET r == request[c]
      row == [field \in DOMAIN r.read |->
                IF field \in DOMAIN r.change THEN r.change[field] ELSE r.read[field]] IN
    /\ r.pc = "check"
    /\ Differing(r.read, r.change) # {} => ~IsLocked(r.s)
    /\ IF NeedsCheck(r.change) /\ (row.from > row.to \/ Conflict(r.s, row))
         THEN request' = [request EXCEPT ![c] = NoRequest] /\ crossed' = [crossed EXCEPT ![c] = {}]
         ELSE /\ request' = [request EXCEPT ![c] =
                   [pc |-> "commit", s |-> r.s, checked |-> NeedsCheck(r.change),
                    write |-> Restrict(r.change, Differing(r.read, r.change))]]
              /\ UNCHANGED crossed
    /\ UNCHANGED <<sched, groupOn, excused, requests>>

\* Pairs that a request leaves unchecked: with the schedules that others have
\* committed meanwhile, and with all when it is the row itself they changed or
\* when an old schedule is made active without its days.
Unchecked(r, others) ==
  {{r.s, x} : x \in IF r.s \in others \/ (~r.checked /\ "active" \in DOMAIN r.write)
                      THEN Schedules ELSE others}

RequestCommits(c) ==
  LET r == request[c]
      about == {pair \in excused : r.s \in pair} IN
    /\ r.pc = "commit"
    /\ sched' = [x \in DOMAIN sched \cup {r.s} |->
         IF x # r.s THEN sched[x]
         ELSE IF x \notin DOMAIN sched THEN r.write
         ELSE [field \in DOMAIN sched[x] |->
                 IF field \in DOMAIN r.write THEN r.write[field] ELSE sched[x][field]]]
    /\ excused' = (IF r.checked THEN excused \ about ELSE excused) \cup Unchecked(r, crossed[c])
    /\ request' = [request EXCEPT ![c] = NoRequest]
    /\ crossed' = [d \in Clients |->
         IF d = c THEN {} ELSE IF request[d] = NoRequest THEN {} ELSE crossed[d] \cup {r.s}]
    /\ UNCHANGED <<groupOn, requests>>

\* PUT and DELETE /on-call/groups/{id}: one row, one COMMIT, no check.
SetGroup(g) ==
  /\ groupOn' = [groupOn EXCEPT ![g] = ~@]
  /\ UNCHANGED <<sched, request, crossed, excused, requests>>

OneFieldChanges ==
  {[from |-> d] : d \in Days} \cup {[to |-> d] : d \in Days} \cup {[user |-> u] : u \in OnCallUsers}
  \cup {[group |-> g] : g \in Groups} \cup {[active |-> on] : on \in BOOLEAN}

\* A schedule that is created inactive is one that is deleted at once.
NewRows == [user : OnCallUsers, group : Groups, from : Days, to : Days, active : {TRUE}]

OnCallNext ==
  \/ \E g \in Groups : SetGroup(g)
  \/ \E c \in Clients :
       \/ UpdateChecks(c) \/ RequestCommits(c)
       \/ \E s \in Schedules :
            \/ \E row \in NewRows : CreateChecks(c, s, row)
            \/ \E change \in OneFieldChanges : UpdateReads(c, s, change)

OnCallSpec == OnCallInit /\ [][OnCallNext]_onCallVars

-----------------------------------------------------------------------------
\* get_current_on_call_user, on the day it is asked.
OnCallOn(day) ==
  {s \in DOMAIN sched : /\ sched[s].from <= day /\ day <= sched[s].to
                        /\ sched[s].active /\ groupOn[sched[s].group]}

\* get_schedule_coverage and _analyze_coverage_gaps.
CoveredDays(from, to) ==
  UNION {{d \in Days : sched[s].from <= d /\ d <= sched[s].to /\ from <= d /\ d <= to} :
           s \in {x \in DOMAIN sched : /\ sched[x].active /\ groupOn[sched[x].group]
                                       /\ Overlaps(sched[x], from, to)}}

\* Nobody is booked twice for a day, unless the two schedules were not checked
\* against each other: their requests crossed, or an old one was made active
\* again (check_schedule_conflicts).
BookedOnce ==
  \A s, x \in DOMAIN sched :
    (/\ s # x /\ sched[s].user = sched[x].user /\ sched[s].active /\ sched[x].active
     /\ \E d \in Days : d \in sched[s].from .. sched[s].to /\ d \in sched[x].from .. sched[x].to)
      => {s, x} \in excused

\* The coverage of a window of days counts a day exactly if someone is on call
\* on it (get_schedule_coverage against get_current_on_call_user).
CoverageIsCurrent ==
  \A from, to \in Days :
    CoveredDays(from, to) = {d \in Days : from <= d /\ d <= to /\ OnCallOn(d) # {}}
=============================================================================
