---------------------------- MODULE KeywordAlerts ----------------------------
(***************************************************************************)
(* Alerts on keywords in ingested logs, and the suppression rules that     *)
(* silence a host. Every report of an agent is checked in its own request: *)
(* rules, suppressed hosts and recent alerts are read one after the other,  *)
(* the new alerts are committed at the end. fired_at is the start of the   *)
(* transaction, as now() of PostgreSQL.                                    *)
(***************************************************************************)
EXTENDS Naturals, Sequences, FiniteSets

CONSTANTS
  Batches,            \* requests that carry the logs of agents
  LogHosts,           \* hosts whose logs hold the keyword of the rule
  MuteIds,            \* ids of suppression rules
  DedupWindow,        \* 60 s
  MaxTime, MaxRaised  \* bounds on the clock and on alerts

ASSUME KeywordAssumption ==
  DedupWindow \in Nat /\ MaxTime \in Nat /\ MaxRaised \in Nat

VARIABLES
  time,
  mutes,      \* suppression_rules: what each id holds
  checking,   \* what each request's check has read
  raised,     \* alerts: sequence of records
  unsilenced  \* history: hosts that were not silenced at some moment of each check

keywordVars == <<time, mutes, checking, raised, unsilenced>>

Forever == MaxTime + 1
NoMute == [hosts |-> {}, from |-> 0, until |-> Forever, active |-> FALSE]
NoCheck == [pc |-> "idle", lines |-> <<>>, start |-> 0, muted |-> {}, read |-> 0,
            recent |-> {}, seen |-> 0]

KeywordInit ==
  /\ time = 0 /\ mutes = [i \in MuteIds |-> NoMute]
  /\ checking = [r \in Batches |-> NoCheck] /\ raised = <<>>
  /\ unsilenced = [r \in Batches |-> {}]

\* The conditions on start and end, either of which may be missing.
Holds(mute) ==
  /\ mute.active /\ mute.from <= time
  /\ mute.until = Forever \/ mute.until >= time

\* get_suppressed_host_ids_for_logs: rules on a host or on a service of it,
\* whatever it is that they ask to suppress.
SuppressedHosts == UNION {mutes[i].hosts : i \in {j \in MuteIds : Holds(mutes[j])}}

-----------------------------------------------------------------------------
(* The check of a batch.                                                   *)

\* The logs are committed, and the transaction begins with the rules.
CheckStarts(r, lines) ==
  /\ checking[r].pc = "idle"
  /\ checking' = [checking EXCEPT ![r] = [@ EXCEPT !.pc = "rules", !.lines = lines, !.start = time]]
  /\ UNCHANGED <<time, mutes, raised>>

ReadMutes(r) ==
  /\ checking[r].pc = "rules"
  /\ checking' = [checking EXCEPT ![r] = [@ EXCEPT !.pc = "muted", !.muted = SuppressedHosts]]
  /\ UNCHANGED <<time, mutes, raised>>

\* Hosts with a firing alert of the rule within the window.
Recent ==
  {raised[i].host : i \in {j \in DOMAIN raised :
     raised[j].over = Forever /\ raised[j].fired + DedupWindow >= time}}

ReadRecent(r) ==
  /\ checking[r].pc = "muted"
  /\ checking' = [checking EXCEPT ![r] = [@ EXCEPT !.pc = "recent", !.recent = Recent,
                                                   !.read = time, !.seen = Len(raised)]]
  /\ UNCHANGED <<time, mutes, raised>>

\* Mutant: the hosts this batch raises are not added to the recent ones.
LinesToRaiseAll(r) ==
  {k \in DOMAIN checking[r].lines : checking[r].lines[k] \notin checking[r].muted \cup checking[r].recent}

\* The lines that raise an alert: of each host that is left, the first.
LinesToRaise(r) ==
  LET lines == checking[r].lines IN
    {k \in DOMAIN lines :
       /\ lines[k] \notin checking[r].muted \cup checking[r].recent
       /\ \A j \in 1 .. k - 1 : lines[j] # lines[k]}

CheckCommits(r) ==
  LET ks == LinesToRaise(r)
      alert(k) == [host |-> checking[r].lines[k], fired |-> checking[r].start, over |-> Forever]
  IN /\ checking[r].pc = "recent" /\ Len(raised) + Cardinality(ks) <= MaxRaised
     /\ \E order \in [1 .. Cardinality(ks) -> ks] :
          /\ \A i, j \in DOMAIN order : i < j => order[i] < order[j]
          /\ raised' = raised \o [i \in DOMAIN order |-> alert(order[i])]
     /\ checking' = [checking EXCEPT ![r] = NoCheck]
     /\ UNCHANGED <<time, mutes>>

\* An exception is swallowed: the report is answered all the same.
KeywordCheckFails(r) ==
  /\ checking[r].pc # "idle"
  /\ checking' = [checking EXCEPT ![r] = NoCheck]
  /\ UNCHANGED <<time, mutes, raised>>

\* Acknowledged, or resolved by hand: the alert is not firing any more.
AnswerAlert(i) ==
  /\ raised[i].over = Forever
  /\ raised' = [raised EXCEPT ![i].over = time]
  /\ UNCHANGED <<time, mutes, checking>>

-----------------------------------------------------------------------------
(* Suppression rules.                                                      *)

MuteStored(i, mute) ==
  /\ mutes' = [mutes EXCEPT ![i] = mute]
  /\ UNCHANGED <<time, checking, raised>>

CreateMute(i, hosts, from, until) ==
  /\ mutes[i] = NoMute
  /\ MuteStored(i, [hosts |-> hosts, from |-> from, until |-> until, active |-> TRUE])

\* The button "ignore": from now on, for some hours or for ever.
QuickSuppress(i, hosts, until) == CreateMute(i, hosts, time, until)

\* Fields that are None are left: an end may be moved, but not taken away.
UpdateMute(i, until, active) ==
  /\ mutes[i] # NoMute /\ until # Forever
  /\ MuteStored(i, [mutes[i] EXCEPT !.until = until, !.active = active])

DeleteMute(i) == mutes[i] # NoMute /\ MuteStored(i, [mutes[i] EXCEPT !.active = FALSE])

SecondsPass ==
  /\ time < MaxTime /\ time' = time + 1
  /\ UNCHANGED <<mutes, checking, raised>>

\* Hosts with a rule in force.
Silenced ==
  {h \in LogHosts : \E i \in MuteIds :
     h \in mutes[i].hosts /\ mutes[i].active /\ time \in mutes[i].from .. mutes[i].until}

KeywordStep ==
  \/ SecondsPass
  \/ \E r \in Batches :
       \/ \E n \in 1 .. 2 : \E lines \in [1 .. n -> LogHosts] : CheckStarts(r, lines)
       \/ ReadMutes(r) \/ ReadRecent(r) \/ CheckCommits(r) \/ KeywordCheckFails(r)
  \/ \E i \in DOMAIN raised : AnswerAlert(i)
  \/ \E i \in MuteIds :
       \/ DeleteMute(i)
       \/ \E until \in {MaxTime \div 2, Forever} :
            \/ \E hosts \in (SUBSET LogHosts) \ {{}} :
                 QuickSuppress(i, hosts, until) \/ CreateMute(i, hosts, 1, until)
            \/ \E active \in BOOLEAN : UpdateMute(i, until, active)

KeywordNext ==
  /\ KeywordStep
  /\ unsilenced' = [r \in Batches |->
       IF checking'[r].pc = "idle" THEN {} ELSE unsilenced[r] \cup (LogHosts \ Silenced')]

KeywordSpec == KeywordInit /\ [][KeywordNext]_keywordVars

-----------------------------------------------------------------------------
\* Reports overlap, so two of them may raise the same alert at once. But none
\* repeats its own, nor one that was firing and within the window when it read
\* (agent.py:724), and none is raised for a host that some rule silenced from
\* the beginning of its check to the end.
RaisedRightly ==
  [][\A r \in Batches, j \in Len(raised) + 1 .. Len(raised') :
       checking[r].pc = "recent" /\ checking'[r].pc = "idle" =>
         /\ raised'[j].host \in unsilenced[r]
         /\ \A i \in 1 .. j - 1 : raised'[i].host = raised'[j].host =>
              /\ i <= Len(raised)
              /\ \/ i > checking[r].seen
                 \/ raised[i].over <= checking[r].read
                 \/ raised[i].fired + DedupWindow < checking[r].read]_keywordVars
=============================================================================
