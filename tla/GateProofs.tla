----------------------------- MODULE GateProofs -----------------------------
(***************************************************************************)
(* Theorems about what is let through and what is not: updates of agents,  *)
(* deletions of old rows and of drafts, runbooks for alerts, requests,     *)
(* alerts on keywords, notifications through a channel that was tested,    *)
(* and the conversation that is sent to the model, for any number of them. *)
(***************************************************************************)
EXTENDS AgentUpdate, Retention, OpsSessions, RemediationGate, RequestLimits, KeywordAlerts,
        ChannelDelivery, OpsContext, FiniteSetTheorems, WellFoundedInduction, TLAPS

-----------------------------------------------------------------------------
(* Updates.  From the comparison to the restart the version that is to be  *)
(* installed differs from the one that runs: whatever starts the process   *)
(* again ends the update.                                                  *)

UpdateInv ==
    /\ updating.pc \in {"idle", "listing", "downloading", "installing", "installed"}
    /\ updating = [pc |-> updating.pc, version |-> updating.version]
    /\ updating.pc \in {"downloading", "installing", "installed"} /\ updating.version # 0
         => updating.version # running
    /\ updating.pc = "installed" => updating.version # 0 /\ updating.version = installed
    /\ NoIdleRestart

LEMMA UpdateNextInv == UpdateInv /\ [UpdateNext]_updateVars => UpdateInv'
<1> SUFFICES ASSUME UpdateInv, [UpdateNext]_updateVars PROVE UpdateInv'
  OBVIOUS
<1>1. CASE UNCHANGED <<updating, installed, running, updateRestarts>>
  BY <1>1 DEF UpdateInv, NoIdleRestart
<1>2. CASE Deploy \/ BuildStarts \/ Revoke \/ CreateToken \/ UNCHANGED updateVars
  BY <1>1, <1>2 DEF Deploy, BuildStarts, Revoke, CreateToken, updateVars
<1>3. CASE (\E success \in BOOLEAN : BuildEnds(success)) \/ \E delivered \in BOOLEAN : TriggerUpdate(delivered)
  BY <1>1, <1>3 DEF BuildEnds, TriggerUpdate
<1>4. CASE TakeUpdate
  BY <1>4 DEF TakeUpdate, UpdateInv, NoIdleRestart
<1>5. CASE GiveUpUpdate
  BY <1>5 DEF GiveUpUpdate, UpdateInv, NoIdleRestart, NoUpdate
<1>6. CASE \E v \in Versions : ListVersions(v)
  BY <1>6 DEF ListVersions, Differs, UpdateInv, NoIdleRestart, NoUpdate
<1>7. CASE Download
  BY <1>7 DEF Download, UpdateInv, NoIdleRestart
<1>8. CASE Install
  BY <1>8 DEF Install, UpdateInv, NoIdleRestart
<1>9. CASE \E managed \in BOOLEAN : RestartAgent(managed)
  BY <1>9 DEF RestartAgent, UpdateInv, NoIdleRestart, NoUpdate
<1>10. CASE StartAgent
  BY <1>10 DEF StartAgent, UpdateInv, NoIdleRestart, NoUpdate
<1> QED
  BY <1>2, <1>3, <1>4, <1>5, <1>6, <1>7, <1>8, <1>9, <1>10 DEF UpdateNext

\* An update ends the process only after it has installed another version than
\* the one that runs: no agent goes round in updates, for any number of releases.
THEOREM UpdatesChangeTheVersion == UpdateSpec => []NoIdleRestart
<1>1. UpdateInit => UpdateInv
  BY DEF UpdateInit, UpdateInv, NoUpdate, NoIdleRestart
<1>2. UpdateInv => NoIdleRestart
  BY DEF UpdateInv
<1> QED
  BY <1>1, <1>2, UpdateNextInv, PTL DEF UpdateSpec

-----------------------------------------------------------------------------
(* Retention.  What a request has deleted and not yet committed is older   *)
(* than the shortest setting its type has had since the request began.     *)

RetentionInv ==
    /\ ages \in [Stored -> SUBSET Nat] /\ days \in [Configured -> Nat] /\ shortest \in [Configured -> Nat]
    /\ DOMAIN doomed \subseteq Configured
    /\ \A t \in Configured : shortest[t] <= days[t]
    /\ \A t \in DOMAIN doomed : \A a \in doomed[t] : a \in Nat /\ a > shortest[t]

LEMMA RetentionNextInv == RetentionInv /\ [RetentionNext]_retentionVars => RetentionInv'
<1> SUFFICES ASSUME RetentionInv, [RetentionNext]_retentionVars PROVE RetentionInv'
  OBVIOUS
<1>1. DOMAIN <<>> = {}
  OBVIOUS
<1>2. MaxDays \in Nat /\ LoopDays \in Nat
  BY RetentionAssumption
<1>3. CASE CleanCommits
  BY <1>1, <1>3 DEF RetentionInv, CleanCommits
<1>4. CASE CleanFails
  BY <1>1, <1>4 DEF RetentionInv, CleanFails
<1>5. CASE NightlyCleanup \/ (\E t \in Looped : LoopFails(t)) \/ UNCHANGED retentionVars
  BY <1>5 DEF RetentionInv, NightlyCleanup, LoopFails, retentionVars
<1>6. CASE DayPasses
  <2>1. ages' = [t \in Stored |-> {IF a > MaxDays THEN a ELSE a + 1 : a \in ages[t]}]
    BY <1>6 DEF DayPasses
  <2>2. ages' \in [Stored -> SUBSET Nat]
    BY <2>1 DEF RetentionInv
  <2> QED
    BY <1>6, <2>2 DEF DayPasses, RetentionInv
<1>7. ASSUME NEW new \in [Configured -> 1 .. MaxDays], SetRetention(new) PROVE RetentionInv'
  <2>1. /\ days' = new /\ ages' = ages /\ doomed' = doomed
        /\ shortest' = [t \in Configured |->
             IF doomed = <<>> \/ new[t] < shortest[t] THEN new[t] ELSE shortest[t]]
    BY <1>7 DEF SetRetention
  <2>2. \A t \in Configured : new[t] \in Nat /\ shortest[t] \in Nat
    BY <1>2, <1>7 DEF RetentionInv
  <2>3. days' \in [Configured -> Nat] /\ shortest' \in [Configured -> Nat]
    BY <1>2, <2>1, <2>2
  <2>4. \A t \in Configured : shortest'[t] <= days'[t] /\ (doomed # <<>> => shortest'[t] <= shortest[t])
    BY <2>1, <2>2
  <2>5. \A t \in DOMAIN doomed : \A a \in doomed[t] : a \in Nat /\ a > shortest'[t]
    <3> SUFFICES ASSUME NEW t \in DOMAIN doomed, NEW a \in doomed[t] PROVE a \in Nat /\ a > shortest'[t]
      OBVIOUS
    <3>1. doomed # <<>>
      BY <1>1
    <3>2. t \in Configured /\ a \in Nat /\ a > shortest[t]
      BY DEF RetentionInv
    <3>3. shortest[t] \in Nat /\ shortest'[t] \in Nat /\ shortest'[t] <= shortest[t]
      BY <2>2, <2>3, <2>4, <3>1, <3>2
    <3> QED
      BY <3>2, <3>3
  <2> QED
    BY <2>1, <2>3, <2>4, <2>5 DEF RetentionInv
<1>8. ASSUME NEW t \in Configured, CleanType(t) PROVE RetentionInv'
  <2>1. /\ DOMAIN doomed' = DOMAIN doomed \cup {t} /\ doomed'[t] = Older(t, days[t])
        /\ \A u \in DOMAIN doomed \ {t} : doomed'[u] = doomed[u]
        /\ ages' = ages /\ days' = days /\ shortest' = shortest
    BY <1>8 DEF CleanType, RetentionDays
  <2>2. \A a \in Older(t, days[t]) : a \in Nat /\ a > shortest[t]
    <3>1. t \in Stored /\ ages[t] \subseteq Nat /\ days[t] \in Nat /\ shortest[t] \in Nat /\ shortest[t] <= days[t]
      BY DEF RetentionInv, Stored
    <3> QED
      BY <3>1 DEF Older
  <2> QED
    BY <2>1, <2>2 DEF RetentionInv
<1>9. ASSUME NEW t \in Stored, StoreRow(t) PROVE RetentionInv'
  BY <1>9 DEF RetentionInv, StoreRow
<1>10. ASSUME NEW t \in Looped, LoopCleans(t) PROVE RetentionInv'
  BY <1>10 DEF RetentionInv, LoopCleans, Older
<1> QED
  BY <1>3, <1>4, <1>5, <1>6, <1>7, <1>8, <1>9, <1>10 DEF RetentionNext

\* Whatever the settings become between the types of a request, what it deletes
\* is older than some setting of its type while the request ran.
THEOREM RowsAreKeptAsAsked == RetentionSpec => KeptAsAsked
<1>1. RetentionInit => RetentionInv
  BY RetentionAssumption DEF RetentionInit, RetentionInv
<1>2. RetentionInv /\ [RetentionNext]_retentionVars =>
        [\A t \in Configured \ Looped :
           \A a \in ages[t] : a \notin ages'[t] /\ night' = night => a > shortest[t]]_retentionVars
  <2> SUFFICES ASSUME RetentionInv, RetentionNext, NEW t \in Configured \ Looped, NEW a \in ages[t],
                      a \notin ages'[t], night' = night
               PROVE  a > shortest[t]
    OBVIOUS
  <2>0. t \in Stored /\ ages \in [Stored -> SUBSET Nat]
    BY DEF Stored, RetentionInv
  <2>1. CASE CleanCommits
    <3>1. t \in DOMAIN doomed /\ ages'[t] = ages[t] \ doomed[t]
      BY <2>0, <2>1 DEF CleanCommits
    <3> QED
      BY <3>1 DEF RetentionInv
  <2>2. CASE CleanFails \/ NightlyCleanup \/ (\E u \in Looped : LoopFails(u))
    BY <2>2 DEF CleanFails, NightlyCleanup, LoopFails
  <2>3. CASE DayPasses
    BY <2>3 DEF DayPasses
  <2>4. CASE (\E new \in [Configured -> 1 .. MaxDays] : SetRetention(new)) \/ \E u \in Configured : CleanType(u)
    BY <2>4 DEF SetRetention, CleanType
  <2>5. CASE \E u \in Stored : StoreRow(u)
    BY <2>0, <2>5 DEF StoreRow
  <2>6. CASE \E u \in Looped : LoopCleans(u)
    BY <2>0, <2>6 DEF LoopCleans
  <2> QED
    BY <2>1, <2>2, <2>3, <2>4, <2>5, <2>6 DEF RetentionNext
<1> QED
  BY <1>1, <1>2, RetentionNextInv, PTL DEF RetentionSpec, KeptAsAsked

-----------------------------------------------------------------------------
(* Drafts.  A run that has touched its session is young until it has saved *)
(* its message, and then has one, if the session is still there.           *)

SessionRow == [status : {"none", "active", "closed"}, titled : BOOLEAN, said : BOOLEAN, age : 0 .. 2]

SweepInv ==
    /\ row \in [Drafts -> SessionRow] /\ tab \in [Drafts -> {"idle", "synced", "title"}]
    /\ \A s \in Drafts : tab[s] = "synced" => row[s].age = 0
    /\ \A s \in Drafts : tab[s] = "title" => row[s].said \/ row[s].status = "none"

LEMMA NoRowIsRow == NoRow \in SessionRow /\ NoRow.age = 0 /\ NoRow.status = "none"
  BY DEF NoRow, SessionRow

\* What becomes of one session leaves the invariant to the others.
LEMMA OneSession ==
    ASSUME SweepInv, NEW s \in Drafts, NEW session \in SessionRow, NEW at \in {"idle", "synced", "title"},
           row' = [row EXCEPT ![s] = session], tab' = [tab EXCEPT ![s] = at],
           at = "synced" => session.age = 0, at = "title" => session.said \/ session.status = "none"
    PROVE  SweepInv'
  BY DEF SweepInv

LEMMA OpsSessionsNextInv == SweepInv /\ [OpsSessionsNext]_opsSessionsVars => SweepInv'
<1> SUFFICES ASSUME SweepInv, [OpsSessionsNext]_opsSessionsVars PROVE SweepInv'
  OBVIOUS
<1>0. /\ row \in [Drafts -> SessionRow] /\ tab \in [Drafts -> {"idle", "synced", "title"}]
      /\ \A s \in Drafts : tab' = tab => tab' = [tab EXCEPT ![s] = tab[s]]
      /\ \A s \in Drafts : row' = row => row' = [row EXCEPT ![s] = row[s]]
  BY DEF SweepInv
<1>1. CASE UNCHANGED <<row, tab>>
  BY <1>1 DEF SweepInv
<1>2. CASE CreateReads \/ ListReads \/ UNCHANGED opsSessionsVars
  BY <1>1, <1>2 DEF CreateReads, ListReads, opsSessionsVars
<1>3. ASSUME NEW s \in Drafts, NEW titled \in BOOLEAN, CreateCommits(s, titled) PROVE SweepInv'
  <2> DEFINE new == [NoRow EXCEPT !.status = "active", !.titled = titled]
  <2>1. new \in SessionRow /\ new.age = 0
    BY NoRowIsRow DEF SessionRow
  <2>2. /\ tab' = tab /\ tab[s] = "idle"
        /\ row' = [t \in Drafts |-> IF t = s THEN new ELSE IF t \in sweep.found THEN NoRow ELSE row[t]]
    BY <1>3 DEF CreateCommits
  <2> HIDE DEF new
  <2> QED
    BY <2>1, <2>2, NoRowIsRow DEF SweepInv
<1>4. CASE CloseInactive
  <2>1. ASSUME NEW s \in Drafts
        PROVE  /\ [row[s] EXCEPT !.status = "closed", !.age = 0] \in SessionRow
               /\ [row[s] EXCEPT !.status = "closed", !.age = 0].age = 0
               /\ [row[s] EXCEPT !.status = "closed", !.age = 0].said = row[s].said
    <3> DEFINE closed == [row[s] EXCEPT !.status = "closed", !.age = 0]
    <3>1. /\ DOMAIN row[s] = {"status", "titled", "said", "age"} /\ row[s].titled \in BOOLEAN /\ row[s].said \in BOOLEAN
          /\ row[s] = [x \in {"status", "titled", "said", "age"} |-> row[s][x]]
      BY <1>0 DEF SessionRow
    <3>2. /\ closed = [x \in {"status", "titled", "said", "age"} |-> closed[x]]
          /\ closed.status = "closed" /\ closed.age = 0 /\ closed.titled = row[s].titled /\ closed.said = row[s].said
      BY <3>1
    <3> HIDE DEF closed
    <3>3. closed \in SessionRow
      BY <3>1, <3>2 DEF SessionRow
    <3> QED
      BY <3>2, <3>3 DEF closed
  <2>2. /\ tab' = tab
        /\ row' = [s \in Drafts |-> IF row[s].status = "active" /\ row[s].age = 2
                                     THEN [row[s] EXCEPT !.status = "closed", !.age = 0] ELSE row[s]]
    BY <1>4 DEF CloseInactive
  <2>3. row' \in [Drafts -> SessionRow]
    BY <1>0, <2>1, <2>2
  <2>4. \A s \in Drafts : tab[s] = "synced" => row'[s].age = 0
    BY <2>1, <2>2 DEF SweepInv
  <2>5. \A s \in Drafts : tab[s] = "title" => row'[s].said \/ row'[s].status = "none"
    BY <2>1, <2>2 DEF SweepInv
  <2> QED
    BY <1>0, <2>2, <2>3, <2>4, <2>5 DEF SweepInv
<1>5. CASE ListCommits
  BY <1>5, NoRowIsRow DEF ListCommits, SweepInv
<1>6. ASSUME NEW s \in Drafts, SessionsAge(s) PROVE SweepInv'
  <2>1. [row[s] EXCEPT !.age = @ + 1] \in SessionRow /\ row' = [row EXCEPT ![s] = [row[s] EXCEPT !.age = @ + 1]]
    BY <1>0, <1>6 DEF SessionsAge, SessionRow
  <2> QED
    BY <1>0, <1>6, <2>1, OneSession DEF SessionsAge
<1>7. ASSUME NEW s \in Drafts, DeleteSession(s) PROVE SweepInv'
  BY <1>0, <1>7, NoRowIsRow, OneSession DEF DeleteSession
<1>8. \A s \in Drafts : Touch(s) \in SessionRow /\ Touch(s).age = 0 /\ Touch(s).said = row[s].said
                     /\ Touch(s).status = row[s].status
  BY <1>0 DEF Touch, SessionRow
<1>9. ASSUME NEW s \in Drafts, RunSyncs(s) PROVE SweepInv'
  BY <1>0, <1>8, <1>9, OneSession DEF RunSyncs
<1>10. ASSUME NEW s \in Drafts, RunSaves(s) PROVE SweepInv'
  <2>1. CASE row[s].status = "none"
    BY <1>0, <1>10, <2>1, OneSession DEF RunSaves
  <2>2. CASE row[s].status # "none"
    <3> DEFINE session == [Touch(s) EXCEPT !.status = "active", !.said = TRUE]
               at == IF row[s].titled THEN "idle" ELSE "title"
    <3>1. session \in SessionRow /\ session.said /\ at \in {"idle", "title"}
      BY <1>8 DEF SessionRow
    <3>2. row' = [row EXCEPT ![s] = session] /\ tab' = [tab EXCEPT ![s] = at]
      BY <1>10, <2>2 DEF RunSaves
    <3> HIDE DEF session, at
    <3> QED
      BY <3>1, <3>2, OneSession
  <2> QED
    BY <2>1, <2>2
<1>11. ASSUME NEW s \in Drafts, NEW ok \in BOOLEAN, RunTitles(s, ok) PROVE SweepInv'
  <2>1. tab' = [tab EXCEPT ![s] = "idle"]
    BY <1>11 DEF RunTitles
  <2>2. CASE ok /\ row[s].status # "none"
    <3> DEFINE session == [Touch(s) EXCEPT !.titled = TRUE]
    <3>1. session \in SessionRow
      BY <1>8 DEF SessionRow
    <3>2. row' = [row EXCEPT ![s] = session]
      BY <1>11, <2>2 DEF RunTitles
    <3> HIDE DEF session
    <3> QED
      BY <2>1, <3>1, <3>2, OneSession
  <2>3. CASE ~ (ok /\ row[s].status # "none")
    <3>1. row' = row
      BY <1>11, <2>3 DEF RunTitles
    <3> QED
      BY <1>0, <2>1, <3>1, OneSession
  <2> QED
    BY <2>2, <2>3
<1> QED
  BY <1>2, <1>3, <1>4, <1>5, <1>6, <1>7, <1>9, <1>10, <1>11 DEF OpsSessionsNext

\* What a request that cleans up is about to delete had no message when it was
\* read, and what a new session pushes out was not at work either.
THEOREM CleanupReadsOnlyDrafts == OpsSessionsSpec => SweepsSpareTalks
<1>1. OpsSessionsInit => SweepInv
  BY NoRowIsRow DEF OpsSessionsInit, SweepInv
<1>2. SweepInv /\ [OpsSessionsNext]_opsSessionsVars =>
        [\A s \in sweep'.found \ sweep.found :
           ~row[s].said /\ (sweep'.by = "create" => tab[s] = "idle")]_opsSessionsVars
  <2> SUFFICES ASSUME SweepInv, OpsSessionsNext, NEW s \in sweep'.found \ sweep.found
               PROVE  ~row[s].said /\ (sweep'.by = "create" => tab[s] = "idle")
    OBVIOUS
  <2>1. CASE CreateReads
    <3>1. s \in Drafts /\ IsDraft(s) /\ IsStale(s)
      BY <2>1 DEF CreateReads
    <3>2. row[s].status = "active" /\ ~row[s].said /\ row[s].age # 0
      BY <3>1 DEF IsDraft, IsStale
    <3>3. tab[s] \in {"idle", "synced", "title"} /\ tab[s] # "synced" /\ tab[s] # "title"
      BY <3>1, <3>2 DEF SweepInv
    <3> QED
      BY <3>2, <3>3
  <2>2. CASE ListReads
    BY <2>2 DEF ListReads, IsDraft
  <2>3. CASE CloseInactive
    BY <2>3 DEF CloseInactive
  <2>6. CASE ListCommits
    <3>1. sweep'.found = {}
      BY <2>6 DEF ListCommits, NoSweep
    <3> QED
      BY <3>1
  <2>5. CASE \E t \in Drafts : SessionsAge(t) \/ DeleteSession(t) \/ RunSyncs(t) \/ RunSaves(t)
    BY <2>5 DEF SessionsAge, DeleteSession, RunSyncs, RunSaves
  <2>4. CASE \E t \in Drafts, b \in BOOLEAN : CreateCommits(t, b) \/ RunTitles(t, b)
    BY <2>4 DEF CreateCommits, RunTitles, NoSweep
  <2> QED
    BY <2>1, <2>2, <2>3, <2>4, <2>5, <2>6 DEF OpsSessionsNext
<1> QED
  BY <1>1, <1>2, OpsSessionsNextInv, PTL DEF OpsSessionsSpec, SweepsSpareTalks

-----------------------------------------------------------------------------
(* Runbooks.  A diagnosis or an approval remembers the edition that there  *)
(* was, and editions only come; what runs is read from the newest.         *)

Books == [Runbooks -> Rows \cup {Gone}]
AgentFields == {"pc", "alert", "confidence", "suggested", "from", "name", "runs", "failures"}
WaitingLog == [name : Runbooks, alert : SUBSET Rules, from : Nat]
Execution == [by : {"agent", "approval"}, name : Runbooks, row : Rows \cup {Gone}, alert : SUBSET Rules,
              from : Nat, at : Nat]

GateType ==
    /\ editions \in Seq(Books) /\ editions # <<>> /\ clock \in Nat
    /\ agent = [g \in Agents |-> agent[g]] /\ \A g \in Agents : DOMAIN agent[g] = AgentFields
    /\ \A g \in Agents : agent[g].alert \in SUBSET Rules
    /\ waiting \subseteq WaitingLog /\ ran \in Seq(Execution)

Remembered ==
    /\ \A g \in Agents : agent[g].pc = "matching" => agent[g].from \in 1 .. Edition
    /\ \A log \in waiting : log.from <= Edition
    /\ \A i \in DOMAIN ran : ran[i].from \in 1 .. Edition

GateInv == GateType /\ Remembered /\ RunsWhatIsEnabled

LEMMA NewestEdition ==
    ASSUME GateType
    PROVE  /\ Edition \in Nat /\ Edition \in 1 .. Edition /\ editions[Edition] \in Books
           /\ \A n \in Runbooks : Row(n) \in Rows \cup {Gone}
<1>1. Edition \in Nat \ {0}
  BY DEF GateType, Edition
<1>2. editions[Edition] \in Books
  BY <1>1 DEF GateType, Edition
<1> QED
  BY <1>1, <1>2 DEF Row, Books

LEMMA FreshAgentIsFresh ==
    DOMAIN FreshAgent = AgentFields /\ FreshAgent.alert \in SUBSET Rules /\ FreshAgent.pc = "idle"
  BY DEF FreshAgent, AgentFields

\* What one agent does leaves the others as they are.
LEMMA OneAgent ==
    ASSUME GateInv, NEW g \in Agents, NEW a, DOMAIN a = AgentFields, a.alert \in SUBSET Rules,
           a.pc = "matching" => a.from \in 1 .. Edition,
           agent' = [agent EXCEPT ![g] = a], UNCHANGED <<editions, clock, waiting, ran>>
    PROVE  GateInv'
<1>1. \A h \in Agents : agent'[h] = IF h = g THEN a ELSE agent[h]
  BY DEF GateInv, GateType
<1>2. agent' = [h \in Agents |-> agent'[h]]
  BY DEF GateInv, GateType
<1>3. GateType'
  BY <1>1, <1>2 DEF GateInv, GateType
<1>4. Remembered'
  BY <1>1 DEF GateInv, Remembered, Edition
<1> QED
  BY <1>3, <1>4 DEF GateInv, RunsWhatIsEnabled, Edition

\* An edition that comes changes nothing of what was remembered or ran.
LEMMA OneEdition ==
    ASSUME GateInv, NEW books \in Books, editions' = Append(editions, books),
           UNCHANGED <<clock, agent, waiting, ran>>
    PROVE  GateInv'
<1>1. /\ Edition \in Nat /\ Edition' = Edition + 1 /\ editions' \in Seq(Books)
      /\ \A e \in 1 .. Edition : editions'[e] = editions[e]
  BY DEF GateInv, GateType, Edition
<1>2. editions' # <<>>
  BY <1>1 DEF Edition
<1>3. GateType'
  BY <1>1, <1>2 DEF GateInv, GateType
<1>4. \A i \in DOMAIN ran : ran[i].from \in 1 .. Edition
  BY DEF GateInv, Remembered
<1>5. Remembered'
  <2>1. \A log \in waiting : log.from \in Nat /\ log.from <= Edition
    BY DEF GateInv, GateType, WaitingLog, Remembered
  <2>2. \A log \in waiting : log.from <= Edition + 1
    BY <1>1, <2>1
  <2>3. \A n \in 1 .. Edition : n \in 1 .. Edition'
    BY <1>1
  <2> QED
    BY <1>1, <1>4, <2>2, <2>3 DEF GateInv, Remembered
<1>6. RunsWhatIsEnabled'
  <2>1. ASSUME NEW i \in DOMAIN ran PROVE \E e \in ran[i].from .. Edition' : editions'[e][ran[i].name] = ran[i].row
    <3>1. PICK e \in ran[i].from .. Edition : editions[e][ran[i].name] = ran[i].row
      BY DEF GateInv, RunsWhatIsEnabled
    <3>2. e \in 1 .. Edition /\ e \in ran[i].from .. Edition'
      BY <1>1, <1>4
    <3> QED
      BY <1>1, <3>1, <3>2
  <2> QED
    BY <2>1 DEF GateInv, RunsWhatIsEnabled
<1> QED
  BY <1>3, <1>5, <1>6 DEF GateInv

\* What runs is the newest edition of an enabled runbook.
LEMMA OneExecution ==
    ASSUME GateInv, NEW run \in Execution, ran' = Append(ran, run), UNCHANGED editions,
           run.row = Row(run.name), run.row.active, run.from \in 1 .. Edition,
           run.by = "agent" => run.row.risk = "auto" /\ ChecksPass(run.row, run.alert)
    PROVE  /\ ran' \in Seq(Execution) /\ RunsWhatIsEnabled'
           /\ \A i \in DOMAIN ran' : ran'[i].from \in 1 .. Edition
<1>1. /\ ran' \in Seq(Execution) /\ ran \in Seq(Execution) /\ DOMAIN ran = 1 .. Len(ran) /\ Len(ran) \in Nat
      /\ DOMAIN ran' = 1 .. Len(ran) + 1
      /\ \A i \in DOMAIN ran : ran'[i] = ran[i]
      /\ ran'[Len(ran) + 1] = run
  BY DEF GateInv, GateType
<1>2. \A i \in DOMAIN ran' : i \in DOMAIN ran \/ ran'[i] = run
  BY <1>1
<1>3. Edition \in run.from .. Edition /\ editions[Edition][run.name] = run.row
  BY NewestEdition DEF GateInv, Row
<1>4. RunsWhatIsEnabled'
  <2> SUFFICES ASSUME NEW i \in DOMAIN ran'
               PROVE  /\ \E e \in ran'[i].from .. Edition : editions[e][ran'[i].name] = ran'[i].row
                      /\ ran'[i].row.active
                      /\ ran'[i].by = "agent" => ran'[i].row.risk = "auto" /\ ChecksPass(ran'[i].row, ran'[i].alert)
    BY DEF RunsWhatIsEnabled, Edition, ChecksPass
  <2>1. CASE i \in DOMAIN ran
    BY <1>1, <2>1 DEF GateInv, RunsWhatIsEnabled
  <2>2. CASE ran'[i] = run
    BY <1>3, <2>2
  <2> QED
    BY <1>2, <2>1, <2>2
<1>5. \A i \in DOMAIN ran' : ran'[i].from \in 1 .. Edition
  BY <1>1, <1>2 DEF GateInv, Remembered
<1> QED
  BY <1>1, <1>4, <1>5

LEMMA DecideInv == ASSUME GateInv, NEW g \in Agents, NEW n \in Runbooks, Decide(g, n) PROVE GateInv'
<1>1. /\ agent[g].pc = "matching" /\ n \in Matches(g) /\ UNCHANGED <<editions, clock, handled>>
      /\ agent[g].from \in 1 .. Edition /\ agent[g].alert \in SUBSET Rules /\ DOMAIN agent[g] = AgentFields
  BY DEF Decide, GateInv, GateType, Remembered
<1>2. Row(n).active /\ Row(n) \in Rows \cup {Gone}
  BY <1>1, NewestEdition DEF Matches, Registry, GateInv
<1>3. CASE Verdict(g, n) = "run"
  <2> DEFINE run == [by |-> "agent", name |-> n, row |-> Row(n),
                     alert |-> agent[g].alert, from |-> agent[g].from, at |-> clock]
             a == [agent[g] EXCEPT !.pc = "running", !.name = {n}]
  <2>1. ran' = Append(ran, run) /\ waiting' = waiting /\ agent' = [agent EXCEPT ![g] = a]
    BY <1>3 DEF Decide
  <2>2. Row(n).risk = "auto" /\ ChecksPass(Row(n), agent[g].alert)
    <3> DEFINE risk == AssessRisk(Row(n).risk, agent[g].confidence, RecentCount(g))
    <3>1. Row(n).risk \in {"auto", "confirm", "block", "none"}
      BY <1>2 DEF Rows, Gone
    <3>2. risk # "run" /\ (risk = "auto" => Row(n).risk = "auto")
      BY <3>1 DEF AssessRisk
    <3>3. risk = "auto" /\ ChecksPass(Row(n), agent[g].alert)
      <4> HIDE DEF risk
      <4> QED
        BY <1>3, <3>2 DEF Verdict, risk
    <3> QED
      BY <3>2, <3>3
  <2>3. run \in Execution
    BY <1>1, <1>2 DEF Execution, GateInv, GateType
  <2>4. /\ ran' \in Seq(Execution) /\ RunsWhatIsEnabled'
        /\ \A i \in DOMAIN ran' : ran'[i].from \in 1 .. Edition
    <3>1. /\ run.row = Row(run.name) /\ run.row.active /\ run.from \in 1 .. Edition
          /\ run.by = "agent" => run.row.risk = "auto" /\ ChecksPass(run.row, run.alert)
      BY <1>1, <1>2, <2>2
    <3> HIDE DEF run
    <3> QED
      BY <1>1, <2>1, <2>3, <3>1, OneExecution
  <2>5. DOMAIN a = AgentFields /\ a.alert \in SUBSET Rules /\ a.pc = "running"
    BY <1>1 DEF AgentFields
  <2> HIDE DEF a, run
  <2>6. \A h \in Agents : agent'[h] = IF h = g THEN a ELSE agent[h]
    BY <2>1 DEF GateInv, GateType
  <2>7. agent' = [h \in Agents |-> agent'[h]]
    BY <2>1 DEF GateInv, GateType
  <2>8. GateType'
    BY <1>1, <2>1, <2>4, <2>5, <2>6, <2>7 DEF GateInv, GateType
  <2>9. Remembered'
    BY <1>1, <2>1, <2>4, <2>5, <2>6 DEF GateInv, Remembered, Edition
  <2> QED
    BY <2>4, <2>8, <2>9 DEF GateInv
<1>4. CASE Verdict(g, n) # "run"
  <2> DEFINE log == [name |-> n, alert |-> agent[g].alert, from |-> 0]
  <2>1. agent' = [agent EXCEPT ![g] = FreshAgent] /\ ran' = ran /\ waiting' \subseteq waiting \cup {log}
    BY <1>4 DEF Decide, Dropped
  <2>2. log \in WaitingLog /\ log.from = 0
    BY <1>1 DEF WaitingLog
  <2> HIDE DEF log
  <2>3. \A h \in Agents : agent'[h] = IF h = g THEN FreshAgent ELSE agent[h]
    BY <2>1 DEF GateInv, GateType
  <2>4. agent' = [h \in Agents |-> agent'[h]]
    BY <2>1 DEF GateInv, GateType
  <2>5. GateType'
    BY <1>1, <2>1, <2>2, <2>3, <2>4, FreshAgentIsFresh DEF GateInv, GateType
  <2>6. Remembered'
    <3>1. \A w \in waiting' : w.from <= Edition
      BY <2>1, <2>2, NewestEdition DEF GateInv, Remembered
    <3> QED
      BY <1>1, <2>1, <2>3, <3>1, FreshAgentIsFresh DEF GateInv, Remembered, Edition
  <2> QED
    BY <1>1, <2>1, <2>5, <2>6 DEF GateInv, RunsWhatIsEnabled, Edition
<1> QED
  BY <1>3, <1>4

LEMMA ApprovedInv ==
    ASSUME GateInv, NEW log \in waiting, ApproveRunbook(log) \/ RejectRunbook(log) \/ RunApproved(log)
    PROVE  GateInv'
<1>1. /\ log \in WaitingLog /\ log.from \in Nat /\ log.from <= Edition /\ log.name \in Runbooks
      /\ log.alert \in SUBSET Rules /\ Edition \in Nat /\ Edition \in 1 .. Edition
  BY NewestEdition DEF GateInv, GateType, WaitingLog, Remembered
<1>2. CASE ApproveRunbook(log) \/ RejectRunbook(log)
  <2> DEFINE new == [log EXCEPT !.from = Edition]
  <2>1. new \in WaitingLog /\ new.from = Edition
    BY <1>1 DEF WaitingLog
  <2> HIDE DEF new
  <2>2. UNCHANGED <<editions, clock, agent, ran>> /\ waiting' \subseteq waiting \cup {new}
    BY <1>2 DEF ApproveRunbook, RejectRunbook, new
  <2>3. GateType'
    BY <2>1, <2>2 DEF GateInv, GateType
  <2>4. Remembered'
    BY <1>1, <2>1, <2>2 DEF GateInv, Remembered, Edition
  <2> QED
    BY <2>2, <2>3, <2>4 DEF GateInv, RunsWhatIsEnabled, Edition
<1>3. CASE RunApproved(log)
  <2> DEFINE run == [by |-> "approval", name |-> log.name, row |-> Row(log.name),
                     alert |-> log.alert, from |-> log.from, at |-> clock]
  <2>1. /\ log.from # 0 /\ waiting' = waiting \ {log} /\ UNCHANGED <<editions, clock, agent>>
        /\ ran' = ran \/ (ran' = Append(ran, run) /\ Row(log.name).active)
    BY <1>3 DEF RunApproved, Registry
  <2>2. run \in Execution
    BY <1>1, NewestEdition DEF Execution, GateInv, GateType
  <2>3. /\ ran' \in Seq(Execution) /\ RunsWhatIsEnabled'
        /\ \A i \in DOMAIN ran' : ran'[i].from \in 1 .. Edition
    <3>1. CASE ran' = ran
      BY <2>1, <3>1 DEF GateInv, GateType, Remembered, RunsWhatIsEnabled, Edition
    <3>2. CASE ran' = Append(ran, run) /\ Row(log.name).active
      <4>1. run.row = Row(run.name) /\ run.row.active /\ run.from \in 1 .. Edition /\ run.by # "agent"
        BY <1>1, <2>1, <3>2
      <4> HIDE DEF run
      <4> QED
        BY <2>1, <2>2, <3>2, <4>1, OneExecution
    <3> QED
      BY <2>1, <3>1, <3>2
  <2>4. GateType'
    BY <2>1, <2>3 DEF GateInv, GateType
  <2>5. Remembered'
    BY <2>1, <2>3 DEF GateInv, Remembered, Edition
  <2> QED
    BY <2>3, <2>4, <2>5 DEF GateInv
<1> QED
  BY <1>2, <1>3

LEMMA GateNextInv == GateInv /\ [GateNext]_gateVars => GateInv'
<1> SUFFICES ASSUME GateInv, [GateNext]_gateVars PROVE GateInv'
  OBVIOUS
<1>0. GateType /\ \A g \in Agents : DOMAIN agent[g] = AgentFields /\ agent[g].alert \in SUBSET Rules
  BY DEF GateInv, GateType
<1>1. CASE Tick
  <2>1. clock' \in Nat /\ UNCHANGED <<editions, agent, waiting, ran>>
    BY <1>0, <1>1 DEF Tick, GateType
  <2> QED
    BY <2>1 DEF GateInv, GateType, Remembered, RunsWhatIsEnabled, Edition
<1>2. ASSUME NEW g \in Agents, NoRunbook(g) \/ EndAlert(g) PROVE GateInv'
  BY <1>2, FreshAgentIsFresh, OneAgent DEF NoRunbook, EndAlert, Dropped
<1>3. ASSUME NEW g \in Agents, NEW alert \in SUBSET Rules, BeginAlert(g, alert) PROVE GateInv'
  <2> DEFINE a == IF IsOpen(g) THEN agent[g] ELSE [agent[g] EXCEPT !.pc = "diagnosing", !.alert = alert]
  <2>1. DOMAIN a = AgentFields /\ a.alert \in SUBSET Rules /\ a.pc # "matching"
    BY <1>0, <1>3 DEF AgentFields, BeginAlert
  <2>2. agent' = [agent EXCEPT ![g] = a] /\ UNCHANGED <<editions, clock, waiting, ran>>
    BY <1>3 DEF BeginAlert
  <2> HIDE DEF a
  <2> QED
    BY <2>1, <2>2, OneAgent
<1>4. ASSUME NEW g \in Agents, NEW confidence, NEW suggested, Diagnose(g, confidence, suggested) PROVE GateInv'
  <2> DEFINE a == [agent[g] EXCEPT !.pc = "matching", !.confidence = confidence,
                                   !.suggested = suggested, !.from = Edition]
  <2>1. DOMAIN a = AgentFields /\ a.alert \in SUBSET Rules /\ a.from \in 1 .. Edition
    BY <1>0, NewestEdition DEF AgentFields
  <2>2. agent' = [agent EXCEPT ![g] = a] /\ UNCHANGED <<editions, clock, waiting, ran>>
    BY <1>4 DEF Diagnose
  <2> HIDE DEF a
  <2> QED
    BY <2>1, <2>2, OneAgent
<1>5. ASSUME NEW g \in Agents, NEW success \in BOOLEAN, EndRun(g, success) PROVE GateInv'
  <2>1. DOMAIN Recorded(g, success) = AgentFields /\ Recorded(g, success).alert \in SUBSET Rules
        /\ Recorded(g, success).pc = "recorded"
    BY <1>0 DEF AgentFields, Recorded
  <2>2. agent' = [agent EXCEPT ![g] = Recorded(g, success)] /\ UNCHANGED <<editions, clock, waiting, ran>>
    BY <1>5 DEF EndRun
  <2> QED
    BY <2>1, <2>2, OneAgent
<1>6. ASSUME NEW g \in Agents, NEW n \in Runbooks, Decide(g, n) PROVE GateInv'
  BY <1>6, DecideInv
<1>7. ASSUME NEW log \in waiting, ApproveRunbook(log) \/ RejectRunbook(log) \/ RunApproved(log) PROVE GateInv'
  BY <1>7, ApprovedInv
<1>8. ASSUME NEW n \in Runbooks, NEW r \in Rows \cup {Gone}, Replaced(n, r) PROVE GateInv'
  <2>1. [editions[Edition] EXCEPT ![n] = r] \in Books
    BY <1>0, NewestEdition DEF Books
  <2> QED
    BY <1>8, <2>1, OneEdition DEF Replaced
<1>9. ASSUME NEW names \in SUBSET Runbooks, NEW rows \in [names -> Rows], ImportRunbooks(rows) PROVE GateInv'
  <2> DEFINE new == {n \in DOMAIN rows : Row(n) = Gone}
             books == [n \in Runbooks |-> IF n \in new THEN rows[n] ELSE Row(n)]
  <2>1. books \in Books
    BY <1>0, NewestEdition DEF Books
  <2>2. editions' = Append(editions, books) /\ UNCHANGED <<clock, agent, waiting, ran>>
    BY <1>9 DEF ImportRunbooks
  <2> HIDE DEF books
  <2> QED
    BY <2>1, <2>2, OneEdition
<1>10. CASE UNCHANGED gateVars
  BY <1>10 DEF GateInv, GateType, Remembered, RunsWhatIsEnabled, Edition, gateVars
<1>11. ASSUME NEW n \in Runbooks,
              \/ DeleteRunbook(n) \/ \E r \in Rows : CreateRunbook(n, r) \/ UpdateRunbook(n, r)
       PROVE  GateInv'
  BY <1>8, <1>11 DEF DeleteRunbook, CreateRunbook, UpdateRunbook
<1> QED
  BY <1>1, <1>2, <1>3, <1>4, <1>5, <1>6, <1>7, <1>9, <1>10, <1>11 DEF GateNext

\* What runs on a host was enabled, as it runs, at or after the diagnosis or the
\* approval, and "auto" with its checks passed if nobody approved it, for any
\* number of alerts, agents and edits.
THEOREM OnlyEnabledRunbooksRun == GateSpec => []RunsWhatIsEnabled
<1>1. GateInit => GateInv
  <2> SUFFICES ASSUME GateInit PROVE GateInv
    OBVIOUS
  <2>1. PICK books \in Books : editions = <<books>>
    BY DEF GateInit, Books
  <2>2. /\ editions \in Seq(Books) /\ Len(editions) = 1 /\ editions # <<>>
        /\ ran = <<>> /\ ran \in Seq(Execution) /\ DOMAIN ran = {}
    BY <2>1 DEF GateInit
  <2>3. GateType
    BY <2>2, FreshAgentIsFresh DEF GateInit, GateType
  <2> QED
    BY <2>2, <2>3, FreshAgentIsFresh DEF GateInit, GateInv, Remembered, RunsWhatIsEnabled
<1>2. GateInv => RunsWhatIsEnabled
  BY DEF GateInv
<1> QED
  BY <1>1, <1>2, GateNextInv, PTL DEF GateSpec

-----------------------------------------------------------------------------
(* The limit on requests.  What the sorted set of a key holds are stamps   *)
(* of requests that were made, and those of a key are of one caller.       *)

LimitsInv ==
    /\ second \in Nat /\ IsFiniteSet(made)
    /\ \A f \in inFlight \cup made : f.request \in Requests /\ f.stamp \in Nat
    /\ counts = [k \in Keys |-> counts[k]]
    /\ \A k \in Keys : \A s \in counts[k] : \E g \in made : Key(g.request) = k /\ g.stamp = s
    /\ RefusedRightly

LEMMA KeysAreCallers ==
    ASSUME NEW r \in Requests, NEW q \in Requests, Key(r) = Key(q) PROVE SameCaller(r, q)
<1>1. /\ r.path = q.path /\ r.user \in Users \cup {Nobody} /\ q.user \in Users \cup {Nobody}
      /\ r.address \in Addresses /\ q.address \in Addresses
  BY DEF Key, Requests
<1> DEFINE by(x) == IF x.path \in UserPaths /\ x.user # Nobody THEN x.user ELSE x.address
<1>2. by(r) = by(q)
  BY DEF Key
<1> QED
  BY <1>1, <1>2, RequestLimitsAssumption DEF SameCaller

\* As many requests as there are stamps of them, at least.
LEMMA StampsCountRequests ==
    ASSUME NEW S, IsFiniteSet(S), NEW T, \A s \in T : \E g \in S : g.stamp = s
    PROVE  IsFiniteSet(T) /\ Cardinality(T) <= Cardinality(S)
<1> DEFINE pick == [s \in T |-> CHOOSE g \in S : g.stamp = s]
<1>1. \A s \in T : pick[s] \in S /\ pick[s].stamp = s
  OBVIOUS
<1>2. pick \in Injection(T, S)
  BY <1>1 DEF Injection, IsInjective
<1> QED
  BY <1>2, FS_Injection

LEMMA CountRequestInv == ASSUME LimitsInv, NEW f \in inFlight, CountRequest(f) PROVE LimitsInv'
<1> DEFINE k == Key(f.request)
           mine == {g \in made' : SameCaller(f.request, g.request) /\ g.stamp > f.stamp - Window}
<1>1. /\ counts' = [counts EXCEPT ![k] = Counted(k, f.stamp)]
      /\ refusal' = IF Cardinality(Counted(k, f.stamp)) > MaxInWindow THEN {f} ELSE {}
      /\ inFlight' = inFlight \ {f} /\ made' = made \cup {f} /\ second' = second
  BY DEF CountRequest
<1>2. f.request \in Requests /\ f.stamp \in Nat /\ k \in Keys /\ Window \in Nat /\ Window # 0 /\ MaxInWindow \in Nat
  BY RequestLimitsAssumption DEF LimitsInv, Keys
<1>3. IsFiniteSet(made')
  BY <1>1, FS_AddElement DEF LimitsInv
<1>4. \A g \in inFlight' \cup made' : g.request \in Requests /\ g.stamp \in Nat
  BY <1>1 DEF LimitsInv
<1>5. counts' = [x \in Keys |-> counts'[x]] /\ \A x \in Keys : counts'[x] = IF x = k THEN Counted(k, f.stamp) ELSE counts[x]
  BY <1>1, <1>2 DEF LimitsInv
<1>6. ASSUME NEW s \in Counted(k, f.stamp)
      PROVE  s > f.stamp - Window /\ \E g \in made' : Key(g.request) = k /\ g.stamp = s
  <2>1. CASE s = f.stamp
    BY <1>1, <1>2, <2>1
  <2>2. CASE s # f.stamp
    <3>1. s \in counts[k] /\ s > f.stamp - Window
      BY <2>2 DEF Counted
    <3> QED
      BY <1>1, <1>2, <3>1 DEF LimitsInv
  <2> QED
    BY <2>1, <2>2
<1>7. \A x \in Keys : \A s \in counts'[x] : \E g \in made' : Key(g.request) = x /\ g.stamp = s
  <2> SUFFICES ASSUME NEW x \in Keys, NEW s \in counts'[x]
               PROVE  \E g \in made' : Key(g.request) = x /\ g.stamp = s
    OBVIOUS
  <2>1. CASE x = k
    BY <1>5, <1>6, <2>1
  <2>2. CASE x # k
    BY <1>1, <1>5, <2>2 DEF LimitsInv
  <2> QED
    BY <2>1, <2>2
<1> HIDE DEF k
<1>8. \A s \in Counted(k, f.stamp) : \E g \in mine : g.stamp = s
  <2> SUFFICES ASSUME NEW s \in Counted(k, f.stamp) PROVE \E g \in mine : g.stamp = s
    OBVIOUS
  <2>1. PICK g \in made' : Key(g.request) = k /\ g.stamp = s
    BY <1>6
  <2>2. SameCaller(f.request, g.request)
    BY <1>2, <1>4, <2>1, KeysAreCallers DEF k
  <2> QED
    BY <1>6, <2>1, <2>2
<1>9. IsFiniteSet(mine) /\ Cardinality(mine) \in Nat
  BY <1>3, FS_Subset, FS_CardinalityType
<1>10. IsFiniteSet(Counted(k, f.stamp)) /\ Cardinality(Counted(k, f.stamp)) <= Cardinality(mine)
  <2> HIDE DEF mine
  <2> QED
    BY <1>8, <1>9, StampsCountRequests
<1>11. Cardinality(Counted(k, f.stamp)) \in Nat
  BY <1>10, FS_CardinalityType
<1>12. \A g \in refusal' : g = f /\ Cardinality(mine) > MaxInWindow
  <2> HIDE DEF mine
  <2> QED
    BY <1>1, <1>2, <1>9, <1>10, <1>11
<1>13. RefusedRightly'
  BY <1>12 DEF RefusedRightly, SameCaller
<1> QED
  BY <1>1, <1>3, <1>4, <1>5, <1>7, <1>13 DEF LimitsInv

LEMMA LimitsNextInv == LimitsInv /\ [LimitsNext]_limitVars => LimitsInv'
<1> SUFFICES ASSUME LimitsInv, [LimitsNext]_limitVars PROVE LimitsInv'
  OBVIOUS
<1>1. CASE UNCHANGED limitVars
  BY <1>1 DEF LimitsInv, RefusedRightly, limitVars
<1>2. ASSUME NEW r \in Requests, Stamp(r) PROVE LimitsInv'
  <2>1. /\ UNCHANGED <<second, counts, made, refusal>>
        /\ \A f \in inFlight' : f \in inFlight \/ (f.request = r /\ f.stamp = second)
    BY <1>2 DEF Stamp
  <2> QED
    BY <2>1 DEF LimitsInv, RefusedRightly
<1>3. ASSUME NEW f \in inFlight, CountRequest(f) PROVE LimitsInv'
  BY <1>3, CountRequestInv
<1>4. ASSUME NEW f \in inFlight, PassUncounted(f) PROVE LimitsInv'
  BY <1>4 DEF PassUncounted, LimitsInv, RefusedRightly
<1>5. CASE LoseCounts
  <2>1. counts' = [k \in Keys |-> {}]
    <3>1. DOMAIN counts = Keys
      BY DEF LimitsInv
    <3> QED
      BY <1>5, <3>1 DEF LoseCounts
  <2> QED
    BY <1>5, <2>1 DEF LoseCounts, LimitsInv, RefusedRightly
<1>6. CASE SecondPasses
  BY <1>6 DEF SecondPasses, LimitsInv, RefusedRightly
<1> QED
  BY <1>1, <1>2, <1>3, <1>4, <1>5, <1>6 DEF LimitsNext

\* Who is refused has asked too often in the window, whatever others ask for and
\* in whatever order requests are counted, for any number of callers and paths.
THEOREM OnlyTheFrequentAreRefused == LimitsSpec => []RefusedRightly
<1>1. LimitsInit => LimitsInv
  BY FS_EmptySet DEF LimitsInit, LimitsInv, Keys, RefusedRightly
<1>2. LimitsInv => RefusedRightly
  BY DEF LimitsInv
<1> QED
  BY <1>1, <1>2, LimitsNextInv, PTL DEF LimitsSpec

-----------------------------------------------------------------------------
(* Alerts on keywords.  A check holds what silenced the hosts it left out  *)
(* when it read (Heard), and which alerts it had seen that were firing and *)
(* within the window (Looked); an alert that is answered was answered at a *)
(* time that has come.                                                     *)

MuteRow == [hosts : SUBSET LogHosts, from : Nat, until : Nat, active : BOOLEAN]
AlertRow == [host : LogHosts, fired : Nat, over : Nat]
CheckRow == [pc : {"idle", "rules", "muted", "recent"}, lines : Seq(LogHosts), start : Nat,
             muted : SUBSET LogHosts, read : Nat, recent : SUBSET LogHosts, seen : Nat]

KeywordType ==
    /\ time \in Nat /\ time <= MaxTime /\ mutes \in [MuteIds -> MuteRow]
    /\ checking \in [Batches -> CheckRow] /\ raised \in Seq(AlertRow)
    /\ \A i \in 1 .. Len(raised) : raised[i].over = Forever \/ raised[i].over <= time

Heard ==
    \A r \in Batches : checking[r].pc \in {"muted", "recent"} =>
      \A h \in LogHosts : h \in checking[r].muted \cup unsilenced[r]

Settled(alert, check) ==
    \/ alert.host \in check.recent \/ alert.over <= check.read
    \/ alert.fired + DedupWindow < check.read

Looked ==
    \A r \in Batches : checking[r].pc = "recent" =>
      /\ checking[r].read <= time /\ checking[r].seen <= Len(raised)
      /\ \A i \in 1 .. checking[r].seen : Settled(raised[i], checking[r])

KeywordInv == KeywordType /\ Heard /\ Looked

LEMMA KeywordNumbers ==
    /\ DedupWindow \in Nat /\ MaxTime \in Nat /\ Forever \in Nat /\ Forever = MaxTime + 1
    /\ MaxTime \div 2 \in Nat
  BY KeywordAssumption DEF Forever

LEMMA NoCheckIsIdle == NoCheck \in CheckRow /\ NoCheck.pc = "idle"
<1>1. <<>> \in Seq(LogHosts)
  OBVIOUS
<1> QED
  BY <1>1 DEF NoCheck, CheckRow

\* The new alerts follow the old ones: at most one of a host, and of none that
\* the check had read to be silenced or to have a recent alert.
LEMMA CommitAppends ==
    ASSUME KeywordType, NEW r \in Batches, CheckCommits(r)
    PROVE  /\ raised' \in Seq(AlertRow) /\ Len(raised) <= Len(raised')
           /\ \A i \in 1 .. Len(raised) : raised'[i] = raised[i]
           /\ \A j \in Len(raised) + 1 .. Len(raised') :
                /\ raised'[j].host \in LogHosts \ (checking[r].muted \cup checking[r].recent)
                /\ raised'[j].over = Forever
                /\ \A i \in Len(raised) + 1 .. j - 1 : raised'[i].host # raised'[j].host
<1> DEFINE lines == checking[r].lines
           ks == LinesToRaise(r)
           n == Cardinality(ks)
           alert(k) == [host |-> lines[k], fired |-> checking[r].start, over |-> Forever]
<1>1. checking[r] \in CheckRow /\ lines \in Seq(LogHosts) /\ checking[r].start \in Nat /\ raised \in Seq(AlertRow)
  BY DEF KeywordType, CheckRow
<1>2. ks \in SUBSET (1 .. Len(lines)) /\ Len(lines) \in Nat
  BY <1>1 DEF LinesToRaise
<1>3. n \in Nat
  <2>1. IsFiniteSet(1 .. Len(lines))
    BY <1>2, FS_Interval
  <2> QED
    BY <1>2, <2>1, FS_Subset, FS_CardinalityType
<1>4. \A k \in ks : /\ lines[k] \in LogHosts \ (checking[r].muted \cup checking[r].recent)
                    /\ \A j \in 1 .. k - 1 : lines[j] # lines[k]
  BY <1>1, <1>2 DEF LinesToRaise
<1>5. PICK order \in [1 .. n -> ks] :
        /\ \A i, j \in DOMAIN order : i < j => order[i] < order[j]
        /\ raised' = raised \o [i \in DOMAIN order |-> alert(order[i])]
  BY DEF CheckCommits
<1> DEFINE new == [i \in 1 .. n |-> alert(order[i])]
<1>6. \A k \in ks : alert(k) \in AlertRow
  BY <1>1, <1>4, KeywordNumbers DEF AlertRow
<1> HIDE DEF ks, n
<1>7. new \in Seq(AlertRow) /\ Len(new) = n
  <2> HIDE DEF alert
  <2>1. \A i \in 1 .. n : alert(order[i]) \in AlertRow
    BY <1>5, <1>6
  <2> QED
    BY <1>3, <2>1
<1>8. raised' = raised \o new
  BY <1>5
<1> HIDE DEF new
<1>9. /\ raised' \in Seq(AlertRow) /\ Len(raised') = Len(raised) + n /\ Len(raised) \in Nat
      /\ \A i \in 1 .. Len(raised) : raised'[i] = raised[i]
      /\ \A m \in 1 .. n : raised'[Len(raised) + m] = new[m]
  BY <1>1, <1>3, <1>7, <1>8
<1>10. ASSUME NEW j \in Len(raised) + 1 .. Len(raised')
       PROVE  /\ j - Len(raised) \in 1 .. n /\ raised'[j].host = lines[order[j - Len(raised)]]
              /\ raised'[j].over = Forever /\ order[j - Len(raised)] \in ks
  <2> DEFINE m == j - Len(raised)
  <2>1. m \in 1 .. n /\ j = Len(raised) + m
    BY <1>3, <1>9
  <2> HIDE DEF m
  <2>2. raised'[j] = alert(order[m]) /\ order[m] \in ks
    BY <1>5, <1>9, <2>1 DEF new
  <2> QED
    BY <2>1, <2>2 DEF m
<1>11. ASSUME NEW j \in Len(raised) + 1 .. Len(raised'), NEW i \in Len(raised) + 1 .. j - 1
       PROVE  raised'[i].host # raised'[j].host
  <2> DEFINE m == j - Len(raised)
             l == i - Len(raised)
  <2>1. i \in Len(raised) + 1 .. Len(raised') /\ l < m
    BY <1>3, <1>9
  <2>2. l \in 1 .. n /\ m \in 1 .. n /\ order[l] \in ks /\ order[m] \in ks
        /\ raised'[i].host = lines[order[l]] /\ raised'[j].host = lines[order[m]]
    BY <1>10, <2>1
  <2> HIDE DEF l, m
  <2>3. order[l] < order[m]
    BY <1>5, <2>1, <2>2
  <2>4. order[l] \in 1 .. order[m] - 1
    BY <1>2, <2>2, <2>3 DEF ks
  <2> QED
    BY <1>4, <2>2, <2>4
<1>12. \A j \in Len(raised) + 1 .. Len(raised') :
         raised'[j].host \in LogHosts \ (checking[r].muted \cup checking[r].recent) /\ raised'[j].over = Forever
  BY <1>4, <1>10
<1> QED
  BY <1>3, <1>9, <1>11, <1>12
LEMMA Unmuted == Silenced \subseteq SuppressedHosts
<1> SUFFICES ASSUME NEW h \in Silenced PROVE h \in SuppressedHosts
  OBVIOUS
<1>1. PICK i \in MuteIds : h \in mutes[i].hosts /\ mutes[i].active /\ time \in mutes[i].from .. mutes[i].until
  BY DEF Silenced
<1>2. Holds(mutes[i])
  BY <1>1 DEF Holds
<1> QED
  BY <1>1, <1>2 DEF SuppressedHosts

\* A step that starts no check, ends no read and raises nothing: each check is
\* as it was, or is over.
LEMMA ChecksStand ==
    ASSUME KeywordInv, KeywordType', raised' = raised, time <= time',
           \A r \in Batches : checking'[r] = checking[r] \/ checking'[r].pc \in {"idle", "rules"},
           unsilenced' = [r \in Batches |->
             IF checking'[r].pc = "idle" THEN {} ELSE unsilenced[r] \cup (LogHosts \ Silenced')]
    PROVE  KeywordInv'
<1>1. Heard'
  BY DEF KeywordInv, Heard
<1>2. ASSUME NEW r \in Batches, checking'[r].pc = "recent"
      PROVE  /\ checking'[r].read <= time' /\ checking'[r].seen <= Len(raised')
             /\ \A i \in 1 .. checking'[r].seen : Settled(raised'[i], checking'[r])
  <2>1. checking'[r] = checking[r]
    BY <1>2
  <2>2. /\ checking[r].read <= time /\ checking[r].seen <= Len(raised)
        /\ \A i \in 1 .. checking[r].seen : Settled(raised[i], checking[r])
    BY <1>2, <2>1 DEF KeywordInv, Looked
  <2>3. checking[r].read \in Nat /\ time \in Nat /\ time' \in Nat
    BY DEF KeywordInv, KeywordType, CheckRow
  <2> HIDE DEF Settled
  <2> QED
    BY <2>1, <2>2, <2>3
<1> QED
  BY <1>1, <1>2 DEF KeywordInv, Looked

\* Rules change, and nothing else.
LEMMA MutesKept ==
    ASSUME KeywordInv, NEW i \in MuteIds, NEW mute \in MuteRow, MuteStored(i, mute),
           unsilenced' = [r \in Batches |->
             IF checking'[r].pc = "idle" THEN {} ELSE unsilenced[r] \cup (LogHosts \ Silenced')]
    PROVE  KeywordInv'
<1>1. time' = time /\ checking' = checking /\ raised' = raised
  BY DEF MuteStored
<1>2. mutes' \in [MuteIds -> MuteRow]
  BY DEF MuteStored, KeywordInv, KeywordType
<1>3. KeywordType'
  BY <1>1, <1>2 DEF KeywordInv, KeywordType
<1>4. time <= time'
  BY <1>1 DEF KeywordInv, KeywordType
<1> QED
  BY <1>1, <1>3, <1>4, ChecksStand

LEMMA KeywordNextInv == KeywordInv /\ [KeywordNext]_keywordVars => KeywordInv'
<1> SUFFICES ASSUME KeywordInv, [KeywordNext]_keywordVars PROVE KeywordInv'
  OBVIOUS
<1> DEFINE Watched == unsilenced' = [r \in Batches |->
             IF checking'[r].pc = "idle" THEN {} ELSE unsilenced[r] \cup (LogHosts \ Silenced')]
<1>1. CASE UNCHANGED keywordVars
  <2>1. KeywordType'
    BY <1>1 DEF KeywordInv, KeywordType, keywordVars
  <2>2. Heard'
    BY <1>1 DEF KeywordInv, Heard, keywordVars
  <2>3. Looked'
    BY <1>1 DEF KeywordInv, Looked, Settled, keywordVars
  <2> QED
    BY <2>1, <2>2, <2>3 DEF KeywordInv
<1>2. ASSUME KeywordNext PROVE KeywordInv'
  <2>0. Watched
    BY <1>2 DEF KeywordNext
  <2>T. KeywordType /\ Heard /\ Looked
    BY DEF KeywordInv
  <2>1. CASE SecondsPass
    <3>1. time' \in Nat /\ time' <= MaxTime /\ time <= time'
      BY <2>1, <2>T, KeywordNumbers DEF SecondsPass, KeywordType
    <3>2. \A i \in 1 .. Len(raised) : raised[i].over = Forever \/ raised[i].over <= time'
      <4> SUFFICES ASSUME NEW i \in 1 .. Len(raised), raised[i].over # Forever PROVE raised[i].over <= time'
        OBVIOUS
      <4>1. raised[i].over <= time /\ raised[i] \in AlertRow /\ time \in Nat
        BY <2>T DEF KeywordType
      <4>2. raised[i].over \in Nat
        BY <4>1 DEF AlertRow
      <4> QED
        BY <3>1, <4>1, <4>2
    <3>3. KeywordType' /\ raised' = raised /\ checking' = checking
      BY <2>1, <2>T, <3>1, <3>2 DEF SecondsPass, KeywordType
    <3> QED
      BY <2>0, <3>1, <3>3, ChecksStand
  <2>2. CASE \E r \in Batches, n \in 1 .. 2 : \E lines \in [1 .. n -> LogHosts] : CheckStarts(r, lines)
    <3>1. PICK r \in Batches, n \in 1 .. 2 : \E lines \in [1 .. n -> LogHosts] : CheckStarts(r, lines)
      BY <2>2
    <3>2. PICK lines \in [1 .. n -> LogHosts] : CheckStarts(r, lines)
      BY <3>1
    <3>3. lines \in Seq(LogHosts)
      OBVIOUS
    <3>4. checking' \in [Batches -> CheckRow] /\ checking'[r].pc = "rules"
          /\ \A q \in Batches : q # r => checking'[q] = checking[q]
      BY <2>T, <3>2, <3>3 DEF CheckStarts, KeywordType, CheckRow
    <3>5. KeywordType' /\ raised' = raised /\ time' = time /\ time \in Nat
      BY <2>T, <3>2, <3>4 DEF CheckStarts, KeywordType
    <3>6. time <= time'
      BY <3>5
    <3>7. \A q \in Batches : checking'[q] = checking[q] \/ checking'[q].pc \in {"idle", "rules"}
      BY <3>4
    <3> QED
      BY <2>0, <3>5, <3>6, <3>7, ChecksStand
  <2>3. ASSUME NEW r \in Batches, ReadMutes(r) PROVE KeywordInv'
    <3>1. SuppressedHosts \subseteq LogHosts
      BY <2>T DEF SuppressedHosts, KeywordType, MuteRow
    <3>2. checking' \in [Batches -> CheckRow] /\ checking'[r].pc = "muted" /\ checking'[r].muted = SuppressedHosts
          /\ \A q \in Batches : q # r => checking'[q] = checking[q]
      BY <2>T, <2>3, <3>1 DEF ReadMutes, KeywordType, CheckRow
    <3>3. raised' = raised /\ time' = time /\ mutes' = mutes
      BY <2>3 DEF ReadMutes
    <3>4. KeywordType'
      BY <2>T, <3>2, <3>3 DEF KeywordType
    <3>5. Silenced' = Silenced
      BY <3>3 DEF Silenced
    <3>6. Heard'
      <4> SUFFICES ASSUME NEW q \in Batches, checking'[q].pc \in {"muted", "recent"}, NEW h \in LogHosts,
                          h \notin checking'[q].muted
                   PROVE  h \in unsilenced'[q]
        BY DEF Heard
      <4>1. unsilenced'[q] = unsilenced[q] \cup (LogHosts \ Silenced)
        BY <2>0, <3>5
      <4>2. CASE q = r
        BY <3>2, <4>1, <4>2, Unmuted
      <4>3. CASE q # r
        BY <2>T, <3>2, <4>1, <4>3 DEF Heard
      <4> QED
        BY <4>2, <4>3
    <3>7. Looked'
      <4> SUFFICES ASSUME NEW q \in Batches, checking'[q].pc = "recent"
                   PROVE  /\ checking'[q].read <= time' /\ checking'[q].seen <= Len(raised')
                          /\ \A i \in 1 .. checking'[q].seen : Settled(raised'[i], checking'[q])
        BY DEF Looked
      <4>1. checking'[q] = checking[q]
        BY <3>2
      <4> QED
        BY <2>T, <3>3, <4>1 DEF Looked, Settled
    <3> QED
      BY <3>4, <3>6, <3>7 DEF KeywordInv
  <2>4. ASSUME NEW r \in Batches, ReadRecent(r) PROVE KeywordInv'
    <3>0. Len(raised) \in Nat /\ DOMAIN raised = 1 .. Len(raised) /\ time \in Nat
      BY <2>T DEF KeywordType
    <3>1. Recent \subseteq LogHosts
      <4>1. \A i \in DOMAIN raised : raised[i] \in AlertRow
        BY <2>T DEF KeywordType
      <4>2. \A i \in DOMAIN raised : raised[i].host \in LogHosts
        BY <4>1 DEF AlertRow
      <4> QED
        BY <4>2 DEF Recent
    <3>2. checking' \in [Batches -> CheckRow]
      BY <2>T, <2>4, <3>0, <3>1 DEF ReadRecent, KeywordType, CheckRow
    <3>3. checking'[r].pc = "recent" /\ checking'[r].muted = checking[r].muted /\ checking[r].pc = "muted"
          /\ checking'[r].recent = Recent /\ checking'[r].read = time /\ checking'[r].seen = Len(raised)
          /\ \A q \in Batches : q # r => checking'[q] = checking[q]
      BY <2>T, <2>4 DEF ReadRecent, KeywordType, CheckRow
    <3>4. raised' = raised /\ time' = time /\ mutes' = mutes
      BY <2>4 DEF ReadRecent
    <3>5. KeywordType'
      BY <2>T, <3>2, <3>4 DEF KeywordType
    <3>6. Heard'
      <4> SUFFICES ASSUME NEW q \in Batches, checking'[q].pc \in {"muted", "recent"}, NEW h \in LogHosts
                   PROVE  h \in checking'[q].muted \cup unsilenced'[q]
        BY DEF Heard
      <4>1. checking'[q].muted = checking[q].muted /\ checking[q].pc \in {"muted", "recent"}
        BY <3>3
      <4>2. h \in checking[q].muted \cup unsilenced[q]
        BY <2>T, <4>1 DEF Heard
      <4>3. unsilenced[q] \subseteq unsilenced'[q]
        BY <2>0
      <4> QED
        BY <4>1, <4>2, <4>3
    <3>7. \A i \in 1 .. Len(raised) :
            raised[i].host \in Recent \/ raised[i].over <= time \/ raised[i].fired + DedupWindow < time
      <4> SUFFICES ASSUME NEW i \in 1 .. Len(raised), raised[i].host \notin Recent, ~(raised[i].over <= time)
                   PROVE  raised[i].fired + DedupWindow < time
        OBVIOUS
      <4>1. raised[i].over = Forever
        BY <2>T DEF KeywordType
      <4>2. ~(raised[i].fired + DedupWindow >= time)
        BY <3>0, <4>1 DEF Recent
      <4>3. raised[i] \in AlertRow
        BY <2>T DEF KeywordType
      <4>4. raised[i].fired \in Nat
        BY <4>3 DEF AlertRow
      <4> QED
        BY <3>0, <4>2, <4>4, KeywordNumbers
    <3>8. Looked'
      <4> SUFFICES ASSUME NEW q \in Batches, checking'[q].pc = "recent"
                   PROVE  /\ checking'[q].read <= time' /\ checking'[q].seen <= Len(raised')
                          /\ \A i \in 1 .. checking'[q].seen : Settled(raised'[i], checking'[q])
        BY DEF Looked
      <4>1. CASE q = r
        BY <3>0, <3>3, <3>4, <3>7, <4>1 DEF Settled
      <4>2. CASE q # r
        BY <2>T, <3>3, <3>4, <4>2 DEF Looked, Settled
      <4> QED
        BY <4>1, <4>2
    <3> QED
      BY <3>5, <3>6, <3>8 DEF KeywordInv
  <2>5. ASSUME NEW r \in Batches, CheckCommits(r) PROVE KeywordInv'
    <3>1. /\ raised' \in Seq(AlertRow) /\ Len(raised) <= Len(raised')
          /\ \A i \in 1 .. Len(raised) : raised'[i] = raised[i]
          /\ \A j \in Len(raised) + 1 .. Len(raised') : raised'[j].over = Forever
      BY <2>T, <2>5, CommitAppends
    <3>2. time' = time /\ mutes' = mutes /\ checking' = [checking EXCEPT ![r] = NoCheck]
      BY <2>5 DEF CheckCommits
    <3>3. checking' \in [Batches -> CheckRow] /\ checking'[r].pc = "idle"
          /\ \A q \in Batches : q # r => checking'[q] = checking[q]
      BY <2>T, <3>2, NoCheckIsIdle DEF KeywordType
    <3>4. Len(raised) \in Nat /\ Len(raised') \in Nat
      BY <2>T, <3>1 DEF KeywordType
    <3>5. \A i \in 1 .. Len(raised') : raised'[i].over = Forever \/ raised'[i].over <= time
      <4> SUFFICES ASSUME NEW i \in 1 .. Len(raised') PROVE raised'[i].over = Forever \/ raised'[i].over <= time
        OBVIOUS
      <4>1. CASE i \in 1 .. Len(raised)
        BY <2>T, <3>1, <4>1 DEF KeywordType
      <4>2. CASE i \notin 1 .. Len(raised)
        BY <3>1, <3>4, <4>2
      <4> QED
        BY <4>1, <4>2
    <3>6. Forever' = Forever
      BY DEF Forever
    <3>7. KeywordType'
      BY <2>T, <3>1, <3>2, <3>3, <3>5, <3>6 DEF KeywordType
    <3>8. Heard'
      BY <2>0, <2>T, <3>3 DEF Heard
    <3>9. Looked'
      <4> SUFFICES ASSUME NEW q \in Batches, checking'[q].pc = "recent"
                   PROVE  /\ checking'[q].read <= time' /\ checking'[q].seen <= Len(raised')
                          /\ \A i \in 1 .. checking'[q].seen : Settled(raised'[i], checking'[q])
        BY DEF Looked
      <4>1. checking'[q] = checking[q] /\ checking[q].pc = "recent"
        BY <3>3
      <4>2. /\ checking[q].read <= time /\ checking[q].seen <= Len(raised)
            /\ \A i \in 1 .. checking[q].seen : Settled(raised[i], checking[q])
        BY <2>T, <4>1 DEF Looked
      <4>3. checking[q].seen \in Nat
        BY <2>T DEF KeywordType, CheckRow
      <4>4. checking[q].seen <= Len(raised') /\ 1 .. checking[q].seen \subseteq 1 .. Len(raised)
        BY <3>1, <3>4, <4>2, <4>3
      <4>5. \A i \in 1 .. checking[q].seen : raised'[i] = raised[i]
        BY <3>1, <4>4
      <4> HIDE DEF Settled
      <4> QED
        BY <3>2, <4>1, <4>2, <4>4, <4>5
    <3> QED
      BY <3>7, <3>8, <3>9 DEF KeywordInv
  <2>6. ASSUME NEW r \in Batches, KeywordCheckFails(r) PROVE KeywordInv'
    <3>1. raised' = raised /\ time' = time /\ mutes' = mutes /\ checking' = [checking EXCEPT ![r] = NoCheck]
      BY <2>6 DEF KeywordCheckFails
    <3>2. checking' \in [Batches -> CheckRow]
          /\ \A q \in Batches : checking'[q] = checking[q] \/ checking'[q].pc \in {"idle", "rules"}
      BY <2>T, <3>1, NoCheckIsIdle DEF KeywordType
    <3>3. KeywordType'
      BY <2>T, <3>1, <3>2 DEF KeywordType
    <3>4. time <= time'
      BY <2>T, <3>1 DEF KeywordType
    <3> QED
      BY <2>0, <3>1, <3>2, <3>3, <3>4, ChecksStand
  <2>7. ASSUME NEW k \in DOMAIN raised, AnswerAlert(k) PROVE KeywordInv'
    <3>1. time' = time /\ mutes' = mutes /\ checking' = checking /\ raised[k].over = Forever
          /\ raised' = [raised EXCEPT ![k].over = time]
      BY <2>7 DEF AnswerAlert
    <3>2. raised \in Seq(AlertRow) /\ DOMAIN raised = 1 .. Len(raised) /\ Len(raised) \in Nat /\ time \in Nat
      BY <2>T DEF KeywordType
    <3>3. raised' = [raised EXCEPT ![k] = [raised[k] EXCEPT !.over = time]]
      BY <3>1
    <3>4. raised[k] \in AlertRow /\ [raised[k] EXCEPT !.over = time] \in AlertRow
      <4>1. \A i \in DOMAIN raised : raised[i] \in AlertRow
        BY <2>T DEF KeywordType
      <4>2. \A a \in AlertRow : [a EXCEPT !.over = time] \in AlertRow
        BY <3>2 DEF AlertRow
      <4> QED
        BY <4>1, <4>2
    <3>5. raised' \in Seq(AlertRow) /\ Len(raised') = Len(raised) /\ DOMAIN raised' = DOMAIN raised
      BY <3>2, <3>3, <3>4
    <3>6. /\ \A i \in 1 .. Len(raised) : i # k => raised'[i] = raised[i]
          /\ raised'[k].over = time /\ raised'[k].host = raised[k].host /\ raised'[k].fired = raised[k].fired
      BY <3>2, <3>3, <3>4 DEF AlertRow
    <3>7. KeywordType'
      <4>1. \A i \in 1 .. Len(raised') : raised'[i].over = Forever \/ raised'[i].over <= time
        BY <2>T, <3>2, <3>5, <3>6 DEF KeywordType
      <4>2. Forever' = Forever
        BY DEF Forever
      <4> QED
        BY <2>T, <3>1, <3>5, <4>1, <4>2 DEF KeywordType
    <3>8. Heard'
      BY <2>0, <2>T, <3>1 DEF Heard
    <3>9. Looked'
      <4> SUFFICES ASSUME NEW q \in Batches, checking[q].pc = "recent"
                   PROVE  /\ checking[q].read <= time /\ checking[q].seen <= Len(raised)
                          /\ \A i \in 1 .. checking[q].seen : Settled(raised'[i], checking[q])
        BY <3>1, <3>5 DEF Looked
      <4>1. /\ checking[q].read <= time /\ checking[q].seen <= Len(raised) /\ checking[q].seen \in Nat
            /\ checking[q].read \in Nat
            /\ \A i \in 1 .. checking[q].seen : Settled(raised[i], checking[q])
        BY <2>T DEF Looked, KeywordType, CheckRow
      <4>2. ASSUME NEW i \in 1 .. checking[q].seen PROVE Settled(raised'[i], checking[q])
        <5>1. i \in 1 .. Len(raised) /\ Settled(raised[i], checking[q])
          BY <3>2, <4>1
        <5>2. CASE i # k
          BY <3>6, <5>1, <5>2
        <5>3. CASE i = k
          <6>1. ~(Forever <= checking[q].read)
            BY <2>T, <3>2, <4>1, KeywordNumbers DEF KeywordType
          <6> QED
            BY <3>1, <3>6, <5>1, <5>3, <6>1 DEF Settled
        <5> QED
          BY <5>2, <5>3
      <4> QED
        BY <4>1, <4>2
    <3> QED
      BY <3>7, <3>8, <3>9 DEF KeywordInv
  <2>8. ASSUME NEW i \in MuteIds,
               \/ DeleteMute(i)
               \/ \E until \in {MaxTime \div 2, Forever} :
                    \/ \E hosts \in (SUBSET LogHosts) \ {{}} :
                         QuickSuppress(i, hosts, until) \/ CreateMute(i, hosts, 1, until)
                    \/ \E active \in BOOLEAN : UpdateMute(i, until, active)
        PROVE  KeywordInv'
    <3>1. mutes[i] \in MuteRow /\ time \in Nat
      BY <2>T DEF KeywordType
    <3>2. CASE DeleteMute(i)
      <4>1. [mutes[i] EXCEPT !.active = FALSE] \in MuteRow
        BY <3>1 DEF MuteRow
      <4> QED
        BY <2>0, <3>2, <4>1, MutesKept DEF DeleteMute
    <3>3. CASE \E until \in {MaxTime \div 2, Forever}, hosts \in (SUBSET LogHosts) \ {{}} :
                 QuickSuppress(i, hosts, until) \/ CreateMute(i, hosts, 1, until)
      <4>1. PICK until \in {MaxTime \div 2, Forever}, hosts \in (SUBSET LogHosts) \ {{}} :
                 QuickSuppress(i, hosts, until) \/ CreateMute(i, hosts, 1, until)
        BY <3>3
      <4>2. PICK from \in Nat : MuteStored(i, [hosts |-> hosts, from |-> from, until |-> until, active |-> TRUE])
        BY <3>1, <4>1 DEF QuickSuppress, CreateMute
      <4>3. [hosts |-> hosts, from |-> from, until |-> until, active |-> TRUE] \in MuteRow
        BY KeywordNumbers DEF MuteRow
      <4> QED
        BY <2>0, <4>2, <4>3, MutesKept
    <3>4. CASE \E until \in {MaxTime \div 2, Forever}, active \in BOOLEAN : UpdateMute(i, until, active)
      <4>1. PICK until \in {MaxTime \div 2, Forever}, active \in BOOLEAN : UpdateMute(i, until, active)
        BY <3>4
      <4>2. [mutes[i] EXCEPT !.until = until, !.active = active] \in MuteRow
        BY <3>1, KeywordNumbers DEF MuteRow
      <4> QED
        BY <2>0, <4>1, <4>2, MutesKept DEF UpdateMute
    <3> QED
      BY <2>8, <3>2, <3>3, <3>4
  <2> QED
    BY <1>2, <2>1, <2>2, <2>3, <2>4, <2>5, <2>6, <2>7, <2>8 DEF KeywordNext, KeywordStep
<1> QED
  BY <1>1, <1>2

\* Two reports at once may raise the same alert, and the rules of the hosts
\* change while they are checked: still no report repeats itself, nor what it
\* had read to be firing, nor raises for a host that was silenced all along.
THEOREM KeywordAlertsAreRaisedRightly == KeywordSpec => RaisedRightly
<1>1. KeywordInit => KeywordInv
  <2> SUFFICES ASSUME KeywordInit PROVE KeywordInv
    OBVIOUS
  <2>1. NoMute \in MuteRow
    BY KeywordNumbers DEF NoMute, MuteRow
  <2>2. raised = <<>> /\ Len(raised) = 0 /\ raised \in Seq(AlertRow) /\ time = 0
    BY DEF KeywordInit
  <2>3. KeywordType
    BY <2>1, <2>2, NoCheckIsIdle, KeywordNumbers DEF KeywordInit, KeywordType
  <2> QED
    BY <2>3, NoCheckIsIdle DEF KeywordInit, KeywordInv, Heard, Looked
<1> DEFINE Right == \A r \in Batches, j \in Len(raised) + 1 .. Len(raised') :
       checking[r].pc = "recent" /\ checking'[r].pc = "idle" =>
         /\ raised'[j].host \in unsilenced[r]
         /\ \A i \in 1 .. j - 1 : raised'[i].host = raised'[j].host =>
              /\ i <= Len(raised)
              /\ \/ i > checking[r].seen
                 \/ raised[i].over <= checking[r].read
                 \/ raised[i].fired + DedupWindow < checking[r].read
<1>2. KeywordInv /\ [KeywordNext]_keywordVars => [Right]_keywordVars
  <2> SUFFICES ASSUME KeywordInv, KeywordNext,
                      NEW r \in Batches, NEW j \in Len(raised) + 1 .. Len(raised'),
                      checking[r].pc = "recent", checking'[r].pc = "idle"
               PROVE  /\ raised'[j].host \in unsilenced[r]
                      /\ \A i \in 1 .. j - 1 : raised'[i].host = raised'[j].host =>
                           /\ i <= Len(raised)
                           /\ \/ i > checking[r].seen
                              \/ raised[i].over <= checking[r].read
                              \/ raised[i].fired + DedupWindow < checking[r].read
    OBVIOUS
  <2>1. KeywordType /\ Heard /\ Looked
    BY DEF KeywordInv
  <2>2. raised' # raised
    <3>1. Len(raised) \in Nat
      BY <2>1 DEF KeywordType
    <3> QED
      BY <3>1
  <2>3. CheckCommits(r)
    <3>1. ~SecondsPass /\ ~(\E i \in MuteIds :
       \/ DeleteMute(i)
       \/ \E until \in {MaxTime \div 2, Forever} :
            \/ \E hosts \in (SUBSET LogHosts) \ {{}} :
                 QuickSuppress(i, hosts, until) \/ CreateMute(i, hosts, 1, until)
            \/ \E active \in BOOLEAN : UpdateMute(i, until, active))
      BY <2>2 DEF SecondsPass, DeleteMute, QuickSuppress, CreateMute, UpdateMute, MuteStored
    <3>2. \A i \in DOMAIN raised : ~AnswerAlert(i)
      BY DEF AnswerAlert
    <3>3. \A q \in Batches : /\ \A n \in 1 .. 2 : \A lines \in [1 .. n -> LogHosts] : ~CheckStarts(q, lines)
                             /\ ~ReadMutes(q) /\ ~ReadRecent(q) /\ ~KeywordCheckFails(q)
      BY <2>2 DEF CheckStarts, ReadMutes, ReadRecent, KeywordCheckFails
    <3>4. PICK q \in Batches : CheckCommits(q)
      BY <3>1, <3>2, <3>3 DEF KeywordNext, KeywordStep
    <3>5. q = r
      BY <2>1, <3>4 DEF CheckCommits, KeywordType
    <3> QED
      BY <3>4, <3>5
  <2>4. /\ raised' \in Seq(AlertRow) /\ Len(raised) <= Len(raised')
        /\ \A i \in 1 .. Len(raised) : raised'[i] = raised[i]
        /\ raised'[j].host \in LogHosts \ (checking[r].muted \cup checking[r].recent)
        /\ \A i \in Len(raised) + 1 .. j - 1 : raised'[i].host # raised'[j].host
    BY <2>1, <2>3, CommitAppends
  <2>5. raised'[j].host \in unsilenced[r]
    BY <2>1, <2>4 DEF Heard
  <2>6. ASSUME NEW i \in 1 .. j - 1, raised'[i].host = raised'[j].host
        PROVE  /\ i <= Len(raised)
               /\ \/ i > checking[r].seen
                  \/ raised[i].over <= checking[r].read
                  \/ raised[i].fired + DedupWindow < checking[r].read
    <3>1. Len(raised) \in Nat /\ Len(raised') \in Nat /\ checking[r].seen \in Nat
      BY <2>1, <2>4 DEF KeywordType, CheckRow
    <3>2. i <= Len(raised)
      BY <2>4, <2>6, <3>1
    <3>3. raised[i].host = raised'[j].host
      BY <2>4, <2>6, <3>1, <3>2
    <3>4. CASE i \in 1 .. checking[r].seen
      <4>1. Settled(raised[i], checking[r])
        BY <2>1, <3>4 DEF Looked
      <4> QED
        BY <2>4, <3>2, <3>3, <4>1 DEF Settled
    <3>5. CASE i \notin 1 .. checking[r].seen
      BY <2>6, <3>1, <3>2, <3>5
    <3> QED
      BY <3>4, <3>5
  <2> QED
    BY <2>5, <2>6
<1> QED
  BY <1>1, <1>2, KeywordNextInv, PTL DEF KeywordSpec, RaisedRightly

-----------------------------------------------------------------------------
(* Delivery of alerts.  A config that has passed a test still would, until *)
(* its service changes; so does the one an alert has read, which keeps it  *)
(* through its attempts, when it was the row's then.                       *)

Tells(c) == Succeeds(TestHandler(c, mood))

DeliveryInv ==
    /\ kind \in Kinds /\ mood \in Moods
    /\ DOMAIN sending = {"pc", "tries", "sure", "heard"} /\ sending.tries \in Nat
    /\ tested => Tells(setup)
    /\ sending.pc = "sending" =>
         /\ using.words \in Words
         /\ sending.sure => Tells(using.config)
         /\ sending.tries = 0 => sending.heard = 0

\* What a test and a send do is the same, unless a template is in the way; and
\* what a service other than a robot answers for, it has taken.
LEMMA SentAsTested ==
    ASSUME NEW c, NEW w \in Words, kind \in Kinds, mood \in Moods, Tells(c), ~Wrecked(w)
    PROVE  LET r == Handler(c, w, mood) IN
             /\ Succeeds(r) /\ r.heard \in {0, 1}
             /\ kind \notin Robots => r.heard = 1
<1> USE DEF Tells, Succeeds, TestHandler, Handler, Wrecked, RenderFails, Unset, Raised, Result, Robots, Words
<1>1. CASE kind = "webhook"
  BY <1>1 DEF TestWebhook, SendWebhook, ByHttp, Moods
<1>2. CASE kind = "email"
  BY <1>2 DEF TestEmail, SendEmail, BySmtp, ByHttp, Moods, Signed
<1>3. CASE kind = "dingtalk"
  BY <1>3 DEF TestDingtalk, SendDingtalk, ByRobot, ByHttp, Moods, Signed
<1>4. CASE kind = "feishu"
  BY <1>4 DEF TestFeishu, SendFeishu, ByRobot, ByHttp, Moods, Signed
<1>5. CASE kind = "wecom"
  BY <1>5 DEF TestWecom, SendWecom, ByRobot, ByHttp, Moods
<1>6. CASE kind = "slack"
  BY <1>6 DEF TestSlack, SendSlack, ByHttp, Moods
<1>7. CASE kind = "telegram"
  BY <1>7 DEF TestTelegram, SendTelegram, ByHttp, Moods
<1> QED
  BY <1>1, <1>2, <1>3, <1>4, <1>5, <1>6, <1>7, ChannelDeliveryAssumption

\* Nothing but the type, the config, the addresses and the service decides
\* what a test says.
LEMMA TestStillTells ==
    ASSUME NEW c, UNCHANGED <<kind, barred, mood>> PROVE Succeeds(TestHandler(c, mood))' <=> Tells(c)
  BY DEF Tells, Succeeds, TestHandler, TestWebhook, TestEmail, TestDingtalk, TestFeishu, TestWecom,
         TestSlack, TestTelegram, ByHttp, ByRobot, BySmtp, Signed, Allowed, Unset, Raised, Result

\* An attempt is sent, or has failed and been counted.
LEMMA AfterCounts ==
    ASSUME NEW s, NEW r, DOMAIN s = {"pc", "tries", "sure", "heard"}, s.tries \in Nat
    PROVE  LET a == After(s, r) IN
             /\ DOMAIN a = DOMAIN s /\ a.tries \in Nat /\ a.sure = s.sure /\ a.heard = s.heard + r.heard
             /\ Succeeds(r) => a.pc = "sent" /\ a.tries = s.tries
             /\ ~Succeeds(r) => a.tries = s.tries + 1
<1> DEFINE up == s.tries + 1
           sum == s.heard + r.heard
<1>1. up \in Nat
  OBVIOUS
<1> HIDE DEF up, sum
<1>2. After(s, r) = [s EXCEPT !.heard = sum, !.tries = IF Succeeds(r) THEN s.tries ELSE up,
                              !.pc = IF Succeeds(r) THEN "sent" ELSE IF up < Attempts THEN s.pc ELSE "failed"]
  BY DEF After, up, sum
<1> HIDE DEF Succeeds
<1> QED
  BY <1>1, <1>2 DEF up, sum

\* An edit: the new config is untested, an alert on its way keeps the old one.
LEMMA CommitKeeps ==
    ASSUME DeliveryInv, NEW c, Commit(c), UNCHANGED <<kind, barred, mood, using, sending>>
    PROVE  DeliveryInv'
<1>1. tested' = FALSE
  BY DEF Commit
<1>2. Tells(using.config)' <=> Tells(using.config)
  BY TestStillTells DEF Tells
<1> QED
  BY <1>1, <1>2 DEF DeliveryInv

\* An alert is sure of a config that is the row's and has passed the test.
LEMMA BeginKeeps ==
    ASSUME DeliveryInv, NEW c, BeginSend(c), UNCHANGED <<kind, setup, barred, mood, tested>>
    PROVE  DeliveryInv'
<1>1. PICK w \in Words : using' = [config |-> c, words |-> w]
  BY DEF BeginSend
<1>2. sending' = [pc |-> "sending", tries |-> 0, sure |-> tested /\ c = setup, heard |-> 0]
  BY DEF BeginSend
<1>3. /\ using'.config = c /\ using'.words \in Words
      /\ DOMAIN sending' = {"pc", "tries", "sure", "heard"} /\ sending'.tries = 0 /\ sending'.heard = 0
      /\ sending'.sure => tested /\ c = setup
  BY <1>1, <1>2
<1>4. Tells(setup)' <=> Tells(setup)
  BY TestStillTells DEF Tells
<1>5. Tells(using.config)' <=> Tells(c)
  BY <1>3, TestStillTells DEF Tells
<1> QED
  BY <1>3, <1>4, <1>5 DEF DeliveryInv

\* An attempt that does not end the alert has failed and been counted, and
\* the config stays that which was read.
LEMMA AttemptKeeps ==
    ASSUME DeliveryInv, NEW answer, Attempt(answer)
    PROVE  DeliveryInv'
<1> DEFINE r == Handler(using.config, using.words, answer)
<1>1. sending.pc = "sending" /\ sending' = After(sending, r) /\ UNCHANGED <<kind, setup, barred, mood, tested>>
  BY DEF Attempt, channelVars
<1>2. sending'.pc = "sending" => using' = using
  BY DEF Attempt
<1>3. DOMAIN sending = {"pc", "tries", "sure", "heard"} /\ sending.tries \in Nat
  BY DEF DeliveryInv
<1> HIDE DEF r
<1>4. /\ DOMAIN sending' = DOMAIN sending /\ sending'.tries \in Nat /\ sending'.sure = sending.sure
      /\ sending'.pc = "sending" => sending'.tries = sending.tries + 1
  BY <1>1, <1>3, AfterCounts
<1>5. sending'.pc = "sending" => sending'.tries # 0
  BY <1>3, <1>4
<1>6. Tells(setup)' <=> Tells(setup)
  BY <1>1, TestStillTells DEF Tells
<1>7. using' = using => (Tells(using.config)' <=> Tells(using.config))
  BY <1>1, TestStillTells DEF Tells
<1> QED
  BY <1>1, <1>2, <1>3, <1>4, <1>5, <1>6, <1>7 DEF DeliveryInv

LEMMA DeliveryNextInv == DeliveryInv /\ [DeliveryNext]_deliveryVars => DeliveryInv'
<1> SUFFICES ASSUME DeliveryInv, [DeliveryNext]_deliveryVars PROVE DeliveryInv'
  OBVIOUS
<1>0. Moods = {"accepts", "quiet", "refuses", "down"}
  BY DEF Moods
<1>1. ASSUME UNCHANGED <<kind, setup, barred, mood, tested, using, sending>> PROVE DeliveryInv'
  <2>1. Tells(setup)' <=> Tells(setup)
    BY <1>1, TestStillTells DEF Tells
  <2>2. Tells(using.config)' <=> Tells(using.config)
    BY <1>1, TestStillTells DEF Tells
  <2> QED
    BY <1>1, <2>1, <2>2 DEF DeliveryInv
<1>2. CASE SaveConfig
  BY <1>2, CommitKeeps DEF SaveConfig
<1>3. CASE \E retyped \in BOOLEAN : SubmitForm(retyped)
  <2>1. PICK retyped \in BOOLEAN : SubmitForm(retyped)
    BY <1>3
  <2>2. (\E c : Commit(c)) /\ UNCHANGED <<kind, barred, mood, using, sending>>
    BY <2>1 DEF SubmitForm
  <2> QED
    BY <2>2, CommitKeeps
<1>4. CASE ForgetCopy
  BY <1>1, <1>4 DEF ForgetCopy
<1>5. CASE CopyExpires
  BY <1>1, <1>5 DEF CopyExpires
<1>6. CASE ServiceChanges
  <2>1. /\ mood' \in Moods /\ kind' = kind /\ using' = using /\ tested' = FALSE
        /\ sending' = [sending EXCEPT !.sure = FALSE]
    BY <1>6 DEF ServiceChanges, channelVars, DeliveryInv
  <2>2. /\ DOMAIN sending' = {"pc", "tries", "sure", "heard"} /\ sending'.sure = FALSE
        /\ sending'.pc = sending.pc /\ sending'.tries = sending.tries /\ sending'.heard = sending.heard
    BY <2>1 DEF DeliveryInv
  <2> QED
    BY <2>1, <2>2 DEF DeliveryInv
<1>7. CASE TestChannel
  <2>1. tested' = Tells(setup) /\ UNCHANGED <<kind, setup, barred, mood, using, sending>>
    BY <1>7 DEF TestChannel, Tells, channelVars
  <2>2. Tells(setup)' <=> Tells(setup)
    BY <2>1, TestStillTells DEF Tells
  <2>3. Tells(using.config)' <=> Tells(using.config)
    BY <2>1, TestStillTells DEF Tells
  <2> QED
    BY <2>1, <2>2, <2>3 DEF DeliveryInv
<1>8. CASE SendChosen
  BY <1>8, BeginKeeps DEF SendChosen, channelVars
<1>9. CASE SendByList
  <2>1. UNCHANGED <<kind, setup, barred, mood, tested>>
    BY <1>9 DEF SendByList, channelVars
  <2>2. CASE \E c \in copy : BeginSend(c)
    BY <2>1, <2>2, BeginKeeps
  <2>3. CASE sending' = [NotUnderway EXCEPT !.pc = "copying"]
    <3>1. sending'.pc = "copying" /\ sending'.tries = 0 /\ DOMAIN sending' = {"pc", "tries", "sure", "heard"}
      BY <2>3 DEF NotUnderway
    <3>2. Tells(setup)' <=> Tells(setup)
      BY <2>1, TestStillTells DEF Tells
    <3> QED
      BY <2>1, <3>1, <3>2 DEF DeliveryInv
  <2> QED
    BY <1>9, <2>2, <2>3 DEF SendByList
<1>10. CASE CopyList
  BY <1>10, BeginKeeps DEF CopyList
<1>11. CASE TryAlert
  BY <1>11, AttemptKeeps DEF TryAlert
<1>12. CASE TryAlertInVain
  BY <1>12, AttemptKeeps DEF TryAlertInVain
<1>13. CASE UNCHANGED deliveryVars
  BY <1>1, <1>13 DEF deliveryVars, channelVars
<1> QED
  BY <1>2, <1>3, <1>4, <1>5, <1>6, <1>7, <1>8, <1>9, <1>10, <1>11, <1>12, <1>13 DEF DeliveryNext

\* The seven types have a handler for the test and another for the alert: the
\* two agree, so the first attempt delivers an alert that has read the config
\* of the row after a test of it succeeded, even when an edit commits before
\* the attempt.
THEOREM TestedChannelsDeliver == DeliverySpec => DeliveredAsTested
<1>1. DeliveryInit => DeliveryInv
  BY DEF DeliveryInit, DeliveryInv, NotUnderway
<1>2. DeliveryInv /\ [DeliveryNext]_deliveryVars
        => [TryAlert /\ sending.sure /\ sending.tries = 0 /\ ~Wrecked(using.words)
              => Arrived(sending')]_deliveryVars
  <2> SUFFICES ASSUME DeliveryInv, TryAlert, sending.sure, sending.tries = 0, ~Wrecked(using.words)
               PROVE  Arrived(sending')
    OBVIOUS
  <2> DEFINE r == Handler(using.config, using.words, mood)
  <2>1. sending' = After(sending, r) /\ sending.pc = "sending" /\ kind' = kind
    BY DEF TryAlert, Attempt, channelVars
  <2>2. /\ Succeeds(r) /\ r.heard \in {0, 1}
        /\ kind \notin Robots => r.heard = 1
    BY <2>1, SentAsTested DEF DeliveryInv
  <2> HIDE DEF r
  <2>3. sending'.pc = "sent" /\ sending'.tries = 0 /\ sending'.heard = sending.heard + r.heard
    BY <2>1, <2>2, AfterCounts DEF DeliveryInv
  <2>4. sending.heard = 0
    BY <2>1 DEF DeliveryInv
  <2>5. kind \notin Robots => sending'.heard = 1
    BY <2>2, <2>3, <2>4
  <2> QED
    BY <2>3, <2>5 DEF Arrived
<1> QED
  BY <1>1, <1>2, DeliveryNextInv, PTL DEF DeliverySpec, DeliveredAsTested

-----------------------------------------------------------------------------
(* The conversation as the model gets it.  Where the parts of a flattened  *)
(* sequence lie is shown by induction, which is stated for a set of        *)
(* numbers.                                                                *)

LEMMA Smallest == ASSUME NEW S \in SUBSET Nat, S # {} PROVE \E x \in S : \A y \in S : x <= y
<1> DEFINE upTo == {0 .. x : x \in S}
           R == StrictSubsetOrdering(Nat)
<1>1. \A x \in S : IsFiniteSet(0 .. x) /\ 0 .. x \in SUBSET Nat
  BY FS_Interval
<1>2. upTo \subseteq FiniteSubsetsOf(Nat) /\ upTo # {}
  BY <1>1 DEF FiniteSubsetsOf
<1>3. IsWellFoundedOn(R, FiniteSubsetsOf(Nat))
  BY FS_StrictSubsetOrderingWellFounded
<1> HIDE DEF upTo, R
<1>4. PICK least \in upTo : \A other \in upTo : ~ (<<other, least>> \in R)
  BY <1>2, <1>3, WFMin
<1>5. PICK x \in S : least = 0 .. x
  BY <1>4 DEF upTo
<1>6. ASSUME NEW y \in S, y < x PROVE FALSE
  <2>1. 0 .. y \in upTo
    BY DEF upTo
  <2>2. 0 .. y \subseteq 0 .. x /\ 0 .. y # 0 .. x
    <3>1. x \in 0 .. x /\ x \notin 0 .. y
      BY <1>6
    <3> QED
      BY <1>6, <3>1
  <2>3. <<0 .. y, 0 .. x>> \in R
    BY <1>1, <2>2 DEF R, StrictSubsetOrdering
  <2> QED
    BY <1>4, <1>5, <2>1, <2>3
<1>7. \A y \in S : x <= y
  BY <1>6
<1> QED
  BY <1>7

LEMMA AllNumbers ==
    ASSUME NEW G, 0 \in G, \A n \in Nat : n \in G => n + 1 \in G PROVE \A n \in Nat : n \in G
<1> SUFFICES ASSUME Nat \ G # {} PROVE FALSE
  OBVIOUS
<1>1. PICK x \in Nat \ G : \A y \in Nat \ G : x <= y
  BY Smallest
<1>2. x # 0 /\ x - 1 \in Nat /\ x = (x - 1) + 1
  BY <1>1
<1>3. x - 1 \in G
  BY <1>1, <1>2
<1> QED
  BY <1>1, <1>2, <1>3

\* The function that FlattenSeq is computed with.
Joined(s, n, f) == f = [i \in 1 .. n |-> IF i = 1 THEN s[i] ELSE f[i - 1] \o s[i]]

LEMMA JoinedExists == ASSUME NEW s, NEW n \in Nat PROVE \E f : Joined(s, n, f)
<1> DEFINE G == {m \in Nat : \E f : Joined(s, m, f)}
<1>1. 0 \in G
  <2> DEFINE f == [i \in 1 .. 0 |-> s[i]]
  <2>1. f = [i \in 1 .. 0 |-> IF i = 1 THEN s[i] ELSE f[i - 1] \o s[i]]
    OBVIOUS
  <2> QED
    BY <2>1 DEF Joined
<1>2. ASSUME NEW m \in Nat, m \in G PROVE m + 1 \in G
  <2>1. PICK f : f = [i \in 1 .. m |-> IF i = 1 THEN s[i] ELSE f[i - 1] \o s[i]]
    BY <1>2 DEF Joined
  <2> DEFINE last == IF m + 1 = 1 THEN s[m + 1] ELSE f[m] \o s[m + 1]
             g == [i \in 1 .. m + 1 |-> IF i \in 1 .. m THEN f[i] ELSE last]
             h == [i \in 1 .. m + 1 |-> IF i = 1 THEN s[i] ELSE g[i - 1] \o s[i]]
  <2>2. ASSUME NEW i \in 1 .. m + 1 PROVE g[i] = h[i]
    <3>1. CASE i \in 1 .. m
      <4>1. g[i] = f[i] /\ (i # 1 => i - 1 \in 1 .. m /\ i - 1 \in 1 .. m + 1)
        BY <3>1
      <4>2. f[i] = IF i = 1 THEN s[i] ELSE f[i - 1] \o s[i]
        BY <2>1, <3>1
      <4>3. i # 1 => g[i - 1] = f[i - 1]
        BY <4>1
      <4> QED
        BY <4>1, <4>2, <4>3
    <3>2. CASE i \notin 1 .. m
      <4>1. i = m + 1 /\ g[i] = last /\ (i # 1 => m \in 1 .. m /\ i - 1 = m /\ m \in 1 .. m + 1)
        BY <3>2
      <4>2. i # 1 => g[i - 1] = f[m]
        BY <4>1
      <4> QED
        BY <4>1, <4>2
    <3> QED
      BY <3>1, <3>2
  <2>3. g = h
    <3> HIDE DEF last
    <3> QED
      BY <2>2
  <2>4. Joined(s, m + 1, g)
    BY <2>3 DEF Joined
  <2> QED
    BY <2>4
<1> HIDE DEF G
<1>3. n \in G
  BY <1>1, <1>2, AllNumbers
<1> QED
  BY <1>3 DEF G

\* Part k of s lies in r behind end[k - 1], and nothing else is in r.
LaidOut(s, m, r, end) ==
    /\ end \in [0 .. m -> Nat] /\ end[0] = 0 /\ end[m] = Len(r)
    /\ \A a, b \in 0 .. m : a <= b => end[a] <= end[b]
    /\ \A k \in 1 .. m : /\ end[k] = end[k - 1] + Len(s[k])
                         /\ \A p \in 1 .. Len(s[k]) : r[end[k - 1] + p] = s[k][p]
    /\ \A j \in 1 .. Len(r) : \E k \in 1 .. m : \E p \in 1 .. Len(s[k]) : j = end[k - 1] + p

LEMMA NextLaidOut ==
    ASSUME NEW T, NEW s \in Seq(Seq(T)), NEW m \in Nat, m + 1 \in 1 .. Len(s), NEW r \in Seq(T),
           NEW end, LaidOut(s, m, r, end)
    PROVE  \E e : LaidOut(s, m + 1, r \o s[m + 1], e)
<1> DEFINE q == r \o s[m + 1]
           x == Len(s[m + 1])
           e == [k \in 0 .. m + 1 |-> IF k \in 0 .. m THEN end[k] ELSE end[m] + x]
<1>1. s[m + 1] \in Seq(T) /\ x \in Nat /\ Len(r) \in Nat
  OBVIOUS
<1>2. /\ q \in Seq(T) /\ Len(q) = Len(r) + x
      /\ \A j \in 1 .. Len(r) : q[j] = r[j]
      /\ \A p \in 1 .. x : q[Len(r) + p] = s[m + 1][p]
  BY <1>1
<1>3. /\ end \in [0 .. m -> Nat] /\ end[0] = 0 /\ end[m] = Len(r)
      /\ \A a, b \in 0 .. m : a <= b => end[a] <= end[b]
  BY DEF LaidOut
<1> HIDE DEF q, x
<1>4. e \in [0 .. m + 1 -> Nat] /\ e[0] = 0 /\ e[m + 1] = Len(r) + x /\ e[m] = Len(r)
      /\ \A k \in 0 .. m : e[k] = end[k] /\ end[k] \in Nat
  BY <1>1, <1>3
<1> HIDE DEF e
<1>5. ASSUME NEW a \in 0 .. m + 1, NEW b \in 0 .. m + 1, a <= b PROVE e[a] <= e[b]
  <2>1. CASE b \in 0 .. m
    <3>1. a \in 0 .. m
      BY <1>5, <2>1
    <3> QED
      BY <1>3, <1>4, <1>5, <2>1, <3>1
  <2>2. CASE b \notin 0 .. m /\ a \in 0 .. m
    <3>1. b = m + 1 /\ m \in 0 .. m /\ a <= m
      BY <2>2
    <3>2. end[a] <= end[m]
      BY <1>3, <2>2, <3>1
    <3> QED
      BY <1>1, <1>3, <1>4, <2>2, <3>1, <3>2
  <2>3. CASE b \notin 0 .. m /\ a \notin 0 .. m
    <3>1. a = m + 1 /\ b = m + 1
      BY <2>3
    <3> QED
      BY <1>1, <1>4, <3>1
  <2> QED
    BY <2>1, <2>2, <2>3
<1>6. ASSUME NEW k \in 1 .. m + 1
      PROVE  /\ e[k] = e[k - 1] + Len(s[k])
             /\ \A p \in 1 .. Len(s[k]) : q[e[k - 1] + p] = s[k][p]
  <2>1. CASE k \in 1 .. m
    <3>1. k \in 0 .. m /\ k - 1 \in 0 .. m /\ m \in 0 .. m /\ k <= m
      BY <2>1
    <3>2. /\ e[k] = end[k] /\ e[k - 1] = end[k - 1] /\ end[k - 1] \in Nat /\ end[k] <= Len(r)
      BY <1>3, <1>4, <3>1
    <3>3. s[k] \in Seq(T)
      BY <2>1
    <3>4. /\ end[k] = end[k - 1] + Len(s[k])
          /\ \A p \in 1 .. Len(s[k]) : r[end[k - 1] + p] = s[k][p]
      BY <2>1 DEF LaidOut
    <3>5. /\ end[k] = end[k - 1] + Len(s[k]) /\ Len(s[k]) \in Nat
          /\ \A p \in 1 .. Len(s[k]) : r[end[k - 1] + p] = s[k][p]
      BY <3>3, <3>4
    <3>6. ASSUME NEW p \in 1 .. Len(s[k]) PROVE q[end[k - 1] + p] = s[k][p]
      <4>1. end[k - 1] + p \in 1 .. Len(r)
        BY <1>1, <3>2, <3>5
      <4> QED
        BY <1>2, <3>5, <4>1
    <3> QED
      BY <3>2, <3>5, <3>6
  <2>2. CASE k \notin 1 .. m
    <3>1. k = m + 1 /\ k - 1 = m
      BY <2>2
    <3> QED
      BY <1>2, <1>4, <3>1 DEF x
  <2> QED
    BY <2>1, <2>2
<1>7. ASSUME NEW j \in 1 .. Len(q) PROVE \E k \in 1 .. m + 1 : \E p \in 1 .. Len(s[k]) : j = e[k - 1] + p
  <2>1. CASE j \in 1 .. Len(r)
    <3>0. PICK k \in 1 .. m : \E p \in 1 .. Len(s[k]) : j = end[k - 1] + p
      BY <2>1 DEF LaidOut
    <3>1. PICK p \in 1 .. Len(s[k]) : j = end[k - 1] + p
      BY <3>0
    <3>2. k \in 1 .. m + 1 /\ k - 1 \in 0 .. m
      OBVIOUS
    <3> QED
      BY <1>4, <3>1, <3>2
  <2>2. CASE j \notin 1 .. Len(r)
    <3> DEFINE p == j - Len(r)
    <3>1. p \in 1 .. x /\ j = Len(r) + p /\ m + 1 \in 1 .. m + 1 /\ (m + 1) - 1 = m
      BY <1>1, <1>2, <2>2
    <3> QED
      BY <1>4, <3>1 DEF x
  <2> QED
    BY <2>1, <2>2
<1>8. LaidOut(s, m + 1, q, e)
  BY <1>2, <1>4, <1>5, <1>6, <1>7 DEF LaidOut
<1> QED
  BY <1>8 DEF q

\* FlattenSeq puts the parts one after the other.
LEMMA FlattenLaysOut ==
    ASSUME NEW T, NEW s \in Seq(Seq(T))
    PROVE  FlattenSeq(s) \in Seq(T) /\ \E end : LaidOut(s, Len(s), FlattenSeq(s), end)
<1> DEFINE n == Len(s)
<1>1. n \in Nat /\ DOMAIN s = 1 .. n
  OBVIOUS
<1>2. CASE n = 0
  <2>1. FlattenSeq(s) = s /\ s = <<>>
    BY <1>2 DEF FlattenSeq
  <2> DEFINE end == [k \in 0 .. 0 |-> 0]
  <2>2. LaidOut(s, 0, <<>>, end)
    BY DEF LaidOut
  <2> HIDE DEF end
  <2> QED
    BY <1>2, <2>1, <2>2
<1>3. CASE n # 0
  <2> DEFINE f == CHOOSE g : g = [i \in 1 .. n |-> IF i = 1 THEN s[i] ELSE g[i - 1] \o s[i]]
  <2>1. \E g : g = [i \in 1 .. n |-> IF i = 1 THEN s[i] ELSE g[i - 1] \o s[i]]
    BY <1>1, JoinedExists DEF Joined
  <2>2. f = [i \in 1 .. n |-> IF i = 1 THEN s[i] ELSE f[i - 1] \o s[i]]
    BY <2>1
  <2>3. FlattenSeq(s) = f[n]
    BY <1>3 DEF FlattenSeq
  <2> HIDE DEF f
  <2> DEFINE r(m) == IF m = 0 THEN <<>> ELSE f[m]
             G == {m \in Nat : m <= n => r(m) \in Seq(T) /\ \E end : LaidOut(s, m, r(m), end)}
  <2>4. 0 \in G
    <3> DEFINE end == [k \in 0 .. 0 |-> 0]
    <3>1. LaidOut(s, 0, <<>>, end) /\ <<>> \in Seq(T)
      BY DEF LaidOut
    <3> HIDE DEF end
    <3> QED
      BY <3>1
  <2>5. ASSUME NEW m \in Nat, m \in G PROVE m + 1 \in G
    <3> SUFFICES ASSUME m + 1 <= n
                 PROVE  r(m + 1) \in Seq(T) /\ \E end : LaidOut(s, m + 1, r(m + 1), end)
      OBVIOUS
    <3>1. m + 1 \in 1 .. n /\ m <= n /\ r(m) \in Seq(T) /\ s[m + 1] \in Seq(T)
      BY <1>1, <2>5
    <3>2. r(m + 1) = r(m) \o s[m + 1]
      <4>1. CASE m = 0
        <5>1. r(m) = <<>> /\ r(m + 1) = s[m + 1]
          BY <2>2, <3>1, <4>1
        <5>2. <<>> \o s[m + 1] = s[m + 1]
          BY <3>1
        <5> HIDE DEF r
        <5> QED
          BY <5>1, <5>2
      <4>2. CASE m # 0
        <5>1. (m + 1) - 1 = m /\ m + 1 # 1 /\ m + 1 # 0
          BY <4>2
        <5>2. f[m + 1] = f[m] \o s[m + 1]
          BY <2>2, <3>1, <5>1
        <5> QED
          BY <4>2, <5>1, <5>2
      <4> QED
        BY <4>1, <4>2
    <3>3. PICK end : LaidOut(s, m, r(m), end)
      BY <2>5, <3>1
    <3> HIDE DEF r
    <3>4. \E e : LaidOut(s, m + 1, r(m) \o s[m + 1], e)
      BY <3>1, <3>3, NextLaidOut
    <3>5. r(m) \o s[m + 1] \in Seq(T)
      BY <3>1
    <3> QED
      BY <3>2, <3>4, <3>5
  <2> HIDE DEF G
  <2>6. n \in G
    BY <1>1, <2>4, <2>5, AllNumbers
  <2>7. r(n) \in Seq(T) /\ \E end : LaidOut(s, n, r(n), end)
    BY <1>1, <2>6 DEF G
  <2> QED
    BY <1>3, <2>3, <2>7
<1> QED
  BY <1>2, <1>3

\* A finite set written as a sequence has every element somewhere.
LEMMA ListedSet ==
    ASSUME NEW S, IsFiniteSet(S)
    PROVE  SetToSeq(S) \in Seq(S) /\ \A c \in S : \E i \in 1 .. Len(SetToSeq(S)) : SetToSeq(S)[i] = c
<1> DEFINE n == Cardinality(S)
           f == SetToSeq(S)
<1>1. n \in Nat /\ ExistsBijection(1 .. n, S)
  BY FS_CardinalityType
<1>2. \E g \in [1 .. n -> S] : IsInjective(g)
  BY <1>1 DEF ExistsBijection, Bijection, Injection
<1>3. f \in [1 .. n -> S] /\ IsInjective(f)
  BY <1>2 DEF SetToSeq
<1>4. IsFiniteSet(1 .. n) /\ Cardinality(1 .. n) = n
  BY <1>1, FS_Interval
<1> HIDE DEF f
<1>5. f \in Injection(1 .. n, S)
  BY <1>3 DEF Injection
<1>6. f \in Surjection(1 .. n, S)
  BY <1>4, <1>5, FS_Injection
<1>7. \A c \in S : \E i \in 1 .. n : f[i] = c
  BY <1>6 DEF Surjection
<1> HIDE DEF n
<1>8. f \in Seq(S) /\ Len(f) = n
  BY <1>1, <1>3
<1> QED
  BY <1>7, <1>8 DEF f

Message == {m \in [role : {"system", "hint", "user", "assistant", "tool", "skill_load"},
                   calls : SUBSET Nat, id : Nat] :
              IsFiniteSet(m.calls) /\ (m.role = "tool" => m.calls = {})}

LEMMA MessagesAre ==
    /\ SystemPrompt \in Message /\ HostHint \in Message /\ SkillRow \in Message
    /\ \A role \in {"system", "user", "assistant"} : Msg(role) \in Message
    /\ \A n \in Nat : Tool(n) \in Message
    /\ \A ids \in SUBSET Nat : IsFiniteSet(ids) => Calling(ids) \in Message
  BY FS_EmptySet DEF Message, SystemPrompt, HostHint, SkillRow, Msg, Tool, Calling

\* What Normalized makes of message i.
Block(ctx, i) ==
    <<ctx[i]>> \o [k \in DOMAIN SetToSeq(Missing(ctx, i)) |-> Tool(SetToSeq(Missing(ctx, i))[k])]

LEMMA BlocksFillIn ==
    ASSUME NEW ctx \in Seq(Message), NEW i \in 1 .. Len(ctx)
    PROVE  /\ Block(ctx, i) \in Seq(Message) /\ Len(Block(ctx, i)) >= 1 /\ Block(ctx, i)[1] = ctx[i]
           /\ \A p \in 2 .. Len(Block(ctx, i)) :
                 Block(ctx, i)[p].role = "tool" /\ Block(ctx, i)[p].calls = {}
           /\ \A c \in Missing(ctx, i) : \E p \in 2 .. Len(Block(ctx, i)) : Block(ctx, i)[p] = Tool(c)
<1> DEFINE M == Missing(ctx, i)
           l == SetToSeq(M)
           h == [k \in DOMAIN l |-> Tool(l[k])]
           b == <<ctx[i]>> \o h
<1>1. ctx[i] \in Message /\ IsFiniteSet(ctx[i].calls) /\ ctx[i].calls \subseteq Nat
  BY DEF Message
<1>2. IsFiniteSet(M) /\ M \subseteq Nat
  BY <1>1, FS_Subset DEF Missing
<1> HIDE DEF M
<1>3. l \in Seq(M) /\ \A c \in M : \E k \in 1 .. Len(l) : l[k] = c
  BY <1>2, ListedSet
<1> HIDE DEF l
<1>4. DOMAIN l = 1 .. Len(l) /\ Len(l) \in Nat /\ \A k \in 1 .. Len(l) : l[k] \in Nat
  <2>1. l \in Seq(M)
    BY <1>3
  <2>2. DOMAIN l = 1 .. Len(l) /\ Len(l) \in Nat /\ \A k \in 1 .. Len(l) : l[k] \in M
    BY <2>1
  <2> QED
    BY <1>2, <2>2
<1>5. h \in Seq(Message) /\ Len(h) = Len(l) /\ \A k \in 1 .. Len(l) : h[k] = Tool(l[k])
  <2>1. \A c \in Nat : Tool(c) \in Message
    BY MessagesAre
  <2>2. \A k \in 1 .. Len(l) : Tool(l[k]) \in Message
    BY <1>4, <2>1
  <2>3. h = [k \in 1 .. Len(l) |-> Tool(l[k])]
    BY <1>4
  <2> HIDE DEF h
  <2> QED
    BY <1>4, <2>2, <2>3
<1> HIDE DEF h
<1>6. /\ b \in Seq(Message) /\ Len(b) = 1 + Len(l) /\ Len(l) \in Nat /\ b[1] = ctx[i]
      /\ \A k \in 1 .. Len(l) : b[1 + k] = h[k]
  BY <1>1, <1>3, <1>5
<1> HIDE DEF b
<1>7. ASSUME NEW p \in 2 .. Len(b) PROVE b[p].role = "tool" /\ b[p].calls = {}
  <2>1. p - 1 \in 1 .. Len(l) /\ 1 + (p - 1) = p
    BY <1>6
  <2>2. b[p] = Tool(l[p - 1])
    BY <1>5, <1>6, <2>1
  <2> QED
    BY <2>2 DEF Tool
<1>8. ASSUME NEW c \in M PROVE \E p \in 2 .. Len(b) : b[p] = Tool(c)
  <2>1. PICK k \in 1 .. Len(l) : l[k] = c
    BY <1>3
  <2>2. 1 + k \in 2 .. Len(b) /\ b[1 + k] = Tool(c)
    BY <1>5, <1>6, <2>1
  <2> QED
    BY <2>2
<1>9. Block(ctx, i) = b
  BY DEF Block, b, h, l, M
<1> QED
  BY <1>6, <1>7, <1>8, <1>9 DEF M

LEMMA NormalizedAnswers ==
    ASSUME NEW ctx \in Seq(Message) PROVE AllAnswered(Normalized(ctx))
<1> DEFINE n == Len(ctx)
           s == [i \in DOMAIN ctx |-> Block(ctx, i)]
           N == FlattenSeq(s)
<1>1. n \in Nat /\ DOMAIN ctx = 1 .. n
  OBVIOUS
<1>2. s \in Seq(Seq(Message)) /\ Len(s) = n /\ \A i \in 1 .. n : s[i] = Block(ctx, i)
  BY <1>1, BlocksFillIn
<1>3. Normalized(ctx) = N
  BY DEF Normalized, Block
<1> HIDE DEF s
<1>4. N \in Seq(Message)
  BY <1>2, FlattenLaysOut
<1>5. PICK end : LaidOut(s, n, N, end)
  BY <1>2, FlattenLaysOut
<1> HIDE DEF N
<1>6. /\ end \in [0 .. n -> Nat] /\ end[n] = Len(N)
      /\ \A a, b \in 0 .. n : a <= b => end[a] <= end[b]
  BY <1>5 DEF LaidOut
<1>7. \A k \in 1 .. n : /\ end[k] = end[k - 1] + Len(s[k]) /\ end[k] \in Nat /\ end[k - 1] \in Nat
                        /\ \A p \in 1 .. Len(s[k]) : N[end[k - 1] + p] = s[k][p]
  <2>1. \A k \in 1 .. n : /\ end[k] = end[k - 1] + Len(s[k])
                           /\ \A p \in 1 .. Len(s[k]) : N[end[k - 1] + p] = s[k][p]
    BY <1>5 DEF LaidOut
  <2>2. \A k \in 1 .. n : k \in 0 .. n /\ k - 1 \in 0 .. n
    BY <1>1
  <2>3. \A k \in 1 .. n : end[k] \in Nat /\ end[k - 1] \in Nat
    BY <1>6, <2>2
  <2> QED
    BY <2>1, <2>3
<1>8. \A j \in 1 .. Len(N) : \E k \in 1 .. n : \E p \in 1 .. Len(s[k]) : j = end[k - 1] + p
  BY <1>5 DEF LaidOut
<1>9. \A k \in 1 .. n : /\ Len(s[k]) \in Nat /\ Len(s[k]) >= 1 /\ s[k][1] = ctx[k]
                        /\ \A p \in 2 .. Len(s[k]) : s[k][p].role = "tool" /\ s[k][p].calls = {}
                        /\ \A c \in Missing(ctx, k) : \E p \in 2 .. Len(s[k]) : s[k][p] = Tool(c)
  <2> SUFFICES ASSUME NEW k \in 1 .. n
               PROVE  /\ Len(s[k]) \in Nat /\ Len(s[k]) >= 1 /\ s[k][1] = ctx[k]
                      /\ \A p \in 2 .. Len(s[k]) : s[k][p].role = "tool" /\ s[k][p].calls = {}
                      /\ \A c \in Missing(ctx, k) : \E p \in 2 .. Len(s[k]) : s[k][p] = Tool(c)
    OBVIOUS
  <2>1. s[k] = Block(ctx, k) /\ k \in 1 .. Len(ctx)
    BY <1>2
  <2>2. /\ Block(ctx, k) \in Seq(Message) /\ Len(Block(ctx, k)) >= 1 /\ Block(ctx, k)[1] = ctx[k]
        /\ \A p \in 2 .. Len(Block(ctx, k)) :
              Block(ctx, k)[p].role = "tool" /\ Block(ctx, k)[p].calls = {}
        /\ \A c \in Missing(ctx, k) : \E p \in 2 .. Len(Block(ctx, k)) : Block(ctx, k)[p] = Tool(c)
    BY <2>1, BlocksFillIn
  <2>3. Len(Block(ctx, k)) \in Nat
    BY <2>2
  <2> QED
    BY <2>1, <2>2, <2>3
<1>10. ASSUME NEW i \in 1 .. Len(N), NEW c \in N[i].calls
       PROVE  \E j \in i + 1 .. Len(N) : N[j] = Tool(c) /\ \A x \in i + 1 .. j : N[x].role = "tool"
  <2>0. i \in Nat /\ Len(N) \in Nat
    BY <1>4
  <2>1. PICK k \in 1 .. n : \E p \in 1 .. Len(s[k]) : i = end[k - 1] + p
    BY <1>8
  <2>2. PICK p \in 1 .. Len(s[k]) : i = end[k - 1] + p
    BY <2>1
  <2>3. N[i] = s[k][p]
    BY <1>7, <2>2
  <2>4. p = 1 /\ i = end[k - 1] + 1 /\ N[i] = ctx[k]
    <3>1. p \notin 2 .. Len(s[k])
      BY <1>9, <1>10, <2>3
    <3>2. p = 1
      BY <1>9, <3>1
    <3> QED
      BY <1>9, <2>2, <2>3, <3>2
  <2>5. c \in ctx[k].calls
    BY <1>10, <2>4
  <2>6. CASE c \in Missing(ctx, k)
    <3>1. PICK q \in 2 .. Len(s[k]) : s[k][q] = Tool(c)
      BY <1>9, <2>6
    <3> DEFINE j == end[k - 1] + q
    <3>2. N[j] = Tool(c)
      <4>1. q \in 1 .. Len(s[k])
        BY <1>9, <3>1
      <4> QED
        BY <1>7, <3>1, <4>1
    <3>3. j \in i + 1 .. Len(N)
      <4>1. end[k] <= end[n] /\ end[n] = Len(N)
        BY <1>1, <1>6
      <4>2. end[k] = end[k - 1] + Len(s[k]) /\ end[k] \in Nat /\ end[k - 1] \in Nat
        BY <1>7
      <4>3. q \in Nat /\ q >= 2 /\ q <= Len(s[k]) /\ Len(s[k]) \in Nat /\ Len(N) \in Nat
        BY <1>4, <1>9, <3>1
      <4>4. j \in Nat /\ j >= end[k - 1] + 2 /\ j <= end[k]
        BY <4>2, <4>3
      <4>5. i + 1 = end[k - 1] + 2
        BY <2>4, <4>2
      <4> HIDE DEF j
      <4> QED
        BY <4>1, <4>2, <4>3, <4>4, <4>5
    <3>4. ASSUME NEW x \in i + 1 .. j PROVE N[x].role = "tool"
      <4>1. x - end[k - 1] \in 2 .. Len(s[k]) /\ x - end[k - 1] \in 1 .. Len(s[k])
            /\ end[k - 1] + (x - end[k - 1]) = x
        <5>1. end[k - 1] \in Nat /\ Len(s[k]) \in Nat /\ q \in 2 .. Len(s[k])
          BY <1>7, <1>9, <3>1
        <5> QED
          BY <2>0, <2>4, <3>4, <5>1, SMTT(60)
      <4>2. N[x] = s[k][x - end[k - 1]]
        BY <1>7, <4>1
      <4> QED
        BY <1>9, <4>1, <4>2
    <3> QED
      BY <3>2, <3>3, <3>4
  <2>7. CASE c \in AnsweredIn(ctx, k)
    <3>1. PICK g \in k + 1 .. n : c = ctx[g].id /\ \A h \in k + 1 .. g : ctx[h].role = "tool"
      BY <2>7 DEF AnsweredIn
    <3>2. g \in 1 .. n /\ g \in k + 1 .. g /\ g - 1 \in 0 .. n /\ k \in 0 .. n /\ k <= g - 1
      BY <1>1, <3>1
    <3>3. ctx[g] = Tool(c)
      <4>1. ctx[g] \in Message /\ ctx[g].role = "tool"
        BY <3>1, <3>2
      <4> QED
        BY <3>1, <4>1 DEF Message, Tool
    <3> DEFINE j == end[g - 1] + 1
    <3>4. N[j] = Tool(c)
      <4>1. 1 \in 1 .. Len(s[g])
        BY <1>9, <3>2
      <4>2. N[j] = s[g][1]
        BY <1>7, <3>2, <4>1
      <4> QED
        BY <1>9, <3>2, <3>3, <4>2
    <3>5. j \in i + 1 .. Len(N) /\ j <= end[g]
      <4>1. end[k] <= end[g - 1] /\ end[g] <= end[n]
        BY <1>1, <1>6, <3>2
      <4>2. end[k] >= i /\ j <= end[g] /\ end[g - 1] \in Nat /\ end[k] \in Nat /\ i \in Nat
        <5>1. /\ end[k] = end[k - 1] + Len(s[k]) /\ end[k] \in Nat /\ end[k - 1] \in Nat
              /\ end[g] = end[g - 1] + Len(s[g]) /\ end[g] \in Nat /\ end[g - 1] \in Nat
          BY <1>7, <3>2
        <5>2. Len(s[k]) \in Nat /\ Len(s[k]) >= 1 /\ Len(s[g]) \in Nat /\ Len(s[g]) >= 1
          BY <1>9, <3>2
        <5> QED
          BY <2>0, <2>4, <5>1, <5>2, SMTT(60)
      <4>3. end[g] \in Nat /\ Len(N) \in Nat /\ end[n] = Len(N)
        <5>1. end[g] \in Nat
          BY <1>7, <3>2
        <5> QED
          BY <1>6, <2>0, <5>1
      <4> QED
        BY <4>1, <4>2, <4>3
    <3>6. ASSUME NEW x \in i + 1 .. j PROVE N[x].role = "tool"
      <4>1. x \in 1 .. Len(N)
        BY <3>5
      <4>2. PICK b \in 1 .. n : \E q \in 1 .. Len(s[b]) : x = end[b - 1] + q
        BY <1>8, <4>1
      <4>3. PICK q \in 1 .. Len(s[b]) : x = end[b - 1] + q
        BY <4>2
      <4>4. N[x] = s[b][q]
        BY <1>7, <4>3
      <4>5. k <= b
        <5>1. CASE b <= k - 1
          <6>1. end[b] <= end[k - 1]
            BY <1>1, <1>6, <5>1
          <6>2. x <= end[b] /\ end[k - 1] \in Nat /\ end[b] \in Nat
            <7>1. end[b] = end[b - 1] + Len(s[b]) /\ end[b] \in Nat /\ end[b - 1] \in Nat
              BY <1>7
            <7>2. Len(s[b]) \in Nat
              BY <1>9
            <7>3. q <= Len(s[b]) /\ q \in Nat
              BY <4>3, <7>2
            <7>4. end[k - 1] \in Nat
              BY <1>7
            <7> QED
              BY <4>3, <7>1, <7>2, <7>3, <7>4, SMTT(60)
          <6> QED
            BY <2>4, <3>6, <6>1, <6>2
        <5> QED
          BY <5>1
      <4>6. b <= g
        <5>1. CASE g <= b - 1
          <6>1. end[g] <= end[b - 1]
            BY <1>1, <1>6, <5>1, <3>2
          <6>2. x > end[b - 1] /\ end[b - 1] \in Nat /\ end[g] \in Nat
            BY <1>7, <1>9, <3>2, <4>3
          <6> QED
            BY <3>5, <3>6, <6>1, <6>2
        <5> QED
          BY <3>2, <5>1
      <4>7. CASE q \in 2 .. Len(s[b])
        BY <1>9, <4>4, <4>7
      <4>8. CASE q = 1
        <5>1. b # k
          BY <2>4, <3>6, <4>3, <4>8, <1>7
        <5>2. b \in k + 1 .. g
          BY <4>5, <4>6, <5>1
        <5> QED
          BY <1>9, <3>1, <4>4, <4>8, <5>2
      <4> QED
        BY <1>9, <4>7, <4>8
    <3> QED
      BY <3>4, <3>5, <3>6
  <2> QED
    BY <2>5, <2>6, <2>7 DEF Missing
<1>11. DOMAIN N = 1 .. Len(N)
  BY <1>4
<1> QED
  BY <1>3, <1>10, <1>11 DEF AllAnswered

LEMMA RebuiltIsContext == ASSUME NEW rows \in Seq(Message) PROVE Rebuilt(rows) \in Seq(Message)
<1> DEFINE s == [i \in DOMAIN rows |-> ContextRow(rows[i])]
<1>1. \A i \in DOMAIN rows : ContextRow(rows[i]) \in Seq(Message)
  BY DEF ContextRow
<1>2. s \in Seq(Seq(Message))
  BY <1>1
<1> HIDE DEF s
<1>3. FlattenSeq(s) \in Seq(Message)
  BY <1>2, FlattenLaysOut
<1>4. SystemPrompt \in Message
  BY MessagesAre
<1> QED
  BY <1>3, <1>4 DEF Rebuilt, s

LEMMA WithoutHintIsContext ==
    ASSUME NEW ctx \in Seq(Message) PROVE WithoutHint(ctx) \in Seq(Message)
<1> DEFINE s == [i \in DOMAIN ctx |-> IF ctx[i] = HostHint THEN <<>> ELSE <<ctx[i]>>]
<1> DEFINE part(m) == IF m = HostHint THEN <<>> ELSE <<m>>
<1>0. \A m \in Message : part(m) \in Seq(Message)
  OBVIOUS
<1>1. s \in Seq(Seq(Message))
  <2>1. s = [i \in 1 .. Len(ctx) |-> part(ctx[i])] /\ Len(ctx) \in Nat
    OBVIOUS
  <2> HIDE DEF s, part
  <2>2. \A i \in 1 .. Len(ctx) : part(ctx[i]) \in Seq(Message)
    BY <1>0
  <2> QED
    BY <2>1, <2>2
<1> HIDE DEF s
<1>2. FlattenSeq(s) \in Seq(Message)
  BY <1>1, FlattenLaysOut
<1> QED
  BY <1>2 DEF WithoutHint, s

LEMMA CompactedIsContext ==
    ASSUME NEW ctx \in Seq(Message), Len(ctx) > KeepRecent + 2 PROVE Compacted(ctx) \in Seq(Message)
<1>1. Len(ctx) \in Nat /\ Len(ctx) > 8 /\ KeepRecent = 6
  BY DEF KeepRecent
<1>2. ctx[1] \in Message /\ Msg("system") \in Message
  BY <1>1, MessagesAre
<1>3. SubSeq(ctx, Len(ctx) - 6 + 1, Len(ctx)) \in Seq(Message)
  BY <1>1
<1> QED
  BY <1>1, <1>2, <1>3 DEF Compacted

\* What is kept in memory and in the database are messages, and while a tool
\* runs or its result waits to be saved, the call it answers is known.
ContextInv ==
    /\ context \in Seq(Message) /\ saved \in Seq(Message)
    /\ toolCalls \in Seq(Nat) /\ calls \in Nat
    /\ ctxPhase \in {"running", "answered"} => toolCalls # <<>>

LEMMA TurnInv == ASSUME ContextInv, Turn PROVE ContextInv'
<1> DEFINE base == IF loaded THEN context ELSE Rebuilt(saved)
<1>1. /\ context \in Seq(Message) /\ saved \in Seq(Message)
      /\ toolCalls' = toolCalls /\ calls' = calls /\ ctxPhase' = "infer"
  BY DEF ContextInv, Turn
<1>2. base \in Seq(Message)
  BY <1>1, RebuiltIsContext
<1>3. PICK hint \in BOOLEAN, compact \in BOOLEAN :
        LET hinted == IF hint THEN Append(WithoutHint(base), HostHint) ELSE base
            full == Append(hinted, Msg("user"))
        IN /\ compact => Len(full) > KeepRecent + 2
           /\ context' = IF compact THEN Compacted(full) ELSE full
           /\ saved' = saved \o IF compact THEN <<Msg("user"), Msg("system")>> ELSE <<Msg("user")>>
  BY DEF Turn
<1> DEFINE hinted == IF hint THEN Append(WithoutHint(base), HostHint) ELSE base
           full == Append(hinted, Msg("user"))
<1>4. /\ compact => Len(full) > KeepRecent + 2
      /\ context' = IF compact THEN Compacted(full) ELSE full
      /\ saved' = saved \o IF compact THEN <<Msg("user"), Msg("system")>> ELSE <<Msg("user")>>
  BY <1>3
<1> HIDE DEF base
<1>5. Msg("user") \in Message /\ Msg("system") \in Message /\ HostHint \in Message
  BY MessagesAre
<1>6. hinted \in Seq(Message)
  BY <1>2, <1>5, WithoutHintIsContext
<1> HIDE DEF hinted
<1>7. full \in Seq(Message)
  BY <1>5, <1>6
<1> HIDE DEF full
<1>8. context' \in Seq(Message)
  BY <1>4, <1>7, CompactedIsContext
<1>9. saved' \in Seq(Message)
  BY <1>1, <1>4, <1>5
<1> QED
  BY <1>1, <1>8, <1>9 DEF ContextInv

LEMMA ContextNextInv == ContextInv /\ [ContextNext]_ctxVars => ContextInv'
<1> SUFFICES ASSUME ContextInv, [ContextNext]_ctxVars PROVE ContextInv'
  OBVIOUS
<1> USE DEF ContextInv
<1>1. Msg("assistant") \in Message /\ Msg("system") \in Message /\ SkillRow \in Message
      /\ SystemPrompt \in Message /\ \A n \in Nat : Tool(n) \in Message
  BY MessagesAre
<1>2. CASE Turn
  BY <1>2, TurnInv
<1>3. CASE AnswerText
  BY <1>1, <1>3 DEF AnswerText
<1>4. CASE AnswerCalls
  <2>1. PICK n \in 1 .. 2, text \in BOOLEAN :
          /\ context' = Append(context, Calling(calls + 1 .. calls + n))
          /\ saved' = IF text THEN Append(saved, Msg("assistant")) ELSE saved
          /\ toolCalls' = [k \in 1 .. n |-> calls + k]
          /\ calls' = calls + n
    BY <1>4 DEF AnswerCalls
  <2>2. IsFiniteSet(calls + 1 .. calls + n) /\ calls + 1 .. calls + n \in SUBSET Nat
    BY FS_Interval
  <2>3. Calling(calls + 1 .. calls + n) \in Message
    BY <2>2, MessagesAre
  <2>4. toolCalls' \in Seq(Nat) /\ calls' \in Nat
    BY <2>1
  <2>5. context' \in Seq(Message) /\ saved' \in Seq(Message)
    BY <1>1, <2>1, <2>3
  <2>6. ctxPhase' = "tools"
    BY <1>4 DEF AnswerCalls
  <2> QED
    BY <2>4, <2>5, <2>6
<1>5. CASE StartTool
  <2>1. Head(toolCalls) \in Nat /\ toolCalls # <<>>
    BY <1>5 DEF StartTool
  <2>2. {Head(toolCalls)} \in SUBSET Nat /\ IsFiniteSet({Head(toolCalls)})
    BY <2>1, FS_Singleton
  <2>3. Calling({Head(toolCalls)}) \in Message
    BY <2>2, MessagesAre
  <2> QED
    BY <1>5, <2>1, <2>3 DEF StartTool
<1>6. CASE SkillResult \/ ToolResult
  <2>1. toolCalls # <<>> /\ Head(toolCalls) \in Nat
    BY <1>6 DEF SkillResult, ToolResult
  <2>2. Tool(Head(toolCalls)) \in Message
    BY <1>1, <2>1
  <2>3. toolCalls' = toolCalls /\ calls' = calls
    BY <1>6 DEF SkillResult, ToolResult
  <2>4. CASE ToolResult
    <3>1. context' = Append(context, Tool(Head(toolCalls))) /\ saved' = saved
      BY <2>4 DEF ToolResult
    <3> QED
      BY <2>1, <2>2, <2>3, <3>1
  <2>5. CASE SkillResult
    <3>1. /\ context' = context \o <<Msg("system"), Tool(Head(toolCalls)), Msg("system")>>
          /\ saved' = Append(saved, SkillRow)
      BY <2>5 DEF SkillResult
    <3>2. <<Msg("system"), Tool(Head(toolCalls)), Msg("system")>> \in Seq(Message)
      BY <1>1, <2>2
    <3>3. context' \in Seq(Message) /\ saved' \in Seq(Message)
      BY <1>1, <3>1, <3>2
    <3> QED
      BY <2>1, <2>3, <3>3
  <2> QED
    BY <1>6, <2>4, <2>5
<1>7. CASE SaveResult
  <2>1. toolCalls # <<>> /\ Head(toolCalls) \in Nat /\ Tail(toolCalls) \in Seq(Nat)
    BY <1>7 DEF SaveResult
  <2>2. Tool(Head(toolCalls)) \in Message
    BY <1>1, <2>1
  <2>3. saved' \in Seq(Message) /\ context' = context /\ calls' = calls
    BY <1>7, <2>2 DEF SaveResult
  <2>4. toolCalls' \in Seq(Nat) /\ ctxPhase' \in {"tools", "infer", "idle"}
    BY <1>7, <2>1 DEF SaveResult
  <2> QED
    BY <2>3, <2>4
<1>8. CASE RunFails \/ NewLoop
  <2>1. toolCalls' = <<>> /\ ctxPhase' = "idle" /\ calls' = calls /\ saved' = saved
    BY <1>8 DEF RunFails, NewLoop
  <2>2. context' = context \/ context' = <<SystemPrompt>>
    BY <1>8 DEF RunFails, NewLoop
  <2>3. <<SystemPrompt>> \in Seq(Message) /\ <<>> \in Seq(Nat)
    BY <1>1
  <2>4. context' \in Seq(Message)
    BY <2>2, <2>3
  <2>5. toolCalls' \in Seq(Nat)
    BY <2>1, <2>3
  <2> QED
    BY <2>1, <2>4, <2>5
<1>9. CASE UNCHANGED ctxVars
  BY <1>9 DEF ctxVars
<1> QED
  BY <1>2, <1>3, <1>4, <1>5, <1>6, <1>7, <1>8, <1>9 DEF ContextNext

\* What is sent to the model answers every call it contains, in the block of
\* tool messages right after it, for sessions of any length and any failures
\* (_normalized_messages_for_tool_protocol).
THEOREM EveryCallIsAnswered == ContextSpec => []CallsAreAnswered
<1>1. ContextInit => ContextInv
  <2>1. SystemPrompt \in Message
    BY MessagesAre
  <2> QED
    BY <2>1 DEF ContextInit, ContextInv
<1>2. ContextInv => CallsAreAnswered
  BY NormalizedAnswers DEF ContextInv, CallsAreAnswered
<1> QED
  BY <1>1, <1>2, ContextNextInv, PTL DEF ContextSpec

=============================================================================
