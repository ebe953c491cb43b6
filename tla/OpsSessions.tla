---------------------------- MODULE OpsSessions -----------------------------
(***************************************************************************)
(* The sessions of one user of the ops assistant. Sessions without a title *)
(* and messages are drafts; requests delete drafts and close old sessions  *)
(* while a run of the agent loop may be about to save a first message.     *)
(*                                                                         *)
(* A session's age is 0 for a minute, 1 for a day, and then 2; messages    *)
(* are counted up to one, their content is in module OpsContext.           *)
(***************************************************************************)
EXTENDS Naturals, FiniteSets

CONSTANT Drafts        \* sessions

VARIABLES
  row,        \* [status, titled, said, age]; status "none" without a row
  tab,        \* the run of each session: "idle", "synced", "saved" or "title"
  sweep       \* [by, found]: the request that cleans up and what it has read

opsSessionsVars == <<row, tab, sweep>>

NoRow == [status |-> "none", titled |-> FALSE, said |-> FALSE, age |-> 0]
NoSweep == [by |-> "none", found |-> {}]

OpsSessionsInit ==
  /\ row = [s \in Drafts |-> NoRow]
  /\ tab = [s \in Drafts |-> "idle"]
  /\ sweep = NoSweep

SessionsAge(s) ==
  /\ row[s].status # "none" /\ row[s].age < 2 /\ tab[s] = "idle"
  /\ row' = [row EXCEPT ![s].age = @ + 1]
  /\ UNCHANGED <<tab, sweep>>

-----------------------------------------------------------------------------
(* The requests.                                                           *)

IsDraft(s) == row[s].status = "active" /\ ~row[s].titled /\ ~row[s].said

\* Mutant: a draft is stale at once.
IsStaleAtOnce(s) == row[s].status # "none"

\* Not updated for a minute.
IsStale(s) == row[s].age > 0

\* POST /sessions: drafts older than a minute ...
CreateReads ==
  /\ sweep = NoSweep
  /\ sweep' = [by |-> "create", found |-> {s \in Drafts : IsDraft(s) /\ IsStale(s)}]
  /\ UNCHANGED <<row, tab>>

\* ... are deleted, with the messages they may have by now, and a session is
\* added.
CreateCommits(s, titled) ==
  /\ sweep.by = "create" /\ row[s].status = "none" /\ tab[s] = "idle"
  /\ row' = [t \in Drafts |-> IF t = s THEN [NoRow EXCEPT !.status = "active", !.titled = titled]
                              ELSE IF t \in sweep.found THEN NoRow ELSE row[t]]
  /\ sweep' = NoSweep
  /\ UNCHANGED tab

\* GET /sessions and /sessions/{id} close what has not moved for a day.
CloseInactive ==
  /\ row' = [s \in Drafts |-> IF row[s].status = "active" /\ row[s].age = 2
                              THEN [row[s] EXCEPT !.status = "closed", !.age = 0] ELSE row[s]]
  /\ UNCHANGED <<tab, sweep>>

\* GET /sessions: all drafts but the newest, of any age ...
ListReads ==
  /\ sweep = NoSweep
  /\ LET drafts == {s \in Drafts : IsDraft(s)} IN
       \E newest \in drafts :
         /\ \A s \in drafts : row[newest].age <= row[s].age
         /\ sweep' = [by |-> "list", found |-> drafts \ {newest}]
  /\ UNCHANGED <<row, tab>>

\* ... are deleted.
ListCommits ==
  /\ sweep.by = "list"
  /\ row' = [s \in Drafts |-> IF s \in sweep.found THEN NoRow ELSE row[s]]
  /\ sweep' = NoSweep
  /\ UNCHANGED tab

DeleteSession(s) ==
  /\ row[s].status # "none"
  /\ row' = [row EXCEPT ![s] = NoRow]
  /\ UNCHANGED <<tab, sweep>>

-----------------------------------------------------------------------------
(* A run of the agent loop (run); without a row it saves nothing.          *)

Touch(s) == [row[s] EXCEPT !.age = 0]

\* _sync_context_limit_tokens sets updated_at.
RunSyncs(s) ==
  /\ tab[s] = "idle" /\ row[s].status # "none"
  /\ row' = [row EXCEPT ![s] = Touch(s)]
  /\ tab' = [tab EXCEPT ![s] = "synced"]
  /\ UNCHANGED sweep

\* _save_message opens a closed session again; the foreign key refuses a
\* message of a session that is gone, and the run ends.
RunSaves(s) ==
  /\ tab[s] = "synced"
  /\ IF row[s].status = "none"
       THEN row' = row /\ tab' = [tab EXCEPT ![s] = "idle"]
       ELSE /\ row' = [row EXCEPT ![s] = [Touch(s) EXCEPT !.status = "active", !.said = TRUE]]
            /\ tab' = [tab EXCEPT ![s] = IF row[s].titled THEN "idle" ELSE "title"]
  /\ UNCHANGED sweep

\* _generate_title, unless the model does not answer.
RunTitles(s, ok) ==
  /\ tab[s] = "title"
  /\ row' = IF ok /\ row[s].status # "none" THEN [row EXCEPT ![s] = [Touch(s) EXCEPT !.titled = TRUE]]
            ELSE row
  /\ tab' = [tab EXCEPT ![s] = "idle"]
  /\ UNCHANGED sweep

OpsSessionsNext ==
  \/ CreateReads \/ CloseInactive \/ ListReads \/ ListCommits
  \/ \E s \in Drafts :
       \/ SessionsAge(s) \/ DeleteSession(s) \/ RunSyncs(s) \/ RunSaves(s)
       \/ \E b \in BOOLEAN : CreateCommits(s, b) \/ RunTitles(s, b)

OpsSessionsSpec == OpsSessionsInit /\ [][OpsSessionsNext]_opsSessionsVars

-----------------------------------------------------------------------------
\* What a request that cleans up has read holds no message, and what a new
\* session pushes out is not at work either: between the moment a run has
\* touched its session and its first message the session is young
\* ("avoid deleting sessions in the middle of inference", create_session).
SweepsSpareTalks ==
  [][\A s \in sweep'.found \ sweep.found :
       ~row[s].said /\ (sweep'.by = "create" => tab[s] = "idle")]_opsSessionsVars

\* The same of the moment when the drafts are deleted.
TalksSurvive ==
  [][\A s \in sweep.found \ sweep'.found : ~row[s].said /\ tab[s] = "idle"]_opsSessionsVars
=============================================================================
