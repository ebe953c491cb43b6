----------------------------- MODULE AgentUpdate -----------------------------
(***************************************************************************)
(* The agent updates itself: an administrator builds wheels from the source *)
(* tree and asks an agent to update; the agent's socket thread asks for the *)
(* versions, downloads the first, installs it and ends its process, which  *)
(* the service manager starts again. Builds, revoked tokens and failures   *)
(* come at any time; nothing but the installation itself tells a wheel     *)
(* that is being written from a whole one.                                 *)
(***************************************************************************)
EXTENDS Naturals, FiniteSets

CONSTANTS
  Releases,    \* number of versions of the source tree
  TenFrom,     \* the first version whose name has a digit more: "0.10.0"
  MaxTriggers  \* bound on the requests to update

ASSUME UpdateAssumption ==
  /\ Releases \in Nat \ {0} /\ TenFrom \in Nat /\ MaxTriggers \in Nat

VARIABLES
  release,        \* version in pyproject.toml
  building,       \* some worker runs a build
  wheel,          \* what each version's directory holds: "none", "partial", "whole"
  valid,          \* the agent's token is active
  ordered,        \* update messages in the agent's socket
  triggers,       \* updates asked for
  updating,       \* the agent's socket thread: [pc, version]
  installed,      \* version on the agent's disk
  running,        \* version of its process, 0 when nobody starts it again
  updateRestarts  \* history: updates that ended a process, [from, to]

updateVars == <<release, building, wheel, valid, ordered, triggers, updating,
                installed, running, updateRestarts>>

Versions == 1 .. Releases
NoUpdate == [pc |-> "idle", version |-> 0]

UpdateInit ==
  /\ release = 1 /\ building = FALSE /\ wheel = [v \in Versions |-> "none"]
  /\ valid = TRUE /\ ordered = 0 /\ triggers = 0 /\ updating = NoUpdate
  /\ installed \in Versions /\ running = installed /\ updateRestarts = {}

-----------------------------------------------------------------------------
(* The backend.                                                            *)

\* A deployment replaces the source tree, which restarts the workers.
Deploy ==
  /\ release < Releases /\ release' = release + 1 /\ building' = FALSE
  /\ UNCHANGED <<wheel, valid, ordered, triggers, updating, installed, running, updateRestarts>>

\* The version is read, and the build writes into that version's directory.
BuildStarts ==
  /\ ~ building /\ building' = TRUE
  /\ wheel' \in {wheel, [wheel EXCEPT ![release] = "partial"]}
  /\ UNCHANGED <<release, valid, ordered, triggers, updating, installed, running, updateRestarts>>

\* A build that fails leaves what it found or wrote.
BuildEnds(success) ==
  /\ building /\ building' = FALSE
  /\ wheel' = IF success THEN [wheel EXCEPT ![release] = "whole"] ELSE wheel
  /\ UNCHANGED <<release, valid, ordered, triggers, updating, installed, running, updateRestarts>>

\* Tokens are only marked inactive; a new one has to be put into the agent's
\* configuration.
Revoke ==
  /\ valid /\ valid' = FALSE
  /\ UNCHANGED <<release, building, wheel, ordered, triggers, updating, installed, running, updateRestarts>>

CreateToken ==
  /\ ~ valid /\ updating.pc = "idle" /\ valid' = TRUE
  /\ UNCHANGED <<release, building, wheel, ordered, triggers, updating, installed, running, updateRestarts>>

\* The message goes through Redis and the socket, which may lose it.
TriggerUpdate(delivered) ==
  /\ triggers < MaxTriggers /\ triggers' = triggers + 1
  /\ ordered' = IF delivered THEN ordered + 1 ELSE ordered
  /\ UNCHANGED <<release, building, wheel, valid, updating, installed, running, updateRestarts>>

-----------------------------------------------------------------------------
(* The agent, in _do_update.                                               *)

TakeUpdate ==
  /\ running # 0 /\ ordered > 0 /\ updating.pc = "idle"
  /\ ordered' = ordered - 1
  /\ updating' = [updating EXCEPT !.pc = "listing"]
  /\ UNCHANGED <<release, building, wheel, valid, triggers, installed, running, updateRestarts>>

\* What ends an update without a restart: no version, an error, a refusal.
GiveUpUpdate ==
  /\ updating.pc \in {"listing", "downloading", "installing", "installed"}
  /\ updating' = NoUpdate
  /\ UNCHANGED <<release, building, wheel, valid, ordered, triggers, installed, running, updateRestarts>>

\* list_agent_versions: directories with a wheel, by name, the greatest first;
\* among strings "0.9.0" is greater than "0.10.0".
NameRank(v) == IF v < TenFrom THEN v + Releases ELSE v
IsListed(v) == wheel[v] # "none"
NewestRelease(v) == IsListed(v) /\ \A w \in Versions : IsListed(w) => NameRank(w) <= NameRank(v)

\* Mutant: whatever the server lists first is installed.
WorthIt(v) == TRUE

\* The version that runs is not installed again.
Differs(v) == v # running

ListVersions(v) ==
  /\ updating.pc = "listing" /\ valid /\ NewestRelease(v)
  /\ updating' = IF Differs(v) THEN [pc |-> "downloading", version |-> v] ELSE NoUpdate
  /\ UNCHANGED <<release, building, wheel, valid, ordered, triggers, installed, running, updateRestarts>>

\* What is downloaded while it is written is not whole.
Download ==
  /\ updating.pc = "downloading" /\ valid
  /\ updating' = IF wheel[updating.version] = "whole"
                   THEN [updating EXCEPT !.pc = "installing"]
                   ELSE [pc |-> "installing", version |-> 0]
  /\ UNCHANGED <<release, building, wheel, valid, ordered, triggers, installed, running, updateRestarts>>

\* pip fails on such a file, and leaves the old package.
Install ==
  /\ updating.pc = "installing" /\ updating.version # 0
  /\ installed' = updating.version
  /\ updating' = [updating EXCEPT !.pc = "installed"]
  /\ UNCHANGED <<release, building, wheel, valid, ordered, triggers, running, updateRestarts>>

\* systemctl restart, or os._exit under a manager that restarts what ends; an
\* agent that no service manager runs is gone. Messages in the socket are lost.
RestartAgent(managed) ==
  /\ updating.pc = "installed"
  /\ running' = IF managed THEN installed ELSE 0
  /\ updateRestarts' = updateRestarts \cup {[from |-> running, to |-> installed]}
  /\ updating' = NoUpdate /\ ordered' = 0
  /\ UNCHANGED <<release, building, wheel, valid, triggers, installed>>

\* Somebody starts the agent, or it crashes and is started.
StartAgent ==
  /\ running # installed /\ running' = installed
  /\ updating' = NoUpdate /\ ordered' = 0
  /\ UNCHANGED <<release, building, wheel, valid, triggers, installed, updateRestarts>>

UpdateNext ==
  \/ Deploy \/ BuildStarts \/ \E success \in BOOLEAN : BuildEnds(success)
  \/ Revoke \/ CreateToken \/ \E delivered \in BOOLEAN : TriggerUpdate(delivered)
  \/ TakeUpdate \/ GiveUpUpdate \/ \E v \in Versions : ListVersions(v)
  \/ Download \/ Install \/ \E managed \in BOOLEAN : RestartAgent(managed) \/ StartAgent

UpdateSpec == UpdateInit /\ [][UpdateNext]_updateVars

-----------------------------------------------------------------------------
\* "Already at the latest: skip, to avoid an endless loop of restarts"
\* (reporter.py:168): whatever is built, revoked, lost or fails meanwhile, an
\* update ends the process only after it has installed another version.
NoIdleRestart == \A r \in updateRestarts : r.from # r.to

\* Not true: the versions are compared as strings, so an agent of 0.10.0 is
\* "updated" to 0.9.0 while that directory exists.
NeverOlder == \A r \in updateRestarts : r.from < r.to
=============================================================================
