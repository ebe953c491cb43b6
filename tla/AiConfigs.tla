----------------------------- MODULE AiConfigs ------------------------------
(***************************************************************************)
(* The models that the AI features use: a list of configurations and the   *)
(* id of the default one, in two rows of the settings table. Each request  *)
(* of an administrator reads the list, then the default, and writes both   *)
(* in one COMMIT, over whatever was written in between, but for a list     *)
(* that is the one it finds when it writes.                                *)
(*                                                                         *)
(* Of a configuration the model keeps its feature and whether it is        *)
(* enabled; the order of the list is left out: "the first" is any.         *)
(***************************************************************************)
EXTENDS Naturals, FiniteSets

CONSTANTS
  Configs,      \* ids
  Legacy,       \* the id "legacy-default", one of Configs
  Admins,
  NoConfig,
  MaxEdits      \* bound on requests

ASSUME ConfigsAssumption ==
  Legacy \in Configs /\ NoConfig \notin Configs /\ MaxEdits \in Nat

VARIABLES
  list,         \* the row ops_ai_configs_v2: function of the ids in it, or {}
  default,      \* the row ops_ai_default_config_id
  edit,         \* request of each administrator: [pc, read, id, write]
  edits

aiConfigsVars == <<list, default, edit, edits>>

\* ops_assistant has room for many models, the other features for one.
Features == {"ops_assistant", "log_analysis", "default"}
Limited == Features \ {"ops_assistant"}

Config == [feature : Features, on : BOOLEAN]
NoEdit == [pc |-> "idle", read |-> <<>>, id |-> NoConfig, write |-> "no"]

AiConfigsInit ==
  /\ list = {} /\ default = NoConfig
  /\ edit = [a \in Admins |-> NoEdit] /\ edits = 0

-----------------------------------------------------------------------------
(* _load_ai_configs.                                                       *)

\* Without a list: one configuration, made of the older settings.
LegacyList == [i \in {Legacy} |-> [feature |-> "ops_assistant", on |-> TRUE]]

LoadList(a) ==
  /\ edit[a].pc = "idle" /\ edits < MaxEdits /\ edits' = edits + 1
  /\ edit' = [edit EXCEPT ![a] = IF list = {}
                THEN [NoEdit EXCEPT !.pc = "loaded", !.read = LegacyList, !.id = Legacy]
                ELSE [NoEdit EXCEPT !.pc = "list", !.read = CHOOSE l \in list : TRUE]]
  /\ UNCHANGED <<list, default>>

\* The default's row is read after the list's.
LoadDefault(a) ==
  /\ edit[a].pc = "list"
  /\ edit' = [edit EXCEPT ![a].pc = "loaded", ![a].id = default]
  /\ UNCHANGED <<list, default, edits>>

-----------------------------------------------------------------------------
(* The changes that are made to what was read; an error changes nothing.   *)

\* _save_ai_configs reads the rows again: a list that is there already is not
\* written, and one that was not there is inserted.
SaveConfigs(a, l, d) ==
  /\ edit[a].pc = "loaded"
  /\ edit' = [edit EXCEPT ![a] = [pc |-> "saved", read |-> l, id |-> d,
                write |-> IF list = {} THEN "insert" ELSE IF list = {l} THEN "no" ELSE "update"]]
  /\ UNCHANGED <<list, default, edits>>

\* The COMMIT. The table's key lets one of two insertions pass.
EditCommits(a) ==
  /\ edit[a].pc = "saved"
  /\ edit[a].write = "insert" => list = {}
  /\ list' = IF edit[a].write = "no" THEN list ELSE {edit[a].read}
  /\ default' = edit[a].id
  /\ edit' = [edit EXCEPT ![a] = NoEdit]
  /\ UNCHANGED edits

EditFails(a) ==
  /\ edit[a].pc \in {"loaded", "saved"}
  /\ edit' = [edit EXCEPT ![a] = NoEdit]
  /\ UNCHANGED <<list, default, edits>>

\* Mutant: every feature has room for many models.
RoomForAlways(l, f) == TRUE

\* _enforce_feature_model_limit.
RoomFor(l, f) == f \in Limited => \A i \in DOMAIN l : l[i].feature # f

Without(l, i) == [j \in DOMAIN l \ {i} |-> l[j]]

\* Also POST /ai-configs/import.
CreateConfig(a, i, f, on) ==
  LET l == edit[a].read
      d == edit[a].id IN
    /\ i \notin DOMAIN l /\ i # Legacy
    /\ RoomFor(l, f)
    /\ SaveConfigs(a, [j \in DOMAIN l \cup {i} |-> IF j = i THEN [feature |-> f, on |-> on] ELSE l[j]],
                   IF d = NoConfig THEN i ELSE d)

UpdateConfig(a, i, f, on) ==
  LET l == edit[a].read IN
    /\ i \in DOMAIN l
    /\ f = l[i].feature \/ RoomFor(Without(l, i), f)
    /\ SaveConfigs(a, [l EXCEPT ![i] = [feature |-> f, on |-> on]], edit[a].id)

SetDefault(a, i) ==
  /\ i \in DOMAIN edit[a].read
  /\ SaveConfigs(a, edit[a].read, i)

\* The last one stays; the default moves to the first of the others.
DeleteConfig(a, i) ==
  LET l == edit[a].read
      rest == Without(l, i) IN
    /\ i \in DOMAIN l /\ DOMAIN rest # {}
    /\ IF edit[a].id = i THEN \E j \in DOMAIN rest : SaveConfigs(a, rest, j)
       ELSE SaveConfigs(a, rest, edit[a].id)

AiConfigsNext ==
  \E a \in Admins :
    \/ LoadList(a) \/ LoadDefault(a) \/ EditCommits(a) \/ EditFails(a)
    \/ \E i \in Configs : \/ SetDefault(a, i) \/ DeleteConfig(a, i)
                          \/ \E f \in Features, on \in BOOLEAN :
                               CreateConfig(a, i, f, on) \/ UpdateConfig(a, i, f, on)

AiConfigsSpec == AiConfigsInit /\ [][AiConfigsNext]_aiConfigsVars

-----------------------------------------------------------------------------
(* llm_client._load_ai_runtime_config: both rows in one SELECT.            *)

Serving(l, f) == {i \in DOMAIN l : l[i].feature = f}

\* Configurations of the feature, else of the feature "default", else all.
Scoped(l, f) ==
  IF Serving(l, f) # {} THEN Serving(l, f)
  ELSE IF Serving(l, "default") # {} THEN Serving(l, "default") ELSE DOMAIN l

\* The default one if it is among them, else an enabled one, else any.
Chosen(l, d, f) ==
  LET scoped == Scoped(l, f)
      enabled == {i \in scoped : l[i].on} IN
    IF d \in scoped THEN {d} ELSE IF enabled # {} THEN enabled ELSE scoped

-----------------------------------------------------------------------------
\* Whatever requests overtake one another, every feature finds a model, and a
\* feature with one place has one model at most: what is lost when lists
\* overwrite each other is never the soundness of the list
\* (_enforce_feature_model_limit, delete_ai_config, _load_ai_runtime_config).
ListIsSound ==
  \A l \in list :
    /\ \A f \in Features : Chosen(l, default, f) # {}
    /\ \A f \in Limited : Cardinality(Serving(l, f)) <= 1

\* The default id is that of a configuration in the list.
DefaultExists == \A l \in list : default \in DOMAIN l
=============================================================================
