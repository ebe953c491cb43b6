------------------------------- MODULE Layouts -------------------------------
(***************************************************************************)
(* The dashboard layouts of one user, as overlapping requests change them: *)
(* each reads rows, may write all others, and writes its own at COMMIT. A  *)
(* written row is locked until then. Which components a layout shows and   *)
(* where is left out: a quick change of one is never stored, because it is *)
(* made in the object that was read and then compared with itself.         *)
(***************************************************************************)
EXTENDS Naturals, FiniteSets

CONSTANTS LayoutRows, Names, LayoutClients, NoClient

ASSUME LayoutsAssumption == NoClient \notin LayoutClients

VARIABLES
  layouts,   \* [there, active, name] of each layout
  lockedBy,  \* the request that has written the row and not committed
  asking,    \* [pc, layout, read, on, name]; on: what is asked of is_active
  unseen     \* history: layouts inserted while an activation had written the others

layoutVars == <<layouts, lockedBy, asking, unseen>>

Idle == [pc |-> "none"]
NoLayout == [there |-> FALSE]
Exists(l) == layouts[l].there
IsShown(l) == layouts[l].there /\ layouts[l].active

LayoutsInit ==
  /\ layouts = [l \in LayoutRows |-> NoLayout] /\ lockedBy = [l \in LayoutRows |-> NoClient]
  /\ asking = [c \in LayoutClients |-> Idle] /\ unseen = {}

Becomes(c, r) == asking' = [asking EXCEPT ![c] = r]

\* create_layout and create_from_preset: the name must be free when it is read.
\* With two rows of that name, the read fails.
CheckName(c, name) ==
  /\ asking[c] = Idle /\ \A l \in LayoutRows : Exists(l) => layouts[l].name # name
  /\ Becomes(c, [pc |-> "create", name |-> name])
  /\ UNCHANGED <<layouts, lockedBy, unseen>>

Activating == \E c \in LayoutClients : asking[c].pc = "write" /\ asking[c].on = "yes"

InsertLayout(c, l) ==
  /\ asking[c].pc = "create" /\ ~ Exists(l)
  /\ layouts' = [layouts EXCEPT ![l] = [there |-> TRUE, active |-> FALSE, name |-> asking[c].name]]
  /\ unseen' = IF Activating THEN unseen \cup {l} ELSE unseen \ {l}
  /\ Becomes(c, Idle) /\ UNCHANGED lockedBy

\* update_layout, and activate_layout, which asks for is_active alone. No name
\* is compared with the other ones here.
ReadLayout(c, l, on, name) ==
  /\ asking[c] = Idle /\ Exists(l)
  /\ Becomes(c, [pc |-> IF on = "yes" THEN "clear" ELSE "write", layout |-> l,
                 read |-> layouts[l], on |-> on, name |-> name])
  /\ UNCHANGED <<layouts, lockedBy, unseen>>

\* Mutant: only rows that are active are written, and so locked.
OthersActive(l) == {m \in LayoutRows \ {l} : IsShown(m)}

Others(l) == {m \in LayoutRows \ {l} : Exists(m)}

Locks(c) == {l \in LayoutRows : lockedBy[l] = c}
Takes(c, ls) == \A l \in ls : lockedBy[l] \in {c, NoClient}

\* UPDATE ... SET is_active = false of all others. Waiting for the locks one
\* after the other ends as waiting for all of them does.
ClearOthers(c) ==
  /\ asking[c].pc = "clear" /\ Takes(c, Others(asking[c].layout))
  /\ lockedBy' = [l \in LayoutRows |-> IF l \in Others(asking[c].layout) THEN c ELSE lockedBy[l]]
  /\ Becomes(c, [asking[c] EXCEPT !.pc = "write"])
  /\ UNCHANGED <<layouts, unseen>>

\* The ORM writes the columns that differ from what it read.
Asked(r) == IF r.on = "keep" THEN r.read.active ELSE r.on = "yes"
ColumnsOf(r, row) ==
  [row EXCEPT !.active = IF Asked(r) # r.read.active THEN Asked(r) ELSE @,
              !.name = IF r.name # r.read.name THEN r.name ELSE @]
Altered(r) == Asked(r) # r.read.active \/ r.name # r.read.name

Released(c) == [l \in LayoutRows |-> IF lockedBy[l] = c THEN NoClient ELSE lockedBy[l]]
Cleared(c) ==
  [l \in LayoutRows |-> IF lockedBy[l] = c THEN [layouts[l] EXCEPT !.active = FALSE] ELSE layouts[l]]

\* COMMIT, with the write of its own row. A row that is gone by then fails it.
CommitUpdate(c) ==
  LET r == asking[c] IN
  /\ r.pc = "write"
  /\ Altered(r) => Takes(c, {r.layout}) /\ Exists(r.layout)
  /\ layouts' = IF Altered(r) THEN [Cleared(c) EXCEPT ![r.layout] = ColumnsOf(r, @)] ELSE Cleared(c)
  /\ lockedBy' = Released(c) /\ Becomes(c, Idle) /\ UNCHANGED unseen

\* delete_layout refuses the active one, by what it read.
ReadForDelete(c, l) ==
  /\ asking[c] = Idle /\ Exists(l) /\ ~ layouts[l].active
  /\ Becomes(c, [pc |-> "delete", layout |-> l])
  /\ UNCHANGED <<layouts, lockedBy, unseen>>

CommitDelete(c) ==
  /\ asking[c].pc = "delete" /\ Takes(c, {asking[c].layout})
  /\ layouts' = [layouts EXCEPT ![asking[c].layout] = NoLayout]
  /\ Becomes(c, Idle) /\ UNCHANGED <<lockedBy, unseen>>

\* quick_config_update: one active layout is needed, and nothing is stored.
QuickConfig(c) ==
  /\ asking[c] = Idle /\ Cardinality({l \in LayoutRows : IsShown(l)}) = 1
  /\ Becomes(c, [pc |-> "quick"]) /\ UNCHANGED <<layouts, lockedBy, unseen>>

\* A request ends without effect: a row that is gone, a lost connection, or
\* the database chose it to end a deadlock.
AbortRequest(c) ==
  /\ asking[c] # Idle /\ Becomes(c, Idle)
  /\ lockedBy' = Released(c) /\ UNCHANGED <<layouts, unseen>>

LayoutsNext ==
  \E c \in LayoutClients :
    \/ \E name \in Names : CheckName(c, name)
    \/ \E l \in LayoutRows :
         \/ InsertLayout(c, l) \/ ReadForDelete(c, l)
         \/ \E on \in {"yes", "no", "keep"}, name \in Names : ReadLayout(c, l, on, name)
    \/ ClearOthers(c) \/ CommitUpdate(c) \/ CommitDelete(c) \/ QuickConfig(c) \/ AbortRequest(c)

LayoutsSpec == LayoutsInit /\ [][LayoutsNext]_layoutVars

(***************************************************************************)
(* However activations, edits and deletions overlap, at most one layout is *)
(* active: with two, every page of the dashboard and every quick change    *)
(* would fail from then on, since they ask for one row or none. Only one   *)
(* that was inserted after an activation wrote the others, and before its  *)
(* COMMIT, can be a second one.                                            *)
(***************************************************************************)
OneLayout == Cardinality({l \in LayoutRows \ unseen : IsShown(l)}) <= 1

\* What create_layout is there for and what does not hold: two requests may
\* check a name before either inserts, and a renaming checks nothing.
NamesAreUnique ==
  \A l, m \in LayoutRows : l # m /\ Exists(l) /\ Exists(m) => layouts[l].name # layouts[m].name
=============================================================================
