------------------------------ MODULE Inventory ------------------------------
(***************************************************************************)
(* The inventory of servers, service groups, the links between them and    *)
(* the dependencies between services. No foreign key ties a link to its    *)
(* server or group, and no index keeps a dependency single: the requests   *)
(* look before they write, and delete what belongs to what they delete.    *)
(*                                                                         *)
(* Ids are never used twice. A dependency stands for its two services.     *)
(***************************************************************************)
EXTENDS Naturals, FiniteSets

CONSTANTS
  Servers, ServiceGroups, Dependencies,
  InventoryClients    \* users with a request at a time

ASSUME InventoryAssumption == Dependencies \cap (Servers \X ServiceGroups) = {}

VARIABLES
  servers, groups,    \* rows of servers and service_groups
  used,               \* ids of servers and groups given so far
  links,              \* server_services: pairs of a server and a group
  rows,               \* service_dependencies: rows of each dependency
  asked,              \* the request of each client
  crossing,           \* what others have deleted or inserted during each request
  mixed               \* links and dependencies whose request crossed another about them

inventoryVars == <<servers, groups, used, links, rows, asked, crossing, mixed>>

NotAsked == [pc |-> "none"]

InventoryInit ==
  /\ servers = {} /\ groups = {} /\ used = {} /\ links = {}
  /\ rows = [d \in Dependencies |-> 0]
  /\ asked = [c \in InventoryClients |-> NotAsked]
  /\ crossing = [c \in InventoryClients |-> {}]
  /\ mixed = {}

\* The request of c is over; the others were under way when it changed these.
Answered(c, changed) ==
  /\ asked' = [asked EXCEPT ![c] = NotAsked]
  /\ crossing' = [d \in InventoryClients |->
       IF d = c \/ asked[d] = NotAsked THEN {} ELSE crossing[d] \cup changed]

-----------------------------------------------------------------------------
(* Servers, groups and links.                                              *)

\* POST /servers and /server-groups: unique indexes guard the names.
CreateServer(s) ==
  /\ s \notin used /\ used' = used \cup {s} /\ servers' = servers \cup {s}
  /\ UNCHANGED <<groups, links, rows, asked, crossing, mixed>>

CreateGroup(g) ==
  /\ g \notin used /\ used' = used \cup {g} /\ groups' = groups \cup {g}
  /\ UNCHANGED <<servers, links, rows, asked, crossing, mixed>>

\* POST /server-groups/{id}/servers reads both ...
LinkReads(c, s, g) ==
  /\ asked[c] = NotAsked /\ s \in servers /\ g \in groups
  /\ asked' = [asked EXCEPT ![c] = [pc |-> "link", link |-> <<s, g>>]]
  /\ UNCHANGED <<servers, groups, used, links, rows, crossing, mixed>>

\* ... and inserts. A link whose server or group is being deleted stays behind.
LinkCommits(c) ==
  LET link == asked[c].link IN
    /\ asked[c].pc = "link"
    /\ links' = links \cup {link}
    /\ mixed' = IF \/ crossing[c] \cap {link[1], link[2]} # {}
                   \/ \E d \in InventoryClients :
                        asked[d].pc = "delete" /\ asked[d].row \in {link[1], link[2]}
                  THEN mixed \cup {link} ELSE mixed
    /\ Answered(c, {})
    /\ UNCHANGED <<servers, groups, used, rows>>

\* DELETE /server-groups/{id}/servers/{id}.
Unlink(link) ==
  /\ link \in links /\ links' = links \ {link} /\ mixed' = mixed \ {link}
  /\ UNCHANGED <<servers, groups, used, rows, asked, crossing>>

\* Mutant: a server's links are forgotten.
LinksOfGroups(row) == {link \in links : link[2] = row}

LinksOf(row) == {link \in links : row \in {link[1], link[2]}}

\* DELETE /servers/{id}, /topology/servers/{id} and /server-groups/{id} delete
\* the links of the moment, and then the row.
DeleteReadsLinks(c, row) ==
  /\ asked[c] = NotAsked /\ row \in servers \cup groups
  /\ asked' = [asked EXCEPT ![c] = [pc |-> "delete", row |-> row, links |-> LinksOf(row)]]
  /\ UNCHANGED <<servers, groups, used, links, rows, crossing, mixed>>

DeleteRowCommits(c) ==
  LET a == asked[c] IN
    /\ a.pc = "delete"
    /\ servers' = servers \ {a.row} /\ groups' = groups \ {a.row}
    /\ links' = links \ a.links
    /\ Answered(c, {a.row})
    /\ UNCHANGED <<used, rows, mixed>>

-----------------------------------------------------------------------------
(* Dependencies.                                                           *)

\* POST /topology/dependencies finds no such row, and fails otherwise.
\* POST /topology/ai-suggest/apply keeps what has no row; more than one row of
\* a suggestion ends the whole request (scalar_one_or_none).
DependReads(c, suggested) ==
  /\ asked[c] = NotAsked
  /\ \A d \in suggested : rows[d] <= 1
  /\ asked' = [asked EXCEPT ![c] = [pc |-> "depend", new |-> {d \in suggested : rows[d] = 0}]]
  /\ UNCHANGED <<servers, groups, used, links, rows, crossing, mixed>>

DependCommits(c) ==
  LET new == asked[c].new IN
    /\ asked[c].pc = "depend"
    /\ rows' = [d \in Dependencies |-> IF d \in new THEN rows[d] + 1 ELSE rows[d]]
    /\ mixed' = mixed \cup {d \in new \cap crossing[c] : rows[d] > 0}
    /\ Answered(c, new)
    /\ UNCHANGED <<servers, groups, used, links>>

\* DELETE /topology/dependencies/{id}, and of all of them.
DeleteDependency(d) ==
  /\ rows[d] > 0 /\ rows' = [rows EXCEPT ![d] = @ - 1]
  /\ mixed' = IF rows[d] = 2 THEN mixed \ {d} ELSE mixed
  /\ UNCHANGED <<servers, groups, used, links, asked, crossing>>

ClearDependencies ==
  /\ rows' = [d \in Dependencies |-> 0] /\ mixed' = mixed \ Dependencies
  /\ UNCHANGED <<servers, groups, used, links, asked, crossing>>

InventoryNext ==
  \/ ClearDependencies
  \/ \E s \in Servers : CreateServer(s)
  \/ \E g \in ServiceGroups : CreateGroup(g)
  \/ \E d \in Dependencies : DeleteDependency(d)
  \/ \E link \in links : Unlink(link)
  \/ \E c \in InventoryClients :
       \/ LinkCommits(c) \/ DeleteRowCommits(c) \/ DependCommits(c)
       \/ \E s \in Servers, g \in ServiceGroups : LinkReads(c, s, g)
       \/ \E row \in servers \cup groups : DeleteReadsLinks(c, row)
       \/ \E suggested \in (SUBSET Dependencies) \ {{}} : DependReads(c, suggested)

InventorySpec == InventoryInit /\ [][InventoryNext]_inventoryVars

-----------------------------------------------------------------------------
\* Every link has its server and its group, and every dependency one row,
\* unless two requests about it crossed (delete_server, delete_service_group,
\* create_dependency, apply_ai_suggestions).
BackedAndSingle ==
  /\ \A link \in links \ mixed : link[1] \in servers /\ link[2] \in groups
  /\ \A d \in Dependencies \ mixed : rows[d] <= 1
=============================================================================
