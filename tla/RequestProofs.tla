---------------------------- MODULE RequestProofs ----------------------------
(***************************************************************************)
(* Theorems about the components whose requests overlap, each of which     *)
(* reads first, checks what it has read and writes later: sessions,        *)
(* dashboard layouts, on-call schedules and AI configurations.  They hold  *)
(* for any number of requests and of rows.                                 *)
(***************************************************************************)
EXTENDS Sessions, Layouts, OnCall, AiConfigs, FiniteSetTheorems, TLAPS

-----------------------------------------------------------------------------
(* Sessions.  A session that has ended can only come back by a refresh     *)
(* that had passed its check (Late).  For that the active session of an    *)
(* account is one whose tokens are the account's, or nobody's (Belongs).   *)

SessionsType ==
    /\ current \in [Accounts -> Sids \cup {NoSid}]
    /\ owner \in [Sids -> SUBSET Accounts]
    /\ refresh \in [Sids -> {"none", "found", "valid"}]
    /\ issued \subseteq Sids

Belongs ==
    /\ \A s \in Sids : owner[s] # {} => s \in issued
    /\ \A a \in Accounts : current[a] # NoSid =>
         current[a] \in issued /\ owner[current[a]] \in {{}, {a}}
    /\ ended \subseteq issued

Late ==
    \A s \in ended :
        (refresh[s] = "valid" \/ \E a \in Accounts : owner[s] = {a} /\ current[a] = s)
            => s \in overlapped

SessionsInv == SessionsType /\ Belongs /\ Late

\* The active session of account a becomes s, or none; what ends is recorded.
LEMMA Superseded ==
    ASSUME SessionsInv, NEW a \in Accounts, NEW s \in Sids \cup {NoSid},
           s # NoSid => /\ s \in issued' /\ owner'[s] \in {{}, {a}}
                        /\ s \in ended => s \in overlapped,
           current' = [current EXCEPT ![a] = s],
           NEW over, Ending(a, s) \subseteq over,
           \A t \in over : t \in issued /\ t # s /\ owner[t] \in {{}, {a}},
           ended' = ended \cup over,
           overlapped' = overlapped \cup {t \in over : refresh[t] = "valid"},
           issued \subseteq issued', issued' \subseteq Sids,
           owner' \in [Sids -> SUBSET Accounts], \A t \in issued : owner'[t] = owner[t],
           \A t \in Sids : owner'[t] # {} => t \in issued',
           refresh' \in [Sids -> {"none", "found", "valid"}],
           \A t \in Sids : refresh'[t] = "valid" => refresh[t] = "valid"
    PROVE  SessionsInv'
<1>1. SessionsType'
  BY DEF SessionsInv, SessionsType
<1>2. \A b \in Accounts : b # a => current'[b] = current[b]
  BY DEF SessionsInv, SessionsType
<1>3. current'[a] = s
  BY DEF SessionsInv, SessionsType
<1>4. Belongs'
  BY <1>2, <1>3 DEF SessionsInv, SessionsType, Belongs
<1>5. ASSUME NEW t \in ended', refresh'[t] = "valid" PROVE t \in overlapped'
  BY <1>5 DEF SessionsInv, SessionsType, Belongs, Late
<1>6. ASSUME NEW t \in ended', NEW b \in Accounts, owner'[t] = {b}, current'[b] = t
      PROVE  t \in overlapped'
  <2>1. t \in issued /\ owner[t] = {b}
    BY <1>6 DEF SessionsInv, Belongs
  <2>2. CASE b = a
    BY <1>3, <1>6, <2>1, <2>2, SessionsAssumption DEF SessionsInv, SessionsType
  <2>3. CASE b # a
    <3>1. current[b] = t /\ t \notin over
      BY <1>2, <1>6, <2>1, <2>3
    <3> QED
      BY <1>6, <2>1, <3>1 DEF SessionsInv, Late
  <2> QED
    BY <2>2, <2>3
<1> QED
  BY <1>1, <1>4, <1>5, <1>6 DEF SessionsInv, Late

LEMMA SessionsNextInv == SessionsInv /\ [SessionsNext]_sessionVars => SessionsInv'
<1> SUFFICES ASSUME SessionsInv, [SessionsNext]_sessionVars PROVE SessionsInv'
  OBVIOUS
<1>1. CASE UNCHANGED <<sidVars, refresh>>
  BY <1>1 DEF SessionsInv, SessionsType, Belongs, Late, sidVars
<1>2. ASSUME NEW a \in Accounts, NEW s \in Sids, LoginActivates(a, s) PROVE SessionsInv'
  <2>1. /\ s \notin issued /\ issued' = issued \cup {s} /\ refresh' = refresh
        /\ owner' = IF login[a] = "local" THEN [owner EXCEPT ![s] = {a}] ELSE owner
        /\ current' = [current EXCEPT ![a] = s]
        /\ ended' = ended \cup Ending(a, s)
        /\ overlapped' = overlapped \cup {t \in Ending(a, s) : refresh[t] = "valid"}
    BY <1>2 DEF LoginActivates, SetActive
  <2>2. owner[s] = {} /\ s \notin ended
    BY <2>1 DEF SessionsInv, SessionsType, Belongs
  <2>3. \A t \in Ending(a, s) : t \in issued /\ t # s /\ owner[t] \in {{}, {a}}
    BY DEF Ending, SessionsInv, Belongs
  <2>4. owner' \in [Sids -> SUBSET Accounts] /\ (\A t \in issued : owner'[t] = owner[t])
        /\ owner'[s] \in {{}, {a}}
    BY <2>1, <2>2 DEF SessionsInv, SessionsType
  <2>5. \A t \in Sids : owner'[t] # {} => t \in issued'
    BY <2>1 DEF SessionsInv, SessionsType, Belongs
  <2>6. issued' \subseteq Sids /\ refresh' \in [Sids -> {"none", "found", "valid"}]
    BY <2>1 DEF SessionsInv, SessionsType
  <2> QED
    BY <2>1, <2>2, <2>3, <2>4, <2>5, <2>6, Superseded
<1>3. ASSUME NEW a \in Accounts, NEW s \in Sids, RefreshActivates(a, s) PROVE SessionsInv'
  <2>1. /\ refresh[s] = "valid" /\ owner[s] = {a} /\ UNCHANGED <<owner, issued>>
        /\ refresh' = [refresh EXCEPT ![s] = "none"]
        /\ current' = [current EXCEPT ![a] = s]
        /\ ended' = ended \cup Ending(a, s)
        /\ overlapped' = overlapped \cup {t \in Ending(a, s) : refresh[t] = "valid"}
    BY <1>3 DEF RefreshActivates, SetActive
  <2>2. s \in issued /\ (s \in ended => s \in overlapped)
    BY <2>1 DEF SessionsInv, Belongs, Late
  <2>3. \A t \in Ending(a, s) : t \in issued /\ t # s /\ owner[t] \in {{}, {a}}
    BY DEF Ending, SessionsInv, Belongs
  <2>4. refresh' \in [Sids -> {"none", "found", "valid"}]
        /\ \A t \in Sids : refresh'[t] = "valid" => refresh[t] = "valid"
    BY <2>1 DEF SessionsInv, SessionsType
  <2>5. /\ issued \subseteq issued' /\ issued' \subseteq Sids
        /\ owner' \in [Sids -> SUBSET Accounts] /\ \A t \in issued : owner'[t] = owner[t]
        /\ \A t \in Sids : owner'[t] # {} => t \in issued'
    BY <2>1 DEF SessionsInv, SessionsType, Belongs
  <2>6. s \in issued' /\ owner'[s] \in {{}, {a}} /\ (s \in ended => s \in overlapped)
    BY <2>1, <2>2
  <2> DEFINE over == Ending(a, s)
  <2>7. /\ Ending(a, s) \subseteq over /\ \A t \in over : t \in issued /\ t # s /\ owner[t] \in {{}, {a}}
        /\ ended' = ended \cup over
        /\ overlapped' = overlapped \cup {t \in over : refresh[t] = "valid"}
    BY <2>1, <2>3
  <2>8. current' = [current EXCEPT ![a] = s] /\ s \in Sids \cup {NoSid}
    BY <2>1
  <2> HIDE DEF over
  <2> QED
    BY <2>4, <2>5, <2>6, <2>7, <2>8, Superseded
<1>4. ASSUME NEW a \in Accounts, NEW s \in Sids, LogoutClears(a, s) PROVE SessionsInv'
  <2> DEFINE over == {s} \cup Ending(a, NoSid)
  <2>1. /\ owner[s] = {a} /\ UNCHANGED <<owner, issued, refresh>>
        /\ current' = [current EXCEPT ![a] = NoSid]
        /\ ended' = ended \cup over
        /\ overlapped' = overlapped \cup {t \in over : refresh[t] = "valid"}
    BY <1>4 DEF LogoutClears
  <2>2. \A t \in over : t \in issued /\ t # NoSid /\ owner[t] \in {{}, {a}}
    BY <2>1, SessionsAssumption DEF Ending, SessionsInv, Belongs
  <2>3. Ending(a, NoSid) \subseteq over
    OBVIOUS
  <2> HIDE DEF over
  <2>4. /\ issued \subseteq issued' /\ issued' \subseteq Sids
        /\ owner' \in [Sids -> SUBSET Accounts] /\ \A t \in issued : owner'[t] = owner[t]
        /\ \A t \in Sids : owner'[t] # {} => t \in issued'
        /\ refresh' \in [Sids -> {"none", "found", "valid"}]
        /\ \A t \in Sids : refresh'[t] = "valid" => refresh[t] = "valid"
    BY <2>1 DEF SessionsInv, SessionsType, Belongs
  <2>5. /\ ended' = ended \cup over /\ current' = [current EXCEPT ![a] = NoSid]
        /\ overlapped' = overlapped \cup {t \in over : refresh[t] = "valid"}
    BY <2>1
  <2> DEFINE none == NoSid
  <2>6. none \in Sids \cup {NoSid} /\ current' = [current EXCEPT ![a] = none]
        /\ (none # NoSid => none \in issued' /\ owner'[none] \in {{}, {a}}
                            /\ (none \in ended => none \in overlapped))
        /\ Ending(a, none) \subseteq over /\ \A t \in over : t \in issued /\ t # none /\ owner[t] \in {{}, {a}}
    BY <2>2, <2>3, <2>5
  <2> HIDE DEF none
  <2> QED
    BY <2>4, <2>5, <2>6, Superseded
<1>5. ASSUME NEW a \in Accounts, NEW s \in Sids, RefreshFinds(a, s) PROVE SessionsInv'
  <2>1. refresh' = [refresh EXCEPT ![s] = "found"] /\ UNCHANGED sidVars
    BY <1>5 DEF RefreshFinds
  <2> QED
    BY <2>1 DEF SessionsInv, SessionsType, Belongs, Late, sidVars
<1>6. ASSUME NEW a \in Accounts, NEW s \in Sids, RefreshValidates(a, s) PROVE SessionsInv'
  <2>1. /\ refresh' = [refresh EXCEPT ![s] = IF current[a] = s THEN "valid" ELSE "none"]
        /\ owner[s] = {a} /\ UNCHANGED sidVars
    BY <1>6 DEF RefreshValidates, RefreshAllowed, IsActive
  <2>2. SessionsType' /\ Belongs'
    BY <2>1 DEF SessionsInv, SessionsType, Belongs, sidVars
  <2>3. s \in ended /\ refresh'[s] = "valid" => s \in overlapped
    BY <2>1 DEF SessionsInv, SessionsType, Late
  <2>4. \A t \in Sids : t # s => refresh'[t] = refresh[t]
    BY <2>1 DEF SessionsInv, SessionsType
  <2>5. ended \subseteq Sids
    BY DEF SessionsInv, SessionsType, Belongs
  <2> QED
    BY <2>1, <2>2, <2>3, <2>4, <2>5 DEF SessionsInv, Late, sidVars
<1>7. ASSUME NEW a \in Accounts, DeleteUser(a) PROVE SessionsInv'
  <2>1. current' = [current EXCEPT ![a] = NoSid]
        /\ UNCHANGED <<owner, issued, refresh, ended, overlapped>>
    BY <1>7 DEF DeleteUser, callVars
  <2>2. SessionsType' /\ Belongs'
    BY <2>1 DEF SessionsInv, SessionsType, Belongs
  <2>3. \A b \in Accounts, s \in Sids : current'[b] = s => current[b] = s
    BY <2>1, SessionsAssumption DEF SessionsInv, SessionsType
  <2>4. ended \subseteq Sids
    BY DEF SessionsInv, SessionsType, Belongs
  <2> QED
    BY <2>1, <2>2, <2>3, <2>4 DEF SessionsInv, Late
<1>8. ASSUME NEW a \in Accounts,
             \/ LoginChecks(a) \/ ExternalFinds(a) \/ ExternalCreates(a)
             \/ \E s \in Sids : LogoutChecks(a, s)
             \/ \E r \in Roles : CreateUser(a, r) \/ \E off \in BOOLEAN : UpdateUser(a, r, off)
      PROVE  SessionsInv'
  BY <1>1, <1>8 DEF LoginChecks, ExternalFinds, ExternalCreates, LogoutChecks,
                    CreateUser, UpdateUser, callVars
<1>9. UNCHANGED sessionVars => UNCHANGED <<sidVars, refresh>>
  BY DEF sessionVars, callVars
<1> QED
  BY <1>1, <1>2, <1>3, <1>4, <1>5, <1>6, <1>7, <1>8, <1>9 DEF SessionsNext

\* A session that was logged out or superseded is never accepted again unless
\* a refresh of it had passed its check, however logins, refreshes, logouts and
\* the administration of accounts overlap.
THEOREM EndedSessionsStayEnded == SessionsSpec => []EndedStaysEnded
<1>1. SessionsInit => SessionsInv
  BY DEF SessionsInit, SessionsInv, SessionsType, Belongs, Late
<1>2. SessionsInv => EndedStaysEnded
  BY DEF SessionsInv, Late, EndedStaysEnded, Accepted, IsActive
<1> QED
  BY <1>1, <1>2, SessionsNextInv, PTL DEF SessionsSpec

-----------------------------------------------------------------------------
(* Layouts.  The rows an activation has written stay locked until it is    *)
(* over (Held), and they are all those it could see (Written): its COMMIT  *)
(* leaves no other one of them active.                                     *)

LayoutRow == [there : {TRUE}, active : BOOLEAN, name : Names]
Asks ==
    [pc : {"create"}, name : Names] \cup [pc : {"delete"}, layout : LayoutRows]
      \cup [pc : {"clear"}, layout : LayoutRows, read : LayoutRow, on : {"yes"}, name : Names]
      \cup [pc : {"write"}, layout : LayoutRows, read : LayoutRow, on : {"yes", "no", "keep"},
            name : Names]
      \cup {Idle, [pc |-> "quick"]}

LayoutsType ==
    /\ layouts \in [LayoutRows -> LayoutRow \cup {NoLayout}]
    /\ lockedBy \in [LayoutRows -> LayoutClients \cup {NoClient}]
    /\ asking \in [LayoutClients -> Asks]
    /\ unseen \subseteq LayoutRows

Activates(c) == asking[c].pc = "write" /\ asking[c].on = "yes"

Held ==
    \A l \in LayoutRows, c \in LayoutClients :
        lockedBy[l] = c => Activates(c) /\ Exists(l) /\ l # asking[c].layout

Written ==
    \A c \in LayoutClients : Activates(c) =>
        \A l \in LayoutRows \ unseen : Exists(l) /\ l # asking[c].layout => lockedBy[l] = c

Single == \A l, m \in LayoutRows \ unseen : IsShown(l) /\ IsShown(m) => l = m

LayoutsInv == LayoutsType /\ Held /\ Written /\ Single

\* A step that changes only the request of c, which is no activation that
\* has written before or after it.
LEMMA OnlyAsks ==
    ASSUME LayoutsInv, NEW c \in LayoutClients, NEW r \in Asks,
           ~ Activates(c), r.pc # "write" \/ r.on # "yes",
           asking' = [asking EXCEPT ![c] = r], UNCHANGED <<layouts, lockedBy, unseen>>
    PROVE  LayoutsInv'
<1>1. LayoutsType' /\ asking'[c] = r
  BY DEF LayoutsInv, LayoutsType
<1>2. \A d \in LayoutClients : d # c => asking'[d] = asking[d]
  BY DEF LayoutsInv, LayoutsType
<1>3. Held'
  BY <1>1, <1>2 DEF LayoutsInv, Held, Activates, Exists
<1>4. Written'
  BY <1>1, <1>2 DEF LayoutsInv, Written, Activates, Exists
<1> QED
  BY <1>1, <1>3, <1>4 DEF LayoutsInv, Single, IsShown

\* A request ends, and its locks go; what it leaves behind is in `new`.
LEMMA RequestEnds ==
    ASSUME LayoutsInv, NEW c \in LayoutClients,
           asking' = [asking EXCEPT ![c] = Idle], lockedBy' = Released(c), unseen' = unseen,
           layouts' \in [LayoutRows -> LayoutRow \cup {NoLayout}],
           \A l \in LayoutRows : layouts'[l].there => layouts[l].there,
           \A l \in LayoutRows : lockedBy[l] \notin {c, NoClient} => layouts'[l] = layouts[l],
           Single'
    PROVE  LayoutsInv'
<1>1. asking'[c] = Idle /\ \A d \in LayoutClients : d # c => asking'[d] = asking[d]
  BY DEF LayoutsInv, LayoutsType, Asks
<1>2. /\ lockedBy' \in [LayoutRows -> LayoutClients \cup {NoClient}]
      /\ \A l \in LayoutRows, d \in LayoutClients : lockedBy'[l] = d <=> lockedBy[l] = d /\ d # c
  BY LayoutsAssumption DEF LayoutsInv, LayoutsType, Released
<1>3. ~ Activates(c)'
  BY <1>1 DEF Activates, Idle
<1>4. LayoutsType'
  BY <1>1, <1>2 DEF LayoutsInv, LayoutsType, Asks
<1>5. Held'
  <2> SUFFICES ASSUME NEW l \in LayoutRows, NEW d \in LayoutClients, lockedBy'[l] = d
               PROVE  Activates(d)' /\ Exists(l)' /\ l # asking'[d].layout
    BY DEF Held
  <2>1. d # c /\ lockedBy[l] = d
    BY <1>2
  <2>2. layouts'[l] = layouts[l]
    BY <2>1, LayoutsAssumption
  <2> QED
    BY <1>1, <2>1, <2>2 DEF LayoutsInv, Held, Activates, Exists
<1>6. Written'
  <2> SUFFICES ASSUME NEW d \in LayoutClients, Activates(d)',
                      NEW l \in LayoutRows \ unseen, Exists(l)', l # asking'[d].layout
               PROVE  lockedBy'[l] = d
    BY DEF Written
  <2>1. d # c /\ asking'[d] = asking[d]
    BY <1>1, <1>3
  <2>2. Exists(l)
    BY DEF Exists
  <2> QED
    BY <1>2, <2>1, <2>2 DEF LayoutsInv, Written, Activates
<1> QED
  BY <1>4, <1>5, <1>6 DEF LayoutsInv

LEMMA LayoutsNextInv == LayoutsInv /\ [LayoutsNext]_layoutVars => LayoutsInv'
<1> SUFFICES ASSUME LayoutsInv, [LayoutsNext]_layoutVars PROVE LayoutsInv'
  OBVIOUS
<1>1. CASE UNCHANGED layoutVars
  BY <1>1 DEF LayoutsInv, LayoutsType, Held, Written, Single, Activates, Exists, IsShown, layoutVars
<1>2. ASSUME NEW c \in LayoutClients, NEW name \in Names, CheckName(c, name) PROVE LayoutsInv'
  <2> DEFINE r == [pc |-> "create", name |-> name]
  <2>1. /\ asking[c] = Idle /\ asking' = [asking EXCEPT ![c] = r]
        /\ UNCHANGED <<layouts, lockedBy, unseen>>
    BY <1>2 DEF CheckName, Becomes
  <2>2. r \in Asks /\ r.pc # "write"
    BY DEF Asks
  <2>3. ~ Activates(c)
    BY <2>1 DEF Activates, Idle
  <2> HIDE DEF r
  <2> QED
    BY <2>1, <2>2, <2>3, OnlyAsks
<1>3. ASSUME NEW c \in LayoutClients, NEW l \in LayoutRows, InsertLayout(c, l) PROVE LayoutsInv'
  <2>1. /\ asking[c].pc = "create" /\ ~ Exists(l) /\ UNCHANGED lockedBy
        /\ layouts' = [layouts EXCEPT ![l] =
                         [there |-> TRUE, active |-> FALSE, name |-> asking[c].name]]
        /\ unseen' = IF Activating THEN unseen \cup {l} ELSE unseen \ {l}
        /\ asking' = [asking EXCEPT ![c] = Idle]
    BY <1>3 DEF InsertLayout, Becomes
  <2>2. asking[c].name \in Names
    BY <2>1 DEF LayoutsInv, LayoutsType, Asks, Idle
  <2>3. asking'[c] = Idle /\ \A d \in LayoutClients : d # c => asking'[d] = asking[d]
    BY <2>1 DEF LayoutsInv, LayoutsType
  <2>4. LayoutsType'
    <3>1. layouts' \in [LayoutRows -> LayoutRow \cup {NoLayout}]
      BY <2>1, <2>2 DEF LayoutsInv, LayoutsType, LayoutRow
    <3>2. asking' \in [LayoutClients -> Asks]
      BY <2>1 DEF LayoutsInv, LayoutsType, Asks
    <3> QED
      BY <2>1, <3>1, <3>2 DEF LayoutsInv, LayoutsType
  <2>5. layouts'[l].active = FALSE /\ layouts'[l].there
        /\ \A m \in LayoutRows : m # l => layouts'[m] = layouts[m]
    BY <2>1 DEF LayoutsInv, LayoutsType
  <2>6. \A d \in LayoutClients : Activates(d)' <=> Activates(d)
    BY <2>1, <2>3 DEF Activates, Idle
  <2>7. Held'
    <3> SUFFICES ASSUME NEW m \in LayoutRows, NEW d \in LayoutClients, lockedBy[m] = d
                 PROVE  Activates(d)' /\ Exists(m)' /\ m # asking'[d].layout
      BY <2>1 DEF Held
    <3>1. Activates(d) /\ Exists(m) /\ m # asking[d].layout
      BY DEF LayoutsInv, Held
    <3>2. m # l /\ d # c
      BY <2>1, <3>1 DEF Activates
    <3> QED
      BY <2>3, <2>5, <2>6, <3>1, <3>2 DEF Exists
  <2>8. Written'
    <3> SUFFICES ASSUME NEW d \in LayoutClients, Activates(d)',
                        NEW m \in LayoutRows, m \notin unseen', Exists(m)', m # asking'[d].layout
                 PROVE  lockedBy[m] = d
      BY <2>1 DEF Written
    <3>1. Activates(d) /\ Activating /\ d # c
      BY <2>1, <2>6 DEF Activating, Activates
    <3>2. m # l /\ m \notin unseen
      BY <2>1, <3>1
    <3> QED
      BY <2>3, <2>5, <3>1, <3>2 DEF LayoutsInv, Written, Exists
  <2>9. Single'
    <3>1. \A m \in LayoutRows : m \notin unseen' /\ IsShown(m)' => m \notin unseen /\ IsShown(m)
      BY <2>1, <2>5 DEF IsShown
    <3> QED
      BY <3>1 DEF LayoutsInv, Single
  <2> QED
    BY <2>4, <2>7, <2>8, <2>9 DEF LayoutsInv
<1>4. ASSUME NEW c \in LayoutClients, NEW l \in LayoutRows, NEW on \in {"yes", "no", "keep"},
             NEW name \in Names, ReadLayout(c, l, on, name)
      PROVE  LayoutsInv'
  <2> DEFINE r == [pc |-> IF on = "yes" THEN "clear" ELSE "write", layout |-> l,
                   read |-> layouts[l], on |-> on, name |-> name]
  <2>1. /\ asking[c] = Idle /\ Exists(l) /\ asking' = [asking EXCEPT ![c] = r]
        /\ UNCHANGED <<layouts, lockedBy, unseen>>
    BY <1>4 DEF ReadLayout, Becomes
  <2>2. layouts[l] \in LayoutRow
    BY <2>1 DEF LayoutsInv, LayoutsType, Exists, NoLayout
  <2>3. r \in Asks /\ (r.pc # "write" \/ r.on # "yes")
    BY <2>2 DEF Asks
  <2>4. ~ Activates(c)
    BY <2>1 DEF Activates, Idle
  <2> HIDE DEF r
  <2> QED
    BY <2>1, <2>3, <2>4, OnlyAsks
<1>5. ASSUME NEW c \in LayoutClients, ClearOthers(c) PROVE LayoutsInv'
  <2> DEFINE own == asking[c].layout
             r == [asking[c] EXCEPT !.pc = "write"]
  <2>1. /\ asking[c].pc = "clear" /\ Takes(c, Others(own)) /\ UNCHANGED <<layouts, unseen>>
        /\ lockedBy' = [l \in LayoutRows |-> IF l \in Others(own) THEN c ELSE lockedBy[l]]
        /\ asking' = [asking EXCEPT ![c] = r]
    BY <1>5 DEF ClearOthers, Becomes
  <2>2. r \in Asks /\ r.pc = "write" /\ r.layout = own /\ own \in LayoutRows
    BY <2>1 DEF LayoutsInv, LayoutsType, Asks, Idle
  <2>3. asking'[c] = r /\ \A d \in LayoutClients : d # c => asking'[d] = asking[d]
    BY <2>1 DEF LayoutsInv, LayoutsType
  <2>4. LayoutsType'
    BY <2>1, <2>2 DEF LayoutsInv, LayoutsType
  <2>5. \A l \in LayoutRows : lockedBy[l] # c
    BY <2>1 DEF LayoutsInv, Held, Activates
  <2>6. \A l \in LayoutRows : l \in Others(own) => lockedBy[l] = NoClient /\ lockedBy'[l] = c
    BY <2>1, <2>5 DEF Takes, Others
  <2>7. \A l \in LayoutRows : l \notin Others(own) => lockedBy'[l] = lockedBy[l]
    BY <2>1 DEF LayoutsInv, LayoutsType
  <2>8. Held'
    <3> SUFFICES ASSUME NEW l \in LayoutRows, NEW d \in LayoutClients, lockedBy'[l] = d
                 PROVE  Activates(d)' /\ Exists(l)' /\ l # asking'[d].layout
      BY DEF Held
    <3>1. CASE l \in Others(own)
      <4>1. d = c /\ l # own /\ Exists(l)
        BY <2>6, <3>1 DEF Others
      <4>2. r.on = "yes"
        BY <2>1 DEF LayoutsInv, LayoutsType, Asks, Idle
      <4>3. Activates(c)' /\ asking'[c].layout = own
        BY <2>2, <2>3, <4>2 DEF Activates
      <4> QED
        BY <2>1, <4>1, <4>3 DEF Exists
    <3>2. CASE l \notin Others(own)
      <4>1. lockedBy[l] = d
        BY <2>7, <3>2
      <4>2. d # c
        BY <2>5, <4>1
      <4> QED
        BY <2>1, <2>3, <4>1, <4>2 DEF LayoutsInv, Held, Activates, Exists
    <3> QED
      BY <3>1, <3>2
  <2>9. Written'
    <3> SUFFICES ASSUME NEW d \in LayoutClients, Activates(d)',
                        NEW l \in LayoutRows \ unseen, Exists(l)', l # asking'[d].layout
                 PROVE  lockedBy'[l] = d
      BY <2>1 DEF Written
    <3>1. CASE d = c
      <4>1. l \in Others(own)
        BY <2>1, <2>2, <2>3, <3>1 DEF Others, Exists
      <4> QED
        BY <2>6, <3>1, <4>1
    <3>2. CASE d # c
      <4>1. lockedBy[l] = d
        BY <2>1, <2>3, <3>2 DEF LayoutsInv, Written, Activates, Exists
      <4>2. l \notin Others(own)
        BY <2>6, <4>1, LayoutsAssumption
      <4> QED
        BY <2>7, <4>1, <4>2
    <3> QED
      BY <3>1, <3>2
  <2>10. Single'
    BY <2>1 DEF LayoutsInv, Single, IsShown
  <2> QED
    BY <2>4, <2>8, <2>9, <2>10 DEF LayoutsInv
<1>6. ASSUME NEW c \in LayoutClients, CommitUpdate(c) PROVE LayoutsInv'
  <2> DEFINE r == asking[c]
             own == r.layout
  <2>1. /\ r.pc = "write" /\ (Altered(r) => Takes(c, {own}) /\ Exists(own))
        /\ layouts' = IF Altered(r) THEN [Cleared(c) EXCEPT ![own] = ColumnsOf(r, @)] ELSE Cleared(c)
        /\ lockedBy' = Released(c) /\ asking' = [asking EXCEPT ![c] = Idle] /\ unseen' = unseen
    BY <1>6 DEF CommitUpdate, Becomes
  <2>2. /\ own \in LayoutRows /\ r.read \in LayoutRow /\ r.on \in {"yes", "no", "keep"}
        /\ r.name \in Names
    BY <2>1 DEF LayoutsInv, LayoutsType, Asks, Idle
  <2>3. /\ Cleared(c) \in [LayoutRows -> LayoutRow \cup {NoLayout}]
        /\ \A l \in LayoutRows : /\ lockedBy[l] = c => Cleared(c)[l] = [layouts[l] EXCEPT !.active = FALSE]
                                 /\ lockedBy[l] # c => Cleared(c)[l] = layouts[l]
    <3>1. \A l \in LayoutRows : lockedBy[l] = c => layouts[l] \in LayoutRow
      BY DEF LayoutsInv, LayoutsType, Held, Exists, NoLayout
    <3>2. \A row \in LayoutRow : [row EXCEPT !.active = FALSE] \in LayoutRow
      BY DEF LayoutRow
    <3> QED
      BY <3>1, <3>2 DEF Cleared, LayoutsInv, LayoutsType
  <2>4. lockedBy[own] # c
    BY <2>2 DEF LayoutsInv, Held
  <2>5. Altered(r) => /\ layouts[own] \in LayoutRow /\ ColumnsOf(r, layouts[own]) \in LayoutRow
                      /\ lockedBy[own] = NoClient
    <3> SUFFICES ASSUME Altered(r)
                 PROVE  /\ layouts[own] \in LayoutRow /\ ColumnsOf(r, layouts[own]) \in LayoutRow
                        /\ lockedBy[own] = NoClient
      OBVIOUS
    <3>1. layouts[own] \in LayoutRow
      BY <2>1, <2>2 DEF LayoutsInv, LayoutsType, Exists, NoLayout
    <3>2. Asked(r) \in BOOLEAN
      BY <2>2 DEF Asked, LayoutRow
    <3>3. ColumnsOf(r, layouts[own]) \in LayoutRow
      BY <2>2, <3>1, <3>2 DEF ColumnsOf, LayoutRow
    <3> QED
      BY <2>1, <2>4, <3>1, <3>3 DEF Takes
  <2>6. \A l \in LayoutRows : l # own \/ ~ Altered(r) => layouts'[l] = Cleared(c)[l]
    BY <2>1, <2>3
  <2>7. Altered(r) => layouts'[own] = ColumnsOf(r, layouts[own])
    BY <2>1, <2>2, <2>3, <2>4
  <2>8. layouts' \in [LayoutRows -> LayoutRow \cup {NoLayout}]
    BY <2>1, <2>3, <2>5, <2>2, <2>4
  <2>9. \A l \in LayoutRows : lockedBy[l] \notin {c, NoClient} => layouts'[l] = layouts[l]
    BY <2>3, <2>5, <2>6
  <2>10. \A l \in LayoutRows : layouts'[l].there => layouts[l].there
    <3> SUFFICES ASSUME NEW l \in LayoutRows, layouts'[l].there PROVE layouts[l].there
      OBVIOUS
    <3>1. CASE lockedBy[l] = c
      BY <3>1 DEF LayoutsInv, Held, Exists
    <3>2. CASE lockedBy[l] # c /\ (l # own \/ ~ Altered(r))
      BY <2>3, <2>6, <3>2
    <3>3. CASE l = own /\ Altered(r)
      BY <2>5, <3>3 DEF LayoutRow
    <3> QED
      BY <3>1, <3>2, <3>3
  <2>11. ASSUME r.on = "yes" PROVE Single'
    <3>1. \A l \in LayoutRows \ unseen : l # own => ~ IsShown(l)'
      <4> SUFFICES ASSUME NEW l \in LayoutRows \ unseen, l # own PROVE ~ IsShown(l)'
        OBVIOUS
      <4>1. CASE lockedBy[l] = c
        <5>1. layouts[l] \in LayoutRow
          BY <4>1 DEF LayoutsInv, LayoutsType, Held, Exists, NoLayout
        <5>2. layouts'[l] = [layouts[l] EXCEPT !.active = FALSE]
          BY <2>3, <2>6, <4>1
        <5> QED
          BY <5>1, <5>2 DEF IsShown, LayoutRow
      <4>2. CASE lockedBy[l] # c
        <5>1. ~ Exists(l) /\ layouts'[l] = layouts[l]
          BY <2>1, <2>3, <2>6, <2>11, <4>2 DEF LayoutsInv, Written, Activates
        <5> QED
          BY <5>1 DEF IsShown, Exists
      <4> QED
        BY <4>1, <4>2
    <3> QED
      BY <2>1, <3>1 DEF Single
  <2>12. ASSUME r.on # "yes" PROVE Single'
    <3>1. \A l \in LayoutRows : lockedBy[l] # c
      BY <2>12 DEF LayoutsInv, Held, Activates
    <3>2. \A l \in LayoutRows : IsShown(l)' => IsShown(l)
      <4> SUFFICES ASSUME NEW l \in LayoutRows, IsShown(l)' PROVE IsShown(l)
        OBVIOUS
      <4>1. CASE l # own \/ ~ Altered(r)
        BY <2>3, <2>6, <3>1, <4>1 DEF IsShown
      <4>2. CASE l = own /\ Altered(r)
        <5>1. layouts[own] \in LayoutRow /\ layouts'[own] = ColumnsOf(r, layouts[own])
          BY <2>5, <2>7, <4>2
        <5>2. ColumnsOf(r, layouts[own]).active => layouts[own].active
          BY <2>2, <2>12, <5>1 DEF ColumnsOf, Asked, LayoutRow
        <5> QED
          BY <4>2, <5>1, <5>2 DEF IsShown, LayoutRow
      <4> QED
        BY <4>1, <4>2
    <3> QED
      BY <2>1, <3>2 DEF LayoutsInv, Single
  <2>13. Single'
    BY <2>11, <2>12
  <2> HIDE DEF r
  <2> QED
    BY <2>1, <2>8, <2>9, <2>10, <2>13, RequestEnds
<1>7. ASSUME NEW c \in LayoutClients, NEW l \in LayoutRows, ReadForDelete(c, l) PROVE LayoutsInv'
  <2> DEFINE r == [pc |-> "delete", layout |-> l]
  <2>1. /\ asking[c] = Idle /\ asking' = [asking EXCEPT ![c] = r]
        /\ UNCHANGED <<layouts, lockedBy, unseen>>
    BY <1>7 DEF ReadForDelete, Becomes
  <2>2. r \in Asks /\ r.pc # "write"
    BY DEF Asks
  <2>3. ~ Activates(c)
    BY <2>1 DEF Activates, Idle
  <2> HIDE DEF r
  <2> QED
    BY <2>1, <2>2, <2>3, OnlyAsks
<1>8. ASSUME NEW c \in LayoutClients, CommitDelete(c) PROVE LayoutsInv'
  <2> DEFINE own == asking[c].layout
  <2>1. /\ asking[c].pc = "delete" /\ Takes(c, {own}) /\ UNCHANGED <<lockedBy, unseen>>
        /\ layouts' = [layouts EXCEPT ![own] = NoLayout] /\ asking' = [asking EXCEPT ![c] = Idle]
    BY <1>8 DEF CommitDelete, Becomes
  <2>2. own \in LayoutRows /\ \A l \in LayoutRows : lockedBy[l] # c
    BY <2>1 DEF LayoutsInv, LayoutsType, Asks, Idle, Held, Activates
  <2>3. lockedBy' = Released(c)
    BY <2>1, <2>2 DEF Released, LayoutsInv, LayoutsType
  <2>4. /\ layouts' \in [LayoutRows -> LayoutRow \cup {NoLayout}]
        /\ layouts'[own] = NoLayout /\ \A l \in LayoutRows : l # own => layouts'[l] = layouts[l]
    BY <2>1, <2>2 DEF LayoutsInv, LayoutsType
  <2>5. lockedBy[own] = NoClient
    BY <2>1, <2>2 DEF Takes
  <2>6. /\ \A l \in LayoutRows : layouts'[l].there => layouts[l].there
        /\ \A l \in LayoutRows : lockedBy[l] \notin {c, NoClient} => layouts'[l] = layouts[l]
        /\ unseen' = unseen /\ asking' = [asking EXCEPT ![c] = Idle]
    BY <2>1, <2>4, <2>5 DEF NoLayout
  <2>7. Single'
    BY <2>4, <2>6 DEF LayoutsInv, Single, IsShown, NoLayout
  <2> QED
    BY <2>3, <2>4, <2>6, <2>7, RequestEnds
<1>9. ASSUME NEW c \in LayoutClients, QuickConfig(c) PROVE LayoutsInv'
  <2> DEFINE r == [pc |-> "quick"]
  <2>1. /\ asking[c] = Idle /\ asking' = [asking EXCEPT ![c] = r]
        /\ UNCHANGED <<layouts, lockedBy, unseen>>
    BY <1>9 DEF QuickConfig, Becomes
  <2>2. r \in Asks /\ r.pc # "write" /\ ~ Activates(c)
    BY <2>1 DEF Asks, Activates, Idle
  <2> HIDE DEF r
  <2> QED
    BY <2>1, <2>2, OnlyAsks
<1>10. ASSUME NEW c \in LayoutClients, AbortRequest(c) PROVE LayoutsInv'
  <2>1. /\ asking' = [asking EXCEPT ![c] = Idle] /\ lockedBy' = Released(c)
        /\ UNCHANGED <<layouts, unseen>>
    BY <1>10 DEF AbortRequest, Becomes
  <2>2. /\ layouts' \in [LayoutRows -> LayoutRow \cup {NoLayout}]
        /\ \A l \in LayoutRows : layouts'[l].there => layouts[l].there
        /\ \A l \in LayoutRows : lockedBy[l] \notin {c, NoClient} => layouts'[l] = layouts[l]
        /\ unseen' = unseen
    BY <2>1 DEF LayoutsInv, LayoutsType
  <2>3. Single'
    BY <2>1 DEF LayoutsInv, Single, IsShown
  <2> QED
    BY <2>1, <2>2, <2>3, RequestEnds
<1> QED
  BY <1>1, <1>2, <1>3, <1>4, <1>5, <1>6, <1>7, <1>8, <1>9, <1>10 DEF LayoutsNext

LEMMA AtMostOneMember ==
    ASSUME NEW S, \A x, y \in S : x = y
    PROVE  Cardinality(S) <= 1
<1>1. CASE S = {}
  BY <1>1, FS_EmptySet
<1>2. CASE S # {}
  <2>1. PICK x \in S : TRUE
    BY <1>2
  <2>2. S = {x}
    BY <2>1
  <2> QED
    BY <2>2, FS_Singleton
<1> QED
  BY <1>1, <1>2

\* However many activations, edits and deletions of layouts overlap, at most
\* one layout is active, apart from those inserted while an activation had
\* written the others (update_layout, activate_layout, delete_layout).
THEOREM AtMostOneLayoutActive == LayoutsSpec => []OneLayout
<1>1. LayoutsInit => LayoutsInv
  BY LayoutsAssumption DEF LayoutsInit, LayoutsInv, LayoutsType, Held, Written, Single, Activates,
     Asks, Idle, IsShown, NoLayout
<1>2. LayoutsInv => OneLayout
  <2> SUFFICES ASSUME LayoutsInv PROVE OneLayout
    OBVIOUS
  <2> DEFINE S == {l \in LayoutRows \ unseen : IsShown(l)}
  <2>1. \A x, y \in S : x = y
    BY DEF LayoutsInv, Single
  <2> HIDE DEF S
  <2>2. Cardinality(S) <= 1
    BY <2>1, AtMostOneMember
  <2> QED
    BY <2>2 DEF S, OneLayout
<1> QED
  BY <1>1, <1>2, LayoutsNextInv, PTL DEF LayoutsSpec

-----------------------------------------------------------------------------
(* On-call schedules.  What a request is about to commit conflicts with no *)
(* schedule that others have not touched since its check (Free).           *)

ScheduleRow ==
    [user : OnCallUsers, group : Groups, from : Days, to : Days, active : BOOLEAN]
ScheduleFields == {"user", "group", "from", "to", "active"}

\* Columns that a request writes.
Fits(w) ==
    /\ DOMAIN w \subseteq ScheduleFields
    /\ "user" \in DOMAIN w => w["user"] \in OnCallUsers
    /\ "group" \in DOMAIN w => w["group"] \in Groups
    /\ "from" \in DOMAIN w => w["from"] \in Days
    /\ "to" \in DOMAIN w => w["to"] \in Days
    /\ "active" \in DOMAIN w => w["active"] \in BOOLEAN

RequestType(r) ==
    \/ r = NoRequest
    \/ /\ r.pc = "check" /\ r.s \in DOMAIN sched
       /\ r.read \in ScheduleRow /\ Fits(r.change)
    \/ /\ r.pc = "commit" /\ r.s \in Schedules /\ r.checked \in BOOLEAN /\ Fits(r.write)
       /\ r.s \in DOMAIN sched \/ (r.checked /\ r.write \in ScheduleRow)

OnCallType ==
    /\ DOMAIN sched \subseteq Schedules /\ sched \in [DOMAIN sched -> ScheduleRow]
    /\ request = [c \in Clients |-> request[c]]
    /\ crossed \in [Clients -> SUBSET Schedules]
    /\ \A c \in Clients : RequestType(request[c])

\* The row as it will be.
Merged(row, w) == [field \in DOMAIN row |-> IF field \in DOMAIN w THEN w[field] ELSE row[field]]
RowAfter(r) == IF r.s \in DOMAIN sched THEN Merged(sched[r.s], r.write) ELSE r.write

ReadIsCurrent ==
    \A c \in Clients : request[c].pc = "check" /\ request[c].s \notin crossed[c]
                          => sched[request[c].s] = request[c].read

Against(x, row) == sched[x].user = row.user /\ sched[x].active /\ Overlaps(sched[x], row.from, row.to)

Free ==
    \A c \in Clients :
        LET r == request[c] IN
          r.pc = "commit" /\ r.checked /\ r.s \notin crossed[c]
            => \A x \in DOMAIN sched \ (crossed[c] \cup {r.s}) : ~ Against(x, RowAfter(r))

NoDays ==
    \A c \in Clients : request[c].pc = "commit" /\ ~ request[c].checked
                          => DOMAIN request[c].write \cap {"user", "from", "to"} = {}

OnCallInv == OnCallType /\ ReadIsCurrent /\ Free /\ NoDays /\ BookedOnce

LEMMA ScheduleColumns ==
    ASSUME NEW row \in ScheduleRow
    PROVE  /\ DOMAIN row = ScheduleFields
           /\ row.user \in OnCallUsers /\ row.group \in Groups /\ row.active \in BOOLEAN
           /\ row.from \in Days /\ row.to \in Days
           /\ row["user"] = row.user /\ row["from"] = row.from /\ row["to"] = row.to
           /\ row["group"] = row.group /\ row["active"] = row.active
  BY DEF ScheduleRow, ScheduleFields

LEMMA MergedColumns ==
    ASSUME NEW row \in ScheduleRow, NEW w, Fits(w)
    PROVE  /\ Merged(row, w) \in ScheduleRow
           /\ Merged(row, w).user = IF "user" \in DOMAIN w THEN w["user"] ELSE row.user
           /\ Merged(row, w).from = IF "from" \in DOMAIN w THEN w["from"] ELSE row.from
           /\ Merged(row, w).to = IF "to" \in DOMAIN w THEN w["to"] ELSE row.to
           /\ Merged(row, w).active = IF "active" \in DOMAIN w THEN w["active"] ELSE row.active
<1>1. DOMAIN row = ScheduleFields
  BY ScheduleColumns
<1>2. /\ Merged(row, w).user = IF "user" \in DOMAIN w THEN w["user"] ELSE row.user
      /\ Merged(row, w).from = IF "from" \in DOMAIN w THEN w["from"] ELSE row.from
      /\ Merged(row, w).to = IF "to" \in DOMAIN w THEN w["to"] ELSE row.to
      /\ Merged(row, w).active = IF "active" \in DOMAIN w THEN w["active"] ELSE row.active
      /\ Merged(row, w).group = IF "group" \in DOMAIN w THEN w["group"] ELSE row.group
  BY <1>1 DEF Merged, ScheduleFields
<1>3. Merged(row, w) = [field \in ScheduleFields |-> Merged(row, w)[field]]
  BY <1>1 DEF Merged
<1>4. /\ Merged(row, w).user \in OnCallUsers /\ Merged(row, w).group \in Groups
      /\ Merged(row, w).from \in Days /\ Merged(row, w).to \in Days
      /\ Merged(row, w).active \in BOOLEAN
  BY <1>2, ScheduleColumns DEF Fits
<1> DEFINE m == Merged(row, w)
<1>5. m = [field \in ScheduleFields |-> m[field]]
  BY <1>3
<1>6. /\ m.user \in OnCallUsers /\ m.group \in Groups /\ m.from \in Days /\ m.to \in Days
      /\ m.active \in BOOLEAN
  BY <1>4
<1>7. m \in ScheduleRow
  <2> HIDE DEF m
  <2> QED
    BY <1>5, <1>6 DEF ScheduleRow, ScheduleFields
<1> QED
  BY <1>2, <1>7

\* Two ranges with a common day overlap, by the clauses of the check.
LEMMA SharedDayOverlaps ==
    ASSUME NEW row \in ScheduleRow, NEW from \in Days, NEW to \in Days,
           NEW d \in Days, d \in row.from .. row.to, d \in from .. to
    PROVE  Overlaps(row, from, to)
<1>1. row.from \in Nat /\ row.to \in Nat /\ from \in Nat /\ to \in Nat /\ d \in Nat
  BY ScheduleColumns, OnCallAssumption
<1> QED
  BY <1>1 DEF Overlaps

LEMMA ChangesFit ==
    ASSUME NEW change \in OneFieldChanges
    PROVE  Fits(change)
<1>1. \/ DOMAIN change = {"from"} /\ change["from"] \in Days
      \/ DOMAIN change = {"to"} /\ change["to"] \in Days
      \/ DOMAIN change = {"user"} /\ change["user"] \in OnCallUsers
      \/ DOMAIN change = {"group"} /\ change["group"] \in Groups
      \/ DOMAIN change = {"active"} /\ change["active"] \in BOOLEAN
  BY DEF OneFieldChanges
<1> QED
  BY <1>1 DEF Fits, ScheduleFields

\* A request is taken or goes one stage further: the schedules stay.
LEMMA OnCallAsks ==
    ASSUME OnCallInv, NEW c \in Clients, NEW r, UNCHANGED <<sched, excused>>,
           request' = [request EXCEPT ![c] = r], RequestType(r),
           crossed' = [crossed EXCEPT ![c] = {}] \/ crossed' = crossed,
           r.pc = "check" /\ r.s \notin crossed'[c] => sched[r.s] = r.read,
           r.pc = "commit" /\ r.checked /\ r.s \notin crossed'[c]
             => \A x \in DOMAIN sched \ (crossed'[c] \cup {r.s}) : ~ Against(x, RowAfter(r)),
           r.pc = "commit" /\ ~ r.checked => DOMAIN r.write \cap {"user", "from", "to"} = {}
    PROVE  OnCallInv'
<1>1. /\ request'[c] = r /\ request' = [d \in Clients |-> request'[d]]
      /\ \A d \in Clients : d # c => request'[d] = request[d] /\ crossed'[d] = crossed[d]
  BY DEF OnCallInv, OnCallType
<1>2. crossed' \in [Clients -> SUBSET Schedules]
  BY DEF OnCallInv, OnCallType
<1>3. \A q : RequestType(q)' <=> RequestType(q)
  BY DEF RequestType
<1>4. \A d \in Clients : RequestType(request'[d])
  BY <1>1 DEF OnCallInv, OnCallType
<1>5. OnCallType'
  BY <1>1, <1>2, <1>3, <1>4 DEF OnCallInv, OnCallType
<1>6. ReadIsCurrent'
  BY <1>1 DEF OnCallInv, ReadIsCurrent
<1>7. Free'
  <2> SUFFICES ASSUME NEW d \in Clients, request'[d].pc = "commit", request'[d].checked,
                      request'[d].s \notin crossed'[d],
                      NEW x \in DOMAIN sched \ (crossed'[d] \cup {request'[d].s})
               PROVE  ~ Against(x, RowAfter(request'[d]))
    BY DEF Free, Against, RowAfter
  <2> QED
    BY <1>1 DEF OnCallInv, Free
<1>8. NoDays'
  BY <1>1 DEF OnCallInv, NoDays
<1> QED
  BY <1>5, <1>6, <1>7, <1>8 DEF OnCallInv, BookedOnce

LEMMA OnCallNextInv == OnCallInv /\ [OnCallNext]_onCallVars => OnCallInv'
<1> SUFFICES ASSUME OnCallInv, [OnCallNext]_onCallVars PROVE OnCallInv'
  OBVIOUS
<1>1. CASE UNCHANGED <<sched, request, crossed, excused>>
  BY <1>1 DEF OnCallInv, OnCallType, ReadIsCurrent, Free, NoDays, BookedOnce, RequestType, Against, RowAfter
<1>2. ASSUME NEW c \in Clients, NEW s \in Schedules, NEW row \in NewRows, CreateChecks(c, s, row)
      PROVE  OnCallInv'
  <2> DEFINE r == [pc |-> "commit", s |-> s, write |-> row, checked |-> TRUE]
  <2>1. /\ s \notin DOMAIN sched /\ ~ Conflict(s, row)
        /\ request' = [request EXCEPT ![c] = r] /\ UNCHANGED <<sched, crossed, excused>>
    BY <1>2 DEF CreateChecks
  <2>2. row \in ScheduleRow
    BY DEF NewRows, ScheduleRow
  <2>3. Fits(row)
    BY <2>2, ScheduleColumns DEF Fits
  <2>4. RequestType(r)
    BY <2>2, <2>3 DEF RequestType
  <2>5. \A x \in DOMAIN sched \ (crossed'[c] \cup {r.s}) : ~ Against(x, RowAfter(r))
    BY <2>1 DEF Conflict, Against, RowAfter
  <2>6. r.pc = "commit" /\ r.checked
    OBVIOUS
  <2> HIDE DEF r
  <2> QED
    BY <2>1, <2>4, <2>5, <2>6, OnCallAsks
<1>3. ASSUME NEW c \in Clients, NEW s \in Schedules, NEW change \in OneFieldChanges,
             UpdateReads(c, s, change)
      PROVE  OnCallInv'
  <2> DEFINE r == [pc |-> "check", s |-> s, read |-> sched[s], change |-> change]
  <2>1. /\ s \in DOMAIN sched /\ request' = [request EXCEPT ![c] = r]
        /\ UNCHANGED <<sched, crossed, excused>>
    BY <1>3 DEF UpdateReads
  <2>2. sched[s] \in ScheduleRow /\ Fits(change)
    BY <2>1, ChangesFit DEF OnCallInv, OnCallType
  <2>3. RequestType(r)
    BY <2>1, <2>2 DEF RequestType
  <2>4. r.pc = "check" /\ sched[r.s] = r.read
    OBVIOUS
  <2> HIDE DEF r
  <2> QED
    BY <2>1, <2>3, <2>4, OnCallAsks
<1>4. ASSUME NEW c \in Clients, UpdateChecks(c) PROVE OnCallInv'
  <2> DEFINE q == request[c]
             row == Merged(q.read, q.change)
             w == Restrict(q.change, Differing(q.read, q.change))
             r == [pc |-> "commit", s |-> q.s, checked |-> NeedsCheck(q.change), write |-> w]
  <2>1. /\ q.pc = "check" /\ UNCHANGED <<sched, excused>>
        /\ \/ request' = [request EXCEPT ![c] = NoRequest] /\ crossed' = [crossed EXCEPT ![c] = {}]
           \/ /\ request' = [request EXCEPT ![c] = r] /\ crossed' = crossed
              /\ NeedsCheck(q.change) => ~ Conflict(q.s, row)
    BY <1>4 DEF UpdateChecks, Merged
  <2>2. RequestType(q)
    BY DEF OnCallInv, OnCallType
  <2>3. q.s \in DOMAIN sched /\ q.read \in ScheduleRow /\ Fits(q.change)
    BY <2>1, <2>2 DEF RequestType, NoRequest
  <2>4. CASE request' = [request EXCEPT ![c] = NoRequest] /\ crossed' = [crossed EXCEPT ![c] = {}]
    <3>1. RequestType(NoRequest) /\ NoRequest.pc = "none"
      BY DEF RequestType, NoRequest
    <3> QED
      BY <2>1, <2>4, <3>1, OnCallAsks
  <2>5. CASE /\ request' = [request EXCEPT ![c] = r] /\ crossed' = crossed
             /\ NeedsCheck(q.change) => ~ Conflict(q.s, row)
    <3>1. /\ DOMAIN w = Differing(q.read, q.change)
          /\ \A field \in DOMAIN w : field \in DOMAIN q.change /\ w[field] = q.change[field]
          /\ \A field \in DOMAIN q.change : field \notin DOMAIN w => q.change[field] = q.read[field]
      BY DEF Restrict, Differing
    <3>2. Fits(w)
      BY <2>3, <3>1 DEF Fits
    <3>3. RequestType(r)
      <4>1. NeedsCheck(q.change) \in BOOLEAN /\ q.s \in Schedules
        BY <2>3 DEF NeedsCheck, OnCallInv, OnCallType
      <4> QED
        BY <2>3, <3>2, <4>1 DEF RequestType
    <3>4. ~ r.checked => DOMAIN r.write \cap {"user", "from", "to"} = {}
      BY <3>1 DEF NeedsCheck
    <3>5. ASSUME r.checked, r.s \notin crossed[c],
                 NEW x \in DOMAIN sched \ (crossed[c] \cup {r.s})
          PROVE  ~ Against(x, RowAfter(r))
      <4>1. sched[q.s] = q.read
        BY <2>1, <3>5 DEF OnCallInv, ReadIsCurrent
      <4>2. RowAfter(r) = Merged(q.read, w)
        BY <2>3, <4>1 DEF RowAfter
      <4>3. /\ RowAfter(r).user = row.user /\ RowAfter(r).from = row.from /\ RowAfter(r).to = row.to
        <5>1. /\ q.read["user"] = q.read.user /\ q.read["from"] = q.read.from
              /\ q.read["to"] = q.read.to
          BY <2>3, ScheduleColumns
        <5> QED
          BY <2>3, <3>1, <3>2, <4>2, <5>1, MergedColumns
      <4>4. ~ Conflict(q.s, row)
        BY <2>5, <3>5
      <4> QED
        BY <3>5, <4>3, <4>4 DEF Conflict, Against
    <3>6. r.pc = "commit"
      OBVIOUS
    <3> HIDE DEF r
    <3> QED
      BY <2>1, <2>5, <3>3, <3>4, <3>5, <3>6, OnCallAsks
  <2> QED
    BY <2>1, <2>4, <2>5
<1>5. ASSUME NEW c \in Clients, RequestCommits(c) PROVE OnCallInv'
  <2> DEFINE r == request[c]
             s == r.s
             new == RowAfter(r)
             about == {pair \in excused : s \in pair}
  <2>1. /\ r.pc = "commit"
        /\ sched' = [x \in DOMAIN sched \cup {s} |->
             IF x # s THEN sched[x]
             ELSE IF x \notin DOMAIN sched THEN r.write
             ELSE [field \in DOMAIN sched[x] |->
                     IF field \in DOMAIN r.write THEN r.write[field] ELSE sched[x][field]]]
        /\ excused' = (IF r.checked THEN excused \ about ELSE excused) \cup Unchecked(r, crossed[c])
        /\ request' = [request EXCEPT ![c] = NoRequest]
        /\ crossed' = [d \in Clients |->
             IF d = c THEN {} ELSE IF request[d] = NoRequest THEN {} ELSE crossed[d] \cup {s}]
    BY <1>5 DEF RequestCommits
  <2>2. RequestType(r)
    BY DEF OnCallInv, OnCallType
  <2>3. /\ s \in Schedules /\ r.checked \in BOOLEAN /\ Fits(r.write)
        /\ s \in DOMAIN sched \/ (r.checked /\ r.write \in ScheduleRow)
    BY <2>1, <2>2 DEF RequestType, NoRequest
  <2>4. /\ DOMAIN sched' = DOMAIN sched \cup {s} /\ sched'[s] = new
        /\ \A x \in DOMAIN sched : x # s => sched'[x] = sched[x]
    BY <2>1 DEF RowAfter, Merged
  <2>5. new \in ScheduleRow
    BY <2>3, MergedColumns DEF RowAfter, OnCallInv, OnCallType
  <2>6. /\ request'[c] = NoRequest /\ \A d \in Clients : d # c => request'[d] = request[d]
        /\ request' = [d \in Clients |-> request'[d]]
    BY <2>1 DEF OnCallInv, OnCallType
  <2>7. \A d \in Clients : d # c /\ request[d] # NoRequest => crossed'[d] = crossed[d] \cup {s}
    BY <2>1
  <2> HIDE DEF r, s, new
  <2>8. OnCallType'
    <3>1. \A q : RequestType(q) => RequestType(q)'
      BY <2>4 DEF RequestType
    <3>2. \A d \in Clients : RequestType(request'[d])
      BY <2>6 DEF OnCallInv, OnCallType, RequestType
    <3>3. DOMAIN sched' \subseteq Schedules /\ sched' \in [DOMAIN sched' -> ScheduleRow]
      BY <2>1, <2>3, <2>4, <2>5 DEF OnCallInv, OnCallType
    <3>4. crossed' \in [Clients -> SUBSET Schedules]
      BY <2>1, <2>3 DEF OnCallInv, OnCallType
    <3> QED
      BY <2>6, <3>1, <3>2, <3>3, <3>4 DEF OnCallType
  <2>9. ReadIsCurrent'
    <3> SUFFICES ASSUME NEW d \in Clients, request'[d].pc = "check", request'[d].s \notin crossed'[d]
                 PROVE  sched'[request'[d].s] = request'[d].read
      BY DEF ReadIsCurrent
    <3>1. d # c /\ request'[d] = request[d] /\ request[d] # NoRequest
      BY <2>6 DEF NoRequest
    <3>2. request[d].s \notin crossed[d] /\ request[d].s # s
      BY <2>7, <3>1
    <3>3. request[d].s \in DOMAIN sched
      BY <3>1 DEF OnCallInv, OnCallType, RequestType
    <3> QED
      BY <2>4, <3>1, <3>2, <3>3 DEF OnCallInv, ReadIsCurrent
  <2>10. Free'
    <3> SUFFICES ASSUME NEW d \in Clients, request'[d].pc = "commit", request'[d].checked,
                        request'[d].s \notin crossed'[d],
                        NEW x \in DOMAIN sched', x \notin crossed'[d], x # request'[d].s
                 PROVE  ~ Against(x, RowAfter(request[d]))'
      BY DEF Free
    <3>1. d # c /\ request'[d] = request[d] /\ request[d] # NoRequest
      BY <2>6 DEF NoRequest
    <3>2. /\ request[d].s \notin crossed[d] /\ request[d].s # s
          /\ x \notin crossed[d] /\ x # s /\ x \in DOMAIN sched
      BY <2>4, <2>7, <3>1
    <3>3. ~ Against(x, RowAfter(request[d]))
      BY <3>1, <3>2 DEF OnCallInv, Free
    <3>4. RowAfter(request[d])' = RowAfter(request[d])
      BY <2>4, <2>6, <3>1, <3>2 DEF RowAfter
    <3> QED
      BY <2>4, <3>1, <3>2, <3>3, <3>4 DEF Against
  <2>11. NoDays'
    BY <2>6 DEF OnCallInv, NoDays, NoRequest
  <2>12. ASSUME NEW x \in DOMAIN sched, x # s, new.user = sched[x].user, new.active, sched[x].active,
                NEW d \in Days, d \in new.from .. new.to, d \in sched[x].from .. sched[x].to
         PROVE  {s, x} \in excused'
    <3>0. x \in Schedules /\ sched[x] \in ScheduleRow
      BY DEF OnCallInv, OnCallType
    <3>1. CASE x \in crossed[c]
      BY <2>1, <3>0, <3>1 DEF Unchecked, s
    <3>2. CASE s \in crossed[c]
      BY <2>1, <3>0, <3>2 DEF Unchecked, s
    <3>3. CASE x \notin crossed[c] /\ s \notin crossed[c] /\ r.checked
      <4>1. ~ Against(x, new)
        BY <2>1, <2>12, <3>3 DEF OnCallInv, Free, r, s, new
      <4>2. new.from \in Days /\ new.to \in Days
        BY <2>5, ScheduleColumns
      <4>3. Overlaps(sched[x], new.from, new.to)
        BY <2>12, <3>0, <4>2, SharedDayOverlaps
      <4> QED
        BY <2>12, <4>1, <4>3 DEF Against
    <3>4. CASE ~ r.checked /\ "active" \in DOMAIN r.write
      BY <2>1, <3>0, <3>4 DEF Unchecked, s
    <3>5. CASE ~ r.checked /\ "active" \notin DOMAIN r.write
      <4>1. s \in DOMAIN sched /\ sched[s] \in ScheduleRow /\ new = Merged(sched[s], r.write)
        BY <2>3, <3>5 DEF new, s, RowAfter, OnCallInv, OnCallType
      <4>2. DOMAIN r.write \cap {"user", "from", "to"} = {}
        BY <2>1, <3>5 DEF OnCallInv, NoDays, r
      <4>3. /\ new.user = sched[s].user /\ new.from = sched[s].from /\ new.to = sched[s].to
            /\ new.active = sched[s].active
        BY <2>3, <3>5, <4>1, <4>2, MergedColumns
      <4>4. {s, x} \in excused
        BY <2>12, <4>1, <4>3 DEF OnCallInv, BookedOnce
      <4> QED
        BY <2>1, <3>5, <4>4
    <3> QED
      BY <2>3, <3>1, <3>2, <3>3, <3>4, <3>5
  <2>13. ASSUME NEW x \in DOMAIN sched, NEW y \in DOMAIN sched, x # s, y # s, {x, y} \in excused
         PROVE  {x, y} \in excused'
    BY <2>1, <2>13
  <2>14. BookedOnce'
    <3> SUFFICES ASSUME NEW x \in DOMAIN sched', NEW y \in DOMAIN sched', x # y,
                        sched'[x].user = sched'[y].user, sched'[x].active, sched'[y].active,
                        NEW d \in Days, d \in sched'[x].from .. sched'[x].to,
                        d \in sched'[y].from .. sched'[y].to
                 PROVE  {x, y} \in excused'
      BY DEF BookedOnce
    <3>1. CASE x # s /\ y # s
      <4>1. x \in DOMAIN sched /\ y \in DOMAIN sched /\ sched'[x] = sched[x] /\ sched'[y] = sched[y]
        BY <2>4, <3>1
      <4>2. {x, y} \in excused
        BY <3>1, <4>1 DEF OnCallInv, BookedOnce
      <4> QED
        BY <2>13, <3>1, <4>1, <4>2
    <3>2. CASE x = s
      BY <2>4, <2>12, <3>2
    <3>3. CASE y = s
      <4>1. {s, x} \in excused'
        BY <2>4, <2>12, <3>3
      <4> QED
        BY <3>3, <4>1
    <3> QED
      BY <3>1, <3>2, <3>3
  <2> QED
    BY <2>8, <2>9, <2>10, <2>11, <2>14 DEF OnCallInv
<1>6. ASSUME NEW g \in Groups, SetGroup(g) PROVE OnCallInv'
  BY <1>1, <1>6 DEF SetGroup
<1>7. UNCHANGED onCallVars => UNCHANGED <<sched, request, crossed, excused>>
  BY DEF onCallVars
<1> QED
  BY <1>1, <1>2, <1>3, <1>4, <1>5, <1>6, <1>7 DEF OnCallNext

\* However requests about schedules overlap, a user has two schedules for a
\* day only if the two were not checked against each other, because their
\* requests crossed or because an old one was made active again.
THEOREM NobodyBookedTwice == OnCallSpec => []BookedOnce
<1>1. OnCallInit => OnCallInv
  BY DEF OnCallInit, OnCallInv, OnCallType, ReadIsCurrent, Free, NoDays, BookedOnce, RequestType, NoRequest
<1>2. OnCallInv => BookedOnce
  BY DEF OnCallInv
<1> QED
  BY <1>1, <1>2, OnCallNextInv, PTL DEF OnCallSpec

-----------------------------------------------------------------------------
(* AI configurations.  Requests overwrite each other's lists, but each     *)
(* list that was read, and each that is about to be written, is sound.     *)

Sound(l) ==
    /\ DOMAIN l \subseteq Configs /\ DOMAIN l # {} /\ l \in [DOMAIN l -> Config]
    /\ \A f \in Limited : \A i, j \in DOMAIN l : l[i].feature = f /\ l[j].feature = f => i = j

ConfigsInv ==
    /\ list = {} \/ \E l : list = {l}
    /\ \A l \in list : Sound(l)
    /\ edit = [a \in Admins |-> edit[a]]
    /\ \A a \in Admins : DOMAIN edit[a] = {"pc", "read", "id", "write"}
    /\ \A a \in Admins : edit[a].pc \in {"list", "loaded", "saved"} => Sound(edit[a].read)

\* A request goes one stage further; the rows stay.
LEMMA Edits ==
    ASSUME ConfigsInv, NEW a \in Admins, NEW r, DOMAIN r = {"pc", "read", "id", "write"},
           r.pc # "idle" => Sound(r.read), list' = list, edit' = [edit EXCEPT ![a] = r]
    PROVE  ConfigsInv'
<1>1. edit'[a] = r /\ \A b \in Admins : b # a => edit'[b] = edit[b]
  BY DEF ConfigsInv
<1>2. edit' = [b \in Admins |-> edit'[b]]
  BY DEF ConfigsInv
<1> QED
  BY <1>1, <1>2 DEF ConfigsInv

LEMMA SaveSound ==
    ASSUME ConfigsInv, NEW a \in Admins, NEW l, NEW d, Sound(l), SaveConfigs(a, l, d)
    PROVE  ConfigsInv'
<1> DEFINE w == IF list = {} THEN "insert" ELSE IF list = {l} THEN "no" ELSE "update"
           r == [pc |-> "saved", read |-> l, id |-> d, write |-> w]
<1>1. list' = list /\ edit' = [edit EXCEPT ![a] = r]
  BY DEF SaveConfigs
<1> HIDE DEF w
<1>2. DOMAIN r = {"pc", "read", "id", "write"} /\ r.read = l
  OBVIOUS
<1> HIDE DEF r
<1> QED
  BY <1>1, <1>2, Edits

LEMMA SoundWithout ==
    ASSUME NEW l, Sound(l), NEW i, DOMAIN Without(l, i) # {}
    PROVE  Sound(Without(l, i))
  BY DEF Sound, Without

LEMMA ConfigsNextInv == ConfigsInv /\ [AiConfigsNext]_aiConfigsVars => ConfigsInv'
<1> SUFFICES ASSUME ConfigsInv, [AiConfigsNext]_aiConfigsVars PROVE ConfigsInv'
  OBVIOUS
<1>1. CASE UNCHANGED aiConfigsVars
  BY <1>1 DEF ConfigsInv, aiConfigsVars
<1>2. ASSUME NEW a \in Admins, LoadList(a) PROVE ConfigsInv'
  <2>1. CASE list = {}
    <3> DEFINE r == [NoEdit EXCEPT !.pc = "loaded", !.read = LegacyList, !.id = Legacy]
    <3>1. Sound(LegacyList)
      BY ConfigsAssumption DEF Sound, LegacyList, Config, Features, Limited
    <3>2. edit' = [edit EXCEPT ![a] = r] /\ list' = list
      BY <1>2, <2>1 DEF LoadList
    <3>3. DOMAIN r = {"pc", "read", "id", "write"} /\ r.read = LegacyList
      BY DEF NoEdit
    <3> HIDE DEF r
    <3> QED
      BY <3>1, <3>2, <3>3, Edits
  <2>2. CASE list # {}
    <3> DEFINE l == CHOOSE x \in list : TRUE
               r == [NoEdit EXCEPT !.pc = "list", !.read = l]
    <3>1. Sound(l)
      BY <2>2 DEF ConfigsInv
    <3>2. edit' = [edit EXCEPT ![a] = r] /\ list' = list
      BY <1>2, <2>2 DEF LoadList
    <3> HIDE DEF l
    <3>3. DOMAIN r = {"pc", "read", "id", "write"} /\ r.read = l
      BY DEF NoEdit
    <3> HIDE DEF r
    <3> QED
      BY <3>1, <3>2, <3>3, Edits
  <2> QED
    BY <2>1, <2>2
<1>3. ASSUME NEW a \in Admins, LoadDefault(a) PROVE ConfigsInv'
  <2> DEFINE r == [edit[a] EXCEPT !.pc = "loaded", !.id = default]
  <2>1. edit[a].pc = "list" /\ edit' = [edit EXCEPT ![a] = r] /\ list' = list
    BY <1>3 DEF LoadDefault
  <2>2. Sound(edit[a].read) /\ DOMAIN edit[a] = {"pc", "read", "id", "write"}
    BY <2>1 DEF ConfigsInv
  <2>3. DOMAIN r = {"pc", "read", "id", "write"} /\ r.read = edit[a].read
    BY <2>2
  <2> HIDE DEF r
  <2> QED
    BY <2>1, <2>2, <2>3, Edits
<1>4. ASSUME NEW a \in Admins, EditFails(a) PROVE ConfigsInv'
  <2>1. edit' = [edit EXCEPT ![a] = NoEdit] /\ list' = list
    BY <1>4 DEF EditFails
  <2>2. DOMAIN NoEdit = {"pc", "read", "id", "write"} /\ NoEdit.pc = "idle"
    BY DEF NoEdit
  <2> QED
    BY <2>1, <2>2, Edits
<1>5. ASSUME NEW a \in Admins, EditCommits(a) PROVE ConfigsInv'
  <2>1. /\ edit[a].pc = "saved" /\ edit' = [edit EXCEPT ![a] = NoEdit]
        /\ list' = IF edit[a].write = "no" THEN list ELSE {edit[a].read}
    BY <1>5 DEF EditCommits
  <2>2. Sound(edit[a].read)
    BY <2>1 DEF ConfigsInv
  <2>3. (list' = {} \/ \E l : list' = {l}) /\ \A l \in list' : Sound(l)
    BY <2>1, <2>2 DEF ConfigsInv
  <2>4. edit'[a] = NoEdit /\ (\A b \in Admins : b # a => edit'[b] = edit[b])
        /\ edit' = [b \in Admins |-> edit'[b]]
    BY <2>1 DEF ConfigsInv
  <2>5. \A b \in Admins : DOMAIN edit'[b] = {"pc", "read", "id", "write"}
    BY <2>4 DEF ConfigsInv, NoEdit
  <2>6. \A b \in Admins : edit'[b].pc \in {"list", "loaded", "saved"} => Sound(edit'[b].read)
    BY <2>4 DEF ConfigsInv, NoEdit
  <2> QED
    BY <2>3, <2>4, <2>5, <2>6 DEF ConfigsInv
<1>6. ASSUME NEW a \in Admins, NEW i \in Configs, NEW f \in Features, NEW on \in BOOLEAN,
             CreateConfig(a, i, f, on)
      PROVE  ConfigsInv'
  <2> DEFINE l == edit[a].read
             d == IF edit[a].id = NoConfig THEN i ELSE edit[a].id
             new == [j \in DOMAIN l \cup {i} |-> IF j = i THEN [feature |-> f, on |-> on] ELSE l[j]]
  <2>1. i \notin DOMAIN l /\ RoomFor(l, f) /\ SaveConfigs(a, new, d)
    BY <1>6 DEF CreateConfig
  <2>2. Sound(l)
    BY <2>1 DEF SaveConfigs, ConfigsInv
  <2>3. Sound(new)
    <3> HIDE DEF l
    <3>1. [feature |-> f, on |-> on] \in Config
      BY DEF Config
    <3>2. DOMAIN new = DOMAIN l \cup {i} /\ new[i].feature = f /\ \A j \in DOMAIN l : new[j] = l[j]
      BY <2>1
    <3>3. new \in [DOMAIN l \cup {i} -> Config]
      BY <2>2, <3>1 DEF Sound
    <3>4. \A h \in Limited : \A j, k \in DOMAIN new : new[j].feature = h /\ new[k].feature = h => j = k
      <4> SUFFICES ASSUME NEW h \in Limited, NEW j \in DOMAIN new, NEW k \in DOMAIN new,
                          new[j].feature = h, new[k].feature = h
                   PROVE  j = k
        OBVIOUS
      <4> HIDE DEF new
      <4> QED
        BY <2>1, <2>2, <3>2 DEF Sound, RoomFor
    <3> HIDE DEF new
    <3> QED
      BY <2>2, <3>2, <3>3, <3>4 DEF Sound
  <2> HIDE DEF new, d
  <2> QED
    BY <2>1, <2>3, SaveSound
<1>7. ASSUME NEW a \in Admins, NEW i \in Configs, NEW f \in Features, NEW on \in BOOLEAN,
             UpdateConfig(a, i, f, on)
      PROVE  ConfigsInv'
  <2> DEFINE l == edit[a].read
             d == edit[a].id
             new == [l EXCEPT ![i] = [feature |-> f, on |-> on]]
  <2>1. i \in DOMAIN l /\ (f = l[i].feature \/ RoomFor(Without(l, i), f)) /\ SaveConfigs(a, new, d)
    BY <1>7 DEF UpdateConfig
  <2>2. Sound(l)
    BY <2>1 DEF SaveConfigs, ConfigsInv
  <2>3. Sound(new)
    <3> HIDE DEF l
    <3>1. [feature |-> f, on |-> on] \in Config
      BY DEF Config
    <3>2. DOMAIN new = DOMAIN l /\ new[i].feature = f /\ \A j \in DOMAIN l : j # i => new[j] = l[j]
      BY <2>1, <2>2 DEF Sound
    <3>3. new \in [DOMAIN l -> Config]
      BY <2>2, <3>1 DEF Sound
    <3>4. f \in Limited => \A j \in DOMAIN l : j # i => l[j].feature # f
      <4>1. CASE f = l[i].feature
        BY <2>1, <2>2, <4>1 DEF Sound
      <4>2. CASE RoomFor(Without(l, i), f)
        BY <4>2 DEF RoomFor, Without
      <4> QED
        BY <2>1, <4>1, <4>2
    <3>5. \A h \in Limited : \A j, k \in DOMAIN new : new[j].feature = h /\ new[k].feature = h => j = k
      <4> SUFFICES ASSUME NEW h \in Limited, NEW j \in DOMAIN new, NEW k \in DOMAIN new,
                          new[j].feature = h, new[k].feature = h
                   PROVE  j = k
        OBVIOUS
      <4> HIDE DEF new
      <4> QED
        BY <2>1, <2>2, <3>2, <3>4 DEF Sound
    <3> HIDE DEF new
    <3> QED
      BY <2>2, <3>2, <3>3, <3>5 DEF Sound
  <2> HIDE DEF new, d
  <2> QED
    BY <2>1, <2>3, SaveSound
<1>8. ASSUME NEW a \in Admins, NEW i \in Configs, SetDefault(a, i) PROVE ConfigsInv'
  <2> DEFINE l == edit[a].read
  <2>1. SaveConfigs(a, l, i)
    BY <1>8 DEF SetDefault
  <2>2. Sound(l)
    BY <2>1 DEF SaveConfigs, ConfigsInv
  <2> HIDE DEF l
  <2> QED
    BY <2>1, <2>2, SaveSound
<1>9. ASSUME NEW a \in Admins, NEW i \in Configs, DeleteConfig(a, i) PROVE ConfigsInv'
  <2> DEFINE l == edit[a].read
             rest == Without(l, i)
  <2>1. DOMAIN rest # {} /\ \E d : SaveConfigs(a, rest, d)
    BY <1>9 DEF DeleteConfig
  <2>2. PICK d : SaveConfigs(a, rest, d)
    BY <2>1
  <2>3. Sound(l)
    BY <2>2 DEF SaveConfigs, ConfigsInv
  <2>4. Sound(rest)
    BY <2>1, <2>3, SoundWithout
  <2> HIDE DEF rest
  <2> QED
    BY <2>2, <2>4, SaveSound
<1> QED
  BY <1>1, <1>2, <1>3, <1>4, <1>5, <1>6, <1>7, <1>8, <1>9 DEF AiConfigsNext

\* Whatever requests about the AI configurations overtake one another, every
\* feature finds a model in the list, and one with one place has one at most.
THEOREM ConfigListsStaySound == AiConfigsSpec => []ListIsSound
<1>1. AiConfigsInit => ConfigsInv
  BY DEF AiConfigsInit, ConfigsInv, NoEdit
<1>2. ConfigsInv => ListIsSound
  <2> SUFFICES ASSUME ConfigsInv, NEW l \in list PROVE
           /\ \A f \in Features : Chosen(l, default, f) # {}
           /\ \A f \in Limited : Cardinality(Serving(l, f)) <= 1
    BY DEF ListIsSound
  <2>1. Sound(l)
    BY DEF ConfigsInv
  <2>2. ASSUME NEW f \in Features PROVE Chosen(l, default, f) # {}
    <3>1. Scoped(l, f) # {}
      BY <2>1 DEF Scoped, Sound
    <3> QED
      BY <3>1 DEF Chosen
  <2>3. ASSUME NEW f \in Limited PROVE Cardinality(Serving(l, f)) <= 1
    <3>1. \A x, y \in Serving(l, f) : x = y
      BY <2>1 DEF Sound, Serving
    <3> QED
      BY <3>1, AtMostOneMember
  <2> QED
    BY <2>2, <2>3
<1> QED
  BY <1>1, <1>2, ConfigsNextInv, PTL DEF AiConfigsSpec

=============================================================================
