------------------------------ MODULE Sessions ------------------------------
(***************************************************************************)
(* Accounts and their sessions. Redis holds one session id per account;    *)
(* a token is accepted when it carries that id and the account is active.  *)
(* A login hands out a new id, a refresh writes the id of its token again, *)
(* a logout deletes the key. Each handler checks first and writes later.   *)
(*                                                                         *)
(* Left out: passwords, the expiry of the key (that of the refresh token), *)
(* the blacklist of single tokens, which matters only to the token at hand *)
(* of a session that is over anyway, and POST /register: PostgreSQL        *)
(* refuses the FOR UPDATE of its count, so it stores nothing.             *)
(***************************************************************************)
EXTENDS Naturals, FiniteSets

CONSTANTS
  Accounts,
  Sids,         \* session ids
  NoSid

ASSUME SessionsAssumption == NoSid \notin Sids

VARIABLES
  role,       \* users.role of each account, "none" without a row
  blocked,    \* accounts with is_active = False
  current,    \* auth:active_session:{id}
  owner,      \* account whose tokens carry the id, in a singleton, else {}
  issued,     \* ids that were generated
  login,      \* login under way, by account: its stage
  refresh,    \* refresh under way, by session: its stage
  logout,     \* sessions whose logout has been authenticated
  ended,      \* history: sessions that were logged out or superseded
  overlapped  \* history: those of them with a refresh that had been accepted

userVars == <<role, blocked>>
sidVars == <<current, owner, issued, ended, overlapped>>
callVars == <<login, refresh, logout>>
sessionVars == <<userVars, sidVars, callVars>>

Roles == {"admin", "operator", "viewer"}

SessionsInit ==
  /\ role = [a \in Accounts |-> "none"] /\ blocked = {}
  /\ current = [a \in Accounts |-> NoSid]
  /\ owner = [s \in Sids |-> {}] /\ issued = {}
  /\ login = [a \in Accounts |-> "none"]
  /\ refresh = [s \in Sids |-> "none"] /\ logout = {}
  /\ ended = {} /\ overlapped = {}

\* Sessions of account a that end when its key is written or deleted.
Ending(a, s) == IF current[a] \in {NoSid, s} THEN {} ELSE {current[a]}

SetActive(a, s) ==
  /\ current' = [current EXCEPT ![a] = s]
  /\ LET over == Ending(a, s) IN
       /\ ended' = ended \cup over
       /\ overlapped' = overlapped \cup {t \in over : refresh[t] = "valid"}

-----------------------------------------------------------------------------
(* Logins.                                                                 *)

\* POST /login: the account exists and is active.
LoginChecks(a) ==
  /\ login[a] = "none" /\ role[a] # "none" /\ a \notin blocked
  /\ login' = [login EXCEPT ![a] = "local"]
  /\ UNCHANGED <<userVars, sidVars, refresh, logout>>

\* An OAuth or LDAP login looks for the account; whether it is active is not
\* asked.
ExternalFinds(a) ==
  /\ login[a] = "none"
  /\ login' = [login EXCEPT ![a] = IF role[a] = "none" THEN "new" ELSE "known"]
  /\ UNCHANGED <<userVars, sidVars, refresh, logout>>

\* A new account: the first of all becomes an administrator (the advisory
\* lock 8007 makes the count and the insertion one step). An account that was
\* created meanwhile is an error.
ExternalCreates(a) ==
  /\ login[a] = "new"
  /\ role' = IF role[a] # "none" THEN role
             ELSE [role EXCEPT ![a] = IF \A b \in Accounts : role[b] = "none" THEN "admin"
                                      ELSE "viewer"]
  /\ login' = [login EXCEPT ![a] = IF role[a] = "none" THEN "known" ELSE "none"]
  /\ UNCHANGED <<blocked, sidVars, refresh, logout>>

\* The new id becomes the active one. After an external login the audit row,
\* which names no user, is refused, and the caller gets no token.
LoginActivates(a, s) ==
  /\ login[a] \in {"local", "known"} /\ s \notin issued
  /\ issued' = issued \cup {s}
  /\ owner' = IF login[a] = "local" THEN [owner EXCEPT ![s] = {a}] ELSE owner
  /\ SetActive(a, s)
  /\ login' = [login EXCEPT ![a] = "none"]
  /\ UNCHANGED <<userVars, refresh, logout>>

-----------------------------------------------------------------------------
(* Requests with a token of session s.                                     *)

\* validate_active_session.
IsActive(a, s) == current[a] = s

\* get_current_user.
Accepted(a, s) == owner[s] = {a} /\ role[a] # "none" /\ a \notin blocked /\ IsActive(a, s)

\* POST /refresh reads the account ...
RefreshFinds(a, s) ==
  /\ refresh[s] = "none"
  /\ owner[s] = {a} /\ role[a] # "none" /\ a \notin blocked
  /\ refresh' = [refresh EXCEPT ![s] = "found"]
  /\ UNCHANGED <<userVars, sidVars, login, logout>>

\* Mutant: the session of a refresh token is not compared.
RefreshAllowedAny(a, s) == TRUE

RefreshAllowed(a, s) == IsActive(a, s)

\* ... compares the session id ...
RefreshValidates(a, s) ==
  /\ refresh[s] = "found" /\ owner[s] = {a}
  /\ refresh' = [refresh EXCEPT ![s] = IF RefreshAllowed(a, s) THEN "valid" ELSE "none"]
  /\ UNCHANGED <<userVars, sidVars, login, logout>>

\* ... and writes it again, with new tokens.
RefreshActivates(a, s) ==
  /\ refresh[s] = "valid" /\ owner[s] = {a}
  /\ SetActive(a, s)
  /\ refresh' = [refresh EXCEPT ![s] = "none"]
  /\ UNCHANGED <<userVars, owner, issued, login, logout>>

\* POST /logout is authenticated, and later deletes the account's key.
LogoutChecks(a, s) ==
  /\ s \notin logout /\ Accepted(a, s)
  /\ logout' = logout \cup {s}
  /\ UNCHANGED <<userVars, sidVars, login, refresh>>

LogoutClears(a, s) ==
  /\ s \in logout /\ owner[s] = {a}
  /\ current' = [current EXCEPT ![a] = NoSid]
  /\ LET over == {s} \cup Ending(a, NoSid) IN
       /\ ended' = ended \cup over
       /\ overlapped' = overlapped \cup {t \in over : refresh[t] = "valid"}
  /\ logout' = logout \ {s}
  /\ UNCHANGED <<userVars, owner, issued, login, refresh>>

-----------------------------------------------------------------------------
(* Administration of accounts; no session is touched.                      *)

CreateUser(a, r) ==
  /\ role[a] = "none"
  /\ role' = [role EXCEPT ![a] = r]
  /\ UNCHANGED <<blocked, sidVars, callVars>>

\* is_active and the role are edited.
UpdateUser(a, r, off) ==
  /\ role[a] # "none"
  /\ role' = [role EXCEPT ![a] = r]
  /\ blocked' = IF off THEN blocked \cup {a} ELSE blocked \ {a}
  /\ UNCHANGED <<sidVars, callVars>>

\* Only an account without audit rows can be deleted: one that never logged
\* in. The next account of that address has another id, and no session.
DeleteUser(a) ==
  /\ role[a] # "none" /\ login[a] = "none"
  /\ \A s \in Sids : owner[s] # {a}
  /\ role' = [role EXCEPT ![a] = "none"]
  /\ blocked' = blocked \ {a}
  /\ current' = [current EXCEPT ![a] = NoSid]
  /\ UNCHANGED <<owner, issued, ended, overlapped, callVars>>

SessionsNext ==
  \E a \in Accounts :
    \/ LoginChecks(a) \/ ExternalFinds(a) \/ ExternalCreates(a) \/ DeleteUser(a)
    \/ \E s \in Sids : \/ LoginActivates(a, s) \/ RefreshFinds(a, s) \/ RefreshValidates(a, s)
                       \/ RefreshActivates(a, s) \/ LogoutChecks(a, s) \/ LogoutClears(a, s)
    \/ \E r \in Roles : CreateUser(a, r) \/ \E off \in BOOLEAN : UpdateUser(a, r, off)

SessionsSpec == SessionsInit /\ [][SessionsNext]_sessionVars

-----------------------------------------------------------------------------
\* A session that was logged out or superseded by a login is never accepted
\* again, unless a refresh of it had passed its check when it ended
\* (auth.py refresh and logout, validate_active_session).
EndedStaysEnded ==
  \A a \in Accounts, s \in ended : Accepted(a, s) => s \in overlapped

\* The session of a user lasts until its logout or until a login of the user
\* is answered with tokens: "the active session is the latest login".
OnlyLoginsSupersede ==
  \A a \in Accounts : current[a] = NoSid \/ owner[current[a]] = {a}
=============================================================================
