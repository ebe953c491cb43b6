------------------------------ MODULE PromSync -------------------------------
(***************************************************************************)
(* What Prometheus is told. A request that changes an alert rule with a    *)
(* query commits it and then exports all such rules: they are read, the    *)
(* file is replaced in one step, and Prometheus is asked to load it. The   *)
(* export is best effort.                                                  *)
(***************************************************************************)
EXTENDS Naturals

CONSTANTS
  PromRules,    \* ids of alert rules
  Editors       \* operators with a request at a time

VARIABLES
  promRules,    \* alert_rules: [query, on, text], NoRule without a row
  ruleEdit,     \* the request of each editor
  rulesFile, loadedRules,   \* nightmend.yml, and what Prometheus has loaded of it
  outdated,     \* an export failed, was overtaken or was left out, and none came after it
  unloaded      \* a reload failed and none came after it

rulesVars == <<promRules, ruleEdit, rulesFile, loadedRules, outdated, unloaded>>

NoRuleEdit == [pc |-> "none"]
NoRule == [query |-> FALSE, on |-> FALSE, text |-> "none"]
RuleRows == [query : BOOLEAN, on : BOOLEAN, text : {"old", "new"}]

\* build_rules_yaml.
Exported ==
  {<<r, promRules[r].text>> : r \in {x \in PromRules : promRules[x].query /\ promRules[x].on}}

RulesInit ==
  /\ promRules = [r \in PromRules |-> NoRule] /\ ruleEdit = [e \in Editors |-> NoRuleEdit]
  /\ rulesFile = {} /\ loadedRules = {} /\ outdated = FALSE /\ unloaded = FALSE

-----------------------------------------------------------------------------
\* Mutant: the export is for rules that still have a query.
SyncNeededByQuery(row, fields) == row.query

\* A rule that has a query, or a change that may take it away or switch it.
SyncNeeded(row, fields) == row.query \/ fields \cap {"query", "on"} # {}

\* POST /alert-rules.
CreateRule(e, r, row) ==
  /\ ruleEdit[e] = NoRuleEdit /\ promRules[r] = NoRule
  /\ promRules' = [promRules EXCEPT ![r] = row]
  /\ ruleEdit' = IF row.query THEN [ruleEdit EXCEPT ![e] = [pc |-> "sync"]] ELSE ruleEdit
  /\ UNCHANGED <<rulesFile, loadedRules, outdated, unloaded>>

\* PUT /alert-rules/{id}: of the columns, those that change are written.
UpdateRule(e, r, row) ==
  /\ ruleEdit[e] = NoRuleEdit /\ promRules[r] # NoRule /\ promRules[r] # row
  /\ promRules' = [promRules EXCEPT ![r] = row]
  /\ ruleEdit' = IF SyncNeeded(row, {f \in DOMAIN row : row[f] # promRules[r][f]})
               THEN [ruleEdit EXCEPT ![e] = [pc |-> "sync"]] ELSE ruleEdit
  /\ UNCHANGED <<rulesFile, loadedRules, outdated, unloaded>>

\* DELETE /alert-rules/{id} reads the rule ...
DeleteReads(e, r) ==
  /\ ruleEdit[e] = NoRuleEdit /\ promRules[r] # NoRule
  /\ ruleEdit' = [ruleEdit EXCEPT ![e] = [pc |-> "delete", rule |-> r, query |-> promRules[r].query]]
  /\ UNCHANGED <<promRules, rulesFile, loadedRules, outdated, unloaded>>

\* Whatever makes the file differ from the table in the middle of another's
\* export.
Overtaking(f) ==
  [e \in Editors |-> IF f[e].pc = "write" THEN [f[e] EXCEPT !.overtaken = TRUE] ELSE f[e]]

\* ... and exports if it had a query then. A query it was given since stays in
\* the file. A second DELETE finds no row, and fails.
DeleteCommits(e) ==
  LET d == ruleEdit[e]
      missed == promRules[d.rule].query /\ ~d.query IN
    /\ d.pc = "delete"
    /\ promRules' = [promRules EXCEPT ![d.rule] = NoRule]
    /\ outdated' = (outdated \/ missed)
    /\ LET next == IF d.query /\ promRules[d.rule] # NoRule THEN [pc |-> "sync"] ELSE NoRuleEdit
           edits == [ruleEdit EXCEPT ![e] = next] IN
         ruleEdit' = IF missed THEN Overtaking(edits) ELSE edits
    /\ UNCHANGED <<rulesFile, loadedRules, unloaded>>

\* POST /alert-rules/prometheus/sync.
SyncByHand(e) ==
  /\ ruleEdit[e] = NoRuleEdit /\ ruleEdit' = [ruleEdit EXCEPT ![e] = [pc |-> "sync"]]
  /\ UNCHANGED <<promRules, rulesFile, loadedRules, outdated, unloaded>>

\* sync_rules_to_prometheus reads the rules, and when the answer is there ...
SyncReads(e) ==
  /\ ruleEdit[e].pc = "sync"
  /\ ruleEdit' = [ruleEdit EXCEPT ![e] = [pc |-> "write", rules |-> Exported, overtaken |-> FALSE]]
  /\ UNCHANGED <<promRules, rulesFile, loadedRules, outdated, unloaded>>

\* ... replaces the file (_atomic_write).
SyncWrites(e) ==
  /\ ruleEdit[e].pc = "write"
  /\ rulesFile' = ruleEdit[e].rules /\ outdated' = ruleEdit[e].overtaken
  /\ ruleEdit' = Overtaking([ruleEdit EXCEPT ![e] = [pc |-> "reload"]])
  /\ UNCHANGED <<promRules, loadedRules, unloaded>>

\* _best_effort_sync logs an exception.
SyncFails(e) ==
  /\ ruleEdit[e].pc \in {"sync", "write"}
  /\ outdated' = TRUE
  /\ ruleEdit' = Overtaking([ruleEdit EXCEPT ![e] = NoRuleEdit])
  /\ UNCHANGED <<promRules, rulesFile, loadedRules, unloaded>>

\* After the COMMIT of prom_rule_synced_at, which may fail too, Prometheus is
\* asked to load the file of the moment (_trigger_reload).
Reload(e, done) ==
  /\ ruleEdit[e].pc = "reload"
  /\ loadedRules' = IF done THEN rulesFile ELSE loadedRules
  /\ unloaded' = ~done
  /\ ruleEdit' = [ruleEdit EXCEPT ![e] = NoRuleEdit]
  /\ UNCHANGED <<promRules, rulesFile, outdated>>

RulesNext ==
  \E e \in Editors :
    \/ SyncByHand(e) \/ SyncReads(e) \/ SyncWrites(e) \/ SyncFails(e) \/ DeleteCommits(e)
    \/ \E done \in BOOLEAN : Reload(e, done)
    \/ \E r \in PromRules : \/ DeleteReads(e, r)
                            \/ \E row \in RuleRows : CreateRule(e, r, row) \/ UpdateRule(e, r, row)

RulesSpec == RulesInit /\ [][RulesNext]_rulesVars

-----------------------------------------------------------------------------
\* When no export runs, the file holds the enabled rules with a query, and
\* Prometheus has loaded it, unless an export or a reload failed, two exports
\* crossed, or a rule was given a query while it was being deleted
\* (_best_effort_sync after each change).
RulesFollowEdits ==
  (\A e \in Editors : ruleEdit[e].pc \in {"none", "delete"}) =>
    /\ outdated \/ rulesFile = Exported
    /\ unloaded \/ loadedRules = rulesFile
=============================================================================
