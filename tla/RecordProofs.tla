---------------------------- MODULE RecordProofs -----------------------------
(***************************************************************************)
(* Theorems about what is kept in step with something else: reports with   *)
(* the requests that write them, the file of alert rules with the table,   *)
(* links between servers and groups with both, dependencies with one row,  *)
(* an alert with the records of its escalation, the availability and the   *)
(* score that are shown with what they were counted from.                  *)
(***************************************************************************)
EXTENDS Reports, PromSync, Inventory, Escalation, Sla, HealthScore,
        FiniteSetTheorems, TLAPS

-----------------------------------------------------------------------------
(* Reports.  The row and its writer move together, but for a restart and   *)
(* an error of the database, which are recorded.                           *)

ReportsInv ==
    /\ DOMAIN reports \subseteq ReportIds
    /\ writers \in [ReportIds -> {"none", "collect", "ask", "over"}]
    /\ GeneratingIsRunning

\* A report is "generating" only while its request works on it, or after the
\* process or its transaction broke down, whatever is deleted meanwhile.
THEOREM GeneratingReportsAreWorkedOn == ReportsSpec => []GeneratingIsRunning
<1>1. ReportsInit => ReportsInv
  BY DEF ReportsInit, ReportsInv, GeneratingIsRunning
<1>2. ReportsInv /\ [ReportsNext]_reportVars => ReportsInv'
  <2> SUFFICES ASSUME ReportsInv, [ReportsNext]_reportVars PROVE ReportsInv'
    OBVIOUS
  <2>1. CASE UNCHANGED <<reports, writers, interrupted>>
    BY <2>1 DEF ReportsInv, GeneratingIsRunning
  <2>2. ASSUME NEW r \in ReportIds, GenerateStarts(r) PROVE ReportsInv'
    BY <2>2 DEF GenerateStarts, ReportsInv, GeneratingIsRunning
  <2>3. ASSUME NEW r \in ReportIds, DeleteReport(r) PROVE ReportsInv'
    BY <2>3 DEF DeleteReport, ReportsInv, GeneratingIsRunning
  <2>4. ASSUME NEW r \in ReportIds, NEW readable \in BOOLEAN, Collects(r, readable) PROVE ReportsInv'
    BY <2>4 DEF Collects, ReportsInv, GeneratingIsRunning
  <2>5. ASSUME NEW r \in ReportIds, NEW answered \in BOOLEAN, GenerateEnds(r, answered)
        PROVE  ReportsInv'
    BY <2>5 DEF GenerateEnds, Outcome, ReportsInv, GeneratingIsRunning
  <2>6. ASSUME RestartReports PROVE ReportsInv'
    BY <2>6 DEF RestartReports, ReportsInv, GeneratingIsRunning
  <2>7. MinutePasses \/ SchedulerLooks \/ UNCHANGED reportVars
          => UNCHANGED <<reports, writers, interrupted>>
    BY DEF MinutePasses, SchedulerLooks, reportVars
  <2> QED
    BY <2>1, <2>2, <2>3, <2>4, <2>5, <2>6, <2>7 DEF ReportsNext
<1>3. ReportsInv => GeneratingIsRunning
  BY DEF ReportsInv
<1> QED
  BY <1>1, <1>2, <1>3, PTL DEF ReportsSpec

-----------------------------------------------------------------------------
(* Rules and their file.  An export that is not the newest knows it, or    *)
(* another one is under way (Newest); so the file is right once none is    *)
(* (Followed).                                                             *)

Exporting(e) == ruleEdit[e].pc \in {"sync", "write"}

RulesType ==
    /\ promRules \in [PromRules -> RuleRows \cup {NoRule}]
    /\ outdated \in BOOLEAN /\ unloaded \in BOOLEAN
    /\ ruleEdit = [e \in Editors |-> ruleEdit[e]]
    /\ \A e \in Editors :
         \/ ruleEdit[e].pc \in {"none", "sync", "reload"}
         \/ /\ ruleEdit[e].pc = "delete" /\ ruleEdit[e].rule \in PromRules
            /\ ruleEdit[e].query \in BOOLEAN
         \/ /\ ruleEdit[e].pc = "write" /\ DOMAIN ruleEdit[e] = {"pc", "rules", "overtaken"}
            /\ ruleEdit[e].overtaken \in BOOLEAN

Newest ==
    \A e \in Editors : ruleEdit[e].pc = "write" /\ ~ ruleEdit[e].overtaken
        => ruleEdit[e].rules = Exported \/ \E f \in Editors : f # e /\ Exporting(f)

Followed ==
    /\ outdated \/ rulesFile = Exported \/ \E e \in Editors : Exporting(e)
    /\ unloaded \/ loadedRules = rulesFile \/ \E e \in Editors : ruleEdit[e].pc = "reload"

RulesInv == RulesType /\ Newest /\ Followed

\* Rules whose exported columns stay, or that are not exported before or after.
LEMMA SameExport ==
    ASSUME \A r \in PromRules :
             \/ /\ promRules'[r].query = promRules[r].query /\ promRules'[r].on = promRules[r].on
                /\ promRules'[r].text = promRules[r].text
             \/ ~ promRules'[r].query /\ ~ promRules[r].query
    PROVE  Exported' = Exported
<1>1. \A r \in PromRules : promRules'[r].query /\ promRules'[r].on <=> promRules[r].query /\ promRules[r].on
  OBVIOUS
<1>2. \A r \in PromRules : promRules[r].query /\ promRules[r].on => promRules'[r].text = promRules[r].text
  OBVIOUS
<1> QED
  BY <1>1, <1>2 DEF Exported

LEMMA RuleRow ==
    ASSUME RulesInv, NEW r \in PromRules
    PROVE  /\ promRules[r].query \in BOOLEAN /\ promRules[r].on \in BOOLEAN
           /\ promRules[r] = NoRule => ~ promRules[r].query
<1>1. promRules[r] \in RuleRows \/ promRules[r] = NoRule
  BY DEF RulesInv, RulesType
<1>2. NoRule.query = FALSE /\ NoRule.on = FALSE
  BY DEF NoRule
<1>3. \A row \in RuleRows : row.query \in BOOLEAN /\ row.on \in BOOLEAN
  BY DEF RuleRows
<1> QED
  BY <1>1, <1>2, <1>3

\* Editor e goes on as q, which is no export; all exports that have read the
\* rules learn that the file is not theirs.
LEMMA OthersOvertaken ==
    ASSUME RulesInv, NEW e \in Editors, NEW q, q.pc # "write",
           ruleEdit' = Overtaking([ruleEdit EXCEPT ![e] = q])
    PROVE  /\ ruleEdit' = [f \in Editors |-> ruleEdit'[f]] /\ ruleEdit'[e] = q
           /\ \A f \in Editors : f # e /\ ruleEdit[f].pc # "write" => ruleEdit'[f] = ruleEdit[f]
           /\ \A f \in Editors : f # e /\ ruleEdit[f].pc = "write" =>
                /\ ruleEdit'[f].pc = "write" /\ ruleEdit'[f].overtaken = TRUE
                /\ DOMAIN ruleEdit'[f] = {"pc", "rules", "overtaken"}
<1> DEFINE edits == [ruleEdit EXCEPT ![e] = q]
<1>1. /\ edits = [f \in Editors |-> edits[f]] /\ edits[e] = q
      /\ \A f \in Editors : f # e => edits[f] = ruleEdit[f]
  BY DEF RulesInv, RulesType
<1>2. ruleEdit' = Overtaking(edits)
  OBVIOUS
<1> HIDE DEF edits
<1>3. \A f \in Editors : edits[f].pc = "write" => DOMAIN edits[f] = {"pc", "rules", "overtaken"}
  BY <1>1 DEF RulesInv, RulesType
<1>4. \A f \in Editors : /\ ruleEdit'[f].pc = edits[f].pc
                         /\ edits[f].pc # "write" => ruleEdit'[f] = edits[f]
                         /\ edits[f].pc = "write" => /\ ruleEdit'[f].overtaken = TRUE
                                                     /\ DOMAIN ruleEdit'[f] = {"pc", "rules", "overtaken"}
  <2> TAKE f \in Editors
  <2>1. ruleEdit'[f] = IF edits[f].pc = "write" THEN [edits[f] EXCEPT !.overtaken = TRUE] ELSE edits[f]
    BY <1>2 DEF Overtaking
  <2>2. \A r : DOMAIN r = {"pc", "rules", "overtaken"} =>
              /\ [r EXCEPT !.overtaken = TRUE].pc = r.pc
              /\ [r EXCEPT !.overtaken = TRUE].overtaken = TRUE
              /\ DOMAIN [r EXCEPT !.overtaken = TRUE] = {"pc", "rules", "overtaken"}
    OBVIOUS
  <2>3. CASE edits[f].pc = "write"
    <3>1. DOMAIN edits[f] = {"pc", "rules", "overtaken"}
      BY <1>3, <2>3
    <3> QED
      BY <2>1, <2>2, <2>3, <3>1
  <2> QED
    BY <2>1, <2>3
<1>5. ruleEdit' = [f \in Editors |-> ruleEdit'[f]]
  BY <1>2 DEF Overtaking
<1> QED
  BY <1>1, <1>4, <1>5

LEMMA TypeOvertaken ==
    ASSUME RulesInv, NEW e \in Editors, ruleEdit'[e].pc \in {"none", "sync", "reload"},
           ruleEdit' = [f \in Editors |-> ruleEdit'[f]],
           \A f \in Editors : f # e /\ ruleEdit[f].pc # "write" => ruleEdit'[f] = ruleEdit[f],
           \A f \in Editors : f # e /\ ruleEdit[f].pc = "write" =>
                /\ ruleEdit'[f].pc = "write" /\ ruleEdit'[f].overtaken = TRUE
                /\ DOMAIN ruleEdit'[f] = {"pc", "rules", "overtaken"},
           promRules' \in [PromRules -> RuleRows \cup {NoRule}],
           outdated' \in BOOLEAN, unloaded' \in BOOLEAN
    PROVE  RulesType' /\ Newest'
<1>1. ASSUME NEW f \in Editors
      PROVE  \/ ruleEdit'[f].pc \in {"none", "sync", "reload"}
             \/ /\ ruleEdit'[f].pc = "delete" /\ ruleEdit'[f].rule \in PromRules
                /\ ruleEdit'[f].query \in BOOLEAN
             \/ /\ ruleEdit'[f].pc = "write" /\ DOMAIN ruleEdit'[f] = {"pc", "rules", "overtaken"}
                /\ ruleEdit'[f].overtaken = TRUE
  BY DEF RulesInv, RulesType
<1>2. RulesType'
  BY <1>1 DEF RulesInv, RulesType
<1>3. Newest'
  BY <1>1 DEF Newest
<1> QED
  BY <1>2, <1>3

\* A row changes, or none.  Editor e goes on as q, which is no export that has
\* read; without an export of its own the exported rules are the same.
LEMMA RuleChanges ==
    ASSUME RulesInv, NEW e \in Editors, NEW q, ~ Exporting(e), ruleEdit[e].pc # "reload",
           \/ q.pc \in {"none", "sync"}
           \/ q.pc = "delete" /\ q.rule \in PromRules /\ q.query \in BOOLEAN,
           ruleEdit' = [ruleEdit EXCEPT ![e] = q], UNCHANGED <<rulesFile, loadedRules, outdated, unloaded>>,
           promRules' \in [PromRules -> RuleRows \cup {NoRule}],
           q.pc = "sync" \/ Exported' = Exported
    PROVE  RulesInv'
<1>1. /\ ruleEdit'[e] = q /\ \A f \in Editors : f # e => ruleEdit'[f] = ruleEdit[f]
      /\ ruleEdit' = [f \in Editors |-> ruleEdit'[f]]
  BY DEF RulesInv, RulesType
<1>2. RulesType'
  BY <1>1 DEF RulesInv, RulesType
<1>3. \A f \in Editors : Exporting(f) => Exporting(f)'
  BY <1>1 DEF Exporting
<1>4. \/ Exported' = Exported
      \/ Exporting(e)'
  BY <1>1 DEF Exporting
<1>5. Newest'
  <2> SUFFICES ASSUME NEW f \in Editors, ruleEdit'[f].pc = "write", ~ ruleEdit'[f].overtaken
               PROVE  ruleEdit'[f].rules = Exported' \/ \E g \in Editors : g # f /\ Exporting(g)'
    BY DEF Newest
  <2>1. f # e /\ ruleEdit'[f] = ruleEdit[f]
    BY <1>1
  <2>2. ruleEdit[f].rules = Exported \/ \E g \in Editors : g # f /\ Exporting(g)
    BY <2>1 DEF RulesInv, Newest
  <2> QED
    BY <1>3, <1>4, <2>1, <2>2
<1>6. Followed'
  <2>1. outdated' \/ rulesFile' = Exported' \/ \E f \in Editors : Exporting(f)'
    BY <1>3, <1>4 DEF RulesInv, Followed
  <2>2. unloaded' \/ loadedRules' = rulesFile' \/ \E f \in Editors : ruleEdit'[f].pc = "reload"
    BY <1>1 DEF RulesInv, Followed
  <2> QED
    BY <2>1, <2>2 DEF Followed
<1> QED
  BY <1>2, <1>5, <1>6 DEF RulesInv

LEMMA RulesNextInv == RulesInv /\ [RulesNext]_rulesVars => RulesInv'
<1> SUFFICES ASSUME RulesInv, [RulesNext]_rulesVars PROVE RulesInv'
  OBVIOUS
<1>1. CASE UNCHANGED rulesVars
  BY <1>1 DEF RulesInv, RulesType, Newest, Followed, Exporting, Exported, rulesVars
<1>2. ASSUME NEW e \in Editors, NEW r \in PromRules, NEW row \in RuleRows, CreateRule(e, r, row)
      PROVE  RulesInv'
  <2> DEFINE q == IF row.query THEN [pc |-> "sync"] ELSE NoRuleEdit
  <2>1. /\ ruleEdit[e] = NoRuleEdit /\ promRules[r] = NoRule
        /\ promRules' = [promRules EXCEPT ![r] = row]
        /\ UNCHANGED <<rulesFile, loadedRules, outdated, unloaded>>
    BY <1>2 DEF CreateRule
  <2>2. ruleEdit' = [ruleEdit EXCEPT ![e] = q]
    BY <1>2, <2>1 DEF CreateRule, RulesInv, RulesType
  <2>3. promRules' \in [PromRules -> RuleRows \cup {NoRule}]
    BY <2>1 DEF RulesInv, RulesType
  <2>4. q.pc \in {"none", "sync"} /\ ~ Exporting(e) /\ ruleEdit[e].pc # "reload"
    BY <2>1 DEF NoRuleEdit, Exporting
  <2>5. q.pc = "sync" \/ Exported' = Exported
    <3> SUFFICES ASSUME ~ row.query PROVE Exported' = Exported
      BY DEF RuleRows
    <3>1. ~ promRules'[r].query /\ ~ promRules[r].query
      BY <2>1, RuleRow DEF RulesInv, RulesType
    <3>2. \A x \in PromRules : x # r => promRules'[x] = promRules[x]
      BY <2>1 DEF RulesInv, RulesType
    <3> QED
      BY <3>1, <3>2, SameExport
  <2> HIDE DEF q
  <2> QED
    BY <2>1, <2>2, <2>3, <2>4, <2>5, RuleChanges
<1>3. ASSUME NEW e \in Editors, NEW r \in PromRules, NEW row \in RuleRows, UpdateRule(e, r, row)
      PROVE  RulesInv'
  <2> DEFINE fields == {f \in DOMAIN row : row[f] # promRules[r][f]}
             q == IF SyncNeeded(row, fields) THEN [pc |-> "sync"] ELSE NoRuleEdit
  <2>1. /\ ruleEdit[e] = NoRuleEdit /\ promRules[r] # NoRule
        /\ promRules' = [promRules EXCEPT ![r] = row]
        /\ UNCHANGED <<rulesFile, loadedRules, outdated, unloaded>>
    BY <1>3 DEF UpdateRule
  <2>2. ruleEdit' = [ruleEdit EXCEPT ![e] = q]
    BY <1>3, <2>1 DEF UpdateRule, RulesInv, RulesType
  <2>3. promRules' \in [PromRules -> RuleRows \cup {NoRule}]
    BY <2>1 DEF RulesInv, RulesType
  <2>4. q.pc \in {"none", "sync"} /\ ~ Exporting(e) /\ ruleEdit[e].pc # "reload"
    BY <2>1 DEF NoRuleEdit, Exporting
  <2>5. q.pc = "sync" \/ Exported' = Exported
    <3> SUFFICES ASSUME ~ SyncNeeded(row, fields) PROVE Exported' = Exported
      OBVIOUS
    <3>1. ~ row.query /\ "query" \notin fields
      BY DEF SyncNeeded
    <3>2. promRules[r].query = row.query
      BY <3>1 DEF RuleRows
    <3>3. ~ promRules'[r].query /\ ~ promRules[r].query
      BY <2>1, <3>1, <3>2 DEF RulesInv, RulesType
    <3>4. \A x \in PromRules : x # r => promRules'[x] = promRules[x]
      BY <2>1 DEF RulesInv, RulesType
    <3> QED
      BY <3>3, <3>4, SameExport
  <2> HIDE DEF q
  <2> QED
    BY <2>1, <2>2, <2>3, <2>4, <2>5, RuleChanges
<1>4. ASSUME NEW e \in Editors, NEW r \in PromRules, DeleteReads(e, r) PROVE RulesInv'
  <2> DEFINE q == [pc |-> "delete", rule |-> r, query |-> promRules[r].query]
  <2>1. /\ ruleEdit[e] = NoRuleEdit /\ ruleEdit' = [ruleEdit EXCEPT ![e] = q]
        /\ UNCHANGED <<promRules, rulesFile, loadedRules, outdated, unloaded>>
    BY <1>4 DEF DeleteReads
  <2>2. q.pc = "delete" /\ q.rule \in PromRules /\ q.query \in BOOLEAN
    BY RuleRow
  <2>3. ~ Exporting(e) /\ ruleEdit[e].pc # "reload"
    BY <2>1 DEF NoRuleEdit, Exporting
  <2>4. Exported' = Exported /\ promRules' \in [PromRules -> RuleRows \cup {NoRule}]
    BY <2>1 DEF Exported, RulesInv, RulesType
  <2> HIDE DEF q
  <2> QED
    BY <2>1, <2>2, <2>3, <2>4, RuleChanges
<1>5. ASSUME NEW e \in Editors, SyncByHand(e) PROVE RulesInv'
  <2> DEFINE q == [pc |-> "sync"]
  <2>1. /\ ruleEdit[e] = NoRuleEdit /\ ruleEdit' = [ruleEdit EXCEPT ![e] = q]
        /\ UNCHANGED <<promRules, rulesFile, loadedRules, outdated, unloaded>>
    BY <1>5 DEF SyncByHand
  <2>2. q.pc = "sync" /\ ~ Exporting(e) /\ ruleEdit[e].pc # "reload"
        /\ promRules' \in [PromRules -> RuleRows \cup {NoRule}]
    BY <2>1 DEF NoRuleEdit, Exporting, RulesInv, RulesType
  <2> HIDE DEF q
  <2> QED
    BY <2>1, <2>2, RuleChanges
<1>6. ASSUME NEW e \in Editors, DeleteCommits(e) PROVE RulesInv'
  <2> DEFINE d == ruleEdit[e]
             r == d.rule
             missed == promRules[r].query /\ ~ d.query
             q == IF d.query /\ promRules[r] # NoRule THEN [pc |-> "sync"] ELSE NoRuleEdit
             edits == [ruleEdit EXCEPT ![e] = q]
  <2>1. /\ d.pc = "delete" /\ promRules' = [promRules EXCEPT ![r] = NoRule]
        /\ outdated' = (outdated \/ missed)
        /\ ruleEdit' = IF missed THEN Overtaking(edits) ELSE edits
        /\ UNCHANGED <<rulesFile, loadedRules, unloaded>>
    BY <1>6 DEF DeleteCommits
  <2>2. r \in PromRules /\ d.query \in BOOLEAN
    BY <2>1 DEF RulesInv, RulesType
  <2>3. promRules' \in [PromRules -> RuleRows \cup {NoRule}]
    BY <2>1 DEF RulesInv, RulesType
  <2>4. q.pc \in {"none", "sync"} /\ ~ Exporting(e) /\ ruleEdit[e].pc # "reload"
    BY <2>1 DEF NoRuleEdit, Exporting
  <2>5. CASE ~ missed
    <3>1. q.pc = "sync" \/ Exported' = Exported
      <4> SUFFICES ASSUME ~ (d.query /\ promRules[r] # NoRule) PROVE Exported' = Exported
        OBVIOUS
      <4>1. ~ promRules[r].query
        BY <2>2, <2>5, RuleRow
      <4>2. ~ promRules'[r].query /\ \A x \in PromRules : x # r => promRules'[x] = promRules[x]
        BY <2>1, <2>2 DEF RulesInv, RulesType, NoRule
      <4> QED
        BY <4>1, <4>2, SameExport
    <3>2. ruleEdit' = [ruleEdit EXCEPT ![e] = q] /\ outdated' = outdated
      BY <2>1, <2>5 DEF RulesInv, RulesType
    <3> HIDE DEF q
    <3> QED
      BY <2>1, <2>3, <2>4, <3>1, <3>2, RuleChanges
  <2>6. CASE missed
    <3> HIDE DEF missed, q
    <3>1. outdated' = TRUE /\ ruleEdit' = Overtaking(edits)
      BY <2>1, <2>6
    <3>2. /\ ruleEdit' = [f \in Editors |-> ruleEdit'[f]] /\ ruleEdit'[e] = q
          /\ \A f \in Editors : f # e /\ ruleEdit[f].pc # "write" => ruleEdit'[f] = ruleEdit[f]
          /\ \A f \in Editors : f # e /\ ruleEdit[f].pc = "write" =>
               /\ ruleEdit'[f].pc = "write" /\ ruleEdit'[f].overtaken = TRUE
               /\ DOMAIN ruleEdit'[f] = {"pc", "rules", "overtaken"}
      BY <2>4, <3>1, OthersOvertaken
    <3>6. unloaded' \in BOOLEAN /\ outdated' \in BOOLEAN /\ ruleEdit'[e].pc \in {"none", "sync", "reload"}
      BY <2>1, <2>4, <3>1, <3>2 DEF RulesInv, RulesType
    <3>7. RulesType' /\ Newest'
      BY <2>3, <3>2, <3>6, TypeOvertaken
    <3>8. \A f \in Editors : ruleEdit[f].pc = "reload" => ruleEdit'[f].pc = "reload"
      BY <2>4, <3>2
    <3>9. Followed'
      BY <2>1, <3>1, <3>8 DEF RulesInv, Followed
    <3> QED
      BY <3>7, <3>9 DEF RulesInv
  <2> QED
    BY <2>5, <2>6
<1>7. ASSUME NEW e \in Editors, SyncReads(e) PROVE RulesInv'
  <2> DEFINE q == [pc |-> "write", rules |-> Exported, overtaken |-> FALSE]
  <2>1. /\ ruleEdit[e].pc = "sync" /\ ruleEdit' = [ruleEdit EXCEPT ![e] = q]
        /\ UNCHANGED <<promRules, rulesFile, loadedRules, outdated, unloaded>>
    BY <1>7 DEF SyncReads
  <2>2. /\ ruleEdit'[e] = q /\ \A f \in Editors : f # e => ruleEdit'[f] = ruleEdit[f]
        /\ ruleEdit' = [f \in Editors |-> ruleEdit'[f]]
    BY <2>1 DEF RulesInv, RulesType
  <2>3. RulesType'
    BY <2>1, <2>2 DEF RulesInv, RulesType
  <2>4. Exported' = Exported
    BY <2>1 DEF Exported
  <2>5. \A f \in Editors : Exporting(f) => Exporting(f)'
    BY <2>1, <2>2 DEF Exporting
  <2>6. Newest'
    BY <2>2, <2>4, <2>5 DEF RulesInv, Newest
  <2>7. \A f \in Editors : ruleEdit[f].pc = "reload" => ruleEdit'[f].pc = "reload"
    BY <2>1, <2>2
  <2>8. Followed'
    BY <2>1, <2>4, <2>5, <2>7 DEF RulesInv, Followed
  <2> QED
    BY <2>3, <2>6, <2>8 DEF RulesInv
<1>8. ASSUME NEW e \in Editors, SyncWrites(e) PROVE RulesInv'
  <2> DEFINE q == [pc |-> "reload"]
  <2>1. /\ ruleEdit[e].pc = "write" /\ ruleEdit' = Overtaking([ruleEdit EXCEPT ![e] = q])
        /\ rulesFile' = ruleEdit[e].rules /\ outdated' = ruleEdit[e].overtaken
        /\ UNCHANGED <<promRules, loadedRules, unloaded>>
    BY <1>8 DEF SyncWrites
  <2>2. q.pc \in {"none", "reload"}
    OBVIOUS
  <2> HIDE DEF q
  <2>3. /\ ruleEdit' = [f \in Editors |-> ruleEdit'[f]] /\ ruleEdit'[e] = q
        /\ \A f \in Editors : f # e /\ ruleEdit[f].pc # "write" => ruleEdit'[f] = ruleEdit[f]
        /\ \A f \in Editors : f # e /\ ruleEdit[f].pc = "write" =>
             /\ ruleEdit'[f].pc = "write" /\ ruleEdit'[f].overtaken = TRUE
             /\ DOMAIN ruleEdit'[f] = {"pc", "rules", "overtaken"}
    BY <2>1, <2>2, OthersOvertaken
  <2>4. RulesType' /\ Newest'
    <3>1. /\ outdated' \in BOOLEAN /\ unloaded' \in BOOLEAN
          /\ promRules' \in [PromRules -> RuleRows \cup {NoRule}]
          /\ ruleEdit'[e].pc \in {"none", "sync", "reload"}
      BY <2>1, <2>2, <2>3 DEF RulesInv, RulesType
    <3> QED
      BY <2>3, <3>1, TypeOvertaken
  <2>5. Exported' = Exported
    BY <2>1 DEF Exported
  <2>6. ~ outdated' => rulesFile' = Exported \/ \E f \in Editors : f # e /\ Exporting(f)
    BY <2>1 DEF RulesInv, Newest
  <2>7. \A f \in Editors : f # e /\ Exporting(f) => Exporting(f)'
    BY <2>3 DEF Exporting
  <2>8. ruleEdit'[e].pc = "reload"
    BY <2>3 DEF q
  <2>9. Followed'
    BY <2>4, <2>5, <2>6, <2>7, <2>8 DEF Followed, RulesType
  <2> QED
    BY <2>4, <2>9 DEF RulesInv
<1>9. ASSUME NEW e \in Editors, SyncFails(e) PROVE RulesInv'
  <2> DEFINE q == NoRuleEdit
  <2>1. /\ ruleEdit[e].pc \in {"sync", "write"} /\ ruleEdit' = Overtaking([ruleEdit EXCEPT ![e] = q])
        /\ outdated' = TRUE /\ UNCHANGED <<promRules, rulesFile, loadedRules, unloaded>>
    BY <1>9 DEF SyncFails
  <2>2. q.pc \in {"none", "reload"}
    BY DEF NoRuleEdit
  <2> HIDE DEF q
  <2>3. /\ ruleEdit' = [f \in Editors |-> ruleEdit'[f]] /\ ruleEdit'[e] = q
        /\ \A f \in Editors : f # e /\ ruleEdit[f].pc # "write" => ruleEdit'[f] = ruleEdit[f]
        /\ \A f \in Editors : f # e /\ ruleEdit[f].pc = "write" =>
             /\ ruleEdit'[f].pc = "write" /\ ruleEdit'[f].overtaken = TRUE
             /\ DOMAIN ruleEdit'[f] = {"pc", "rules", "overtaken"}
    BY <2>1, <2>2, OthersOvertaken
  <2>4. RulesType' /\ Newest'
    <3>1. /\ outdated' \in BOOLEAN /\ unloaded' \in BOOLEAN
          /\ promRules' \in [PromRules -> RuleRows \cup {NoRule}]
          /\ ruleEdit'[e].pc \in {"none", "sync", "reload"}
      BY <2>1, <2>2, <2>3 DEF RulesInv, RulesType
    <3> QED
      BY <2>3, <3>1, TypeOvertaken
  <2>5. \A f \in Editors : ruleEdit[f].pc = "reload" => ruleEdit'[f].pc = "reload"
    BY <2>1, <2>3
  <2>6. Followed'
    BY <2>1, <2>5 DEF RulesInv, Followed
  <2> QED
    BY <2>4, <2>6 DEF RulesInv
<1>10. ASSUME NEW e \in Editors, NEW done \in BOOLEAN, Reload(e, done) PROVE RulesInv'
  <2>1. /\ ruleEdit[e].pc = "reload" /\ ruleEdit' = [ruleEdit EXCEPT ![e] = NoRuleEdit]
        /\ loadedRules' = (IF done THEN rulesFile ELSE loadedRules) /\ unloaded' = ~ done
        /\ UNCHANGED <<promRules, rulesFile, outdated>>
    BY <1>10 DEF Reload
  <2>2. /\ ruleEdit'[e].pc = "none" /\ \A f \in Editors : f # e => ruleEdit'[f] = ruleEdit[f]
        /\ ruleEdit' = [f \in Editors |-> ruleEdit'[f]]
    BY <2>1 DEF RulesInv, RulesType, NoRuleEdit
  <2>3. RulesType'
    BY <2>1, <2>2 DEF RulesInv, RulesType
  <2>4. Exported' = Exported
    BY <2>1 DEF Exported
  <2>5. \A f \in Editors : Exporting(f) => Exporting(f)'
    BY <2>1, <2>2 DEF Exporting
  <2>6. Newest'
    BY <2>2, <2>4, <2>5 DEF RulesInv, Newest
  <2>7. Followed'
    BY <2>1, <2>4, <2>5 DEF RulesInv, Followed
  <2> QED
    BY <2>3, <2>6, <2>7 DEF RulesInv
<1> QED
  BY <1>1, <1>2, <1>3, <1>4, <1>5, <1>6, <1>7, <1>8, <1>9, <1>10 DEF RulesNext

\* Once no export and no reload is under way, the file holds the enabled rules
\* with a query and Prometheus has loaded it, unless one of them failed or
\* was overtaken and none came after it, for any number of editors and rules.
THEOREM FileFollowsRules == RulesSpec => []RulesFollowEdits
<1>1. RulesInit => RulesInv
  <2> SUFFICES ASSUME RulesInit PROVE RulesInv
    OBVIOUS
  <2>1. \A e \in Editors : ruleEdit[e].pc = "none"
    BY DEF RulesInit, NoRuleEdit
  <2>2. Exported = {}
    BY DEF RulesInit, Exported, NoRule
  <2>3. RulesType
    BY <2>1 DEF RulesInit, RulesType
  <2> QED
    BY <2>1, <2>2, <2>3 DEF RulesInit, RulesInv, Newest, Followed
<1>2. RulesInv => RulesFollowEdits
  BY DEF RulesInv, Followed, Exporting, RulesFollowEdits
<1> QED
  BY <1>1, <1>2, RulesNextInv, PTL DEF RulesSpec

-----------------------------------------------------------------------------
(* The inventory.  A link that is about to be made has its ends, or the    *)
(* request knows that it crossed their deletion (LinkEnds); what a         *)
(* deletion has read are all links that are not mixed (LinksRead); and a   *)
(* dependency about to be inserted has no row, or was crossed (NewOnes).   *)

AskedLinks == Servers \X ServiceGroups

InventoryType ==
    /\ links \subseteq AskedLinks
    /\ rows \in [Dependencies -> Nat]
    /\ asked = [c \in InventoryClients |-> asked[c]]
    /\ \A c \in InventoryClients :
         \/ asked[c] = NotAsked
         \/ asked[c].pc = "link" /\ asked[c].link \in AskedLinks
         \/ asked[c].pc = "delete"
         \/ asked[c].pc = "depend" /\ asked[c].new \subseteq Dependencies

LinkEnds ==
    \A c \in InventoryClients : asked[c].pc = "link" =>
        /\ asked[c].link[1] \in servers \cup crossing[c]
        /\ asked[c].link[2] \in groups \cup crossing[c]

LinksRead ==
    \A c \in InventoryClients : asked[c].pc = "delete" =>
        \A link \in links \ mixed : asked[c].row \in {link[1], link[2]} => link \in asked[c].links

NewOnes ==
    \A c \in InventoryClients : asked[c].pc = "depend" =>
        \A d \in asked[c].new : rows[d] = 0 \/ d \in crossing[c]

InventoryInv == InventoryType /\ LinkEnds /\ LinksRead /\ NewOnes /\ BackedAndSingle

\* What a request that is taken reads, and what the end of one leaves.
LEMMA Taken ==
    ASSUME InventoryInv, NEW c \in InventoryClients, NEW r,
           asked' = [asked EXCEPT ![c] = r],
           UNCHANGED <<servers, groups, links, rows, crossing, mixed>>,
           \/ r.pc = "link" /\ r.link \in AskedLinks /\ r.link[1] \in servers /\ r.link[2] \in groups
           \/ /\ r.pc = "delete"
              /\ \A link \in links : r.row \in {link[1], link[2]} => link \in r.links
           \/ r.pc = "depend" /\ r.new \subseteq Dependencies /\ \A d \in r.new : rows[d] = 0
    PROVE  InventoryInv'
<1>1. /\ asked'[c] = r /\ \A d \in InventoryClients : d # c => asked'[d] = asked[d]
      /\ asked' = [d \in InventoryClients |-> asked'[d]]
  BY DEF InventoryInv, InventoryType
<1>2. InventoryType'
  BY <1>1 DEF InventoryInv, InventoryType, AskedLinks
<1>3. LinkEnds'
  BY <1>1 DEF InventoryInv, LinkEnds
<1>4. LinksRead'
  BY <1>1 DEF InventoryInv, LinksRead
<1>5. NewOnes'
  BY <1>1 DEF InventoryInv, NewOnes
<1> QED
  BY <1>2, <1>3, <1>4, <1>5 DEF InventoryInv, BackedAndSingle

LEMMA AnsweredOne ==
    ASSUME InventoryInv, NEW c \in InventoryClients, NEW changed, Answered(c, changed)
    PROVE  /\ asked' = [d \in InventoryClients |-> asked'[d]]
           /\ asked'[c] = NotAsked /\ NotAsked.pc = "none"
           /\ \A d \in InventoryClients : d # c =>
                /\ asked'[d] = asked[d]
                /\ asked[d].pc \in {"link", "delete", "depend"} => crossing'[d] = crossing[d] \cup changed
<1>1. NotAsked.pc = "none"
  BY DEF NotAsked
<1>2. /\ asked' = [asked EXCEPT ![c] = NotAsked]
      /\ crossing' = [d \in InventoryClients |->
           IF d = c \/ asked[d] = NotAsked THEN {} ELSE crossing[d] \cup changed]
  BY DEF Answered
<1> QED
  BY <1>1, <1>2 DEF InventoryInv, InventoryType

LEMMA InventoryNextInv == InventoryInv /\ [InventoryNext]_inventoryVars => InventoryInv'
<1> SUFFICES ASSUME InventoryInv, [InventoryNext]_inventoryVars PROVE InventoryInv'
  OBVIOUS
<1>1. CASE UNCHANGED inventoryVars
  BY <1>1 DEF InventoryInv, InventoryType, LinkEnds, LinksRead, NewOnes, BackedAndSingle, inventoryVars
<1>2. ASSUME NEW x, CreateServer(x) \/ CreateGroup(x) PROVE InventoryInv'
  <2>1. /\ servers \subseteq servers' /\ groups \subseteq groups'
        /\ UNCHANGED <<links, rows, asked, crossing, mixed>>
    BY <1>2 DEF CreateServer, CreateGroup
  <2> QED
    BY <2>1 DEF InventoryInv, InventoryType, LinkEnds, LinksRead, NewOnes, BackedAndSingle
<1>3. ASSUME NEW c \in InventoryClients, NEW s \in Servers, NEW g \in ServiceGroups, LinkReads(c, s, g)
      PROVE  InventoryInv'
  <2> DEFINE r == [pc |-> "link", link |-> <<s, g>>]
  <2>1. /\ s \in servers /\ g \in groups /\ asked' = [asked EXCEPT ![c] = r]
        /\ UNCHANGED <<servers, groups, links, rows, crossing, mixed>>
    BY <1>3 DEF LinkReads
  <2>2. r.pc = "link" /\ r.link \in AskedLinks /\ r.link[1] = s /\ r.link[2] = g
    BY DEF AskedLinks
  <2> HIDE DEF r
  <2> QED
    BY <2>1, <2>2, Taken
<1>4. ASSUME NEW c \in InventoryClients, NEW row, DeleteReadsLinks(c, row) PROVE InventoryInv'
  <2> DEFINE r == [pc |-> "delete", row |-> row, links |-> LinksOf(row)]
  <2>1. /\ asked' = [asked EXCEPT ![c] = r]
        /\ UNCHANGED <<servers, groups, links, rows, crossing, mixed>>
    BY <1>4 DEF DeleteReadsLinks
  <2>2. /\ r.pc = "delete"
        /\ \A link \in links : r.row \in {link[1], link[2]} => link \in r.links
    BY DEF LinksOf
  <2> HIDE DEF r
  <2> QED
    BY <2>1, <2>2, Taken
<1>5. ASSUME NEW c \in InventoryClients, NEW suggested \in SUBSET Dependencies, DependReads(c, suggested)
      PROVE  InventoryInv'
  <2> DEFINE r == [pc |-> "depend", new |-> {d \in suggested : rows[d] = 0}]
  <2>1. /\ asked' = [asked EXCEPT ![c] = r]
        /\ UNCHANGED <<servers, groups, links, rows, crossing, mixed>>
    BY <1>5 DEF DependReads
  <2>2. r.pc = "depend" /\ r.new \subseteq Dependencies /\ \A d \in r.new : rows[d] = 0
    OBVIOUS
  <2> HIDE DEF r
  <2> QED
    BY <2>1, <2>2, Taken
<1>6. ASSUME NEW c \in InventoryClients, LinkCommits(c) PROVE InventoryInv'
  <2> DEFINE link == asked[c].link
             crossed == \/ crossing[c] \cap {link[1], link[2]} # {}
                        \/ \E d \in InventoryClients :
                             asked[d].pc = "delete" /\ asked[d].row \in {link[1], link[2]}
  <2>1. /\ asked[c].pc = "link" /\ links' = links \cup {link}
        /\ mixed' = IF crossed THEN mixed \cup {link} ELSE mixed
        /\ Answered(c, {}) /\ UNCHANGED <<servers, groups, rows>>
    BY <1>6 DEF LinkCommits
  <2>2. link \in AskedLinks
    BY <2>1 DEF InventoryInv, InventoryType, NotAsked
  <2>3. /\ asked' = [d \in InventoryClients |-> asked'[d]]
        /\ asked'[c] = NotAsked /\ NotAsked.pc = "none"
        /\ \A d \in InventoryClients : d # c =>
             /\ asked'[d] = asked[d]
             /\ asked[d].pc \in {"link", "delete", "depend"} => crossing'[d] = crossing[d] \cup {}
    BY <2>1, AnsweredOne
  <2>4. ~ crossed => /\ link[1] \in servers /\ link[2] \in groups
                     /\ \A d \in InventoryClients : asked[d].pc = "delete" =>
                          asked[d].row \notin {link[1], link[2]}
    BY <2>1 DEF InventoryInv, LinkEnds
  <2> HIDE DEF crossed
  <2>5. InventoryType'
    BY <2>1, <2>2, <2>3 DEF InventoryInv, InventoryType
  <2>6. LinkEnds'
    BY <2>1, <2>3 DEF InventoryInv, LinkEnds
  <2>7. LinksRead'
    BY <2>1, <2>3, <2>4 DEF InventoryInv, LinksRead
  <2>8. NewOnes'
    BY <2>1, <2>3 DEF InventoryInv, NewOnes
  <2>9. BackedAndSingle'
    BY <2>1, <2>4 DEF InventoryInv, BackedAndSingle
  <2> QED
    BY <2>5, <2>6, <2>7, <2>8, <2>9 DEF InventoryInv
<1>7. ASSUME NEW link \in links, Unlink(link) PROVE InventoryInv'
  <2>1. /\ links' = links \ {link} /\ mixed' = mixed \ {link}
        /\ UNCHANGED <<servers, groups, rows, asked, crossing>>
    BY <1>7 DEF Unlink
  <2>2. link \notin Dependencies
    BY InventoryAssumption DEF InventoryInv, InventoryType, AskedLinks
  <2> QED
    BY <2>1, <2>2 DEF InventoryInv, InventoryType, LinkEnds, LinksRead, NewOnes, BackedAndSingle
<1>8. ASSUME NEW c \in InventoryClients, DeleteRowCommits(c) PROVE InventoryInv'
  <2> DEFINE row == asked[c].row
             read == asked[c].links
  <2>1. /\ asked[c].pc = "delete" /\ servers' = servers \ {row} /\ groups' = groups \ {row}
        /\ links' = links \ read /\ Answered(c, {row}) /\ UNCHANGED <<rows, mixed>>
    BY <1>8 DEF DeleteRowCommits
  <2>2. /\ asked' = [d \in InventoryClients |-> asked'[d]]
        /\ asked'[c] = NotAsked /\ NotAsked.pc = "none"
        /\ \A d \in InventoryClients : d # c =>
             /\ asked'[d] = asked[d]
             /\ asked[d].pc \in {"link", "delete", "depend"} => crossing'[d] = crossing[d] \cup {row}
    BY <2>1, AnsweredOne
  <2>3. \A link \in links \ mixed : row \in {link[1], link[2]} => link \in read
    BY <2>1 DEF InventoryInv, LinksRead
  <2> HIDE DEF row, read
  <2>4. InventoryType'
    BY <2>1, <2>2 DEF InventoryInv, InventoryType
  <2>5. LinkEnds'
    BY <2>1, <2>2 DEF InventoryInv, LinkEnds
  <2>6. LinksRead'
    BY <2>1, <2>2 DEF InventoryInv, LinksRead
  <2>7. NewOnes'
    BY <2>1, <2>2 DEF InventoryInv, NewOnes
  <2>8. BackedAndSingle'
    BY <2>1, <2>3 DEF InventoryInv, BackedAndSingle
  <2> QED
    BY <2>4, <2>5, <2>6, <2>7, <2>8 DEF InventoryInv
<1>9. ASSUME NEW c \in InventoryClients, DependCommits(c) PROVE InventoryInv'
  <2> DEFINE new == asked[c].new
  <2>1. /\ asked[c].pc = "depend"
        /\ rows' = [d \in Dependencies |-> IF d \in new THEN rows[d] + 1 ELSE rows[d]]
        /\ mixed' = mixed \cup {d \in new \cap crossing[c] : rows[d] > 0}
        /\ Answered(c, new) /\ UNCHANGED <<servers, groups, links>>
    BY <1>9 DEF DependCommits
  <2>2. new \subseteq Dependencies /\ \A d \in new : rows[d] = 0 \/ d \in crossing[c]
    BY <2>1 DEF InventoryInv, InventoryType, NewOnes, NotAsked
  <2>3. /\ asked' = [d \in InventoryClients |-> asked'[d]]
        /\ asked'[c] = NotAsked /\ NotAsked.pc = "none"
        /\ \A d \in InventoryClients : d # c =>
             /\ asked'[d] = asked[d]
             /\ asked[d].pc \in {"link", "delete", "depend"} => crossing'[d] = crossing[d] \cup new
    BY <2>1, AnsweredOne
  <2> HIDE DEF new
  <2>4. \A d \in Dependencies : rows[d] \in Nat /\ rows'[d] \in Nat
                                /\ (d \notin new => rows'[d] = rows[d])
                                /\ (d \in new => rows'[d] = rows[d] + 1)
    BY <2>1 DEF InventoryInv, InventoryType
  <2>5. rows' \in [Dependencies -> Nat]
    BY <2>1, <2>4
  <2>6. InventoryType'
    BY <2>1, <2>3, <2>5 DEF InventoryInv, InventoryType
  <2>7. LinkEnds'
    BY <2>1, <2>3 DEF InventoryInv, LinkEnds
  <2>8. LinksRead'
    BY <2>1, <2>3 DEF InventoryInv, LinksRead
  <2>9. NewOnes'
    <3> SUFFICES ASSUME NEW d \in InventoryClients, asked'[d].pc = "depend", NEW x \in asked'[d].new
                 PROVE  rows'[x] = 0 \/ x \in crossing'[d]
      BY DEF NewOnes
    <3>1. d # c /\ asked'[d] = asked[d] /\ crossing'[d] = crossing[d] \cup new
      BY <2>3
    <3>2. x \in Dependencies
      BY <3>1 DEF InventoryInv, InventoryType, NotAsked
    <3>3. rows[x] = 0 \/ x \in crossing[d]
      BY <3>1 DEF InventoryInv, NewOnes
    <3> QED
      BY <2>4, <3>1, <3>2, <3>3
  <2>10. \A link \in links' \ mixed' : link[1] \in servers' /\ link[2] \in groups'
    BY <2>1 DEF InventoryInv, BackedAndSingle
  <2>11. ASSUME NEW d \in Dependencies, d \notin mixed' PROVE rows'[d] <= 1
    <3>1. d \notin mixed /\ rows[d] <= 1
      BY <2>1, <2>11 DEF InventoryInv, BackedAndSingle
    <3>2. CASE d \in new
      <4>1. ~ (rows[d] > 0 /\ d \in crossing[c])
        BY <2>1, <2>11, <3>2
      <4> QED
        BY <2>2, <2>4, <3>2, <4>1
    <3> QED
      BY <2>4, <3>1, <3>2
  <2> QED
    BY <2>6, <2>7, <2>8, <2>9, <2>10, <2>11 DEF InventoryInv, BackedAndSingle
<1>10. ASSUME NEW d \in Dependencies, DeleteDependency(d) PROVE InventoryInv'
  <2>1. /\ rows[d] > 0 /\ rows' = [rows EXCEPT ![d] = rows[d] - 1]
        /\ mixed' = IF rows[d] = 2 THEN mixed \ {d} ELSE mixed
        /\ UNCHANGED <<servers, groups, links, asked, crossing>>
    BY <1>10 DEF DeleteDependency
  <2>2. /\ rows[d] \in Nat /\ rows'[d] = rows[d] - 1 /\ rows'[d] \in Nat
        /\ \A x \in Dependencies : x # d => rows'[x] = rows[x]
    BY <2>1 DEF InventoryInv, InventoryType
  <2>3. d \notin links
    BY InventoryAssumption DEF InventoryInv, InventoryType, AskedLinks
  <2>4. rows' \in [Dependencies -> Nat]
    BY <2>1, <2>2 DEF InventoryInv, InventoryType
  <2>5. links \ mixed' = links \ mixed
    BY <2>1, <2>3
  <2>6. InventoryType'
    BY <2>1, <2>4 DEF InventoryInv, InventoryType
  <2>7. LinkEnds' /\ LinksRead'
    BY <2>1, <2>5 DEF InventoryInv, LinkEnds, LinksRead
  <2>8. NewOnes'
    <3> SUFFICES ASSUME NEW c \in InventoryClients, asked[c].pc = "depend", NEW x \in asked[c].new
                 PROVE  rows'[x] = 0 \/ x \in crossing[c]
      BY <2>1 DEF NewOnes
    <3>1. x \in Dependencies /\ (rows[x] = 0 \/ x \in crossing[c])
      BY DEF InventoryInv, InventoryType, NewOnes, NotAsked
    <3> QED
      BY <2>1, <2>2, <3>1
  <2>9. ASSUME NEW x \in Dependencies, x \notin mixed' PROVE rows'[x] <= 1
    BY <2>1, <2>2, <2>9 DEF InventoryInv, BackedAndSingle
  <2>10. \A link \in links' \ mixed' : link[1] \in servers' /\ link[2] \in groups'
    BY <2>1, <2>5 DEF InventoryInv, BackedAndSingle
  <2> QED
    BY <2>6, <2>7, <2>8, <2>9, <2>10 DEF InventoryInv, BackedAndSingle
<1>11. ASSUME ClearDependencies PROVE InventoryInv'
  <2>1. /\ rows' = [d \in Dependencies |-> 0] /\ mixed' = mixed \ Dependencies
        /\ UNCHANGED <<servers, groups, links, asked, crossing>>
    BY <1>11 DEF ClearDependencies
  <2>2. links \ mixed' = links \ mixed
    BY <2>1, InventoryAssumption DEF InventoryInv, InventoryType, AskedLinks
  <2>3. InventoryType'
    BY <2>1 DEF InventoryInv, InventoryType
  <2>4. LinkEnds' /\ LinksRead'
    BY <2>1, <2>2 DEF InventoryInv, LinkEnds, LinksRead
  <2>5. NewOnes'
    BY <2>1 DEF InventoryInv, InventoryType, NewOnes, NotAsked
  <2>6. BackedAndSingle'
    BY <2>1, <2>2 DEF InventoryInv, BackedAndSingle
  <2> QED
    BY <2>3, <2>4, <2>5, <2>6 DEF InventoryInv
<1> QED
  BY <1>1, <1>2, <1>3, <1>4, <1>5, <1>6, <1>7, <1>8, <1>9, <1>10, <1>11 DEF InventoryNext

\* However links, deletions and dependencies are requested at a time, a link
\* without its server or group, and a dependency with two rows, come only from
\* requests about it that crossed.
THEOREM InventoryStaysWhole == InventorySpec => []BackedAndSingle
<1>1. InventoryInit => InventoryInv
  BY DEF InventoryInit, InventoryInv, InventoryType, LinkEnds, LinksRead, NewOnes, BackedAndSingle, NotAsked
<1>2. InventoryInv => BackedAndSingle
  BY DEF InventoryInv
<1> QED
  BY <1>1, <1>2, InventoryNextInv, PTL DEF InventorySpec

-----------------------------------------------------------------------------
(* Escalation.  What a request writes and what it records come from the    *)
(* row it has read: the severity only when the two differ, as the record   *)
(* says, and the level always.                                             *)

Severity == Severities \cup {"none"}
EscalatedRow == [status : {"gone", "firing", "acknowledged", "resolved"}, severity : Severity, level : Nat]
Escalating == [pc : {"idle", "read", "committed"}, to : Severity, read : EscalatedRow]
EscalationRecord == [from : Severity, to : Severity, level : Nat]

EscalationInv ==
    /\ alertRow \in EscalatedRow
    /\ history \in Seq(EscalationRecord)
    /\ escalating \in [EscalationRequests -> Escalating]
    /\ HistoryExplains

LEMMA EscalationRows ==
    /\ NoAlertRow \in EscalatedRow /\ NotEscalating \in Escalating
    /\ \A a \in EscalatedRow, s \in {"acknowledged", "resolved"} : [a EXCEPT !.status = s] \in EscalatedRow
  BY DEF NoAlertRow, NotEscalating, EscalatedRow, Escalating, Severity

\* Another record: the row is as it says.
LEMMA RecordExplains ==
    ASSUME EscalationInv, NEW r \in EscalationRequests, CommitEscalation(r)
    PROVE  EscalationInv'
<1> DEFINE q == escalating[r]
           record == RecordOf(q)
<1>1. q \in Escalating /\ alertRow \in EscalatedRow /\ history \in Seq(EscalationRecord)
  BY DEF EscalationInv
<1>2. q.to \in Severity /\ q.read \in EscalatedRow
  BY <1>1 DEF Escalating
<1>3. q.read.severity \in Severity /\ q.read.level + 1 \in Nat
  BY <1>2 DEF EscalatedRow
<1>4. record \in EscalationRecord /\ record.from = q.read.severity /\ record.to = q.to
      /\ record.level = q.read.level + 1
  BY <1>2, <1>3 DEF RecordOf, EscalationRecord
<1>5. alertRow' = Escalated(q) /\ history' = Append(history, record) /\ alertRow # NoAlertRow
      /\ original' = original
  BY DEF CommitEscalation
<1> DEFINE level == q.read.level + 1
           severity == IF q.to # q.read.severity THEN q.to ELSE alertRow.severity
<1>6. severity \in Severity /\ level \in Nat
  BY <1>1, <1>2, <1>3 DEF EscalatedRow
<1>7. alertRow' = [alertRow EXCEPT !.severity = severity, !.level = level]
  BY <1>5 DEF Escalated
<1> HIDE DEF level, severity
<1>8. alertRow' \in EscalatedRow /\ alertRow'.severity = severity /\ alertRow'.level = level
  BY <1>1, <1>6, <1>7 DEF EscalatedRow
<1> HIDE DEF record
<1>9. /\ history' \in Seq(EscalationRecord) /\ Len(history') = Len(history) + 1 /\ Len(history) \in Nat
      /\ history'[Len(history) + 1] = record /\ history' # <<>>
      /\ \A k \in 1 .. Len(history) : history'[k] = history[k]
      /\ DOMAIN history' = 1 .. Len(history) + 1 /\ DOMAIN history = 1 .. Len(history)
  BY <1>1, <1>4, <1>5
<1>10. alertRow'.level = Last(history').level
  BY <1>4, <1>8, <1>9 DEF Last, level
<1>11. \A k \in 1 .. Len(history) : Changed(k)' <=> Changed(k)
  BY <1>9 DEF Changed
<1>n. PICK n \in Nat : n = Len(history) + 1
  BY <1>9
<1>12. Changed(n)' <=> q.to # q.read.severity
  <2>1. Changed(n)' <=> record.to # record.from
    BY <1>9, <1>n DEF Changed
  <2> QED
    BY <1>4, <2>1
<1>13. escalating' \in [EscalationRequests -> Escalating]
  <2>1. [q EXCEPT !.pc = "committed"] \in Escalating
    BY <1>1 DEF Escalating
  <2>2. escalating' = [escalating EXCEPT ![r] = [q EXCEPT !.pc = "committed"]]
    BY DEF CommitEscalation
  <2> QED
    BY <2>1, <2>2 DEF EscalationInv
<1>14. CASE q.to # q.read.severity
  <2>1. alertRow'.severity = history'[n].to
    BY <1>4, <1>8, <1>9, <1>n, <1>14 DEF severity
  <2>2. ASSUME NEW k \in DOMAIN history', \A j \in k + 1 .. Len(history') : ~Changed(j)'
        PROVE  k = n
    <3>1. ~(n \in k + 1 .. Len(history'))
      BY <1>12, <1>14, <2>2
    <3> QED
      BY <1>9, <1>n, <3>1
  <2>3. ~(\A k \in DOMAIN history' : ~Changed(k)')
    BY <1>9, <1>n, <1>12, <1>14
  <2>4. HistoryExplains'
    BY <1>9, <1>n, <1>10, <2>1, <2>2, <2>3 DEF HistoryExplains
  <2> QED
    BY <1>8, <1>9, <1>n, <2>4, <1>13 DEF EscalationInv
<1>15. CASE q.to = q.read.severity
  <2>1. alertRow'.severity = alertRow.severity
    BY <1>8, <1>15 DEF severity
  <2>2. (\A k \in DOMAIN history' : ~Changed(k)') => alertRow'.severity = original'
    BY <1>5, <1>9, <1>n, <1>11, <2>1 DEF EscalationInv, HistoryExplains
  <2>3. ASSUME NEW k \in DOMAIN history', Changed(k)', \A j \in k + 1 .. Len(history') : ~Changed(j)'
        PROVE  alertRow'.severity = history'[k].to
    <3>1. k \in 1 .. Len(history) /\ Changed(k)
      BY <1>9, <1>n, <1>11, <1>12, <1>15, <2>3
    <3>2. \A j \in k + 1 .. Len(history) : ~Changed(j)
      BY <1>9, <1>n, <1>11, <2>3, <3>1
    <3> QED
      BY <1>5, <1>9, <1>n, <2>1, <3>1, <3>2 DEF EscalationInv, HistoryExplains
  <2>4. HistoryExplains'
    BY <1>9, <1>n, <1>10, <2>2, <2>3 DEF HistoryExplains
  <2> QED
    BY <1>8, <1>9, <1>n, <2>4, <1>13 DEF EscalationInv
<1> QED
  BY <1>14, <1>15

\* A step that adds no record and leaves severity and level.
LEMMA NoRecordKeeps ==
    ASSUME EscalationInv, history' = history, original' = original, alertRow' \in EscalatedRow,
           escalating' \in [EscalationRequests -> Escalating],
           alertRow' # NoAlertRow =>
             alertRow # NoAlertRow /\ alertRow'.severity = alertRow.severity /\ alertRow'.level = alertRow.level
    PROVE  EscalationInv'
  BY DEF EscalationInv, HistoryExplains, Changed

LEMMA EscalationNextInv == EscalationInv /\ [EscalationNext]_escalationVars => EscalationInv'
<1> SUFFICES ASSUME EscalationInv, [EscalationNext]_escalationVars PROVE EscalationInv'
  OBVIOUS
<1>0. alertRow \in EscalatedRow /\ escalating \in [EscalationRequests -> Escalating]
  BY DEF EscalationInv
<1>1. CASE UNCHANGED escalationVars
  BY <1>0, <1>1, NoRecordKeeps DEF escalationVars
<1>2. ASSUME NEW r \in EscalationRequests, CommitEscalation(r) PROVE EscalationInv'
  BY <1>2, RecordExplains
<1>3. ASSUME NEW r \in EscalationRequests, EscalationFails(r) PROVE EscalationInv'
  BY <1>0, <1>3, NoRecordKeeps, EscalationRows DEF EscalationFails
<1>4. ASSUME NEW r \in EscalationRequests, NEW to \in Severities, ReadForEscalation(r, to)
      PROVE  EscalationInv'
  <2>1. [pc |-> "read", to |-> to, read |-> alertRow] \in Escalating
    BY <1>0 DEF Escalating, Severity
  <2> QED
    BY <1>0, <1>4, <2>1, NoRecordKeeps DEF ReadForEscalation
<1>5. ASSUME NEW status \in {"acknowledged", "resolved"}, MoveAlert(status) PROVE EscalationInv'
  <2>1. alertRow' = [alertRow EXCEPT !.status = status] /\ alertRow.status # "gone"
        /\ UNCHANGED <<history, escalating, original>>
    BY <1>5 DEF MoveAlert
  <2>2. alertRow' \in EscalatedRow /\ alertRow'.severity = alertRow.severity /\ alertRow'.level = alertRow.level
    BY <1>0, <2>1, EscalationRows DEF EscalatedRow
  <2>3. alertRow # NoAlertRow
    BY <2>1 DEF NoAlertRow
  <2> QED
    BY <1>0, <2>1, <2>2, <2>3, NoRecordKeeps
<1>6. CASE RemoveAlert
  BY <1>0, <1>6, NoRecordKeeps, EscalationRows DEF RemoveAlert
<1> QED
  BY <1>1, <1>2, <1>3, <1>4, <1>5, <1>6 DEF EscalationNext

\* However requests overlap and repeat: the level of an alert is that of its
\* last record, its severity the target of the last record that changed one.
THEOREM RecordsExplainTheAlert == EscalationSpec => []HistoryExplains
<1>1. EscalationInit => EscalationInv
  <2> SUFFICES ASSUME EscalationInit PROVE EscalationInv
    OBVIOUS
  <2>1. alertRow \in EscalatedRow /\ alertRow.level = 0 /\ alertRow.severity = original
    BY DEF EscalationInit, EscalatedRow, Severity
  <2>2. history = <<>> /\ history \in Seq(EscalationRecord) /\ DOMAIN history = {}
    BY DEF EscalationInit
  <2> QED
    BY <2>1, <2>2, EscalationRows DEF EscalationInit, EscalationInv, HistoryExplains
<1>2. EscalationInv => HistoryExplains
  BY DEF EscalationInv
<1> QED
  BY <1>1, <1>2, EscalationNextInv, PTL DEF EscalationSpec

-----------------------------------------------------------------------------
(* SLA.  Checks are only added: what the second query counts is at least   *)
(* what it would have counted beside the first, so the percentage is never *)
(* above the true one.                                                     *)

SlaInv ==
    /\ IsFiniteSet(checks)
    /\ rule # NoSlaRule => rule.target \in Nat
    /\ DOMAIN board = DOMAIN NotReading
    /\ board.total \in Nat /\ board.down \in Nat /\ board.target \in Nat
    /\ truth.total \in Nat /\ truth.down \in Nat
    /\ board.pc \in {"total", "down"} => truth.total = board.total
    /\ board.pc = "total" => truth.down <= board.down
    /\ board.pc = "down" => truth.down <= board.down + Downs(CountedDays)
    /\ MetIsTrue

LEMMA QuotientGrows ==
    ASSUME NEW a \in Int, NEW b \in Int, NEW n \in Nat \ {0}, a <= b PROVE a \div n <= b \div n
<1> DEFINE p == a \div n
           q == b \div n
<1>1. p \in Int /\ q \in Int /\ a = n * p + (a % n) /\ b = n * q + (b % n)
      /\ a % n \in 0 .. n - 1 /\ b % n \in 0 .. n - 1
  OBVIOUS
<1> DEFINE r == a % n
           s == b % n
<1> SUFFICES ASSUME p > q PROVE FALSE
  BY <1>1
<1>2. r \in 0 .. n - 1 /\ s \in 0 .. n - 1 /\ a = n * p + r /\ b = n * q + s
  BY <1>1
<1> HIDE DEF p, q, r, s
<1>3. PICK d \in Nat : p = q + 1 + d
  <2>1. p - q - 1 \in Nat /\ p = q + 1 + (p - q - 1)
    BY <1>1
  <2> QED
    BY <2>1
<1>4. n * p = n * q + n + n * d /\ n * d \in Nat /\ n * q \in Int
  BY <1>1, <1>3
<1> DEFINE x == n * q
           y == n * d
<1>5. x \in Int /\ y \in Nat /\ a = x + n + y + r /\ b = x + s
  BY <1>2, <1>4
<1> HIDE DEF x, y
<1> QED
  BY <1>2, <1>5

\* With the same number of checks, fewer failures are a percentage no lower.
LEMMA FewerFailuresStillMet ==
    ASSUME NEW total \in Nat, NEW more \in Nat, NEW fewer \in Nat, NEW target \in Nat, fewer <= more,
           IsMet([total |-> total, down |-> more], target)
    PROVE  IsMet([total |-> total, down |-> fewer], target)
<1> DEFINE n == 2 * total
           a == 2 * (total - more) * 1000000 + total
           b == 2 * (total - fewer) * 1000000 + total
           goal == 100 * target
<1>1. total > 0 /\ a \div n >= goal
  BY DEF IsMet, Percent
<1>2. n \in Nat \ {0} /\ a \in Int /\ b \in Int /\ a <= b /\ goal \in Int
  BY <1>1
<1>3. IsMet([total |-> total, down |-> fewer], target) <=> (b \div n >= goal)
  BY <1>1 DEF IsMet, Percent
<1> HIDE DEF n, a, b, goal
<1>4. a \div n <= b \div n /\ a \div n \in Int /\ b \div n \in Int
  BY <1>2, QuotientGrows
<1> QED
  BY <1>1, <1>2, <1>3, <1>4

LEMMA CountsAreNumbers ==
    ASSUME IsFiniteSet(checks), NEW ds PROVE Downs(ds) \in Nat /\ Totals(ds) \in Nat
<1>1. IsFiniteSet({c \in checks : c.day \in ds /\ c.status = "down"}) /\ IsFiniteSet({c \in checks : c.day \in ds})
  BY FS_Subset
<1> QED
  BY <1>1, FS_CardinalityType DEF Downs, Totals

\* A step that adds checks at most, and leaves the request alone.
LEMMA RequestWaits ==
    ASSUME SlaInv, IsFiniteSet(checks'), checks \subseteq checks', UNCHANGED <<board, verdict, truth>>,
           rule' # NoSlaRule => rule'.target \in Nat
    PROVE  SlaInv'
<1>1. ASSUME board.pc = "down" PROVE truth.down <= board.down + Downs(CountedDays)'
  <2> DEFINE ds == CountedDays
             old == {c \in checks : c.day \in ds /\ c.status = "down"}
             new == {c \in checks' : c.day \in ds /\ c.status = "down"}
  <2>1. ds' = ds
    BY DEF CountedDays
  <2>2. IsFiniteSet(new) /\ old \subseteq new
    BY FS_Subset
  <2>3. Cardinality(old) <= Cardinality(new) /\ Cardinality(new) \in Nat /\ Cardinality(old) \in Nat
    BY <2>2, FS_Subset, FS_CardinalityType
  <2>4. Downs(ds) = Cardinality(old) /\ Downs(ds)' = Cardinality(new)
    BY <2>1 DEF Downs
  <2>5. truth.down <= board.down + Cardinality(old) /\ board.down \in Nat /\ truth.down \in Nat
    BY <1>1, <2>4 DEF SlaInv
  <2> HIDE DEF old, new, ds
  <2>6. truth.down <= board.down + Cardinality(new)
    BY <2>3, <2>5
  <2> QED
    BY <2>4, <2>6 DEF ds
<1> QED
  BY <1>1 DEF SlaInv, MetIsTrue

LEMMA SlaNextInv == SlaInv /\ [SlaNext]_slaVars => SlaInv'
<1> SUFFICES ASSUME SlaInv, [SlaNext]_slaVars PROVE SlaInv'
  OBVIOUS
<1>0. DOMAIN NotReading = {"pc", "view", "target", "window", "day", "end", "total", "down"}
  BY DEF NotReading
<1>1. CASE UNCHANGED slaVars
  BY <1>1, RequestWaits DEF slaVars, SlaInv
<1>2. ASSUME NEW day \in 0..LastDay, NEW status \in {"up", "down"}, AddCheck(day, status) PROVE SlaInv'
  <2>1. PICK row : checks' = checks \cup {row}
    BY <1>2 DEF AddCheck
  <2>2. IsFiniteSet(checks')
    BY <2>1, FS_AddElement DEF SlaInv
  <2>3. UNCHANGED <<rule, board, verdict, truth>>
    BY <1>2 DEF AddCheck
  <2>4. rule' # NoSlaRule => rule'.target \in Nat
    BY <2>3 DEF SlaInv
  <2> QED
    BY <2>1, <2>2, <2>3, <2>4, RequestWaits
<1>3. CASE SlaDayPasses
  BY <1>3, RequestWaits DEF SlaDayPasses, SlaInv
<1>4. CASE DeleteSlaRule
  BY <1>4, RequestWaits DEF DeleteSlaRule, SlaInv
<1>5. ASSUME NEW target \in Targets, NEW window \in {"daily", "weekly"}, CreateSlaRule(target, window)
      PROVE  SlaInv'
  <2>1. target \in Nat
    BY SlaAssumption
  <2> QED
    BY <1>5, <2>1, RequestWaits DEF CreateSlaRule, SlaInv
<1>6. ASSUME NEW view, NEW target \in Nat, NEW window, NEW day, NEW end,
             Begin(view, target, window, day, end)
      PROVE  SlaInv'
  <2>1. board' = [pc |-> "total", view |-> view, target |-> target, window |-> window,
                  day |-> day, end |-> end, total |-> 0, down |-> 0]
        /\ truth' = NoCount /\ UNCHANGED <<checks, rule>>
    BY <1>6 DEF Begin
  <2>2. DOMAIN board' = (DOMAIN NotReading)'
    BY <2>1 DEF NotReading
  <2>3. truth'.total = 0 /\ truth'.down = 0
    BY <2>1 DEF NoCount
  <2> QED
    BY <2>1, <2>2, <2>3 DEF SlaInv, MetIsTrue
<1>7. CASE BeginStatus
  BY <1>6, <1>7 DEF BeginStatus, SlaInv
<1>8. CASE BeginReport
  <2> DEFINE target == IF rule = NoSlaRule THEN 9990 ELSE rule.target
  <2>1. PICK from, to : Begin("report", target, "none", from, to)
    BY <1>8 DEF BeginReport
  <2>2. target \in Nat
    BY DEF SlaInv
  <2> HIDE DEF target
  <2> QED
    BY <1>6, <2>1, <2>2
<1>9. CASE CountTotal
  <2> DEFINE ds == CountedDays
             t == Totals(ds)
             d == Downs(ds)
  <2>1. t \in Nat /\ d \in Nat
    BY CountsAreNumbers DEF SlaInv
  <2>2. /\ board.pc = "total" /\ board' = [board EXCEPT !.pc = "down", !.total = board.total + t]
        /\ truth' = [total |-> truth.total + t, down |-> truth.down + d] /\ UNCHANGED <<checks, rule, verdict>>
    BY <1>9 DEF CountTotal
  <2>3. CountedDays' = ds
    <3> HIDE DEF t
    <3>1. board'.view = board.view /\ board'.day = board.day
      BY <1>0, <2>2 DEF SlaInv
    <3> QED
      BY <3>1 DEF CountedDays
  <2>4. Downs(CountedDays)' = d
    BY <2>2, <2>3 DEF Downs
  <2> HIDE DEF t, d, ds
  <2>5. /\ DOMAIN board' = DOMAIN NotReading /\ board'.pc = "down" /\ board'.total = board.total + t
        /\ board'.down = board.down /\ board'.target = board.target
    BY <1>0, <2>2 DEF SlaInv
  <2>6. truth'.total = truth.total + t /\ truth'.down = truth.down + d
    BY <2>2
  <2>7. (DOMAIN NotReading)' = DOMAIN NotReading
    BY DEF NotReading
  <2>8. /\ board'.total \in Nat /\ board'.down \in Nat /\ board'.target \in Nat /\ truth'.total \in Nat
        /\ truth'.down \in Nat /\ truth'.total = board'.total /\ truth'.down <= board'.down + d
    BY <2>1, <2>2, <2>5, <2>6 DEF SlaInv
  <2> QED
    BY <2>2, <2>4, <2>5, <2>7, <2>8 DEF SlaInv, MetIsTrue
<1>10. CASE CountDown
  <2> DEFINE down == board.down + Downs(CountedDays)
  <2>1. down \in Nat /\ board.pc = "down" /\ truth.down <= down /\ truth.total = board.total
        /\ UNCHANGED <<checks, rule, truth>>
    BY <1>10, CountsAreNumbers DEF SlaInv, CountDown
  <2>2. (DOMAIN NotReading)' = DOMAIN NotReading
    BY DEF NotReading
  <2>3. CASE board.view = "report" /\ board.day < board.end
    <3>1. board' = [board EXCEPT !.pc = "total", !.down = down, !.day = board.day + 1] /\ verdict' = verdict
      BY <1>10, <2>3 DEF CountDown
    <3> HIDE DEF down
    <3>2. /\ DOMAIN board' = DOMAIN NotReading /\ board'.pc = "total" /\ board'.total = board.total
          /\ board'.down = down /\ board'.target = board.target
      BY <1>0, <3>1 DEF SlaInv
    <3> QED
      BY <2>1, <2>2, <3>2 DEF SlaInv, MetIsTrue
  <2>4. CASE ~(board.view = "report" /\ board.day < board.end)
    <3>1. board' = NotReading
          /\ verdict' = [met |-> IsMet([total |-> board.total, down |-> down], board.target),
                         target |-> board.target]
      BY <1>10, <2>4 DEF CountDown
    <3>2. board'.pc = "idle" /\ board'.total = 0 /\ board'.down = 0 /\ board'.target = 0
          /\ DOMAIN board' = DOMAIN NotReading
      BY <3>1 DEF NotReading
    <3> HIDE DEF down
    <3>3. ASSUME verdict'.met PROVE IsMet(truth, verdict'.target)
      <4>1. IsMet([total |-> board.total, down |-> down], board.target) /\ verdict'.target = board.target
        BY <3>1, <3>3
      <4>2. IsMet([total |-> board.total, down |-> truth.down], board.target)
        BY <2>1, <4>1, FewerFailuresStillMet DEF SlaInv
      <4> QED
        BY <2>1, <4>1, <4>2 DEF IsMet, Percent
    <3>4. MetIsTrue'
      BY <2>1, <3>3 DEF MetIsTrue, IsMet, Percent
    <3> QED
      BY <2>1, <2>2, <3>2, <3>4 DEF SlaInv
  <2> QED
    BY <2>3, <2>4
<1> QED
  BY <1>1, <1>2, <1>3, <1>4, <1>5, <1>7, <1>8, <1>9, <1>10 DEF SlaNext

\* Agents report checks of any day and days pass between the two counts of a
\* percentage: still a service that is declared within its target was so by what
\* was stored when the total of its window, or of each day, was taken.
THEOREM ServicesDeclaredMetWere == SlaSpec => []MetIsTrue
<1>1. SlaInit => SlaInv
  BY FS_EmptySet DEF SlaInit, SlaInv, NotReading, NoCount, MetIsTrue
<1>2. SlaInv => MetIsTrue
  BY DEF SlaInv
<1> QED
  BY <1>1, <1>2, SlaNextInv, PTL DEF SlaSpec

-----------------------------------------------------------------------------
(* The health score.  No penalty shrinks as its count grows or as what     *)
(* could have a problem gets fewer (the lemmas), but that for alerts is    *)
(* one of two counts: it needs the order in which they are read.  The      *)
(* invariant says of each count that is read that it lies between the one  *)
(* with which the reading began and the one there is now.                  *)

LEMMA RoundedGrows ==
    ASSUME NEW a \in Nat, NEW b \in Nat, NEW n \in Nat \ {0}, a <= b
    PROVE  Rounded(a, n) \in Nat /\ Rounded(b, n) \in Nat /\ Rounded(a, n) <= Rounded(b, n)
<1> DEFINE p == a \div n
           q == b \div n
           r == a % n
           s == b % n
           up == 2 * r > n \/ (2 * r = n /\ p % 2 = 1)
           vp == 2 * s > n \/ (2 * s = n /\ q % 2 = 1)
<1>1. p \in Nat /\ q \in Nat /\ a = n * p + r /\ b = n * q + s /\ r \in 0 .. n - 1 /\ s \in 0 .. n - 1
  OBVIOUS
<1>2. p <= q
  BY QuotientGrows
<1>3. Rounded(a, n) = (IF up THEN p + 1 ELSE p) /\ Rounded(b, n) = (IF vp THEN q + 1 ELSE q)
  BY DEF Rounded
<1>4. p = q => r <= s
  BY <1>1
<1>5. p = q /\ up => vp
  BY <1>1, <1>4
<1> HIDE DEF p, q, up, vp
<1> QED
  BY <1>1, <1>2, <1>3, <1>5

LEMMA LeastMostGrow ==
    ASSUME NEW a \in Nat, NEW b \in Nat, a <= b, NEW m \in Nat, NEW l \in Nat
    PROVE  /\ Least(m, Most(l, a)) \in Nat /\ Least(m, Most(l, b)) \in Nat
           /\ Least(m, Most(l, a)) <= Least(m, Most(l, b))
  BY DEF Least, Most

\* Of the same number, a larger part comes out when there are fewer in all.
LEMMA QuotientFalls ==
    ASSUME NEW x \in Nat, NEW m \in Nat \ {0}, NEW n \in Nat \ {0}, n <= m
    PROVE  x \div m <= x \div n
<1> DEFINE p == x \div m
           r == x % m
           y == n * p
<1>1. p \in Nat /\ r \in 0 .. m - 1 /\ x = m * p + r
  OBVIOUS
<1>2. PICK d \in Nat : m = n + d
  <2>1. m - n \in Nat /\ m = n + (m - n)
    OBVIOUS
  <2> QED
    BY <2>1
<1>3. m * p = n * p + d * p /\ d * p \in Nat /\ y \in Nat
  BY <1>1, <1>2
<1>4. y <= x
  BY <1>1, <1>3
<1>5. y \div n = p
  BY <1>1
<1> HIDE DEF y
<1>6. y \div n <= x \div n
  BY <1>3, <1>4, QuotientGrows
<1> QED
  BY <1>5, <1>6

LEMMA RoundedFalls ==
    ASSUME NEW x \in Nat, NEW m \in Nat \ {0}, NEW n \in Nat \ {0}, n <= m
    PROVE  Rounded(x, m) \in Nat /\ Rounded(x, n) \in Nat /\ Rounded(x, m) <= Rounded(x, n)
<1> DEFINE p == x \div m
           q == x \div n
           r == x % m
           s == x % n
           up == 2 * r > m \/ (2 * r = m /\ p % 2 = 1)
           vp == 2 * s > n \/ (2 * s = n /\ q % 2 = 1)
           u == m * p
           v == n * q
<1>1. p \in Nat /\ q \in Nat /\ x = u + r /\ x = v + s /\ r \in 0 .. m - 1 /\ s \in 0 .. n - 1
      /\ u \in Nat /\ v \in Nat
  OBVIOUS
<1>2. p <= q
  BY QuotientFalls
<1>3. Rounded(x, m) = (IF up THEN p + 1 ELSE p) /\ Rounded(x, n) = (IF vp THEN q + 1 ELSE q)
  BY DEF Rounded
<1>4. p = q => v <= u
  <2> SUFFICES ASSUME p = q PROVE v <= u
    OBVIOUS
  <2>1. PICK d \in Nat : m = n + d
    <3>1. m - n \in Nat /\ m = n + (m - n)
      OBVIOUS
    <3> QED
      BY <3>1
  <2> HIDE DEF p, q
  <2>2. m * p = n * p + d * p /\ d * p \in Nat /\ n * p \in Nat
    BY <1>1, <2>1
  <2> DEFINE w == n * p
             z == d * p
  <2>3. u = w + z /\ v = w /\ z \in Nat /\ w \in Nat
    BY <2>2
  <2> HIDE DEF u, v, w, z
  <2> QED
    BY <2>3
<1> HIDE DEF u, v
<1>5. p = q => r <= s
  BY <1>1, <1>4
<1>6. p = q /\ up => vp
  BY <1>1, <1>5
<1> HIDE DEF p, q, up, vp
<1> QED
  BY <1>1, <1>2, <1>3, <1>6

\* More problems, or fewer things that could have one.
LEMMA RatioGrows ==
    ASSUME NEW a \in Nat, NEW b \in Nat, a <= b, NEW m \in Nat, NEW n \in Nat, n <= m, b <= n,
           NEW points \in Nat, NEW atLeast \in Nat
    PROVE  /\ RatioPenalty(a, m, points, atLeast) \in Nat /\ RatioPenalty(b, n, points, atLeast) \in Nat
           /\ RatioPenalty(a, m, points, atLeast) <= RatioPenalty(b, n, points, atLeast)
<1> DEFINE x == a * points
           y == b * points
           k == RatioPenalty(a, m, points, atLeast)
           l == RatioPenalty(b, n, points, atLeast)
<1>1. x \in Nat /\ y \in Nat /\ x <= y
  <2>1. PICK d \in Nat : b = a + d
    <3>1. b - a \in Nat /\ b = a + (b - a)
      OBVIOUS
    <3> QED
      BY <3>1
  <2>2. y = x + d * points /\ d * points \in Nat /\ x \in Nat
    BY <2>1
  <2> DEFINE z == d * points
  <2> HIDE DEF x, y, z
  <2> QED
    BY <2>2 DEF z
<1>2. CASE b = 0
  BY <1>2 DEF RatioPenalty
<1>3. CASE b # 0
  <2>1. m \in Nat \ {0} /\ n \in Nat \ {0}
    BY <1>3
  <2>2. /\ k = IF a = 0 THEN 0 ELSE Least(points, Most(atLeast, Rounded(x, m)))
        /\ l = Least(points, Most(atLeast, Rounded(y, n)))
    BY <1>3, <2>1 DEF RatioPenalty
  <2> HIDE DEF x, y, k, l
  <2>3. /\ Rounded(x, m) \in Nat /\ Rounded(x, n) \in Nat /\ Rounded(y, n) \in Nat
        /\ Rounded(x, m) <= Rounded(x, n) /\ Rounded(x, n) <= Rounded(y, n)
    BY <1>1, <2>1, RoundedGrows, RoundedFalls
  <2>4. Rounded(x, m) <= Rounded(y, n)
    BY <2>3
  <2>5. /\ Least(points, Most(atLeast, Rounded(x, m))) \in Nat /\ Least(points, Most(atLeast, Rounded(y, n))) \in Nat
        /\ Least(points, Most(atLeast, Rounded(x, m))) <= Least(points, Most(atLeast, Rounded(y, n)))
    BY <2>3, <2>4, LeastMostGrow
  <2>6. k \in Nat /\ l \in Nat /\ k <= l
    BY <2>2, <2>5
  <2> QED
    BY <2>6 DEF k, l
<1> QED
  BY <1>2, <1>3

LEMMA ResourceGrows ==
    ASSUME NEW a \in Nat, NEW b \in Nat, a <= b, NEW points \in Nat,
           NEW warning \in Nat, NEW high \in Nat, NEW critical \in Nat, warning <= high, high <= critical
    PROVE  /\ ResourcePenalty(a, warning, high, critical, points) \in Nat
           /\ ResourcePenalty(b, warning, high, critical, points) \in Nat
           /\ ResourcePenalty(a, warning, high, critical, points)
                <= ResourcePenalty(b, warning, high, critical, points)
<1> DEFINE raw(u) == IF u <= 10 * high THEN 2 * (u - 10 * warning)
                     ELSE IF u <= 10 * critical THEN 20 * (high - warning) + 5 * (u - 10 * high)
                     ELSE 20 * (high - warning) + 50 * (critical - high) + 9 * (u - 10 * critical)
           low == 10 * warning
           pen(u) == ResourcePenalty(u, warning, high, critical, points)
<1>1. \A u \in Nat : pen(u) = IF u <= low THEN 0 ELSE Least(points, Most(1, Rounded(raw(u), 100)))
  BY DEF ResourcePenalty
<1>2. \A u \in Nat : u > low => raw(u) \in Nat
  OBVIOUS
<1>3. a > low => raw(a) <= raw(b)
  OBVIOUS
<1> HIDE DEF raw
<1>4. ASSUME NEW u \in Nat PROVE pen(u) \in Nat
  <2>1. CASE u <= low
    BY <1>1, <2>1
  <2>2. CASE ~(u <= low)
    <3>1. raw(u) \in Nat /\ raw(u) <= raw(u)
      BY <1>2, <2>2
    <3>2. Rounded(raw(u), 100) \in Nat /\ Rounded(raw(u), 100) <= Rounded(raw(u), 100)
      BY <3>1, RoundedGrows
    <3>3. Least(points, Most(1, Rounded(raw(u), 100))) \in Nat
      BY <3>2, LeastMostGrow
    <3> QED
      BY <1>1, <2>2, <3>3
  <2> QED
    BY <2>1, <2>2
<1>5. CASE a <= low
  <2>1. pen(a) = 0 /\ pen(b) \in Nat
    BY <1>1, <1>4, <1>5
  <2> HIDE DEF pen
  <2> QED
    BY <2>1 DEF pen
<1>6. CASE ~(a <= low)
  <2>1. a > low /\ b > low
    BY <1>6
  <2>2. raw(a) \in Nat /\ raw(b) \in Nat /\ raw(a) <= raw(b)
    BY <1>2, <1>3, <2>1
  <2>3. Rounded(raw(a), 100) \in Nat /\ Rounded(raw(b), 100) \in Nat
        /\ Rounded(raw(a), 100) <= Rounded(raw(b), 100)
    BY <2>2, RoundedGrows
  <2>4. Least(points, Most(1, Rounded(raw(a), 100))) <= Least(points, Most(1, Rounded(raw(b), 100)))
    BY <2>3, LeastMostGrow
  <2>5. pen(a) <= pen(b)
    BY <1>1, <1>6, <2>1, <2>4
  <2> QED
    BY <1>4, <2>5
<1> QED
  BY <1>5, <1>6

CpuPenalty(u) == ResourcePenalty(u, 60, 75, 90, 16)
MemoryPenalty(u) == ResourcePenalty(u, 65, 80, 92, 18)
DiskPenalty(u) == ResourcePenalty(u, 70, 85, 95, 14)

LEMMA UsageGrows ==
    ASSUME NEW a \in Nat, NEW b \in Nat, a <= b
    PROVE  /\ CpuPenalty(a) \in Nat /\ CpuPenalty(b) \in Nat /\ CpuPenalty(a) <= CpuPenalty(b)
           /\ MemoryPenalty(a) \in Nat /\ MemoryPenalty(b) \in Nat /\ MemoryPenalty(a) <= MemoryPenalty(b)
           /\ DiskPenalty(a) \in Nat /\ DiskPenalty(b) \in Nat /\ DiskPenalty(a) <= DiskPenalty(b)
<1>1. CpuPenalty(a) \in Nat /\ CpuPenalty(b) \in Nat /\ CpuPenalty(a) <= CpuPenalty(b)
  <2>1. PICK w, h, k, m : w = 60 /\ h = 75 /\ k = 90 /\ m = 16
    OBVIOUS
  <2>2. w \in Nat /\ h \in Nat /\ k \in Nat /\ m \in Nat /\ w <= h /\ h <= k
    BY <2>1
  <2>3. /\ ResourcePenalty(a, w, h, k, m) \in Nat /\ ResourcePenalty(b, w, h, k, m) \in Nat
        /\ ResourcePenalty(a, w, h, k, m) <= ResourcePenalty(b, w, h, k, m)
    BY <2>2, ResourceGrows
  <2> QED
    BY <2>1, <2>3 DEF CpuPenalty
<1>2. MemoryPenalty(a) \in Nat /\ MemoryPenalty(b) \in Nat /\ MemoryPenalty(a) <= MemoryPenalty(b)
  <2>1. PICK w, h, k, m : w = 65 /\ h = 80 /\ k = 92 /\ m = 18
    OBVIOUS
  <2>2. w \in Nat /\ h \in Nat /\ k \in Nat /\ m \in Nat /\ w <= h /\ h <= k
    BY <2>1
  <2>3. /\ ResourcePenalty(a, w, h, k, m) \in Nat /\ ResourcePenalty(b, w, h, k, m) \in Nat
        /\ ResourcePenalty(a, w, h, k, m) <= ResourcePenalty(b, w, h, k, m)
    BY <2>2, ResourceGrows
  <2> QED
    BY <2>1, <2>3 DEF MemoryPenalty
<1>3. DiskPenalty(a) \in Nat /\ DiskPenalty(b) \in Nat /\ DiskPenalty(a) <= DiskPenalty(b)
  <2>1. PICK w, h, k, m : w = 70 /\ h = 85 /\ k = 95 /\ m = 14
    OBVIOUS
  <2>2. w \in Nat /\ h \in Nat /\ k \in Nat /\ m \in Nat /\ w <= h /\ h <= k
    BY <2>1
  <2>3. /\ ResourcePenalty(a, w, h, k, m) \in Nat /\ ResourcePenalty(b, w, h, k, m) \in Nat
        /\ ResourcePenalty(a, w, h, k, m) <= ResourcePenalty(b, w, h, k, m)
    BY <2>2, ResourceGrows
  <2> QED
    BY <2>1, <2>3 DEF DiskPenalty
<1> QED
  BY <1>1, <1>2, <1>3

LEMMA ErrorsGrow ==
    ASSUME NEW a \in Nat, NEW b \in Nat, a <= b
    PROVE  ErrorPenalty(a) \in Nat /\ ErrorPenalty(b) \in Nat /\ ErrorPenalty(a) <= ErrorPenalty(b)
<1> DEFINE p == (a + 9) \div 10
           q == (b + 9) \div 10
<1>1. p \in Nat /\ q \in Nat /\ p <= q
  OBVIOUS
<1>2. ErrorPenalty(a) = (IF a = 0 THEN 0 ELSE Least(12, 2 + 2 * p))
      /\ ErrorPenalty(b) = (IF b = 0 THEN 0 ELSE Least(12, 2 + 2 * q))
  BY DEF ErrorPenalty
<1> HIDE DEF p, q
<1> QED
  BY <1>1, <1>2 DEF Least

LEMMA AlertsCost == ASSUME NEW f \in Nat, NEW a \in Nat PROVE AlertPenalty(f, a) \in Nat
  BY DEF AlertPenalty, Least

\* With at most one acknowledged alert, and the firing ones counted first.
LEMMA AlertsGrow ==
    ASSUME NEW f \in Nat, NEW g \in Nat, NEW h \in Nat, NEW p \in {0, 1}, NEW q \in {0, 1}, NEW a \in Nat,
           p <= q, f <= g, g <= h, g + p <= a, a <= h + q
    PROVE  /\ AlertPenalty(f, f + p) <= AlertPenalty(g, a)
           /\ AlertPenalty(g, a) <= AlertPenalty(h, h + q)
  BY DEF AlertPenalty, Least

LEMMA CountFields ==
    ASSUME NEW c \in Counts
    PROVE  /\ c.hosts \in Nat /\ c.online \in Nat /\ c.services \in Nat /\ c.down \in Nat
           /\ c.firing \in Nat /\ c.active \in Nat /\ c.errors \in Nat
           /\ c.cpu \in Nat /\ c.memory \in Nat /\ c.disk \in Nat /\ c.metered \in BOOLEAN
           /\ DOMAIN c = {"hosts", "online", "services", "down", "firing", "active", "errors",
                          "cpu", "memory", "disk", "metered"}
  BY DEF Counts

LEMMA CountNumbers ==
    ASSUME NEW c \in Counts
    PROVE  /\ Offline(c) \in Int /\ Offline(c) <= c.hosts
           /\ Most(c.cpu, 600) \in Nat /\ Most(c.memory, 650) \in Nat /\ Most(c.disk, 700) \in Nat
<1>1. c.hosts \in Nat /\ c.online \in Nat /\ c.cpu \in Nat /\ c.memory \in Nat /\ c.disk \in Nat
  BY CountFields
<1> QED
  BY <1>1 DEF Offline, Most

\* Usage below the first threshold costs what the threshold does: nothing.
LEMMA UsageFromThreshold ==
    ASSUME NEW u \in Nat
    PROVE  /\ CpuPenalty(u) = CpuPenalty(Most(u, 600)) /\ MemoryPenalty(u) = MemoryPenalty(Most(u, 650))
           /\ DiskPenalty(u) = DiskPenalty(Most(u, 700))
<1>1. CpuPenalty(u) = CpuPenalty(Most(u, 600))
  <2>1. CASE u > 600
    BY <2>1 DEF Most
  <2>2. CASE ~(u > 600)
    BY <2>2 DEF Most, CpuPenalty, ResourcePenalty
  <2> QED
    BY <2>1, <2>2
<1>2. MemoryPenalty(u) = MemoryPenalty(Most(u, 650))
  <2>1. CASE u > 650
    BY <2>1 DEF Most
  <2>2. CASE ~(u > 650)
    BY <2>2 DEF Most, MemoryPenalty, ResourcePenalty
  <2> QED
    BY <2>1, <2>2
<1>3. DiskPenalty(u) = DiskPenalty(Most(u, 700))
  <2>1. CASE u > 700
    BY <2>1 DEF Most
  <2>2. CASE ~(u > 700)
    BY <2>2 DEF Most, DiskPenalty, ResourcePenalty
  <2> QED
    BY <2>1, <2>2
<1> QED
  BY <1>1, <1>2, <1>3

\* All that the score is made of but the alerts.
Milder(c, d) ==
    /\ d.hosts <= c.hosts /\ (c.hosts > 0 => d.hosts > 0)
    /\ Offline(c) \in Nat /\ Offline(c) <= Offline(d)
    /\ d.services <= c.services /\ c.down <= d.down /\ d.down <= d.services
    /\ c.errors <= d.errors
    /\ Most(c.cpu, 600) <= Most(d.cpu, 600) /\ Most(c.memory, 650) <= Most(d.memory, 650)
    /\ Most(c.disk, 700) <= Most(d.disk, 700) /\ (d.metered => c.metered)

LEMMA ScoreFalls ==
    ASSUME NEW c \in Counts, NEW d \in Counts, Milder(c, d),
           AlertPenalty(c.firing, c.active) <= AlertPenalty(d.firing, d.active)
    PROVE  Score(d) <= Score(c)
<1>1. /\ c.hosts \in Nat /\ c.services \in Nat /\ c.down \in Nat /\ c.firing \in Nat /\ c.active \in Nat
      /\ c.errors \in Nat /\ c.cpu \in Nat /\ c.memory \in Nat /\ c.disk \in Nat
  BY CountFields
<1>2. /\ d.hosts \in Nat /\ d.services \in Nat /\ d.down \in Nat /\ d.firing \in Nat /\ d.active \in Nat
      /\ d.errors \in Nat /\ d.cpu \in Nat /\ d.memory \in Nat /\ d.disk \in Nat
  BY CountFields
<1> DEFINE b(k) == Breakdown(c)[k]
           e(k) == Breakdown(d)[k]
<1>3. b(1) \in Nat /\ e(1) \in Nat /\ b(1) <= e(1)
  <2>1. /\ Offline(c) \in Nat /\ Offline(d) \in Nat /\ Offline(c) <= Offline(d) /\ d.hosts <= c.hosts
        /\ Offline(d) <= d.hosts
    BY CountNumbers DEF Milder
  <2>2. PICK points, atLeast : points = 30 /\ atLeast = 8
    OBVIOUS
  <2>3. b(1) = RatioPenalty(Offline(c), c.hosts, points, atLeast)
        /\ e(1) = RatioPenalty(Offline(d), d.hosts, points, atLeast)
    BY <2>2 DEF Breakdown
  <2>4. points \in Nat /\ atLeast \in Nat
    BY <2>2
  <2> HIDE DEF b, e
  <2>5. /\ RatioPenalty(Offline(c), c.hosts, points, atLeast) \in Nat /\ RatioPenalty(Offline(d), d.hosts, points, atLeast) \in Nat
        /\ RatioPenalty(Offline(c), c.hosts, points, atLeast) <= RatioPenalty(Offline(d), d.hosts, points, atLeast)
    BY <1>1, <1>2, <2>1, <2>4, RatioGrows
  <2> QED
    BY <2>3, <2>5
<1>4. b(2) \in Nat /\ e(2) \in Nat /\ b(2) <= e(2)
  <2>1. d.services <= c.services /\ c.down <= d.down /\ d.down <= d.services
    BY DEF Milder
  <2>2. PICK points, atLeast : points = 24 /\ atLeast = 6
    OBVIOUS
  <2>3. b(2) = RatioPenalty(c.down, c.services, points, atLeast)
        /\ e(2) = RatioPenalty(d.down, d.services, points, atLeast)
    BY <2>2 DEF Breakdown
  <2>4. points \in Nat /\ atLeast \in Nat
    BY <2>2
  <2> HIDE DEF b, e
  <2>5. /\ RatioPenalty(c.down, c.services, points, atLeast) \in Nat /\ RatioPenalty(d.down, d.services, points, atLeast) \in Nat
        /\ RatioPenalty(c.down, c.services, points, atLeast) <= RatioPenalty(d.down, d.services, points, atLeast)
    BY <1>1, <1>2, <2>1, <2>4, RatioGrows
  <2> QED
    BY <2>3, <2>5
<1>5. b(3) \in Nat /\ e(3) \in Nat /\ b(3) <= e(3)
  BY <1>1, <1>2, AlertsCost DEF Breakdown
<1>6. b(4) \in Nat /\ e(4) \in Nat /\ b(4) <= e(4)
  <2>1. c.errors <= d.errors
    BY DEF Milder
  <2> QED
    BY <1>1, <1>2, <2>1, ErrorsGrow DEF Breakdown
<1>7. /\ b(5) \in Nat /\ e(5) \in Nat /\ b(5) <= e(5)
      /\ b(6) \in Nat /\ e(6) \in Nat /\ b(6) <= e(6)
      /\ b(7) \in Nat /\ e(7) \in Nat /\ b(7) <= e(7)
  <2>1. /\ b(5) = CpuPenalty(c.cpu) /\ e(5) = CpuPenalty(d.cpu)
        /\ b(6) = MemoryPenalty(c.memory) /\ e(6) = MemoryPenalty(d.memory)
        /\ b(7) = DiskPenalty(c.disk) /\ e(7) = DiskPenalty(d.disk)
    BY DEF Breakdown, CpuPenalty, MemoryPenalty, DiskPenalty
  <2> HIDE DEF b, e
  <2>2. /\ b(5) = CpuPenalty(Most(c.cpu, 600)) /\ e(5) = CpuPenalty(Most(d.cpu, 600))
        /\ b(6) = MemoryPenalty(Most(c.memory, 650)) /\ e(6) = MemoryPenalty(Most(d.memory, 650))
        /\ b(7) = DiskPenalty(Most(c.disk, 700)) /\ e(7) = DiskPenalty(Most(d.disk, 700))
    BY <1>1, <1>2, <2>1, UsageFromThreshold
  <2>3. /\ Most(c.cpu, 600) <= Most(d.cpu, 600) /\ Most(c.memory, 650) <= Most(d.memory, 650)
        /\ Most(c.disk, 700) <= Most(d.disk, 700)
    BY DEF Milder
  <2> QED
    BY <2>2, <2>3, CountNumbers, UsageGrows
<1>8. b(8) \in Nat /\ e(8) \in Nat /\ b(8) <= e(8)
  BY <1>1, <1>2 DEF Breakdown, SilencePenalty, Milder
<1>9. /\ Score(c) = Most(0, 100 - (b(1) + b(2) + b(3) + b(4) + b(5) + b(6) + b(7) + b(8)))
      /\ Score(d) = Most(0, 100 - (e(1) + e(2) + e(3) + e(4) + e(5) + e(6) + e(7) + e(8)))
  BY DEF Score
<1> HIDE DEF b, e
<1> QED
  BY <1>3, <1>4, <1>5, <1>6, <1>7, <1>8, <1>9 DEF Most

\* What is read lies between the counts the reading began with (b) and those
\* now (n). The two counts of hosts are those of one moment, and each new alert
\* is among the firing ones first: none is counted there that is not among the
\* active ones read after them.
ReadBetween(b, s, n, at) ==
    /\ NoBetter(b, n)
    /\ at \in {"online", "services", "down", "firing", "active", "errors", "usage", "send"} =>
         /\ n.hosts <= s.hosts /\ s.hosts <= b.hosts
         /\ (b.hosts > 0 => s.hosts > 0) /\ (s.hosts > 0 => n.hosts > 0)
    /\ at = "online" => s.hosts = n.hosts
    /\ at \in {"services", "down", "firing", "active", "errors", "usage", "send"} =>
         Offline(b) <= Offline(s) /\ Offline(s) <= Offline(n)
    /\ at \in {"down", "firing", "active", "errors", "usage", "send"} =>
         n.services <= s.services /\ s.services <= b.services
    /\ at \in {"firing", "active", "errors", "usage", "send"} => b.down <= s.down /\ s.down <= n.down
    /\ at \in {"active", "errors", "usage", "send"} => b.firing <= s.firing /\ s.firing <= n.firing
    /\ at \in {"errors", "usage", "send"} =>
         b.active - b.firing <= s.active - s.firing /\ s.active <= n.active
    /\ at \in {"usage", "send"} => b.errors <= s.errors /\ s.errors <= n.errors
    /\ at = "send" =>
         /\ Most(b.cpu, 600) <= Most(s.cpu, 600) /\ Most(s.cpu, 600) <= Most(n.cpu, 600)
         /\ Most(b.memory, 650) <= Most(s.memory, 650) /\ Most(s.memory, 650) <= Most(n.memory, 650)
         /\ Most(b.disk, 700) <= Most(s.disk, 700) /\ Most(s.disk, 700) <= Most(n.disk, 700)
         /\ (s.metered => b.metered) /\ (n.metered => s.metered)

Reading == {"hosts", "online", "services", "down", "firing", "active", "errors", "usage"}

HealthInv ==
    /\ now \in Counts /\ seen \in Counts /\ began \in Counts /\ Sound(now) /\ Sound(began)
    /\ stage \in Reading \cup {"sleep", "send", "closed"}
    /\ ~better /\ ~torn /\ stage \in Reading \cup {"send"} => ReadBetween(began, seen, now, stage)

\* Counts that got no better leave what was read between.
LEMMA MoreFollows ==
    ASSUME NEW b \in Counts, NEW s \in Counts, NEW n \in Counts, NEW m \in Counts, NEW at,
           ReadBetween(b, s, n, at), NoBetter(n, m), at = "online" => m.hosts = n.hosts
    PROVE  ReadBetween(b, s, m, at)
<1>1. /\ b.hosts \in Nat /\ b.services \in Nat /\ b.down \in Nat /\ b.firing \in Nat /\ b.active \in Nat
      /\ b.errors \in Nat /\ Offline(b) \in Int /\ Most(b.cpu, 600) \in Nat /\ Most(b.memory, 650) \in Nat
      /\ Most(b.disk, 700) \in Nat
  BY CountFields, CountNumbers
<1>2. /\ s.hosts \in Nat /\ s.services \in Nat /\ s.down \in Nat /\ s.firing \in Nat /\ s.active \in Nat
      /\ s.errors \in Nat /\ Offline(s) \in Int /\ Most(s.cpu, 600) \in Nat /\ Most(s.memory, 650) \in Nat
      /\ Most(s.disk, 700) \in Nat
  BY CountFields, CountNumbers
<1>3. /\ n.hosts \in Nat /\ n.services \in Nat /\ n.down \in Nat /\ n.firing \in Nat /\ n.active \in Nat
      /\ n.errors \in Nat /\ Offline(n) \in Int /\ Most(n.cpu, 600) \in Nat /\ Most(n.memory, 650) \in Nat
      /\ Most(n.disk, 700) \in Nat
  BY CountFields, CountNumbers
<1>4. /\ m.hosts \in Nat /\ m.services \in Nat /\ m.down \in Nat /\ m.firing \in Nat /\ m.active \in Nat
      /\ m.errors \in Nat /\ Offline(m) \in Int /\ Most(m.cpu, 600) \in Nat /\ Most(m.memory, 650) \in Nat
      /\ Most(m.disk, 700) \in Nat
  BY CountFields, CountNumbers
<1>5. NoBetter(b, m)
  <2>1. NoBetter(b, n)
    BY DEF ReadBetween
  <2> QED
    BY <1>1, <1>3, <1>4, <2>1 DEF NoBetter
<1>6. n.active <= m.active
  BY <1>3, <1>4 DEF NoBetter
<1> QED
  BY <1>1, <1>2, <1>3, <1>4, <1>5, <1>6 DEF ReadBetween, NoBetter

ReadAt(s, n, at) ==
    IF at = "usage" THEN [s EXCEPT !.cpu = n.cpu, !.memory = n.memory, !.disk = n.disk, !.metered = n.metered]
    ELSE [s EXCEPT ![at] = n[at]]

LEMMA ReadCounts ==
    ASSUME NEW s \in Counts, NEW n \in Counts, NEW at \in Reading PROVE ReadAt(s, n, at) \in Counts
<1>1. /\ n.hosts \in Nat /\ n.online \in Nat /\ n.services \in Nat /\ n.down \in Nat /\ n.firing \in Nat
      /\ n.active \in Nat /\ n.errors \in Nat /\ n.cpu \in Nat /\ n.memory \in Nat /\ n.disk \in Nat
      /\ n.metered \in BOOLEAN
  BY CountFields
<1>2. CASE at = "usage"
  BY <1>1, <1>2 DEF ReadAt, Counts
<1>3. CASE at \in {"hosts", "online", "services", "down", "firing", "active", "errors"}
  BY <1>1, <1>3 DEF ReadAt, Counts
<1> QED
  BY <1>2, <1>3 DEF Reading

\* A count is read: it lies between itself and itself.
LEMMA ReadFollows ==
    ASSUME NEW b \in Counts, NEW s \in Counts, NEW n \in Counts, NEW at \in Reading, ReadBetween(b, s, n, at)
    PROVE  ReadBetween(b, ReadAt(s, n, at), n, NextStage[at])
<1> DEFINE t == ReadAt(s, n, at)
<1>1. NoBetter(b, n)
  BY DEF ReadBetween
<1>2. /\ n.hosts \in Nat /\ n.online \in Nat /\ n.services \in Nat /\ n.down \in Nat /\ n.firing \in Nat
      /\ n.active \in Nat /\ n.errors \in Nat /\ n.cpu \in Nat /\ n.memory \in Nat /\ n.disk \in Nat
      /\ n.metered \in BOOLEAN
  BY CountFields
<1>3. /\ Offline(n) \in Int /\ Offline(s) = s.hosts - s.online /\ Offline(n) = n.hosts - n.online
      /\ Most(n.cpu, 600) \in Nat /\ Most(n.memory, 650) \in Nat /\ Most(n.disk, 700) \in Nat
  BY CountNumbers DEF Offline
<1>4. DOMAIN s = {"hosts", "online", "services", "down", "firing", "active", "errors",
                  "cpu", "memory", "disk", "metered"}
  BY CountFields
<1>5. CASE at = "hosts"
  <2>1. NextStage[at] = "online" /\ t = [s EXCEPT !.hosts = n.hosts]
    BY <1>5 DEF NextStage, ReadAt
  <2>2. t.hosts = n.hosts
    BY <1>4, <2>1
  <2> HIDE DEF t
  <2>3. ReadBetween(b, t, n, "online")
    BY <1>1, <1>2, <1>5, <2>2 DEF ReadBetween, NoBetter
  <2> QED
    BY <2>1, <2>3 DEF t
<1>6. CASE at = "online"
  <2>1. NextStage[at] = "services" /\ t = [s EXCEPT !.online = n.online]
    BY <1>6 DEF NextStage, ReadAt
  <2>2. t.online = n.online /\ t.hosts = s.hosts
    BY <1>4, <2>1
  <2> HIDE DEF t
  <2>3. Offline(t) = Offline(n)
    BY <1>3, <1>6, <2>2 DEF Offline, ReadBetween
  <2>4. ReadBetween(b, t, n, "services")
    BY <1>1, <1>2, <1>3, <1>6, <2>2, <2>3 DEF ReadBetween, NoBetter
  <2> QED
    BY <2>1, <2>4 DEF t
<1>7. CASE at = "services"
  <2>1. NextStage[at] = "down" /\ t = [s EXCEPT !.services = n.services]
    BY <1>7 DEF NextStage, ReadAt
  <2>2. t.services = n.services /\ t.hosts = s.hosts /\ Offline(t) = Offline(s)
    BY <1>4, <2>1 DEF Offline
  <2> HIDE DEF t
  <2>3. ReadBetween(b, t, n, "down")
    BY <1>1, <1>2, <1>7, <2>2 DEF ReadBetween, NoBetter
  <2> QED
    BY <2>1, <2>3 DEF t
<1>8. CASE at = "down"
  <2>1. NextStage[at] = "firing" /\ t = [s EXCEPT !.down = n.down]
    BY <1>8 DEF NextStage, ReadAt
  <2>2. t.down = n.down /\ t.services = s.services /\ t.hosts = s.hosts /\ Offline(t) = Offline(s)
    BY <1>4, <2>1 DEF Offline
  <2> HIDE DEF t
  <2>3. ReadBetween(b, t, n, "firing")
    BY <1>1, <1>2, <1>8, <2>2 DEF ReadBetween, NoBetter
  <2> QED
    BY <2>1, <2>3 DEF t
<1>9. CASE at = "firing"
  <2>1. NextStage[at] = "active" /\ t = [s EXCEPT !.firing = n.firing]
    BY <1>9 DEF NextStage, ReadAt
  <2>2. /\ t.firing = n.firing /\ t.down = s.down /\ t.services = s.services
        /\ t.hosts = s.hosts /\ Offline(t) = Offline(s)
    BY <1>4, <2>1 DEF Offline
  <2> HIDE DEF t
  <2>3. ReadBetween(b, t, n, "active")
    BY <1>1, <1>2, <1>9, <2>2 DEF ReadBetween, NoBetter
  <2> QED
    BY <2>1, <2>3 DEF t
<1>10. CASE at = "active"
  <2>1. NextStage[at] = "errors" /\ t = [s EXCEPT !.active = n.active]
    BY <1>10 DEF NextStage, ReadAt
  <2>2. /\ t.active = n.active /\ t.firing = s.firing /\ t.down = s.down
        /\ t.services = s.services /\ t.hosts = s.hosts /\ Offline(t) = Offline(s)
    BY <1>4, <2>1 DEF Offline
  <2> HIDE DEF t
  <2>3. b.active - b.firing <= n.active - s.firing
    <3>1. b.active - b.firing <= n.active - n.firing /\ s.firing <= n.firing
      BY <1>1, <1>10 DEF ReadBetween, NoBetter
    <3>2. b.active \in Nat /\ b.firing \in Nat /\ s.firing \in Nat
      BY CountFields
    <3> QED
      BY <1>2, <3>1, <3>2
  <2>4. ReadBetween(b, t, n, "errors")
    BY <1>1, <1>2, <1>10, <2>2, <2>3 DEF ReadBetween, NoBetter
  <2> QED
    BY <2>1, <2>4 DEF t
<1>11. CASE at = "errors"
  <2>1. NextStage[at] = "usage" /\ t = [s EXCEPT !.errors = n.errors]
    BY <1>11 DEF NextStage, ReadAt
  <2>2. /\ t.errors = n.errors /\ t.active = s.active /\ t.firing = s.firing /\ t.down = s.down
        /\ t.services = s.services /\ t.hosts = s.hosts /\ Offline(t) = Offline(s)
    BY <1>4, <2>1 DEF Offline
  <2> HIDE DEF t
  <2>3. ReadBetween(b, t, n, "usage")
    BY <1>1, <1>2, <1>11, <2>2 DEF ReadBetween, NoBetter
  <2> QED
    BY <2>1, <2>3 DEF t
<1>12. CASE at = "usage"
  <2>1. /\ NextStage[at] = "send"
        /\ t = [s EXCEPT !.cpu = n.cpu, !.memory = n.memory, !.disk = n.disk, !.metered = n.metered]
    BY <1>12 DEF NextStage, ReadAt
  <2>2. /\ t.cpu = n.cpu /\ t.memory = n.memory /\ t.disk = n.disk /\ t.metered = n.metered
        /\ t.errors = s.errors /\ t.active = s.active /\ t.firing = s.firing /\ t.down = s.down
        /\ t.services = s.services /\ t.hosts = s.hosts /\ Offline(t) = Offline(s)
    BY <1>4, <2>1 DEF Offline
  <2> HIDE DEF t
  <2>3. /\ Most(n.cpu, 600) <= Most(n.cpu, 600) /\ Most(n.memory, 650) <= Most(n.memory, 650)
        /\ Most(n.disk, 700) <= Most(n.disk, 700)
    BY <1>3
  <2>4. ReadBetween(b, t, n, "send")
    BY <1>1, <1>2, <1>12, <2>2, <2>3 DEF ReadBetween, NoBetter
  <2> QED
    BY <2>1, <2>4 DEF t
<1> QED
  BY <1>5, <1>6, <1>7, <1>8, <1>9, <1>10, <1>11, <1>12 DEF Reading

LEMMA NoBetterThanItself == ASSUME NEW c \in Counts PROVE NoBetter(c, c)
<1>1. /\ c.hosts \in Nat /\ c.services \in Nat /\ c.down \in Nat /\ c.firing \in Nat /\ c.active \in Nat
      /\ c.errors \in Nat
  BY CountFields
<1> QED
  BY <1>1, CountNumbers DEF NoBetter

LEMMA HealthNextInv == HealthInv /\ [HealthNext]_healthVars => HealthInv'
<1> SUFFICES ASSUME HealthInv, [HealthNext]_healthVars PROVE HealthInv'
  OBVIOUS
<1>0. now \in Counts /\ seen \in Counts /\ began \in Counts /\ Sound(now) /\ Sound(began)
  BY DEF HealthInv
<1>a. Sound(now)' <=> Sound(now')
  BY DEF Sound
<1>b. Sound(began)' <=> Sound(began')
  BY DEF Sound
<1>c. ReadBetween(began, seen, now, stage)' <=> ReadBetween(began', seen', now', stage')
  BY DEF ReadBetween, NoBetter, Offline, Most
<1>1. CASE UNCHANGED <<now, seen, began>> /\ stage' \in {"sleep", "closed"}
  BY <1>0, <1>a, <1>b, <1>1 DEF HealthInv, Reading
<1>2. CASE UNCHANGED healthVars
  BY <1>0, <1>a, <1>b, <1>c, <1>2 DEF HealthInv, healthVars
<1>3. CASE BeginPush
  <2>1. now' = now /\ seen' = now /\ began' = now /\ stage' = "hosts"
    BY <1>3 DEF BeginPush
  <2>2. ReadBetween(now, now, now, "hosts")
    BY <1>0, NoBetterThanItself DEF ReadBetween
  <2> QED
    BY <1>0, <1>a, <1>b, <1>c, <2>1, <2>2 DEF HealthInv, Reading
<1>4. CASE ReadCount
  <2>1. /\ stage \in Reading /\ stage' \in Reading \cup {"send"} /\ stage' = NextStage[stage]
        /\ UNCHANGED <<now, began, better, torn>>
    BY <1>4 DEF ReadCount, NextStage, Reading
  <2>2. seen' = ReadAt(seen, now, stage)
    BY <1>4 DEF ReadCount, ReadAt
  <2>3. seen' \in Counts
    BY <1>0, <2>1, <2>2, ReadCounts
  <2>4. ASSUME ~better, ~torn PROVE ReadBetween(began', seen', now', stage')
    <3>1. ReadBetween(began, seen, now, stage)
      BY <2>1, <2>4 DEF HealthInv
    <3> QED
      BY <1>0, <2>1, <2>2, <3>1, ReadFollows
  <2> QED
    BY <1>0, <1>a, <1>b, <1>c, <2>1, <2>3, <2>4 DEF HealthInv
<1>5. CASE Change
  <2>1. PICK c \in Moves : Sound(c) /\ now' = c
    BY <1>5 DEF Change
  <2>2. c \in Counts
    BY <2>1 DEF Sound
  <2>3. UNCHANGED <<seen, stage, began>>
    BY <1>5 DEF Change
  <2>4. ASSUME ~better', ~torn' PROVE ~better /\ ~torn /\ NoBetter(now, c) /\ (stage = "online" => c.hosts = now.hosts)
    BY <1>5, <2>1, <2>4 DEF Change
  <2>5. ASSUME ~better', ~torn', stage \in Reading \cup {"send"} PROVE ReadBetween(began', seen', now', stage')
    <3>1. ReadBetween(began, seen, now, stage)
      BY <2>4, <2>5 DEF HealthInv
    <3>2. ReadBetween(began, seen, c, stage)
      BY <1>0, <2>2, <2>4, <2>5, <3>1, MoreFollows
    <3> QED
      BY <2>1, <2>3, <3>2
  <2> QED
    BY <1>0, <1>a, <1>b, <1>c, <2>1, <2>2, <2>3, <2>5 DEF HealthInv
<1>6. CASE ReadFails \/ PushScore \/ PushFails \/ Reconnect
  BY <1>1, <1>6 DEF ReadFails, PushScore, PushFails, Reconnect
<1> QED
  BY <1>2, <1>3, <1>4, <1>5, <1>6 DEF HealthNext

\* For all numbers of hosts, services, alerts and errors and any usage, and
\* whatever comes and goes but for a host between the two counts of hosts: a
\* score made of counts read one after the other, while things get worse, lies
\* between those of the beginning and of the end.
THEOREM NoFalseGreen == HealthSpec => []PushedIsBetween
<1>1. HealthInit => HealthInv
  <2> SUFFICES ASSUME HealthInit PROVE HealthInv
    OBVIOUS
  <2>1. PICK offline \in 0 .. 1, alerts \in Alerts, firing \in Alerts, errors \in Errors, usage \in Usages :
          /\ firing <= alerts /\ offline <= HostTotal
          /\ now = [hosts |-> HostTotal, online |-> HostTotal - offline, services |-> ServiceTotal, down |-> 0,
                    firing |-> firing, active |-> alerts, errors |-> errors,
                    cpu |-> usage, memory |-> usage, disk |-> usage, metered |-> TRUE]
    BY DEF HealthInit
  <2>2. /\ alerts \in Nat /\ firing \in Nat /\ errors \in Nat /\ usage \in 0 .. 1000
        /\ HostTotal \in Nat /\ ServiceTotal \in Nat /\ HostTotal - offline \in 0 .. HostTotal
    BY <2>1, HealthAssumption
  <2>3. now \in Counts /\ Sound(now)
    BY <2>1, <2>2 DEF Counts, Sound
  <2> QED
    BY <2>3 DEF HealthInit, HealthInv, Reading
<1>2. HealthInv => PushedIsBetween
  <2> SUFFICES ASSUME HealthInv, stage = "send", ~better, ~torn, ~Crossed(now)
               PROVE  Score(now) <= Score(seen) /\ Score(seen) <= Score(began)
    BY DEF PushedIsBetween
  <2>1. now \in Counts /\ seen \in Counts /\ began \in Counts /\ Sound(now) /\ Sound(began)
    BY DEF HealthInv
  <2>2. ReadBetween(began, seen, now, "send")
    BY DEF HealthInv
  <2>3. /\ began.firing \in Nat /\ began.active \in Nat /\ now.firing \in Nat /\ now.active \in Nat
        /\ seen.firing \in Nat /\ seen.active \in Nat
    BY <2>1, CountFields
  <2>4. /\ began.firing <= seen.firing /\ seen.firing <= now.firing
        /\ began.active - began.firing <= now.active - now.firing
        /\ began.active - began.firing <= seen.active - seen.firing /\ seen.active <= now.active
    BY <2>2 DEF ReadBetween, NoBetter
  <2>5. began.firing <= began.active /\ now.firing <= now.active
    BY <2>1, <2>3 DEF Sound
  <2> DEFINE p == began.active - began.firing
             q == now.active - now.firing
  <2>6. p \in {0, 1} /\ q \in {0, 1} /\ p <= q
    BY <2>3, <2>4, <2>5 DEF Crossed
  <2>7. /\ began.active = began.firing + p /\ now.active = now.firing + q
        /\ seen.firing + p <= seen.active /\ seen.active <= now.firing + q
    BY <2>3, <2>4
  <2> HIDE DEF p, q
  <2>8. /\ AlertPenalty(began.firing, began.active) <= AlertPenalty(seen.firing, seen.active)
        /\ AlertPenalty(seen.firing, seen.active) <= AlertPenalty(now.firing, now.active)
    BY <2>3, <2>4, <2>6, <2>7, AlertsGrow
  <2>9. Offline(began) \in Nat /\ began.down <= began.services /\ now.down <= now.services
    <3>1. began.hosts \in Nat /\ began.online \in Nat
      BY <2>1, CountFields
    <3>2. began.online <= began.hosts /\ began.down <= began.services /\ now.down <= now.services
      BY <2>1 DEF Sound
    <3> QED
      BY <3>1, <3>2 DEF Offline
  <2>10. /\ began.down \in Nat /\ began.services \in Nat /\ seen.down \in Nat /\ seen.services \in Nat
         /\ now.down \in Nat /\ now.services \in Nat /\ Offline(seen) \in Int
    BY <2>1, CountFields, CountNumbers
  <2>11. Milder(began, seen)
    <3>1. seen.down <= seen.services
      BY <2>2, <2>9, <2>10 DEF ReadBetween
    <3> QED
      BY <2>2, <2>9, <3>1 DEF ReadBetween, Milder
  <2>12. Milder(seen, now)
    <3>1. Offline(seen) \in Nat
      BY <2>2, <2>9, <2>10 DEF ReadBetween
    <3> QED
      BY <2>2, <2>9, <3>1 DEF ReadBetween, Milder
  <2> QED
    BY <2>1, <2>8, <2>11, <2>12, ScoreFalls
<1> QED
  BY <1>1, <1>2, HealthNextInv, PTL DEF HealthSpec

=============================================================================
