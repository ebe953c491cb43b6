------------------------- MODULE AlertEngineProofs -------------------------
(***************************************************************************)
(* Theorems about AlertEngine, for any number of engines, alerts and       *)
(* samples.                                                                *)
(***************************************************************************)
EXTENDS AlertEngine, FiniteSetTheorems, TLAPS

LEMMA NextCases ==
    ASSUME Next
    PROVE  \/ \E s \in Sample : Report(s)
           \/ Record \/ Gap \/ Minute
           \/ \E m \in SUBSET {"alerts", "notifications"} : Mute(m)
           \/ \E r \in Rows : AckRead(r) \/ AckCommit(r)
           \/ \E e \in Engines :
                \/ Load(e) \/ DedupRead(e) \/ DedupViolated(e)
                \/ DedupRecovered(e) \/ Check(e) \/ Remind(e) \/ Fire(e)
                \/ KeepQuiet(e) \/ Resolve(e) \/ Commit(e) \/ Stale(e) \/ Abort(e)
BY DEF Next, Cycle

-----------------------------------------------------------------------------
(* Type correctness.                                                       *)

LEMMA RuleType == TypeOK => rule.cooldown \in 1..Clock /\ rule.duration \in 0..Slots
BY RuleAssumption DEF TypeOK

LEMMA LaterType == ASSUME NEW t \in 0..Clock PROVE Later(t) \in 0..Clock
BY RuleAssumption DEF Later

LEMMA ShiftedType ==
    ASSUME TypeOK, NEW s \in Sample \cup {"none"}
    PROVE  Shifted(s) \in [1..Slots -> Sample \cup {"none"}]
<1>1. \A i \in 1..Slots : i # Slots => i + 1 \in 1..Slots
  BY RuleAssumption
<1> QED
  BY <1>1 DEF TypeOK, Shifted

LEMMA ViolationType ==
    ASSUME NEW d \in Dedup
    PROVE  /\ Violation(d).answer \in {"no", "first", "continuous", "recovery"}
           /\ Violation(d).age \in 0..Clock
BY RuleAssumption DEF Violation, Dedup

LEMMA NoDedupType == NoDedup \in Dedup
BY RuleAssumption DEF NoDedup, Dedup

LEMMA NoChangeType == NoChange \in [to: {"firing", "resolved"}, rows: SUBSET Rows]
BY DEF NoChange

LEMMA NotifyType ==
    ASSUME TypeOK, NEW r \in Rows, Notify(r)
    PROVE  quiet' \in [Rows -> 0..Clock] /\ hasty' \subseteq Rows
<1>1. 0 \in 0..Clock
  BY RuleAssumption
<1> QED
  BY <1>1 DEF TypeOK, Notify

LEMMA TypeInit == Init => TypeOK
<1>1. 0 \in 0..Clock /\ Clock \in 0..Clock /\ 0 \in 0..MaxAborts
  BY RuleAssumption, BoundsAssumption
<1> QED
  BY <1>1, NoDedupType, NoChangeType DEF Init, TypeOK, Sample, PC

LEMMA SleepType ==
    ASSUME TypeOK, NEW e \in Engines, Sleep(e)
    PROVE  /\ pc' \in [Engines -> PC] /\ seen' \in [Engines -> Sample]
           /\ held' \in [Engines -> Dedup]
           /\ result' \in [Engines -> {"no", "first", "continuous", "recovery"}]
           /\ pending' \in [Engines -> [to: {"firing", "resolved"}, rows: SUBSET Rows]]
<1> USE DEF TypeOK, Sleep
<1>1. pc' \in [Engines -> PC] /\ seen' \in [Engines -> Sample]
  BY DEF PC, Sample
<1>2. held' \in [Engines -> Dedup]
  BY NoDedupType
<1>3. result' \in [Engines -> {"no", "first", "continuous", "recovery"}]
  OBVIOUS
<1>4. pending' \in [Engines -> [to: {"firing", "resolved"}, rows: SUBSET Rows]]
  BY NoChangeType
<1> QED
  BY <1>1, <1>2, <1>3, <1>4

LEMMA TypeNext == TypeOK /\ [Next]_vars => TypeOK'
<1> SUFFICES ASSUME TypeOK, [Next]_vars PROVE TypeOK'
  OBVIOUS
<1>1. CASE UNCHANGED vars
  BY <1>1 DEF TypeOK, vars, sample, table, cycle, notice
<1>2. ASSUME NEW s \in Sample, Report(s) PROVE TypeOK'
  BY <1>2 DEF TypeOK, Report, table, cycle, notice
<1>3. CASE Record
  <2>1. window' \in [1..Slots -> Sample \cup {"none"}]
    BY <1>3, ShiftedType DEF TypeOK, Record
  <2> QED
    BY <1>3, <2>1 DEF TypeOK, Record, table, cycle, notice
<1>4. CASE Gap
  <2>1. window' \in [1..Slots -> Sample \cup {"none"}]
    BY <1>4, ShiftedType DEF TypeOK, Gap
  <2>2. latest' \in Sample \cup {"none"}
    BY <1>4 DEF TypeOK, Gap
  <2> QED
    BY <1>4, <2>1, <2>2 DEF TypeOK, Gap, table, cycle, notice
<1>5. CASE Minute
  <2>1. dedup' \in Dedup
    <3>1. dedup \in Dedup /\ Later(dedup.age) \in 0..Clock
      BY LaterType DEF TypeOK, Dedup
    <3>2. dedup' = [dedup EXCEPT !.age = Later(@)]
      BY <1>5 DEF Minute
    <3> QED
      BY <3>1, <3>2 DEF Dedup
  <2>2. quiet' \in [Rows -> 0..Clock]
    BY <1>5, LaterType DEF TypeOK, Minute
  <2>3. pc' \in [Engines -> PC]
    BY <1>5 DEF Minute, PC
  <2> QED
    BY <1>5, <2>1, <2>2, <2>3 DEF TypeOK, Minute, sample, table, cycle
<1>6. ASSUME NEW m \in SUBSET {"alerts", "notifications"}, Mute(m) PROVE TypeOK'
  BY <1>6 DEF TypeOK, Mute, sample, table, cycle, notice
<1>7. ASSUME NEW r \in Rows, AckRead(r) PROVE TypeOK'
  BY <1>7 DEF TypeOK, AckRead, sample, table, cycle, notice
<1>8. ASSUME NEW r \in Rows, AckCommit(r) PROVE TypeOK'
  BY <1>8 DEF TypeOK, AckCommit, sample, cycle, notice
<1>9. ASSUME NEW e \in Engines, Load(e) PROVE TypeOK'
  <2>1. pc' \in [Engines -> PC] /\ seen' \in [Engines -> Sample]
    <3>1. CASE latest = "none"
      BY <1>9, <3>1 DEF TypeOK, Load, PC
    <3>2. CASE latest # "none"
      BY <1>9, <3>2 DEF TypeOK, Load, PC
    <3> QED
      BY <3>1, <3>2
  <2> QED
    BY <1>9, <2>1 DEF TypeOK, Load, sample, table, notice
<1>10. ASSUME NEW e \in Engines, DedupRead(e) PROVE TypeOK'
  <2>1. dedup' \in Dedup
    BY <1>10 DEF TypeOK, DedupRead, Dedup
  <2>2. held' \in [Engines -> Dedup] /\ pc' \in [Engines -> PC]
    BY <1>10, <2>1 DEF TypeOK, DedupRead, PC
  <2> QED
    BY <1>10, <2>1, <2>2 DEF TypeOK, DedupRead, sample, table, notice
<1>11. ASSUME NEW e \in Engines, DedupViolated(e) PROVE TypeOK'
  <2>1. held[e] \in Dedup
    BY DEF TypeOK
  <2>2. dedup' \in Dedup
    BY <1>11, <2>1, ViolationType DEF DedupViolated, Dedup
  <2>3. result' \in [Engines -> {"no", "first", "continuous", "recovery"}]
    BY <1>11, <2>1, ViolationType DEF TypeOK, DedupViolated
  <2>4. pc' \in [Engines -> PC]
    BY <1>11 DEF TypeOK, DedupViolated, PC
  <2> QED
    BY <1>11, <2>2, <2>3, <2>4 DEF TypeOK, DedupViolated, sample, table, notice
<1>12. ASSUME NEW e \in Engines, DedupRecovered(e) PROVE TypeOK'
  <2>1. dedup' \in Dedup
    BY <1>12, NoDedupType DEF TypeOK, DedupRecovered
  <2>2. held' \in [Engines -> Dedup]
    BY <1>12, NoDedupType DEF TypeOK, DedupRecovered
  <2>3. result' \in [Engines -> {"no", "first", "continuous", "recovery"}]
    BY <1>12 DEF TypeOK, DedupRecovered
  <2>4. pc' \in [Engines -> PC]
    BY <1>12 DEF TypeOK, DedupRecovered, PC
  <2> QED
    BY <1>12, <2>1, <2>2, <2>3, <2>4 DEF TypeOK, DedupRecovered, sample, table, notice
<1>13. ASSUME NEW e \in Engines, Check(e) PROVE TypeOK'
  <2>1. pc' \in [Engines -> PC]
    BY <1>13 DEF TypeOK, Check, PC
  <2> QED
    BY <1>13, <2>1 DEF TypeOK, Check, sample, table, cycle, notice
<1>14. ASSUME NEW e \in Engines, Remind(e) PROVE TypeOK'
  <2>1. quiet' \in [Rows -> 0..Clock] /\ hasty' \subseteq Rows
    BY <1>14, NotifyType DEF TypeOK, Remind, notice
  <2>2. pc' \in [Engines -> PC]
    BY <1>14 DEF TypeOK, Remind, PC
  <2> QED
    BY <1>14, <2>1, <2>2 DEF TypeOK, Remind, sample, table, cycle
<1>15. ASSUME NEW e \in Engines, Fire(e) PROVE TypeOK'
  <2>1. PICK r \in Rows :
          /\ taken' = taken \cup {r}
          /\ pending' = [pending EXCEPT ![e] = [to |-> "firing", rows |-> {r}]]
          /\ Notify(r)
    BY <1>15 DEF Fire
  <2>2. quiet' \in [Rows -> 0..Clock] /\ hasty' \subseteq Rows
    BY <2>1, NotifyType
  <2>3. pending' \in [Engines -> [to: {"firing", "resolved"}, rows: SUBSET Rows]]
    BY <2>1 DEF TypeOK
  <2>4. pc' \in [Engines -> PC] /\ taken' \subseteq Rows
    BY <1>15, <2>1 DEF TypeOK, Fire, PC
  <2> QED
    BY <1>15, <2>2, <2>3, <2>4 DEF TypeOK, Fire, sample
<1>16. ASSUME NEW e \in Engines, KeepQuiet(e) PROVE TypeOK'
  <2>1. pc' \in [Engines -> PC]
    BY <1>16 DEF TypeOK, KeepQuiet, PC
  <2> QED
    BY <1>16, <2>1 DEF TypeOK, KeepQuiet, sample, table, cycle, notice
<1>17. ASSUME NEW e \in Engines, Resolve(e) PROVE TypeOK'
  <2> DEFINE newest == {r \in Rows : Newest(r)}
  <2>1. \/ /\ alerts' = [r \in Rows |-> IF r \in newest THEN "resolved" ELSE alerts[r]]
           /\ pending' = pending
        \/ /\ pending' = [pending EXCEPT ![e] = [to |-> "resolved", rows |-> newest]]
           /\ alerts' = alerts
    BY <1>17 DEF Resolve
  <2>2. newest \in SUBSET Rows
    OBVIOUS
  <2> HIDE DEF newest
  <2>3. alerts' \in [Rows -> {"absent", "firing", "acknowledged", "resolved"}]
    BY <2>1 DEF TypeOK
  <2>4. pending' \in [Engines -> [to: {"firing", "resolved"}, rows: SUBSET Rows]]
    <3>1. [to |-> "resolved", rows |-> newest]
            \in [to: {"firing", "resolved"}, rows: SUBSET Rows]
      BY <2>2
    <3> QED
      BY <2>1, <3>1 DEF TypeOK
  <2>5. pc' \in [Engines -> PC]
    BY <1>17 DEF TypeOK, Resolve, PC
  <2> QED
    BY <1>17, <2>3, <2>4, <2>5 DEF TypeOK, Resolve, sample, notice
<1>18. ASSUME NEW e \in Engines, Commit(e) PROVE TypeOK'
  <2>1. Sleep(e)
    BY <1>18 DEF Commit
  <2>2. pending[e].to \in {"firing", "resolved"}
    BY DEF TypeOK
  <2>3. alerts' \in [Rows -> {"absent", "firing", "acknowledged", "resolved"}]
    BY <1>18, <2>2 DEF TypeOK, Commit
  <2> QED
    BY <1>18, <2>1, <2>3, SleepType DEF TypeOK, Commit, sample, notice
<1>19. ASSUME NEW e \in Engines, Fail(e), aborts' \in 0..MaxAborts PROVE TypeOK'
  <2>1. Sleep(e)
    BY <1>19 DEF Fail
  <2> QED
    BY <1>19, <2>1, SleepType DEF TypeOK, Fail, sample, table, notice
<1>20. ASSUME NEW e \in Engines, Stale(e) \/ Abort(e) PROVE TypeOK'
  <2>1. aborts' \in 0..MaxAborts
    BY <1>20, BoundsAssumption DEF TypeOK, Stale, Abort
  <2> QED
    BY <1>19, <1>20, <2>1 DEF Stale, Abort
<1> QED
  BY <1>1, <1>2, <1>3, <1>4, <1>5, <1>6, <1>7, <1>8, <1>9, <1>10, <1>11,
     <1>12, <1>13, <1>14, <1>15, <1>16, <1>17, <1>18, <1>20, NextCases

\* Type correctness of the engine, its dedup record and the alerts table.
THEOREM TypeCorrect == Spec => []TypeOK
BY TypeInit, TypeNext, PTL DEF Spec
-----------------------------------------------------------------------------
(* One active alert.  AtMostOneActive needs to know what a cycle that is   *)
(* under way will commit (Sound), that no other cycle and no               *)
(* acknowledgement is under way with it (Alone, AcksWait), and that an     *)
(* acknowledgement only ever touches an active alert.                      *)

InCycle(e) == pc[e] \notin {"asleep", "awake"}

Alone == \A e, f \in Engines : InCycle(e) /\ InCycle(f) => e = f

AcksWait ==
    /\ acks \subseteq Active
    /\ \A e \in Engines : InCycle(e) => acks = {}

Sound ==
    \A e \in Engines :
        /\ pc[e] # "written" => pending[e].rows = {}
        /\ pending[e].rows # {} /\ pending[e].to = "firing" =>
             Active = {} /\ \E r \in Rows : pending[e].rows = {r}

Single == \A r, s \in Active : r = s

OneInv == Alone /\ AcksWait /\ Sound /\ Single

LEMMA OneInit == Init => OneInv
BY DEF Init, OneInv, Alone, AcksWait, Sound, Single, Active, InCycle, NoChange

\* A step of a cycle, before the table is written.
LEMMA OneStep ==
    ASSUME TypeOK, OneInv, NEW e \in Engines, InCycle(e), NEW p \in PC,
           pc' = [pc EXCEPT ![e] = p], UNCHANGED <<alerts, acks, pending>>,
           pending[e].rows = {}
    PROVE  OneInv'
<1>1. \A f \in Engines : InCycle(f)' => InCycle(f)
  BY DEF TypeOK, InCycle
<1>2. Active' = Active
  BY DEF Active
<1> QED
  BY <1>1, <1>2 DEF TypeOK, OneInv, Alone, AcksWait, Sound, Single

\* The end of a cycle that takes the active alerts to a set of at most one.
LEMMA OneSleep ==
    ASSUME TypeOK, OneInv, NEW e \in Engines, InCycle(e), Sleep(e), acks' = acks,
           Single'
    PROVE  OneInv'
<1>1. pc' = [pc EXCEPT ![e] = "asleep"] /\ pending' = [pending EXCEPT ![e] = NoChange]
  BY DEF Sleep
<1>2. \A f \in Engines : ~InCycle(f)'
  BY <1>1 DEF TypeOK, OneInv, Alone, InCycle
<1>3. \A f \in Engines : pending'[f].rows = {}
  <2>1. \A f \in Engines : f # e => pc[f] # "written"
    BY DEF OneInv, Alone, InCycle
  <2>2. \A f \in Engines : f # e => pending[f].rows = {}
    BY <2>1 DEF OneInv, Sound
  <2> QED
    BY <1>1, <2>2 DEF TypeOK, NoChange
<1>4. acks' = {}
  BY DEF OneInv, AcksWait
<1> QED
  BY <1>2, <1>3, <1>4 DEF OneInv, Alone, AcksWait, Sound

LEMMA OneNext ==
    ASSUME Overlap = {}
    PROVE  TypeOK /\ OneInv /\ [Next]_vars => OneInv'
<1> SUFFICES ASSUME TypeOK, OneInv, [Next]_vars PROVE OneInv'
  OBVIOUS
<1>1. CASE UNCHANGED <<alerts, acks, pending, pc>>
  BY <1>1 DEF OneInv, Alone, AcksWait, Sound, Single, Active, InCycle
<1>2. ASSUME NEW s \in Sample, Report(s) PROVE OneInv'
  BY <1>1, <1>2 DEF Report, table, cycle
<1>3. ASSUME NEW m \in SUBSET {"alerts", "notifications"}, Mute(m) PROVE OneInv'
  BY <1>1, <1>3 DEF Mute, table, cycle
<1>4. ASSUME Record \/ Gap \/ UNCHANGED vars PROVE OneInv'
  BY <1>1, <1>4 DEF Record, Gap, vars, table, cycle
<1>5. CASE Minute
  <2>1. \A e \in Engines : ~InCycle(e) /\ ~InCycle(e)' /\ pending[e].rows = {}
    BY <1>5 DEF Minute, Asleep, InCycle, OneInv, Sound
  <2>2. UNCHANGED <<alerts, acks, pending>>
    BY <1>5 DEF Minute, table, cycle
  <2> QED
    BY <2>1, <2>2 DEF OneInv, Alone, AcksWait, Sound, Single, Active
<1>6. ASSUME NEW r \in Rows, AckRead(r) PROVE OneInv'
  <2>1. \A e \in Engines : ~InCycle(e)
    BY <1>6 DEF AckRead, Asleep, InCycle
  <2>2. acks' = acks \cup {r} /\ r \in Active /\ UNCHANGED <<alerts, pending, pc>>
    BY <1>6 DEF AckRead, table, cycle
  <2> QED
    BY <2>1, <2>2 DEF OneInv, Alone, AcksWait, Sound, Single, Active, InCycle
<1>7. ASSUME NEW r \in Rows, AckCommit(r) PROVE OneInv'
  <2>1. r \in acks /\ acks' = acks \ {r} /\ UNCHANGED <<pending, pc>>
    BY <1>7 DEF AckCommit, cycle
  <2>2. \A e \in Engines : ~InCycle(e)
    BY <2>1 DEF OneInv, AcksWait
  <2>3. \A e \in Engines : pending[e].rows = {}
    BY <2>2 DEF OneInv, Sound, InCycle
  <2>4. r \in Active
    BY <2>1 DEF OneInv, AcksWait
  <2>5. Active' = Active
    BY <1>7, <2>4 DEF AckCommit, Active, TypeOK
  <2> QED
    BY <2>1, <2>2, <2>3, <2>5 DEF OneInv, Alone, AcksWait, Sound, Single, InCycle
<1>8. ASSUME NEW e \in Engines, Load(e) PROVE OneInv'
  <2>1. acks = {} /\ \A f \in Engines : ~InCycle(f)
    BY <1>8 DEF Load, InCycle
  <2>2. UNCHANGED <<alerts, acks, pending>>
    BY <1>8 DEF Load, table
  <2>3. \A f \in Engines : f # e => pc'[f] = pc[f]
    BY <1>8 DEF Load, TypeOK
  <2>4. \A f \in Engines : pending[f].rows = {}
    BY <2>1 DEF OneInv, Sound, InCycle
  <2> QED
    BY <2>1, <2>2, <2>3, <2>4 DEF OneInv, Alone, AcksWait, Sound, Single, Active, InCycle
<1>9. ASSUME NEW e \in Engines,
             \/ DedupRead(e) \/ DedupViolated(e) \/ DedupRecovered(e)
             \/ Check(e) \/ Remind(e) \/ KeepQuiet(e)
      PROVE  OneInv'
  <2>1. InCycle(e) /\ pc[e] # "written"
    BY <1>9 DEF DedupRead, DedupViolated, DedupRecovered, Check, Remind,
                KeepQuiet, InCycle
  <2>2. UNCHANGED <<alerts, acks, pending>>
    BY <1>9 DEF DedupRead, DedupViolated, DedupRecovered, Check, Remind,
                KeepQuiet, table, cycle
  <2>3. \E p \in PC : pc' = [pc EXCEPT ![e] = p]
    BY <1>9 DEF DedupRead, DedupViolated, DedupRecovered, Check, Remind,
                KeepQuiet, PC
  <2> QED
    BY <2>1, <2>2, <2>3, OneStep DEF OneInv, Sound
<1>10. ASSUME NEW e \in Engines, Fire(e) PROVE OneInv'
  <2>1. PICK r \in Rows :
          pending' = [pending EXCEPT ![e] = [to |-> "firing", rows |-> {r}]]
    BY <1>10 DEF Fire
  <2>2. InCycle(e) /\ Active = {} /\ pc' = [pc EXCEPT ![e] = "written"]
    BY <1>10 DEF Fire, MayFire, InCycle
  <2>3. UNCHANGED <<alerts, acks>>
    BY <1>10 DEF Fire
  <2>4. Active' = Active /\ \A f \in Engines : InCycle(f)' => InCycle(f)
    BY <2>2, <2>3 DEF Active, InCycle, TypeOK
  <2>5. Alone' /\ AcksWait' /\ Single'
    BY <2>2, <2>3, <2>4 DEF OneInv, Alone, AcksWait, Single
  <2>6. ASSUME NEW f \in Engines
        PROVE  /\ pc'[f] # "written" => pending'[f].rows = {}
               /\ pending'[f].rows # {} /\ pending'[f].to = "firing" =>
                    Active' = {} /\ \E q \in Rows : pending'[f].rows = {q}
    <3>1. CASE f = e
      BY <2>1, <2>2, <2>4, <3>1 DEF TypeOK
    <3>2. CASE f # e
      <4>1. pending'[f] = pending[f] /\ pc'[f] = pc[f]
        BY <2>1, <2>2, <3>2 DEF TypeOK
      <4> QED
        BY <2>4, <4>1 DEF OneInv, Sound
    <3> QED
      BY <3>1, <3>2
  <2> QED
    BY <2>5, <2>6 DEF OneInv, Sound
<1>11. ASSUME NEW e \in Engines, Resolve(e) PROVE OneInv'
  <2> DEFINE newest == {r \in Rows : Newest(r)}
  <2>1. \/ /\ alerts' = [r \in Rows |-> IF r \in newest THEN "resolved" ELSE alerts[r]]
           /\ pending' = pending
        \/ /\ pending' = [pending EXCEPT ![e] = [to |-> "resolved", rows |-> newest]]
           /\ alerts' = alerts
    BY <1>11 DEF Resolve
  <2> HIDE DEF newest
  <2>2. InCycle(e) /\ pc[e] # "written" /\ pc' = [pc EXCEPT ![e] = "written"] /\ acks' = acks
    BY <1>11 DEF Resolve, InCycle
  <2>3. Active' \subseteq Active /\ \A f \in Engines : InCycle(f)' => InCycle(f)
    BY <2>1, <2>2 DEF Active, InCycle, TypeOK
  <2>4. acks = {} /\ \A f \in Engines : pending[f].rows = {}
    BY <2>2 DEF OneInv, Alone, AcksWait, Sound, InCycle
  <2>5. \A f \in Engines : pending'[f].rows = {} \/ pending'[f].to = "resolved"
    BY <2>1, <2>4 DEF TypeOK
  <2>6. Sound'
    BY <2>1, <2>2, <2>4, <2>5 DEF TypeOK, Sound, OneInv
  <2> QED
    BY <2>2, <2>3, <2>4, <2>6 DEF OneInv, Alone, AcksWait, Single
<1>12. ASSUME NEW e \in Engines, Commit(e) PROVE OneInv'
  <2>1. InCycle(e) /\ Sleep(e) /\ acks' = acks
    BY <1>12 DEF Commit, InCycle
  <2>2. alerts' = [r \in Rows |-> IF r \in pending[e].rows THEN pending[e].to ELSE alerts[r]]
    BY <1>12 DEF Commit
  <2>3. pending[e].to \in {"firing", "resolved"}
    BY DEF TypeOK
  <2>4. ASSUME pending[e].rows = {} \/ pending[e].to = "resolved" PROVE Single'
    <3>1. Active' \subseteq Active
      BY <2>2, <2>4 DEF Active
    <3> QED
      BY <3>1 DEF Single, OneInv
  <2>5. ASSUME pending[e].rows # {}, pending[e].to = "firing" PROVE Single'
    <3>1. Active = {} /\ \E r \in Rows : pending[e].rows = {r}
      BY <2>5 DEF OneInv, Sound
    <3>2. PICK r \in Rows : pending[e].rows = {r}
      BY <3>1
    <3>3. \A s \in Rows : alerts[s] \notin {"firing", "acknowledged"}
      BY <3>1 DEF Active
    <3>4. \A s \in Rows : s # r => alerts'[s] = alerts[s]
      BY <2>2, <3>2
    <3>5. Active' \subseteq {r}
      BY <3>3, <3>4 DEF Active
    <3> QED
      BY <3>5 DEF Single
  <2>6. Single'
    BY <2>3, <2>4, <2>5
  <2> QED
    BY <2>1, <2>6, OneSleep
<1>13. ASSUME NEW e \in Engines, Stale(e) \/ Abort(e) PROVE OneInv'
  <2>1. InCycle(e) /\ Sleep(e) /\ UNCHANGED <<acks, alerts>>
    BY <1>13 DEF Stale, Abort, Fail, InCycle, table
  <2>2. Single'
    BY <2>1 DEF OneInv, Single, Active
  <2> QED
    BY <2>1, <2>2, OneSleep
<1> QED
  BY <1>2, <1>3, <1>4, <1>5, <1>6, <1>7, <1>8, <1>9, <1>10, <1>11, <1>12,
     <1>13, NextCases

\* A set with no two different members has at most one.
LEMMA AtMostOneMember ==
    ASSUME NEW S, \A x, y \in S : x = y
    PROVE  Cardinality(S) <= 1
<1>1. CASE S = {}
  BY <1>1, FS_EmptySet
<1>2. CASE S # {}
  <2>1. PICK x \in S : TRUE
    BY <1>2
  <2>2. S = {x}
    BY <2>1
  <2> QED
    BY <2>2, FS_Singleton
<1> QED
  BY <1>1, <1>2

\* Cycles and acknowledgements that do not overlap never leave two active
\* alerts, with any number of engines, muted or not, whatever is rolled back.
THEOREM OneActive ==
    ASSUME Overlap = {}
    PROVE  Spec => []AtMostOneActive
<1>1. OneInv => AtMostOneActive
  BY AtMostOneMember DEF OneInv, Single, AtMostOneActive
<1>2. TypeOK /\ OneInv /\ [Next]_vars => OneInv'
  BY OneNext
<1> QED
  BY TypeInit, TypeNext, OneInit, <1>1, <1>2, PTL DEF Spec

-----------------------------------------------------------------------------
(* What the record says while a cycle goes by it, and what rows the table, *)
(* the sessions and the acknowledgements can know of.                      *)

Decided(e) == pc[e] \in {"decided", "checked"}

ReadsRecord == \A e \in Engines : pc[e] = "read" => held[e] = dedup

Handed ==
    \A r \in Rows \ taken :
        alerts[r] = "absent" /\ \A e \in Engines : r \notin pending[e].rows

\* An engine in its cycle is the only one in a cycle.
LEMMA OthersIdle ==
    ASSUME OneInv, NEW e \in Engines, InCycle(e), NEW f \in Engines, f # e
    PROVE  pc[f] \in {"asleep", "awake"}
BY DEF OneInv, Alone, InCycle

LEMMA ReadsStep ==
    ASSUME TypeOK, OneInv, NEW e \in Engines, InCycle(e), NEW p, p # "read",
           pc' = [pc EXCEPT ![e] = p]
    PROVE  ReadsRecord'
<1>1. \A f \in Engines : pc'[f] # "read"
  BY OthersIdle DEF TypeOK
<1> QED
  BY <1>1 DEF ReadsRecord

LEMMA ReadsNext ==
    ASSUME Overlap = {}
    PROVE  TypeOK /\ OneInv /\ ReadsRecord /\ [Next]_vars => ReadsRecord'
<1> SUFFICES ASSUME TypeOK, OneInv, ReadsRecord, [Next]_vars PROVE ReadsRecord'
  OBVIOUS
<1>1. CASE UNCHANGED <<pc, held, dedup>>
  BY <1>1 DEF ReadsRecord
<1>2. ASSUME \/ UNCHANGED vars \/ Record \/ Gap
             \/ \E s \in Sample : Report(s)
             \/ \E m \in SUBSET {"alerts", "notifications"} : Mute(m)
             \/ \E r \in Rows : AckRead(r) \/ AckCommit(r)
      PROVE  ReadsRecord'
  BY <1>1, <1>2 DEF vars, Record, Gap, Report, Mute, AckRead, AckCommit, cycle
<1>3. CASE Minute
  BY <1>3 DEF Minute, ReadsRecord
<1>4. ASSUME NEW e \in Engines, Load(e) PROVE ReadsRecord'
  <2>1. \A f \in Engines : pc'[f] # "read"
    BY <1>4 DEF Load, TypeOK
  <2> QED
    BY <2>1 DEF ReadsRecord
<1>5. ASSUME NEW e \in Engines, DedupRead(e) PROVE ReadsRecord'
  <2>1. InCycle(e) /\ pc' = [pc EXCEPT ![e] = "read"] /\ held' = [held EXCEPT ![e] = dedup']
    BY <1>5 DEF DedupRead, InCycle
  <2>2. \A f \in Engines : f # e => pc'[f] # "read"
    BY <2>1, OthersIdle DEF TypeOK
  <2> QED
    BY <2>1, <2>2 DEF ReadsRecord, TypeOK
<1>6. ASSUME NEW e \in Engines,
             \/ DedupViolated(e) \/ DedupRecovered(e) \/ Check(e) \/ Remind(e)
             \/ Fire(e) \/ KeepQuiet(e) \/ Resolve(e) \/ Commit(e)
             \/ Stale(e) \/ Abort(e)
      PROVE  ReadsRecord'
  <2>1. InCycle(e)
    BY <1>6 DEF DedupViolated, DedupRecovered, Check, Remind, Fire, MayFire,
                KeepQuiet, Resolve, Commit, Stale, Abort, InCycle
  <2>2. PICK p \in PC \ {"read"} : pc' = [pc EXCEPT ![e] = p]
    BY <1>6 DEF DedupViolated, DedupRecovered, Check, Remind, Fire, KeepQuiet,
                Resolve, Commit, Stale, Abort, Fail, Sleep, PC
  <2> QED
    BY <2>1, <2>2, ReadsStep
<1> QED
  BY <1>2, <1>3, <1>4, <1>5, <1>6, NextCases

LEMMA HandedNext == TypeOK /\ AcksWait /\ Handed /\ [Next]_vars => Handed'
<1> SUFFICES ASSUME TypeOK, AcksWait, Handed, [Next]_vars PROVE Handed'
  OBVIOUS
<1>1. CASE UNCHANGED <<taken, alerts, pending>>
  BY <1>1 DEF Handed
<1>2. ASSUME \/ UNCHANGED vars \/ Record \/ Gap \/ Minute
             \/ \E s \in Sample : Report(s)
             \/ \E m \in SUBSET {"alerts", "notifications"} : Mute(m)
             \/ \E r \in Rows : AckRead(r)
      PROVE  Handed'
  BY <1>1, <1>2 DEF vars, Record, Gap, Minute, Report, Mute, AckRead, cycle, table
<1>3. ASSUME NEW r \in Rows, AckCommit(r) PROVE Handed'
  <2>1. r \in Active /\ UNCHANGED <<taken, pending>>
    BY <1>3 DEF AckCommit, AcksWait, cycle
  <2>2. r \in taken
    BY <2>1 DEF Handed, Active
  <2> QED
    BY <1>3, <2>1, <2>2 DEF AckCommit, Handed, TypeOK
<1>4. ASSUME NEW e \in Engines,
             \/ Load(e) \/ DedupRead(e) \/ DedupViolated(e)
             \/ DedupRecovered(e) \/ Check(e) \/ Remind(e) \/ KeepQuiet(e)
      PROVE  Handed'
  BY <1>1, <1>4 DEF Load, DedupRead, DedupViolated, DedupRecovered, Check,
                    Remind, KeepQuiet, cycle, table
<1>5. ASSUME NEW e \in Engines, Fire(e) PROVE Handed'
  <2>1. PICK r \in Rows :
          /\ taken' = taken \cup {r}
          /\ pending' = [pending EXCEPT ![e] = [to |-> "firing", rows |-> {r}]]
    BY <1>5 DEF Fire
  <2>2. alerts' = alerts
    BY <1>5 DEF Fire
  <2> QED
    BY <2>1, <2>2 DEF Handed, TypeOK
<1>6. ASSUME NEW e \in Engines, Resolve(e) PROVE Handed'
  <2> DEFINE newest == {r \in Rows : Newest(r)}
  <2>1. \/ /\ alerts' = [r \in Rows |-> IF r \in newest THEN "resolved" ELSE alerts[r]]
           /\ pending' = pending
        \/ /\ pending' = [pending EXCEPT ![e] = [to |-> "resolved", rows |-> newest]]
           /\ alerts' = alerts
    BY <1>6 DEF Resolve
  <2>2. newest \subseteq Active /\ taken' = taken
    BY <1>6 DEF Resolve, Newest
  <2> HIDE DEF newest
  <2>3. newest \subseteq taken
    BY <2>2 DEF Handed, Active
  <2>4. \A r \in Rows \ taken : alerts'[r] = alerts[r]
    BY <2>1, <2>3
  <2>5. \A r \in Rows \ taken, f \in Engines :
          pending'[f].rows \subseteq pending[f].rows \cup newest
    <3>1. CASE pending' = pending
      BY <3>1
    <3>2. CASE pending' = [pending EXCEPT ![e] = [to |-> "resolved", rows |-> newest]]
      BY <3>2 DEF TypeOK
    <3> QED
      BY <2>1, <3>1, <3>2
  <2> QED
    BY <2>2, <2>3, <2>4, <2>5 DEF Handed
<1>7. ASSUME NEW e \in Engines, Commit(e) \/ Stale(e) \/ Abort(e) PROVE Handed'
  <2>1. taken' = taken /\ pending' = [pending EXCEPT ![e] = NoChange]
    BY <1>7 DEF Commit, Stale, Abort, Fail, Sleep, table
  <2>2. \A r \in Rows \ taken : alerts'[r] = alerts[r]
    BY <1>7 DEF Commit, Stale, Abort, Fail, table, Handed
  <2> QED
    BY <2>1, <2>2 DEF Handed, TypeOK, NoChange
<1> QED
  BY <1>2, <1>3, <1>4, <1>5, <1>6, <1>7, NextCases
-----------------------------------------------------------------------------
(* The cooldown.  A row is notified as a problem only in the cycle that    *)
(* has just set the record's age to 0 (Spent), so no row has been quiet    *)
(* for less time than the record is old (Older), and a record old enough   *)
(* for a reminder leaves every row quiet for a cooldown (Due).             *)

Spent == \A e \in Engines :
           Decided(e) /\ seen[e] = "bad" /\ result[e] # "no" => dedup.age = 0
Older == dedup.triggered => \A r \in Rows : dedup.age <= quiet[r]
Due == \A e \in Engines :
         Decided(e) /\ result[e] = "continuous" =>
           \A r \in Rows : rule.cooldown <= quiet[r]
Unused == \A r \in Rows \ taken : quiet[r] = Clock

CoolInv == Spent /\ Older /\ Due /\ Unused /\ CooldownRespected

LEMMA CoolInit == Init => CoolInv /\ ReadsRecord /\ Handed
<1> SUFFICES ASSUME Init PROVE CoolInv /\ ReadsRecord /\ Handed
  OBVIOUS
<1>1. Spent /\ Due /\ ReadsRecord
  BY DEF Init, Spent, Due, ReadsRecord, Decided
<1>2. Older /\ Unused /\ CooldownRespected
  BY DEF Init, Older, Unused, CooldownRespected, NoDedup
<1>3. Handed
  BY DEF Init, Handed, NoChange
<1> QED
  BY <1>1, <1>2, <1>3 DEF CoolInv

\* A step that ends or begins a cycle's part without touching the record.
LEMMA CoolStep ==
    ASSUME TypeOK, CoolInv, \A e \in Engines : ~Decided(e)',
           UNCHANGED <<rule, dedup, quiet, hasty>>, taken \subseteq taken'
    PROVE  CoolInv'
<1>1. Spent' /\ Due'
  BY DEF Spent, Due
<1>2. Older' /\ Unused' /\ CooldownRespected'
  BY DEF CoolInv, Older, Unused, CooldownRespected
<1> QED
  BY <1>1, <1>2 DEF CoolInv

LEMMA NoneDecided ==
    ASSUME TypeOK, OneInv, NEW e \in Engines, InCycle(e),
           NEW p \in PC \ {"decided", "checked"}, pc' = [pc EXCEPT ![e] = p]
    PROVE  \A f \in Engines : ~Decided(f)'
BY OthersIdle DEF TypeOK, Decided

LEMMA LaterMonotone ==
    ASSUME NEW s \in 0..Clock, NEW t \in 0..Clock, s <= t
    PROVE  Later(s) <= Later(t)
BY RuleAssumption DEF Later

LEMMA CoolNext ==
    ASSUME Overlap = {}
    PROVE  /\ TypeOK /\ OneInv /\ ReadsRecord /\ Handed /\ CoolInv
           /\ [Next]_vars
           => CoolInv'
<1> SUFFICES ASSUME TypeOK, OneInv, ReadsRecord, Handed, CoolInv, [Next]_vars
             PROVE  CoolInv'
  OBVIOUS
<1>0. rule.cooldown \in 1..Clock /\ dedup.age \in 0..Clock /\ Clock \in Nat
  BY RuleType, RuleAssumption DEF TypeOK, Dedup
<1>1. CASE UNCHANGED <<rule, dedup, taken, pc, seen, result, quiet, hasty>>
  BY <1>1 DEF CoolInv, Spent, Older, Due, Unused, CooldownRespected, Decided
<1>2. ASSUME \/ UNCHANGED vars \/ Record \/ Gap
             \/ \E s \in Sample : Report(s)
             \/ \E m \in SUBSET {"alerts", "notifications"} : Mute(m)
             \/ \E r \in Rows : AckRead(r) \/ AckCommit(r)
      PROVE  CoolInv'
  BY <1>1, <1>2 DEF vars, Record, Gap, Report, Mute, AckRead, AckCommit, cycle,
                    table, notice
<1>3. CASE Minute
  <2>1. \A e \in Engines : ~Decided(e)'
    BY <1>3 DEF Minute, Decided
  <2>2. dedup' = [dedup EXCEPT !.age = Later(dedup.age)] /\ dedup \in Dedup
    BY <1>3 DEF Minute, TypeOK
  <2>3. dedup'.triggered = dedup.triggered /\ dedup'.age = Later(dedup.age)
    BY <2>2 DEF Dedup
  <2>4. quiet' = [r \in Rows |-> Later(quiet[r])] /\ UNCHANGED <<rule, taken, hasty>>
    BY <1>3 DEF Minute, table
  <2>5. \A r \in Rows : quiet[r] \in 0..Clock
    BY DEF TypeOK
  <2>6. Older'
    BY <1>0, <2>3, <2>4, <2>5, LaterMonotone DEF CoolInv, Older
  <2>7. Unused'
    BY <1>0, <2>4 DEF CoolInv, Unused, Later
  <2> QED
    BY <2>1, <2>4, <2>6, <2>7 DEF CoolInv, Spent, Due, CooldownRespected
<1>4. ASSUME NEW e \in Engines, Load(e) PROVE CoolInv'
  <2>1. \A f \in Engines : ~Decided(f)'
    BY <1>4 DEF Load, TypeOK, Decided
  <2> QED
    BY <1>4, <2>1, CoolStep DEF Load, table, notice
<1>5. ASSUME NEW e \in Engines, DedupRead(e) PROVE CoolInv'
  <2>1. \A f \in Engines : ~Decided(f)'
    BY <1>5, NoneDecided DEF DedupRead, InCycle, PC
  <2>2. dedup'.triggered = dedup.triggered /\ dedup'.age = dedup.age
    BY <1>5 DEF DedupRead, TypeOK, Dedup
  <2>3. UNCHANGED <<rule, taken, quiet, hasty>>
    BY <1>5 DEF DedupRead, table, notice
  <2> QED
    BY <2>1, <2>2, <2>3
       DEF CoolInv, Spent, Due, Older, Unused, CooldownRespected
<1>6. ASSUME NEW e \in Engines, DedupViolated(e) PROVE CoolInv'
  <2> DEFINE v == Violation(dedup)
  <2>1. held[e] = dedup /\ InCycle(e)
    BY <1>6 DEF DedupViolated, ReadsRecord, InCycle
  <2>2. /\ dedup' = [exists |-> TRUE, triggered |-> TRUE, age |-> v.age]
        /\ result' = [result EXCEPT ![e] = v.answer]
        /\ pc' = [pc EXCEPT ![e] = "decided"]
        /\ UNCHANGED <<rule, taken, seen, quiet, hasty>>
    BY <1>6, <2>1 DEF DedupViolated, table, notice
  <2>3. \/ v.answer = "first" /\ v.age = 0
        \/ v.answer = "continuous" /\ v.age = 0 /\ dedup.triggered
           /\ rule.cooldown <= dedup.age
        \/ v.answer = "no" /\ v.age = dedup.age /\ dedup.triggered
    BY <1>0 DEF Violation
  <2> HIDE DEF v
  <2>4. \A r \in Rows : quiet[r] \in 0..Clock
    BY DEF TypeOK
  <2>5. \A f \in Engines : f # e => ~Decided(f)'
    BY <2>1, <2>2, OthersIdle DEF TypeOK, Decided
  <2>6. result'[e] = v.answer /\ dedup'.age = v.age
    BY <2>2 DEF TypeOK
  <2>7. Spent'
    BY <2>3, <2>5, <2>6 DEF Spent
  <2>8. Older'
    BY <1>0, <2>2, <2>3, <2>4, <2>6 DEF Older, CoolInv
  <2>9. v.answer = "continuous" => \A r \in Rows : rule.cooldown <= quiet[r]
    BY <1>0, <2>3, <2>4 DEF Older, CoolInv
  <2>10. Due'
    BY <2>2, <2>5, <2>6, <2>9 DEF Due
  <2> QED
    BY <2>2, <2>7, <2>8, <2>10 DEF CoolInv, Unused, CooldownRespected
<1>7. ASSUME NEW e \in Engines, DedupRecovered(e) PROVE CoolInv'
  <2>1. InCycle(e) /\ seen'[e] = "ok" /\ result'[e] \in {"recovery", "no"}
    BY <1>7 DEF DedupRecovered, InCycle, TypeOK
  <2>2. \A f \in Engines : f # e => ~Decided(f)'
    BY <1>7, <2>1, OthersIdle DEF DedupRecovered, TypeOK, Decided
  <2>3. Spent' /\ Due'
    BY <2>1, <2>2 DEF Spent, Due
  <2>4. UNCHANGED <<rule, taken, quiet, hasty>> /\ (dedup' = dedup \/ dedup' = NoDedup)
    BY <1>7 DEF DedupRecovered, table, notice
  <2>5. Older'
    BY <2>4 DEF CoolInv, Older, NoDedup
  <2> QED
    BY <2>3, <2>4, <2>5 DEF CoolInv, Unused, CooldownRespected
<1>8. ASSUME NEW e \in Engines, Check(e) PROVE CoolInv'
  <2>1. UNCHANGED <<rule, dedup, taken, seen, result, quiet, hasty>>
    BY <1>8 DEF Check, table, cycle, notice
  <2>2. \A f \in Engines : Decided(f)' => Decided(f)
    BY <1>8 DEF Check, TypeOK, Decided
  <2> QED
    BY <2>1, <2>2 DEF CoolInv, Spent, Older, Due, Unused, CooldownRespected
<1>9. ASSUME NEW e \in Engines, Remind(e) PROVE CoolInv'
  <2>1. Decided(e) /\ InCycle(e) /\ seen[e] = "bad" /\ UNCHANGED <<rule, dedup, taken>>
    BY <1>9 DEF Remind, Decided, InCycle, table
  <2>2. \A f \in Engines : ~Decided(f)'
    BY <1>9, <2>1, NoneDecided DEF Remind, PC
  <2>3. PICK r \in Rows :
          /\ Newest(r)
          /\ \/ result[e] = "continuous" /\ Notify(r)
             \/ UNCHANGED notice
    BY <1>9 DEF Remind
  <2>4. CASE UNCHANGED notice
    BY <2>1, <2>2, <2>4, CoolStep DEF notice
  <2>5. CASE result[e] = "continuous" /\ Notify(r)
    <3>1. dedup.age = 0 /\ rule.cooldown <= quiet[r]
      BY <2>1, <2>5 DEF CoolInv, Spent, Due
    <3>2. quiet' = [quiet EXCEPT ![r] = 0] /\ hasty' = hasty
      BY <1>0, <2>5, <3>1 DEF Notify, TypeOK
    <3>3. r \in taken
      BY <2>3 DEF Newest, Active, Handed
    <3>4. Older'
      BY <1>0, <2>1, <3>1, <3>2 DEF CoolInv, Older, TypeOK
    <3>5. Unused'
      BY <2>1, <3>2, <3>3 DEF CoolInv, Unused, TypeOK
    <3> QED
      BY <2>2, <3>2, <3>4, <3>5 DEF CoolInv, Spent, Due, CooldownRespected
  <2> QED
    BY <2>3, <2>4, <2>5
<1>10. ASSUME NEW e \in Engines, Fire(e) PROVE CoolInv'
  <2>1. Decided(e) /\ InCycle(e) /\ UNCHANGED <<rule, dedup>>
    BY <1>10 DEF Fire, MayFire, Decided, InCycle
  <2>2. \A f \in Engines : ~Decided(f)'
    BY <1>10, <2>1, NoneDecided DEF Fire, PC
  <2>3. dedup.age = 0
    BY <1>10, <2>1 DEF Fire, MayFire, CoolInv, Spent
  <2>4. PICK r \in Rows : NextRow(r) /\ taken' = taken \cup {r} /\ Notify(r)
    BY <1>10 DEF Fire
  <2>5. quiet[r] = Clock
    BY <2>4 DEF NextRow, CoolInv, Unused
  <2>6. quiet' = [quiet EXCEPT ![r] = 0] /\ hasty' = hasty
    BY <1>0, <2>4, <2>5 DEF Notify
  <2>7. Older'
    BY <1>0, <2>1, <2>3, <2>6 DEF CoolInv, Older, TypeOK
  <2>8. Unused'
    BY <2>4, <2>6 DEF CoolInv, Unused, TypeOK
  <2> QED
    BY <2>2, <2>6, <2>7, <2>8 DEF CoolInv, Spent, Due, CooldownRespected
<1>11. ASSUME NEW e \in Engines,
              KeepQuiet(e) \/ Resolve(e) \/ Commit(e) \/ Stale(e) \/ Abort(e)
       PROVE  CoolInv'
  <2>1. InCycle(e)
    BY <1>11 DEF KeepQuiet, Resolve, Commit, Stale, Abort, InCycle
  <2>2. UNCHANGED <<rule, dedup, taken, quiet, hasty>>
    BY <1>11 DEF KeepQuiet, Resolve, Commit, Stale, Abort, Fail, table, notice
  <2>3. \A f \in Engines : ~Decided(f)'
    BY <1>11, <2>1, NoneDecided
       DEF KeepQuiet, Resolve, Commit, Stale, Abort, Fail, Sleep, PC
  <2> QED
    BY <2>2, <2>3, CoolStep
<1> QED
  BY <1>2, <1>3, <1>4, <1>5, <1>6, <1>7, <1>8, <1>9, <1>10, <1>11, NextCases

\* No alert is notified again before its rule's cooldown is over, as long as
\* the engines' cycles do not overlap: whatever fails, is muted or recovers for
\* a moment in between, with any cooldown and any number of alerts.
THEOREM CooldownKept ==
    ASSUME Overlap = {}
    PROVE  Spec => []CooldownRespected
<1>1. TypeOK /\ OneInv /\ [Next]_vars => OneInv'
  BY OneNext
<1>2. TypeOK /\ OneInv /\ ReadsRecord /\ [Next]_vars => ReadsRecord'
  BY ReadsNext
<1>3. TypeOK /\ OneInv /\ Handed /\ [Next]_vars => Handed'
  BY HandedNext DEF OneInv
<1>4. TypeOK /\ OneInv /\ ReadsRecord /\ Handed /\ CoolInv /\ [Next]_vars => CoolInv'
  BY CoolNext
<1>5. CoolInv => CooldownRespected
  BY DEF CoolInv
<1> QED
  BY TypeInit, TypeNext, OneInit, CoolInit, <1>1, <1>2, <1>3, <1>4, <1>5, PTL
     DEF Spec

-----------------------------------------------------------------------------
(* No orphan.  A cycle that has made its decision may leave the record and *)
(* the table apart until it commits: what its COMMIT will leave active     *)
(* must agree with the record (Agreed), and before the decision the table  *)
(* itself must (Backed).                                                   *)

WillBeActive(e) ==
    IF pending[e].to = "firing" THEN Active \cup pending[e].rows
                                ELSE Active \ pending[e].rows

Backed ==
    (\A e \in Engines : ~Decided(e) /\ pc[e] # "written") =>
        (Active # {} => dedup.triggered)

Agreed ==
    \A e \in Engines :
        /\ Decided(e) /\ seen[e] = "bad" => dedup.triggered
        /\ pc[e] = "written" => (WillBeActive(e) # {} => dedup.triggered)

OrphanInv == rule.duration = 0 /\ aborts = 0 => Backed /\ Agreed

LEMMA OrphanInit == Init => OrphanInv
BY DEF Init, OrphanInv, Backed, Agreed, Decided, Active

\* The table and the record before the decision, in one of the two directions.
LEMMA BackedNow ==
    ASSUME OneInv, Backed, NEW e \in Engines, InCycle(e), pc[e] \in {"loaded", "read"}
    PROVE  Active # {} => dedup.triggered
BY OthersIdle DEF Backed, Decided

\* The end of a cycle that leaves active what it was going to.
LEMMA OrphanSleep ==
    ASSUME TypeOK, OneInv, NEW e \in Engines, InCycle(e), Sleep(e),
           Active' # {} => dedup'.triggered
    PROVE  Backed' /\ Agreed'
<1>1. \A f \in Engines : ~Decided(f)' /\ pc'[f] # "written"
  BY OthersIdle DEF TypeOK, Sleep, Decided
<1> QED
  BY <1>1 DEF Backed, Agreed

\* A step to "written" whose COMMIT agrees with the record.
LEMMA OrphanWritten ==
    ASSUME TypeOK, OneInv, NEW e \in Engines, InCycle(e),
           pc' = [pc EXCEPT ![e] = "written"],
           WillBeActive(e)' # {} => dedup'.triggered
    PROVE  Backed' /\ Agreed'
<1>1. \A f \in Engines : f # e => ~Decided(f)' /\ pc'[f] # "written"
  BY OthersIdle DEF TypeOK, Decided
<1>2. pc'[e] = "written" /\ ~Decided(e)'
  BY DEF TypeOK, Decided
<1> QED
  BY <1>1, <1>2 DEF Backed, Agreed

\* What a cycle that has changed no row yet will leave active.
LEMMA WillBeNow ==
    ASSUME TypeOK, OneInv, NEW e \in Engines, pc[e] # "written",
           UNCHANGED <<alerts, pending>>
    PROVE  WillBeActive(e)' = Active
BY DEF OneInv, Sound, WillBeActive, Active

LEMMA OrphanNext ==
    ASSUME Overlap = {}
    PROVE  /\ TypeOK /\ OneInv /\ ReadsRecord /\ OrphanInv
           /\ [Next]_vars
           => OrphanInv'
<1> SUFFICES ASSUME TypeOK, OneInv, ReadsRecord, OrphanInv, [Next]_vars,
                    rule'.duration = 0, aborts' = 0
             PROVE  Backed' /\ Agreed'
  BY DEF OrphanInv
<1>0. rule' = rule
  BY NextCases DEF vars, Record, Gap, Minute, Report, Mute, AckRead, AckCommit,
     Load, DedupRead, DedupViolated, DedupRecovered, Check, Remind, Fire,
     KeepQuiet, Resolve, Commit, Stale, Abort, Fail
<1>1. aborts = 0 /\ ~\E e \in Engines : Abort(e)
  <2>1. aborts \in Nat
    BY BoundsAssumption DEF TypeOK
  <2>2. ASSUME NEW e \in Engines, Abort(e) PROVE FALSE
    BY <2>1, <2>2 DEF Abort
  <2>3. aborts' = aborts
    BY <2>2, NextCases DEF vars, Record, Gap, Minute, Report, Mute, AckRead,
       AckCommit, Load, DedupRead, DedupViolated, DedupRecovered, Check, Remind,
       Fire, KeepQuiet, Resolve, Commit, Stale
  <2> QED
    BY <2>2, <2>3
<1>2. Backed /\ Agreed /\ rule.duration = 0
  BY <1>0, <1>1 DEF OrphanInv
<1>3. CASE UNCHANGED <<alerts, dedup, pc, seen, pending>>
  BY <1>2, <1>3 DEF Backed, Agreed, WillBeActive, Active, Decided
<1>4. ASSUME \/ UNCHANGED vars \/ Record \/ Gap
             \/ \E s \in Sample : Report(s)
             \/ \E m \in SUBSET {"alerts", "notifications"} : Mute(m)
             \/ \E r \in Rows : AckRead(r)
      PROVE  Backed' /\ Agreed'
  BY <1>3, <1>4 DEF vars, Record, Gap, Report, Mute, AckRead, cycle, table
<1>5. CASE Minute
  <2>1. \A e \in Engines : pc[e] = "asleep" /\ pc'[e] = "awake"
    BY <1>5 DEF Minute, Asleep
  <2>2. dedup'.triggered = dedup.triggered /\ alerts' = alerts
    BY <1>5 DEF Minute, table, TypeOK, Dedup
  <2> QED
    BY <1>2, <2>1, <2>2 DEF Backed, Agreed, Decided, Active
<1>6. ASSUME NEW r \in Rows, AckCommit(r) PROVE Backed' /\ Agreed'
  <2>1. r \in Active /\ \A e \in Engines : pc[e] \in {"asleep", "awake"}
    BY <1>6 DEF AckCommit, OneInv, AcksWait, InCycle
  <2>2. Active' = Active /\ UNCHANGED <<pc, dedup>>
    BY <1>6, <2>1 DEF AckCommit, Active, TypeOK
  <2> QED
    BY <1>2, <2>1, <2>2 DEF Backed, Agreed, Decided
<1>7. ASSUME NEW e \in Engines, Load(e) PROVE Backed' /\ Agreed'
  <2>1. \A f \in Engines : pc[f] \in {"asleep", "awake"}
    BY <1>7 DEF Load
  <2>2. \A f \in Engines : pc'[f] \in {"asleep", "awake", "loaded"}
    BY <1>7, <2>1 DEF Load, TypeOK
  <2>3. UNCHANGED <<alerts, dedup>>
    BY <1>7 DEF Load, table
  <2> QED
    BY <1>2, <2>1, <2>2, <2>3 DEF Backed, Agreed, Decided, Active
<1>8. ASSUME NEW e \in Engines, DedupRead(e) PROVE Backed' /\ Agreed'
  <2>1. InCycle(e) /\ pc[e] = "loaded" /\ pc' = [pc EXCEPT ![e] = "read"]
    BY <1>8 DEF DedupRead, InCycle
  <2>2. \A f \in Engines : ~Decided(f)' /\ pc'[f] # "written"
    BY <2>1, OthersIdle DEF TypeOK, Decided
  <2>3. dedup'.triggered = dedup.triggered /\ alerts' = alerts
    BY <1>8 DEF DedupRead, table, TypeOK, Dedup
  <2> QED
    BY <1>2, <2>1, <2>2, <2>3, BackedNow DEF Backed, Agreed, Active
<1>9. ASSUME NEW e \in Engines, DedupViolated(e) PROVE Backed' /\ Agreed'
  <2>1. InCycle(e) /\ dedup'.triggered = TRUE
    BY <1>9 DEF DedupViolated, InCycle
  <2> QED
    BY <2>1 DEF Backed, Agreed
<1>10. ASSUME NEW e \in Engines, DedupRecovered(e) PROVE Backed' /\ Agreed'
  <2>1. InCycle(e) /\ seen[e] = "ok" /\ seen' = seen /\ held[e] = dedup
    BY <1>10 DEF DedupRecovered, InCycle, ReadsRecord
  <2>2. Active # {} => dedup.triggered
    BY <1>2, <1>10, <2>1, BackedNow DEF DedupRecovered
  <2>3. CASE dedup.triggered
    <3>1. pc' = [pc EXCEPT ![e] = "decided"]
      BY <1>10, <2>1, <2>3 DEF DedupRecovered
    <3>2. \A f \in Engines : f # e => ~Decided(f)' /\ pc'[f] # "written"
      BY <2>1, <3>1, OthersIdle DEF TypeOK, Decided
    <3>3. pc'[e] = "decided"
      BY <3>1 DEF TypeOK
    <3> QED
      BY <2>1, <3>2, <3>3 DEF Backed, Agreed, Decided
  <2>4. CASE ~dedup.triggered
    <3>1. pc' = [pc EXCEPT ![e] = "written"] /\ UNCHANGED <<alerts, pending>>
      BY <1>10, <2>1, <2>4 DEF DedupRecovered, table
    <3>2. WillBeActive(e)' = {}
      BY <1>10, <2>2, <2>4, <3>1, WillBeNow DEF DedupRecovered
    <3> QED
      BY <2>1, <3>1, <3>2, OrphanWritten
  <2> QED
    BY <2>3, <2>4
<1>11. ASSUME NEW e \in Engines, Check(e) PROVE Backed' /\ Agreed'
  <2>1. Sustained(seen[e], window) /\ \A h : Sustained(seen[e], h)
    BY <1>2 DEF Sustained
  <2>2. pc[e] = "decided" /\ pc' = [pc EXCEPT ![e] = "checked"]
    BY <1>11, <2>1 DEF Check
  <2>3. UNCHANGED <<alerts, dedup, seen, pending>>
    BY <1>11 DEF Check, table, cycle
  <2>4. \A f \in Engines : Decided(f)' = Decided(f)
    BY <2>2 DEF TypeOK, Decided
  <2>5. \A f \in Engines : pc'[f] = "written" => pc[f] = "written"
    BY <2>2 DEF TypeOK
  <2>6. Decided(e)
    BY <2>2 DEF Decided
  <2> QED
    BY <1>2, <2>3, <2>4, <2>5, <2>6 DEF Backed, Agreed, WillBeActive, Active
<1>12. ASSUME NEW e \in Engines, Remind(e) \/ Fire(e) \/ KeepQuiet(e)
       PROVE  Backed' /\ Agreed'
  <2>1. Decided(e) /\ seen[e] = "bad" /\ dedup' = dedup
    BY <1>12 DEF Remind, Fire, MayFire, KeepQuiet, Decided
  <2>2. dedup'.triggered
    BY <1>2, <2>1 DEF Agreed
  <2> QED
    BY <2>2 DEF Backed, Agreed
<1>13. ASSUME NEW e \in Engines, Resolve(e) PROVE Backed' /\ Agreed'
  <2> DEFINE newest == {r \in Rows : Newest(r)}
  <2>1. \/ /\ alerts' = [r \in Rows |-> IF r \in newest THEN "resolved" ELSE alerts[r]]
           /\ pending' = pending
        \/ /\ pending' = [pending EXCEPT ![e] = [to |-> "resolved", rows |-> newest]]
           /\ alerts' = alerts
    BY <1>13 DEF Resolve
  <2>2. newest = Active
    <3>1. \A r \in Active : r \in Nat
      BY BoundsAssumption DEF Active
    <3>2. \A r, s \in Active : s <= r
      BY <3>1 DEF OneInv, Single
    <3> QED
      BY <3>2 DEF Newest, Active
  <2> HIDE DEF newest
  <2>3. InCycle(e) /\ pc[e] # "written" /\ pc' = [pc EXCEPT ![e] = "written"]
    BY <1>13 DEF Resolve, InCycle
  <2>4. WillBeActive(e)' = {}
    <3>1. CASE /\ alerts' = [r \in Rows |-> IF r \in newest THEN "resolved" ELSE alerts[r]]
               /\ pending' = pending
      <4>1. Active' = {}
        BY <2>2, <3>1 DEF Active
      <4>2. pending'[e].rows = {}
        BY <2>3, <3>1 DEF OneInv, Sound
      <4> QED
        BY <4>1, <4>2 DEF WillBeActive
    <3>2. CASE /\ pending' = [pending EXCEPT ![e] = [to |-> "resolved", rows |-> newest]]
               /\ alerts' = alerts
      <4>1. pending'[e].to = "resolved" /\ pending'[e].rows = Active /\ Active' = Active
        BY <2>2, <3>2 DEF TypeOK, Active
      <4> QED
        BY <4>1 DEF WillBeActive
    <3> QED
      BY <2>1, <3>1, <3>2
  <2> QED
    BY <2>3, <2>4, OrphanWritten
<1>14. ASSUME NEW e \in Engines, Commit(e) PROVE Backed' /\ Agreed'
  <2>1. InCycle(e) /\ Sleep(e) /\ dedup' = dedup
    BY <1>14 DEF Commit, InCycle
  <2>2. Active' \subseteq WillBeActive(e)
    <3>1. alerts' = [r \in Rows |->
                       IF r \in pending[e].rows THEN pending[e].to ELSE alerts[r]]
      BY <1>14 DEF Commit
    <3>2. pending[e].to \in {"firing", "resolved"}
      BY DEF TypeOK
    <3> QED
      BY <3>1, <3>2 DEF WillBeActive, Active
  <2>3. WillBeActive(e) # {} => dedup.triggered
    BY <1>2, <1>14 DEF Commit, Agreed
  <2> QED
    BY <2>1, <2>2, <2>3, OrphanSleep
<1>15. ASSUME NEW e \in Engines, Stale(e) PROVE Backed' /\ Agreed'
  <2>1. InCycle(e) /\ pc[e] = "read" /\ Sleep(e) /\ UNCHANGED <<dedup, alerts>>
    BY <1>15 DEF Stale, Fail, InCycle, table
  <2>2. Active' # {} => dedup'.triggered
    BY <1>2, <2>1, BackedNow DEF Active
  <2> QED
    BY <2>1, <2>2, OrphanSleep
<1> QED
  BY <1>1, <1>4, <1>5, <1>6, <1>7, <1>8, <1>9, <1>10, <1>11, <1>12, <1>13,
     <1>14, <1>15, NextCases

\* Between the cycles of a rule without a duration an active alert has its
\* dedup record, as long as cycles do not overlap and none has failed.
THEOREM OrphanFree ==
    ASSUME Overlap = {}
    PROVE  Spec => []NoOrphan
<1>1. TypeOK /\ OneInv /\ [Next]_vars => OneInv'
  BY OneNext
<1>2. TypeOK /\ OneInv /\ ReadsRecord /\ [Next]_vars => ReadsRecord'
  BY ReadsNext
<1>3. TypeOK /\ OneInv /\ ReadsRecord /\ OrphanInv /\ [Next]_vars => OrphanInv'
  BY OrphanNext
<1>4. OrphanInv => NoOrphan
  BY DEF OrphanInv, NoOrphan, Backed, Asleep, Decided
<1> QED
  BY TypeInit, TypeNext, OneInit, CoolInit, OrphanInit, <1>1, <1>2, <1>3, <1>4, PTL
     DEF Spec

-----------------------------------------------------------------------------
(* Overlapping engines.  An engine that fires has seen no active alert, so *)
(* from then on the active alerts of this minute are owned by different    *)
(* engines that have finished their cycle, and those still under way can   *)
(* add one each.                                                           *)

Owned(S, E) == ExistsInjection(S, E)

WillFire(e) == pending[e].to = "firing" /\ pending[e].rows # {}
Unfinished == {e \in Engines : pc[e] \notin {"asleep", "written"} \/ WillFire(e)}

Prepared ==
    \A e \in Engines :
        /\ pc[e] # "written" => pending[e].rows = {}
        /\ WillFire(e) => \E r \in Rows : pending[e].rows = {r}

Shared ==
    /\ Owned(Active, Engines)
    /\ (\E e \in Engines : WillFire(e)) => Owned(Active, Engines \ Unfinished)

RaceInv == AcksWait /\ Prepared /\ Shared

LEMMA OwnedNone == ASSUME NEW E PROVE Owned({}, E)
<1>1. [x \in {} |-> x] \in Injection({}, E)
  BY DEF Injection, IsInjective
<1> QED
  BY <1>1 DEF Owned, ExistsInjection

\* Fewer to own, more to own them.
LEMMA OwnedLess ==
    ASSUME NEW S, NEW E, Owned(S, E), NEW T, T \subseteq S, NEW F, E \subseteq F
    PROVE  Owned(T, F)
<1>1. PICK f \in Injection(S, E) : TRUE
  BY DEF Owned, ExistsInjection
<1>2. [x \in T |-> f[x]] \in Injection(T, F)
  BY <1>1 DEF Injection, IsInjective
<1> QED
  BY <1>2 DEF Owned, ExistsInjection

\* A new owner takes one more.
LEMMA OwnedMore ==
    ASSUME NEW S, NEW E, Owned(S, E), NEW x, NEW e, e \notin E
    PROVE  Owned(S \cup {x}, E \cup {e})
<1>1. PICK f \in Injection(S, E) : TRUE
  BY DEF Owned, ExistsInjection
<1>2. f \in [S -> E] /\ \A a, b \in S : f[a] = f[b] => a = b
  BY <1>1 DEF Injection, IsInjective
<1> DEFINE g == [y \in S \cup {x} |-> IF y \in S THEN f[y] ELSE e]
<1>3. g \in [S \cup {x} -> E \cup {e}]
  BY <1>2
<1>4. \A a, b \in S \cup {x} : g[a] = g[b] => a = b
  BY <1>2
<1>5. g \in Injection(S \cup {x}, E \cup {e})
  BY <1>3, <1>4 DEF Injection, IsInjective
<1> QED
  BY <1>5 DEF Owned, ExistsInjection

LEMMA RaceInit == Init => RaceInv
<1> SUFFICES ASSUME Init PROVE RaceInv
  OBVIOUS
<1>1. Active = {} /\ acks = {}
  BY DEF Init, Active
<1>2. Prepared /\ ~\E e \in Engines : WillFire(e)
  BY DEF Init, Prepared, WillFire, NoChange
<1>3. AcksWait
  BY <1>1 DEF AcksWait
<1>4. Shared
  BY <1>1, <1>2, OwnedNone DEF Shared
<1> QED
  BY <1>2, <1>3, <1>4 DEF RaceInv

\* Nothing becomes active and no engine fires: whoever owned a row still does.
LEMMA SharedLess ==
    ASSUME Shared, Active' \subseteq Active,
           \A e \in Engines : WillFire(e)' => WillFire(e),
           (\E e \in Engines : WillFire(e)) => Unfinished' \subseteq Unfinished
    PROVE  Shared'
<1>1. Owned(Active', Engines)
  BY OwnedLess DEF Shared
<1>2. ASSUME \E e \in Engines : WillFire(e)' PROVE Owned(Active', Engines \ Unfinished')
  <2>1. Owned(Active, Engines \ Unfinished)
    BY <1>2 DEF Shared
  <2>2. Engines \ Unfinished \subseteq Engines \ Unfinished'
    BY <1>2
  <2> QED
    BY <2>1, <2>2, OwnedLess
<1> QED
  BY <1>1, <1>2 DEF Shared

\* A step of a cycle before it is written.
LEMMA RaceStep ==
    ASSUME TypeOK, RaceInv, NEW e \in Engines, pc[e] \notin {"asleep", "written"},
           NEW p \in PC, pc' = [pc EXCEPT ![e] = p], UNCHANGED <<alerts, acks, pending>>,
           InCycle(e) \/ acks = {}
    PROVE  RaceInv'
<1>1. \A f \in Engines : InCycle(f)' => InCycle(f) \/ acks = {}
  BY DEF TypeOK, InCycle
<1>2. Active' = Active /\ \A f \in Engines : WillFire(f)' <=> WillFire(f)
  BY DEF Active, WillFire
<1>3. Unfinished' \subseteq Unfinished
  BY <1>2 DEF TypeOK, Unfinished
<1>4. Shared'
  BY <1>2, <1>3, SharedLess DEF RaceInv
<1>5. Prepared'
  BY DEF RaceInv, Prepared, TypeOK, WillFire
<1> QED
  BY <1>1, <1>2, <1>4, <1>5 DEF RaceInv, AcksWait

\* The end of a cycle that adds no active alert.
LEMMA RaceSleep ==
    ASSUME TypeOK, RaceInv, NEW e \in Engines, InCycle(e), Sleep(e), acks' = acks,
           Active' \subseteq Active
    PROVE  RaceInv'
<1>1. pc' = [pc EXCEPT ![e] = "asleep"] /\ pending' = [pending EXCEPT ![e] = NoChange]
  BY DEF Sleep
<1>2. \A f \in Engines : WillFire(f)' => WillFire(f)
  BY <1>1 DEF WillFire, TypeOK, NoChange
<1>3. Unfinished' \subseteq Unfinished
  BY <1>1, <1>2 DEF TypeOK, Unfinished
<1>4. Shared'
  BY <1>2, <1>3, SharedLess DEF RaceInv
<1>5. Prepared'
  BY <1>1 DEF RaceInv, Prepared, TypeOK, WillFire, NoChange
<1>6. acks = {}
  BY DEF RaceInv, AcksWait
<1> QED
  BY <1>4, <1>5, <1>6 DEF RaceInv, AcksWait

LEMMA RaceNext ==
    ASSUME "acks" \notin Overlap
    PROVE  TypeOK /\ RaceInv /\ [Next]_vars => RaceInv'
<1> SUFFICES ASSUME TypeOK, RaceInv, [Next]_vars PROVE RaceInv'
  OBVIOUS
<1>1. CASE UNCHANGED <<alerts, acks, pending, pc>>
  BY <1>1 DEF RaceInv, AcksWait, Prepared, Shared, Active, InCycle, WillFire, Unfinished
<1>2. ASSUME \/ UNCHANGED vars \/ Record \/ Gap
             \/ \E s \in Sample : Report(s)
             \/ \E m \in SUBSET {"alerts", "notifications"} : Mute(m)
      PROVE  RaceInv'
  BY <1>1, <1>2 DEF vars, Record, Gap, Report, Mute, cycle, table
<1>3. CASE Minute
  <2>1. \A e \in Engines : pc[e] = "asleep" /\ pc'[e] = "awake"
    BY <1>3 DEF Minute, Asleep
  <2>2. UNCHANGED <<alerts, acks, pending>>
    BY <1>3 DEF Minute, table, cycle
  <2>3. \A e \in Engines : ~WillFire(e)
    BY <2>1 DEF RaceInv, Prepared, WillFire
  <2>4. Shared'
    BY <2>2, <2>3 DEF RaceInv, Shared, Active, WillFire
  <2> QED
    BY <2>1, <2>2, <2>3, <2>4 DEF RaceInv, AcksWait, Prepared, Active, InCycle, WillFire
<1>4. ASSUME NEW r \in Rows, AckRead(r) PROVE RaceInv'
  <2>1. \A e \in Engines : ~InCycle(e)
    BY <1>4 DEF AckRead, Asleep, InCycle
  <2>2. acks' = acks \cup {r} /\ r \in Active /\ UNCHANGED <<alerts, pending, pc>>
    BY <1>4 DEF AckRead, table, cycle
  <2> QED
    BY <2>1, <2>2 DEF RaceInv, AcksWait, Prepared, Shared, Active, InCycle,
                      WillFire, Unfinished
<1>5. ASSUME NEW r \in Rows, AckCommit(r) PROVE RaceInv'
  <2>1. r \in acks /\ acks' = acks \ {r} /\ UNCHANGED <<pending, pc>>
    BY <1>5 DEF AckCommit, cycle
  <2>2. Active' = Active
    BY <1>5, <2>1 DEF AckCommit, Active, TypeOK, RaceInv, AcksWait
  <2> QED
    BY <2>1, <2>2 DEF RaceInv, AcksWait, Prepared, Shared, InCycle, WillFire, Unfinished
<1>6. ASSUME NEW e \in Engines, Load(e) PROVE RaceInv'
  <2>1. acks = {} /\ pc[e] = "awake" /\ UNCHANGED <<alerts, acks, pending>>
    BY <1>6 DEF Load, table
  <2>2. PICK p \in PC : pc' = [pc EXCEPT ![e] = p]
    BY <1>6 DEF Load, PC
  <2> QED
    BY <2>1, <2>2, RaceStep
<1>7. ASSUME NEW e \in Engines,
             \/ DedupRead(e) \/ DedupViolated(e) \/ DedupRecovered(e)
             \/ Check(e) \/ Remind(e) \/ KeepQuiet(e)
      PROVE  RaceInv'
  <2>1. InCycle(e) /\ pc[e] # "written"
    BY <1>7 DEF DedupRead, DedupViolated, DedupRecovered, Check, Remind,
                KeepQuiet, InCycle
  <2>2. UNCHANGED <<alerts, acks, pending>>
    BY <1>7 DEF DedupRead, DedupViolated, DedupRecovered, Check, Remind,
                KeepQuiet, table, cycle
  <2>3. PICK p \in PC : pc' = [pc EXCEPT ![e] = p]
    BY <1>7 DEF DedupRead, DedupViolated, DedupRecovered, Check, Remind,
                KeepQuiet, PC
  <2> QED
    BY <2>1, <2>2, <2>3, RaceStep DEF InCycle
<1>8. ASSUME NEW e \in Engines, Fire(e) PROVE RaceInv'
  <2>1. PICK r \in Rows :
          pending' = [pending EXCEPT ![e] = [to |-> "firing", rows |-> {r}]]
    BY <1>8 DEF Fire
  <2>2. InCycle(e) /\ Active = {} /\ pc' = [pc EXCEPT ![e] = "written"]
    BY <1>8 DEF Fire, MayFire, InCycle
  <2>3. UNCHANGED <<alerts, acks>>
    BY <1>8 DEF Fire
  <2>4. Active' = {} /\ acks = {}
    BY <2>2, <2>3 DEF Active, RaceInv, AcksWait
  <2>5. Shared'
    BY <2>4, OwnedNone DEF Shared
  <2>6. pending'[e] = [to |-> "firing", rows |-> {r}] /\ pc'[e] = "written"
    BY <2>1, <2>2 DEF TypeOK
  <2>7. \A f \in Engines : f # e => pending'[f] = pending[f] /\ pc'[f] = pc[f]
    BY <2>1, <2>2 DEF TypeOK
  <2>8. Prepared'
    BY <2>6, <2>7 DEF RaceInv, Prepared, WillFire
  <2> QED
    BY <2>3, <2>4, <2>5, <2>8 DEF RaceInv, AcksWait
<1>9. ASSUME NEW e \in Engines, Resolve(e) PROVE RaceInv'
  <2> DEFINE newest == {r \in Rows : Newest(r)}
  <2>1. \/ /\ alerts' = [r \in Rows |-> IF r \in newest THEN "resolved" ELSE alerts[r]]
           /\ pending' = pending
        \/ /\ pending' = [pending EXCEPT ![e] = [to |-> "resolved", rows |-> newest]]
           /\ alerts' = alerts
    BY <1>9 DEF Resolve
  <2> HIDE DEF newest
  <2>2. /\ InCycle(e) /\ pc[e] # "written"
        /\ pc' = [pc EXCEPT ![e] = "written"] /\ acks' = acks
    BY <1>9 DEF Resolve, InCycle
  <2>3. Active' \subseteq Active /\ acks = {}
    BY <2>1, <2>2 DEF Active, RaceInv, AcksWait
  <2>4. \A f \in Engines : WillFire(f)' => WillFire(f) /\ pending'[f] = pending[f]
    BY <2>1 DEF TypeOK, WillFire
  <2>5. Unfinished' \subseteq Unfinished
    BY <2>2, <2>4 DEF TypeOK, Unfinished
  <2>6. Shared'
    BY <2>3, <2>4, <2>5, SharedLess DEF RaceInv
  <2>7. \A f \in Engines : f # e => pending'[f] = pending[f] /\ pc'[f] = pc[f]
    BY <2>1, <2>2 DEF TypeOK
  <2>8. pc'[e] = "written"
    BY <2>2 DEF TypeOK
  <2>9. Prepared'
    BY <2>4, <2>7, <2>8 DEF RaceInv, Prepared
  <2> QED
    BY <2>2, <2>3, <2>6, <2>9 DEF RaceInv, AcksWait
<1>10. ASSUME NEW e \in Engines, Commit(e) PROVE RaceInv'
  <2>1. InCycle(e) /\ Sleep(e) /\ acks' = acks
    BY <1>10 DEF Commit, InCycle
  <2>2. alerts' = [r \in Rows |-> IF r \in pending[e].rows THEN pending[e].to ELSE alerts[r]]
    BY <1>10 DEF Commit
  <2>3. CASE ~WillFire(e)
    <3>1. pending[e].rows = {} \/ pending[e].to = "resolved"
      BY <2>3 DEF TypeOK, WillFire
    <3>2. Active' \subseteq Active
      BY <2>2, <3>1 DEF Active
    <3> QED
      BY <2>1, <3>2, RaceSleep
  <2>4. CASE WillFire(e)
    <3>1. PICK r \in Rows : pending[e].rows = {r}
      BY <2>4 DEF RaceInv, Prepared
    <3>2. Active' = Active \cup {r}
      BY <2>2, <2>4, <3>1 DEF Active, WillFire
    <3>3. /\ pc' = [pc EXCEPT ![e] = "asleep"]
          /\ pending' = [pending EXCEPT ![e] = NoChange]
      BY <2>1 DEF Sleep
    <3>4. e \in Unfinished /\ Unfinished' = Unfinished \ {e}
      BY <2>4, <3>3 DEF Unfinished, WillFire, TypeOK, NoChange
    <3>5. Owned(Active, Engines \ Unfinished)
      BY <2>4 DEF RaceInv, Shared
    <3>6. Owned(Active \cup {r}, (Engines \ Unfinished) \cup {e})
      BY <3>4, <3>5, OwnedMore
    <3>7. (Engines \ Unfinished) \cup {e} = Engines \ Unfinished'
      BY <3>4
    <3>8. Owned(Active', Engines \ Unfinished')
      BY <3>2, <3>6, <3>7
    <3>9. Shared'
      BY <3>8, OwnedLess DEF Shared
    <3>10. Prepared'
      BY <3>3 DEF RaceInv, Prepared, TypeOK, WillFire, NoChange
    <3>11. acks = {}
      BY <2>1 DEF RaceInv, AcksWait
    <3> QED
      BY <2>1, <3>9, <3>10, <3>11 DEF RaceInv, AcksWait
  <2> QED
    BY <2>3, <2>4
<1>11. ASSUME NEW e \in Engines, Stale(e) \/ Abort(e) PROVE RaceInv'
  <2>1. InCycle(e) /\ Sleep(e) /\ UNCHANGED <<acks, alerts>>
    BY <1>11 DEF Stale, Abort, Fail, InCycle, table
  <2> QED
    BY <2>1, RaceSleep DEF Active
<1> QED
  BY <1>2, <1>3, <1>4, <1>5, <1>6, <1>7, <1>8, <1>9, <1>10, <1>11, NextCases

\* The duplicates of overlapping engines stop at one active alert per engine,
\* with any number of workers, whatever fails, is muted or rolled back; only
\* acknowledgements are kept out of the cycles.
THEOREM DuplicatesBounded ==
    ASSUME "acks" \notin Overlap, IsFiniteSet(Engines)
    PROVE  Spec => []OnePerEngine
<1>1. TypeOK /\ RaceInv /\ [Next]_vars => RaceInv'
  BY RaceNext
<1>2. RaceInv => OnePerEngine
  <2> SUFFICES ASSUME RaceInv PROVE OnePerEngine
    OBVIOUS
  <2>1. PICK f \in Injection(Active, Engines) : TRUE
    BY DEF RaceInv, Shared, Owned, ExistsInjection
  <2> QED
    BY <2>1, FS_Injection DEF OnePerEngine
<1> QED
  BY TypeInit, TypeNext, RaceInit, <1>1, <1>2, PTL DEF Spec
=============================================================================
