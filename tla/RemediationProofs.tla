------------------------- MODULE RemediationProofs -------------------------
(***************************************************************************)
(* Theorems about Remediation, for any number of alerts, logs, calls and   *)
(* restarts.                                                               *)
(***************************************************************************)
EXTENDS Remediation, TLAPS

-----------------------------------------------------------------------------
(* Every action, once.                                                     *)

LEMMA NextCases ==
    ASSUME Next
    PROVE  \/ \E a \in Alerts : FireAlert(a)
           \/ \E w \in Workers : Subscribe(w) \/ ConnectionLost(w)
           \/ \E w \in Workers, l \in Logs : ListenerTake(w, l)
           \/ \E l \in Logs :
                \/ RunStart(l) \/ RunEscalate(l)
                \/ RunAskApproval(l) \/ RunExecute(l) \/ RunFinish(l)
                \/ RunRaise(l)
           \/ \E t \in Triggers, a \in Alerts : TriggerCheck(t, a)
           \/ \E t \in Triggers, l \in Logs : TriggerCommit(t, l)
           \/ \E d \in Decisions, l \in Logs,
                 choice \in {"approving", "rejecting"} : Decide(d, l, choice)
           \/ \E d \in Decisions :
                \/ ApproveCommit(d) \/ RejectCommit(d) \/ ExecRead(d)
                \/ ExecRefuse(d) \/ ExecStart(d) \/ ExecRun(d)
                \/ ExecFinish(d) \/ ExecRaise(d)
           \/ \E p \in Plans \cup {NoPlan} : EditRunbook(p)
           \/ Crash
BY DEF Next, Run, Exec

-----------------------------------------------------------------------------
(* Type correctness.  A decision that has begun has a log, and one that    *)
(* executes has loaded a runbook: without the two conjuncts the type of    *)
(* status and ran is not preserved.                                        *)

Targeted ==
    \A d \in Decisions :
        /\ dec[d] \notin {"idle", "over"} => target[d] \in Logs
        /\ dec[d] \in {"executing", "running"} => plan[d] \in Plans

TInv == TypeOK /\ Targeted

LEMMA TypeInit == Init => TInv
BY PlanAssumption, BoundAssumption
   DEF Init, TInv, TypeOK, Targeted, Status, RunPC, DecPC

LEMMA TypeNext == TInv /\ [Next]_vars => TInv'
<1> SUFFICES ASSUME TInv, [Next]_vars PROVE TInv'
  OBVIOUS
<1> USE DEF TInv, TypeOK, Targeted, Status, RunPC, DecPC, done
<1>1. CASE UNCHANGED vars
  BY <1>1 DEF vars, row, task, order, source
<1>2. ASSUME NEW a \in Alerts, FireAlert(a) PROVE TInv'
  BY <1>2 DEF FireAlert, row, task, order
<1>3. ASSUME NEW w \in Workers, Subscribe(w) PROVE TInv'
  BY <1>3 DEF Subscribe, row, task, order, source
<1>4. ASSUME NEW w \in Workers, ConnectionLost(w) PROVE TInv'
  BY <1>4 DEF ConnectionLost, row, task, order
<1>5. ASSUME NEW w \in Workers, NEW l \in Logs, ListenerTake(w, l) PROVE TInv'
  BY <1>5 DEF ListenerTake, NextId, row, order
<1>6. ASSUME NEW l \in Logs, RunStart(l) PROVE TInv'
  BY <1>6 DEF RunStart, row, order, source
<1>7. ASSUME NEW l \in Logs, RunEscalate(l) PROVE TInv'
  BY <1>7 DEF RunEscalate, Conclude, Return, order, source
<1>8. ASSUME NEW l \in Logs, RunAskApproval(l) PROVE TInv'
  BY <1>8 DEF RunAskApproval, Conclude, Return, order, source
<1>9. ASSUME NEW l \in Logs, RunExecute(l) PROVE TInv'
  BY <1>9 DEF RunExecute, Executed, row, order, source
<1>10. ASSUME NEW l \in Logs, RunFinish(l) PROVE TInv'
  BY <1>10 DEF RunFinish, Conclude, Return, order, source
<1>11. ASSUME NEW l \in Logs, RunRaise(l) PROVE TInv'
  BY <1>11 DEF RunRaise, Return, row, order, source
<1>12. ASSUME NEW t \in Triggers, NEW a \in Alerts, TriggerCheck(t, a) PROVE TInv'
  BY <1>12 DEF TriggerCheck, row, task, order, source
<1>13. ASSUME NEW t \in Triggers, NEW l \in Logs, TriggerCommit(t, l) PROVE TInv'
  BY <1>13 DEF TriggerCommit, NextId, order, source
<1>14. ASSUME NEW d \in Decisions, NEW l \in Logs,
              NEW choice \in {"approving", "rejecting"}, Decide(d, l, choice)
       PROVE  TInv'
  BY <1>14 DEF Decide, row, task, source
<1>15. ASSUME NEW d \in Decisions, ApproveCommit(d) PROVE TInv'
  BY <1>15 DEF ApproveCommit, task, source
<1>16. ASSUME NEW d \in Decisions, RejectCommit(d) PROVE TInv'
  BY <1>16 DEF RejectCommit, task, source
<1>17. ASSUME NEW d \in Decisions, ExecRead(d) PROVE TInv'
  <2>1. CASE status[target[d]] = "approved"
    BY <1>17, <2>1 DEF ExecRead, row, task, source
  <2>2. CASE status[target[d]] # "approved"
    BY <1>17, <2>2 DEF ExecRead, row, task, source
  <2> QED
    BY <2>1, <2>2
<1>18. ASSUME NEW d \in Decisions, ExecRefuse(d) PROVE TInv'
  <2>1. TypeOK'
    BY <1>18 DEF ExecRefuse, ExecConclude, task, source
  <2>2. Targeted'
    BY <1>18 DEF ExecRefuse, ExecConclude
  <2> QED
    BY <2>1, <2>2
<1>19. ASSUME NEW d \in Decisions, ExecStart(d) PROVE TInv'
  BY <1>19 DEF ExecStart, task, source
<1>20. ASSUME NEW d \in Decisions, ExecRun(d) PROVE TInv'
  <2>1. TypeOK'
    <3>1. [by |-> d, plan |-> plan[d]] \in [by: Decisions \cup {Agent}, plan: Plans]
      BY <1>20 DEF ExecRun, Executed
    <3>2. ran' \in [Logs -> SUBSET [by: Decisions \cup {Agent}, plan: Plans]]
      BY <1>20, <3>1 DEF ExecRun, Executed
    <3>0. PICK l \in Logs : times' = [times EXCEPT ![l] = @ + 1]
      BY <1>20 DEF ExecRun, Executed
    <3>3. dec' \in [Decisions -> DecPC] /\ times' \in [Logs -> Nat]
      <4>1. times' \in [Logs -> Nat]
        BY <3>0
      <4>2. dec' = [dec EXCEPT ![d] = "running"]
        BY <1>20 DEF ExecRun
      <4> QED
        BY <4>1, <4>2
    <3>4. UNCHANGED <<row, task, target, plan, trig, source, listener,
                      book, crashes>>
      BY <1>20 DEF ExecRun, Executed
    <3> QED
      BY <3>2, <3>3, <3>4 DEF row, task, source
  <2>2. Targeted'
    BY <1>20 DEF ExecRun, Executed
  <2> QED
    BY <2>1, <2>2
<1>21. ASSUME NEW d \in Decisions, ExecFinish(d) PROVE TInv'
  BY <1>21 DEF ExecFinish, ExecConclude, task, source
<1>22. ASSUME NEW d \in Decisions, ExecRaise(d) PROVE TInv'
  <2>1. CASE ExecConclude(d, "failed")
    BY <1>22, <2>1 DEF ExecRaise, ExecConclude, task, source
  <2>2. CASE dec' = [dec EXCEPT ![d] = "over"] /\ UNCHANGED <<status, completed>>
    BY <1>22, <2>2 DEF ExecRaise, task, source
  <2> QED
    BY <1>22, <2>1, <2>2 DEF ExecRaise
<1>23. ASSUME NEW p \in Plans \cup {NoPlan}, EditRunbook(p) PROVE TInv'
  <2>1. book' \in Plans \cup {NoPlan}
    BY <1>23 DEF EditRunbook
  <2>2. UNCHANGED <<row, task, order, trig, source, listener, done, crashes>>
    BY <1>23 DEF EditRunbook
  <2> QED
    BY <2>1, <2>2 DEF row, task, order, source
<1>24. CASE Crash
  BY <1>24, BoundAssumption DEF Crash, Active, row
<1> QED
  BY <1>1, <1>2, <1>3, <1>4, <1>5, <1>6, <1>7, <1>8, <1>9, <1>10, <1>11,
     <1>12, <1>13, <1>14, <1>15, <1>16, <1>17, <1>18, <1>19, <1>20, <1>21,
     <1>22, <1>23, <1>24, NextCases

\* Type correctness of the remediation subsystem: columns, tasks and queues
\* keep their types through every interleaving.
THEOREM TypeCorrect == Spec => []TypeOK
<1>1. TInv => TypeOK
  BY DEF TInv
<1> QED
  BY TypeInit, TypeNext, <1>1, PTL DEF Spec

-----------------------------------------------------------------------------
(* The approval gate.  ApprovalGate is not inductive: it also takes that a *)
(* log whose handle_alert has not returned is not yet visible to an        *)
(* operator (Unseen), that what an operator decides about was left to him  *)
(* (Handed), and that an execution task descends from a committed approval.*)

Unseen ==
    \A l \in Logs : run[l] # "over" =>
        /\ ~approved[l]
        /\ status[l] \in {"absent", "pending"}
        /\ run[l] # "executing" => ran[l] = {} /\ times[l] = 0

Handed ==
    \A l \in Logs : status[l] \in {"pending_approval", "approved"} \/ approved[l]
        => \A r \in ran[l] : r.by # Agent

Descends ==
    \A d \in Decisions :
        /\ dec[d] \notin {"idle", "over"} =>
             /\ run[target[d]] = "over"
             /\ \A r \in ran[target[d]] : r.by # Agent
        /\ dec[d] \in {"scheduled", "ready", "executing", "running"} =>
             approved[target[d]]

ByApproval ==
    \A l \in Logs : \A r \in ran[l] : r.by # Agent => approved[l]

GateInv == Unseen /\ Handed /\ Descends /\ ByApproval

LEMMA GateInit == Init => GateInv
BY DEF Init, GateInv, Unseen, Handed, Descends, ByApproval

\* A step that touches none of the columns the gate reads.
GateVars == <<status, approved, run, ran, times, dec, target>>

LEMMA GateStutter ==
    ASSUME GateInv, UNCHANGED GateVars
    PROVE  GateInv'
BY DEF GateInv, GateVars, Unseen, Handed, Descends, ByApproval

LEMMA GateNext == TInv /\ GateInv /\ [Next]_vars => GateInv'
<1> SUFFICES ASSUME TInv, GateInv, [Next]_vars PROVE GateInv'
  OBVIOUS
<1> USE DEF TInv, TypeOK, Targeted, GateInv, Unseen, Handed, Descends, ByApproval, done
<1>1. CASE UNCHANGED vars
  BY <1>1, GateStutter DEF vars, row, task, order, GateVars
<1>2. ASSUME NEW a \in Alerts, FireAlert(a) PROVE GateInv'
  BY <1>2, GateStutter DEF FireAlert, row, task, order, GateVars
<1>3. ASSUME NEW w \in Workers, Subscribe(w) PROVE GateInv'
  BY <1>3, GateStutter DEF Subscribe, row, task, order, GateVars
<1>4. ASSUME NEW w \in Workers, ConnectionLost(w) PROVE GateInv'
  BY <1>4, GateStutter DEF ConnectionLost, row, task, order, GateVars
<1>5. ASSUME NEW w \in Workers, NEW l \in Logs, ListenerTake(w, l) PROVE GateInv'
  BY <1>5 DEF ListenerTake, NextId, row, order
<1>6. ASSUME NEW l \in Logs, RunStart(l) PROVE GateInv'
  BY <1>6 DEF RunStart, row, order
<1>7. ASSUME NEW l \in Logs, RunEscalate(l) PROVE GateInv'
  BY <1>7 DEF RunEscalate, Conclude, order
<1>8. ASSUME NEW l \in Logs, RunAskApproval(l) PROVE GateInv'
  BY <1>8 DEF RunAskApproval, Conclude, order
<1>9. ASSUME NEW l \in Logs, RunExecute(l) PROVE GateInv'
  BY <1>9 DEF RunExecute, Executed, row, order
<1>10. ASSUME NEW l \in Logs, RunFinish(l) PROVE GateInv'
  BY <1>10 DEF RunFinish, Conclude, order
<1>11. ASSUME NEW l \in Logs, RunRaise(l) PROVE GateInv'
  BY <1>11 DEF RunRaise, row, order
<1>12. ASSUME NEW t \in Triggers, NEW a \in Alerts, TriggerCheck(t, a) PROVE GateInv'
  BY <1>12, GateStutter DEF TriggerCheck, row, task, order, GateVars
<1>13. ASSUME NEW t \in Triggers, NEW l \in Logs, TriggerCommit(t, l) PROVE GateInv'
  BY <1>13 DEF TriggerCommit, NextId, order
<1>14. ASSUME NEW d \in Decisions, NEW l \in Logs,
              NEW choice \in {"approving", "rejecting"}, Decide(d, l, choice)
       PROVE  GateInv'
  BY <1>14 DEF Decide, MayDecide, row, task
<1>15. ASSUME NEW d \in Decisions, ApproveCommit(d) PROVE GateInv'
  BY <1>15 DEF ApproveCommit, task
<1>16. ASSUME NEW d \in Decisions, RejectCommit(d) PROVE GateInv'
  <2>1. \A l \in Logs : status'[l] \in {"pending_approval", "approved"} => status'[l] = status[l]
    BY <1>16 DEF RejectCommit
  <2>2. Unseen'
    <3>1. /\ UNCHANGED <<approved, run, ran, times>> /\ status' = [status EXCEPT ![target[d]] = "rejected"]
          /\ run[target[d]] = "over"
      BY <1>16 DEF RejectCommit, task
    <3>2. \A l \in Logs : run[l] # "over" => status'[l] = status[l]
      BY <3>1
    <3> QED
      BY <3>1, <3>2
  <2>3. Handed' /\ ByApproval'
    BY <1>16, <2>1, SMTT(30) DEF RejectCommit
  <2>4. Descends'
    <3>1. dec' = [dec EXCEPT ![d] = "over"] /\ UNCHANGED <<approved, run, ran, target>>
      BY <1>16 DEF RejectCommit, task
    <3> QED
      BY <3>1
  <2> QED
    BY <2>2, <2>3, <2>4
<1>17. ASSUME NEW d \in Decisions, ExecRead(d) PROVE GateInv'
  <2>1. dec[d] = "scheduled" /\ UNCHANGED <<status, approved, run, ran, times, target>>
    BY <1>17 DEF ExecRead, row, task
  <2>2. dec' = [dec EXCEPT ![d] = "ready"] \/ dec' = [dec EXCEPT ![d] = "over"]
    BY <1>17 DEF ExecRead
  <2>3. Descends'
    BY <2>1, <2>2
  <2> QED
    BY <2>1, <2>3
<1>18. ASSUME NEW d \in Decisions, ExecRefuse(d) PROVE GateInv'
  BY <1>18 DEF ExecRefuse, ExecConclude, task
<1>19. ASSUME NEW d \in Decisions, ExecStart(d) PROVE GateInv'
  BY <1>19 DEF ExecStart, task
<1>20. ASSUME NEW d \in Decisions, ExecRun(d) PROVE GateInv'
  BY <1>20, TagAssumption DEF ExecRun, Executed, row, task
<1>21. ASSUME NEW d \in Decisions, ExecFinish(d) PROVE GateInv'
  BY <1>21 DEF ExecFinish, ExecConclude, task
<1>22. ASSUME NEW d \in Decisions, ExecRaise(d) PROVE GateInv'
  <2>1. CASE ExecConclude(d, "failed")
    BY <1>22, <2>1, SMTT(60) DEF ExecRaise, ExecConclude, task
  <2>2. CASE dec' = [dec EXCEPT ![d] = "over"] /\ UNCHANGED <<status, completed>>
    BY <1>22, <2>2 DEF ExecRaise, task
  <2> QED
    BY <1>22, <2>1, <2>2 DEF ExecRaise
<1>23. ASSUME NEW p \in Plans \cup {NoPlan}, EditRunbook(p) PROVE GateInv'
  BY <1>23, GateStutter DEF EditRunbook, row, task, order, GateVars
<1>24. CASE Crash
  BY <1>24 DEF Crash, Active, row
<1> QED
  BY <1>1, <1>2, <1>3, <1>4, <1>5, <1>6, <1>7, <1>8, <1>9, <1>10, <1>11,
     <1>12, <1>13, <1>14, <1>15, <1>16, <1>17, <1>18, <1>19, <1>20, <1>21,
     <1>22, <1>23, <1>24, NextCases

\* Nothing a log proposes to an operator is executed without a committed
\* approval, and what handle_alert executes itself is never put to one.
THEOREM GateHolds == Spec => []ApprovalGate
<1>1. GateInv => ApprovalGate
  BY DEF GateInv, Handed, ByApproval, ApprovalGate
<1> QED
  BY TypeInit, TypeNext, GateInit, GateNext, <1>1, PTL DEF Spec

-----------------------------------------------------------------------------
(* One alert at a time.  A listener is busy exactly as long as a call it   *)
(* made is active.                                                         *)

AutoActive(l) == Active(l) /\ owner[l] # None

BusyInv ==
    /\ ListenerSerial
    /\ \A l \in Logs : AutoActive(l) => listener[owner[l]] = "busy"

LEMMA BusyNext == TInv /\ BusyInv /\ [Next]_vars => BusyInv'
<1> SUFFICES ASSUME TInv, BusyInv, [Next]_vars PROVE BusyInv'
  OBVIOUS
<1> USE DEF TInv, TypeOK, BusyInv, ListenerSerial, AutoActive, Active
<1>1. CASE UNCHANGED <<run, owner, listener>>
  BY <1>1
<1>2. ASSUME NEW w \in Workers, Subscribe(w) \/ ConnectionLost(w) PROVE BusyInv'
  BY <1>2 DEF Subscribe, ConnectionLost, task
<1>3. ASSUME NEW w \in Workers, NEW l \in Logs, ListenerTake(w, l) PROVE BusyInv'
  BY <1>3 DEF ListenerTake, NextId, CanTake
<1>4. ASSUME NEW l \in Logs, RunStart(l) PROVE BusyInv'
  BY <1>4 DEF RunStart
<1>5. ASSUME NEW l \in Logs, Active(l), run' = [run EXCEPT ![l] = "over"],
             listener' = Return(l), UNCHANGED owner
      PROVE  BusyInv'
  BY <1>5 DEF Return
<1>6. ASSUME NEW l \in Logs, RunExecute(l) PROVE BusyInv'
  BY <1>6 DEF RunExecute, Executed
<1>7. ASSUME NEW l \in Logs,
             RunEscalate(l) \/ RunAskApproval(l) \/ RunFinish(l) \/ RunRaise(l)
      PROVE  BusyInv'
  BY <1>5, <1>7 DEF RunEscalate, RunAskApproval, RunFinish, RunRaise, Conclude
<1>8. ASSUME NEW t \in Triggers, NEW l \in Logs, TriggerCommit(t, l) PROVE BusyInv'
  BY <1>8 DEF TriggerCommit, NextId
<1>9. CASE Crash
  BY <1>9 DEF Crash
<1>10. CASE UNCHANGED vars
  BY <1>1, <1>10 DEF vars, task
<1>11. ASSUME NEW a \in Alerts,
              FireAlert(a) \/ \E t \in Triggers : TriggerCheck(t, a)
       PROVE  BusyInv'
  BY <1>1, <1>11 DEF FireAlert, TriggerCheck, task
<1>12. ASSUME NEW d \in Decisions, NEW l \in Logs,
              NEW choice \in {"approving", "rejecting"}, Decide(d, l, choice)
       PROVE  BusyInv'
  BY <1>1, <1>12 DEF Decide, task
<1>13. ASSUME NEW d \in Decisions,
              \/ ApproveCommit(d) \/ RejectCommit(d) \/ ExecRead(d)
              \/ ExecRefuse(d) \/ ExecStart(d) \/ ExecRun(d)
              \/ ExecFinish(d) \/ ExecRaise(d)
       PROVE  BusyInv'
  BY <1>1, <1>13 DEF ApproveCommit, RejectCommit, ExecRead, ExecRefuse,
     ExecStart, ExecRun, ExecFinish, ExecRaise, task
<1>14. ASSUME NEW p \in Plans \cup {NoPlan}, EditRunbook(p) PROVE BusyInv'
  BY <1>1, <1>14 DEF EditRunbook, task
<1> QED
  BY <1>2, <1>3, <1>4, <1>6, <1>7, <1>8, <1>9, <1>10, <1>11, <1>12, <1>13,
     <1>14, NextCases

\* No listener ever has two alerts in hand.
THEOREM ListenerIsSerial == Spec => []ListenerSerial
<1>1. Init => BusyInv
  BY DEF Init, BusyInv, ListenerSerial, AutoActive, Active
<1>2. BusyInv => ListenerSerial
  BY DEF BusyInv
<1> QED
  BY TypeInit, TypeNext, <1>1, BusyNext, <1>2, PTL DEF Spec

-----------------------------------------------------------------------------
(* Refinement.  When decisions about a log do not overlap, a decision that *)
(* is under way is the only one of its log, and the log's status is what   *)
(* that decision last read or wrote (InStep): the unconditional UPDATEs    *)
(* then never overwrite anything.                                          *)

Live(d) == dec[d] \notin {"idle", "over"}

InStep ==
    \A d \in Decisions :
        /\ dec[d] \in {"approving", "rejecting"} => status[target[d]] = "pending_approval"
        /\ dec[d] \in {"scheduled", "ready"} => status[target[d]] = "approved"
        /\ dec[d] \in {"executing", "running"} => status[target[d]] = "executing"
        /\ Live(d) /\ dec[d] # "running" => times[target[d]] = 0
        /\ dec[d] = "running" => times[target[d]] = 1

Alone ==
    \A d, e \in Decisions : Live(d) /\ Live(e) /\ target[d] = target[e] => d = e

Started ==
    \A l \in Logs :
        /\ status[l] \in {"pending_approval", "approved"} => times[l] = 0
        /\ run[l] = "executing" => times[l] = 1

SerialInv == InStep /\ Alone /\ Started

LEMMA SerialInit == Init => SerialInv
BY DEF Init, SerialInv, InStep, Alone, Started, Live

LEMMA SerialNext ==
    ASSUME ~Overlap
    PROVE  TInv /\ GateInv /\ SerialInv /\ [Next]_vars => SerialInv'
<1> SUFFICES ASSUME TInv, GateInv, SerialInv, [Next]_vars PROVE SerialInv'
  OBVIOUS
<1> USE DEF TInv, TypeOK, Targeted, GateInv, Unseen, Descends, SerialInv,
            InStep, Alone, Started, Live, done
<1>1. CASE UNCHANGED GateVars
  BY <1>1 DEF GateVars
<1>2. ASSUME NEW a \in Alerts,
             FireAlert(a) \/ \E t \in Triggers : TriggerCheck(t, a)
      PROVE  SerialInv'
  BY <1>1, <1>2 DEF FireAlert, TriggerCheck, row, task, order, GateVars
<1>3. ASSUME UNCHANGED vars \/ \E w \in Workers : Subscribe(w) \/ ConnectionLost(w)
      PROVE  SerialInv'
  BY <1>1, <1>3 DEF Subscribe, ConnectionLost, vars, row, task, order, GateVars
<1>4. ASSUME NEW w \in Workers, NEW l \in Logs, ListenerTake(w, l) PROVE SerialInv'
  BY <1>4 DEF ListenerTake, NextId, row, order
<1>5. ASSUME NEW l \in Logs, RunStart(l) PROVE SerialInv'
  BY <1>5 DEF RunStart, row, order
<1>6. ASSUME NEW l \in Logs, RunEscalate(l) PROVE SerialInv'
  BY <1>6 DEF RunEscalate, Conclude, order
<1>7. ASSUME NEW l \in Logs, RunAskApproval(l) PROVE SerialInv'
  BY <1>7 DEF RunAskApproval, Conclude, order
<1>8. ASSUME NEW l \in Logs, RunExecute(l) PROVE SerialInv'
  <2>0. /\ run[l] = "diagnosing" /\ times' = [times EXCEPT ![l] = @ + 1]
        /\ run' = [run EXCEPT ![l] = "executing"]
        /\ UNCHANGED <<status, dec, target>>
    BY <1>8 DEF RunExecute, Executed, row, order
  <2>a. /\ run[l] = "diagnosing" /\ times[l] = 0 /\ times'[l] = 1
        /\ \A m \in Logs \ {l} : times'[m] = times[m]
        /\ UNCHANGED <<status, dec, target>>
    <3>1. times[l] = 0
      BY <2>0
    <3>2. times'[l] = 1
      BY <2>0, <3>1
    <3> QED
      BY <2>0, <3>1, <3>2
  <2>b. \A d \in Decisions : Live(d) => target[d] \in Logs \ {l}
    BY <2>a
  <2>1. InStep'
    BY <2>a, <2>b
  <2>2. Alone'
    BY <2>0
  <2>3. Started'
    <3>1. \A m \in Logs : run'[m] = "executing" => m = l \/ run[m] = "executing"
      BY <2>0
    <3>2. status[l] \notin {"pending_approval", "approved"}
      BY <2>0
    <3> SUFFICES ASSUME NEW m \in Logs
                 PROVE  /\ status'[m] \in {"pending_approval", "approved"} => times'[m] = 0
                        /\ run'[m] = "executing" => times'[m] = 1
      OBVIOUS
    <3>3. CASE m = l
      BY <2>a, <3>2, <3>3
    <3>4. CASE m # l
      BY <2>a, <3>1, <3>4
    <3> QED
      BY <3>3, <3>4
  <2> QED
    BY <2>1, <2>2, <2>3
<1>9. ASSUME NEW l \in Logs, RunFinish(l) PROVE SerialInv'
  BY <1>9 DEF RunFinish, Conclude, order
<1>10. ASSUME NEW l \in Logs, RunRaise(l) PROVE SerialInv'
  BY <1>10 DEF RunRaise, row, order
<1>11. ASSUME NEW t \in Triggers, NEW l \in Logs, TriggerCommit(t, l) PROVE SerialInv'
  BY <1>11 DEF TriggerCommit, NextId, order
<1>12. ASSUME NEW d \in Decisions, NEW l \in Logs,
              NEW choice \in {"approving", "rejecting"}, Decide(d, l, choice)
       PROVE  SerialInv'
  <2>1. /\ status[l] = "pending_approval" /\ times[l] = 0 /\ run[l] = "over" /\ dec[d] = "idle"
        /\ dec' = [dec EXCEPT ![d] = choice] /\ target' = [target EXCEPT ![d] = l]
        /\ UNCHANGED <<row, task, ran, times>>
    BY <1>12 DEF Decide, MayDecide
  <2>2. ASSUME NEW e \in Decisions, Live(e) PROVE target[e] # l
    <3>1. CASE dec[e] \in {"approving", "rejecting"}
      BY <1>12, <3>1 DEF Decide
    <3>2. CASE dec[e] \notin {"approving", "rejecting"}
      <4>1. dec[e] \in {"scheduled", "ready", "executing", "running"}
        BY <2>2, <3>2 DEF DecPC
      <4> QED
        BY <2>1, <4>1
    <3> QED
      BY <3>1, <3>2
  <2>3. InStep'
    BY <2>1, <2>2 DEF row, task
  <2>4. Alone'
    BY <2>1, <2>2 DEF row, task
  <2>5. Started'
    BY <2>1 DEF row, task
  <2> QED
    BY <2>3, <2>4, <2>5
<1>13. ASSUME NEW d \in Decisions, ApproveCommit(d) PROVE SerialInv'
  <2>1. Live(d) /\ target[d] \in Logs
    BY <1>13 DEF ApproveCommit, task
  <2>2. \A e \in Decisions : Live(e) /\ e # d => target[e] # target[d]
    BY <2>1
  <2>3. InStep'
    BY <1>13, <2>1, <2>2 DEF ApproveCommit, task
  <2>4. Alone'
    BY <1>13 DEF ApproveCommit, task
  <2>5. Started'
    BY <1>13, <2>1 DEF ApproveCommit, task
  <2> QED
    BY <2>3, <2>4, <2>5
<1>14. ASSUME NEW d \in Decisions, RejectCommit(d) PROVE SerialInv'
  <2>1. Live(d) /\ target[d] \in Logs
    BY <1>14 DEF RejectCommit, task
  <2>2. \A e \in Decisions : Live(e) /\ e # d => target[e] # target[d]
    BY <2>1
  <2>3. InStep'
    BY <1>14, <2>1, <2>2 DEF RejectCommit, task
  <2>4. Alone'
    BY <1>14 DEF RejectCommit, task
  <2>5. Started'
    BY <1>14, <2>1 DEF RejectCommit, task
  <2> QED
    BY <2>3, <2>4, <2>5
<1>15. ASSUME NEW d \in Decisions, ExecRead(d) PROVE SerialInv'
  <2>1. Live(d) /\ target[d] \in Logs
    BY <1>15 DEF ExecRead, row, task
  <2>2. \A e \in Decisions : Live(e) /\ e # d => target[e] # target[d]
    BY <2>1
  <2>3. InStep'
    BY <1>15, <2>1, <2>2 DEF ExecRead, row, task
  <2>4. Alone'
    <3>1. target' = target /\ \A e \in Decisions : Live(e)' => Live(e)
      BY <1>15 DEF ExecRead
    <3> QED
      BY <3>1
  <2>5. Started'
    BY <1>15 DEF ExecRead, row, task
  <2> QED
    BY <2>3, <2>4, <2>5
<1>16. ASSUME NEW d \in Decisions, ExecRefuse(d) PROVE SerialInv'
  <2>1. Live(d) /\ target[d] \in Logs
    BY <1>16 DEF ExecRefuse, ExecConclude, task
  <2>2. \A e \in Decisions : Live(e) /\ e # d => target[e] # target[d]
    BY <2>1
  <2>3. InStep'
    BY <1>16, <2>1, <2>2 DEF ExecRefuse, ExecConclude, task
  <2>4. Alone'
    BY <1>16 DEF ExecRefuse, ExecConclude, task
  <2>5. Started'
    BY <1>16, <2>1 DEF ExecRefuse, ExecConclude, task
  <2> QED
    BY <2>3, <2>4, <2>5
<1>17. ASSUME NEW d \in Decisions, ExecStart(d) PROVE SerialInv'
  <2>1. Live(d) /\ target[d] \in Logs
    BY <1>17 DEF ExecStart, task
  <2>2. \A e \in Decisions : Live(e) /\ e # d => target[e] # target[d]
    BY <2>1
  <2>3. InStep'
    BY <1>17, <2>1, <2>2 DEF ExecStart, task
  <2>4. Alone'
    BY <1>17 DEF ExecStart, task
  <2>5. Started'
    BY <1>17, <2>1 DEF ExecStart, task
  <2> QED
    BY <2>3, <2>4, <2>5
<1>18. ASSUME NEW d \in Decisions, ExecRun(d) PROVE SerialInv'
  <2>1. Live(d) /\ target[d] \in Logs
    BY <1>18 DEF ExecRun, Executed, row, task
  <2>2. \A e \in Decisions : Live(e) /\ e # d => target[e] # target[d]
    BY <2>1
  <2>3. InStep'
    <3>0. times[target[d]] = 0 /\ times' = [times EXCEPT ![target[d]] = @ + 1]
      BY <1>18, <2>1 DEF ExecRun, Executed
    <3>1. times'[target[d]] = 1 /\ \A l \in Logs \ {target[d]} : times'[l] = times[l]
      BY <2>1, <3>0
    <3>2. dec' = [dec EXCEPT ![d] = "running"] /\ UNCHANGED <<status, target>>
      BY <1>18 DEF ExecRun, Executed, row
    <3>3. status[target[d]] = "executing"
      BY <1>18 DEF ExecRun, Executed
    <3> QED
      BY <2>1, <2>2, <3>1, <3>2, <3>3
  <2>4. Alone'
    BY <1>18 DEF ExecRun, Executed, row, task
  <2>5. Started'
    BY <1>18, <2>1 DEF ExecRun, Executed, row, task
  <2> QED
    BY <2>3, <2>4, <2>5
<1>19. ASSUME NEW d \in Decisions, ExecFinish(d) PROVE SerialInv'
  <2>1. Live(d) /\ target[d] \in Logs
    BY <1>19 DEF ExecFinish, ExecConclude, task
  <2>2. \A e \in Decisions : Live(e) /\ e # d => target[e] # target[d]
    BY <2>1
  <2>3. InStep'
    BY <1>19, <2>1, <2>2 DEF ExecFinish, ExecConclude, task
  <2>4. Alone'
    BY <1>19 DEF ExecFinish, ExecConclude, task
  <2>5. Started'
    BY <1>19, <2>1 DEF ExecFinish, ExecConclude, task
  <2> QED
    BY <2>3, <2>4, <2>5
<1>20. ASSUME NEW d \in Decisions, ExecRaise(d) PROVE SerialInv'
  <2>1. Live(d) /\ target[d] \in Logs
    BY <1>20 DEF ExecRaise, ExecConclude, task
  <2>2. \A e \in Decisions : Live(e) /\ e # d => target[e] # target[d]
    BY <2>1
  <2>3. InStep'
    <3>1. CASE ExecConclude(d, "failed")
      BY <1>20, <2>1, <2>2, <3>1 DEF ExecRaise, ExecConclude, task
    <3>2. CASE dec' = [dec EXCEPT ![d] = "over"] /\ UNCHANGED <<status, completed>>
      BY <1>20, <3>2 DEF ExecRaise, task
    <3> QED
      BY <1>20, <3>1, <3>2 DEF ExecRaise
  <2>4. Alone'
    <3>1. target' = target /\ \A e \in Decisions : Live(e)' => Live(e)
      BY <1>20 DEF ExecRaise, ExecConclude, task
    <3> QED
      BY <3>1
  <2>5. Started'
    BY <1>20, <2>1 DEF ExecRaise, ExecConclude, task
  <2> QED
    BY <2>3, <2>4, <2>5
<1>21. CASE Crash
  BY <1>21 DEF Crash, Active, row
<1>22. ASSUME NEW p \in Plans \cup {NoPlan}, EditRunbook(p) PROVE SerialInv'
  BY <1>1, <1>22 DEF EditRunbook, row, task, order, GateVars
<1> HIDE DEF TInv, TypeOK, Targeted, GateInv, Unseen, Descends, SerialInv,
             InStep, Alone, Started, Live, done
<1> QED
  BY <1>2, <1>3, <1>4, <1>5, <1>6, <1>7, <1>8, <1>9, <1>10, <1>11, <1>12,
     <1>13, <1>14, <1>15, <1>16, <1>17, <1>18, <1>19, <1>20, <1>21, <1>22,
     NextCases

\* The two ways a step of Remediation is a step of the lifecycle: it moves the
\* status of one log and executes nothing, or it executes one log's commands
\* for the first time and moves no status.
LEMMA StatusMove ==
    ASSUME TypeOK, NEW l \in Logs, NEW from, NEW to, NEW s \in to,
           status[l] \in from, status' = [status EXCEPT ![l] = s], times' = times
    PROVE  Lifecycle!Move(l, from, to)
BY DEF TypeOK, Lifecycle!Move

LEMMA FirstExecution ==
    ASSUME TypeOK, NEW l \in Logs, status[l] \in {"absent", "pending", "executing"},
           times[l] = 0, times' = [times EXCEPT ![l] = @ + 1], status' = status
    PROVE  Lifecycle!Execute(l)
<1>1. times'[l] = 1 /\ \A m \in Logs \ {l} : times'[m] = times[m]
  BY DEF TypeOK
<1>2. times' = [times EXCEPT ![l] = 1]
  BY <1>1 DEF TypeOK
<1> QED
  BY <1>2 DEF Lifecycle!Execute, Lifecycle!Fresh

LEMMA StepRefines ==
    ASSUME ~Overlap, TInv, GateInv, SerialInv, [Next]_vars
    PROVE  [Lifecycle!Next]_(Lifecycle!vars)
<1> DEFINE Refined == [Lifecycle!Next]_(Lifecycle!vars)
<1>a. TypeOK
  BY DEF TInv
<1>1. CASE UNCHANGED <<status, times>>
  BY <1>1 DEF Lifecycle!vars
<1>2. ASSUME NEW l \in Logs, RunStart(l) \/ RunRaise(l)
             \/ \E w \in Workers : ListenerTake(w, l)
      PROVE  Refined
  BY <1>1, <1>2 DEF ListenerTake, NextId, RunStart, RunRaise, row, done
<1>3. ASSUME NEW l \in Logs, RunEscalate(l) \/ RunAskApproval(l) PROVE Refined
  <2>1. status[l] \in Lifecycle!Fresh /\ times[l] = 0 /\ times' = times
    BY <1>3 DEF GateInv, Unseen, RunEscalate, RunAskApproval, Lifecycle!Fresh, done
  <2>2. PICK s \in {"escalated", "pending_approval"} :
          status' = [status EXCEPT ![l] = s]
    BY <1>3 DEF RunEscalate, RunAskApproval, Conclude
  <2>3. Lifecycle!Move(l, Lifecycle!Fresh, {"escalated", "pending_approval"})
    BY <1>a, <2>1, <2>2, StatusMove
  <2> QED
    BY <2>1, <2>3 DEF Lifecycle!Next, Lifecycle!Settle
<1>4. ASSUME NEW l \in Logs, RunExecute(l) PROVE Refined
  <2>1. status[l] \in {"absent", "pending"} /\ times[l] = 0 /\ status' = status
    BY <1>4 DEF GateInv, Unseen, RunExecute, Executed, row, done
  <2>2. Lifecycle!Execute(l)
    BY <1>4, <1>a, <2>1, FirstExecution DEF RunExecute, Executed
  <2> QED
    BY <2>2 DEF Lifecycle!Next
<1>5. ASSUME NEW l \in Logs, RunFinish(l) PROVE Refined
  <2>1. status[l] \in Lifecycle!Fresh \cup {"executing"} /\ times[l] = 1 /\ times' = times
    BY <1>5 DEF GateInv, Unseen, SerialInv, Started, RunFinish, Lifecycle!Fresh, done
  <2>2. PICK s \in {"success", "failed"} : status' = [status EXCEPT ![l] = s]
    BY <1>5 DEF RunFinish, Conclude
  <2>3. Lifecycle!Move(l, Lifecycle!Fresh \cup {"executing"}, {"success", "failed"})
    BY <1>a, <2>1, <2>2, StatusMove
  <2> QED
    BY <2>1, <2>3 DEF Lifecycle!Next, Lifecycle!Report
<1>6. ASSUME NEW t \in Triggers, NEW l \in Logs, TriggerCommit(t, l) PROVE Refined
  <2>1. status[l] \in {"absent", "pending"} /\ times' = times
    BY <1>6 DEF GateInv, Unseen, TriggerCommit, NextId, done
  <2>2. status' = [status EXCEPT ![l] = "pending"]
    BY <1>6 DEF TriggerCommit, NextId, done
  <2>3. CASE status[l] = "absent"
    BY <1>a, <2>1, <2>2, <2>3, StatusMove DEF Lifecycle!Next, Lifecycle!Open
  <2>4. CASE status[l] = "pending"
    BY <1>1, <1>a, <2>1, <2>2, <2>4 DEF TypeOK
  <2> QED
    BY <2>1, <2>3, <2>4
<1>7. ASSUME NEW d \in Decisions, NEW l \in Logs,
             NEW choice \in {"approving", "rejecting"}, Decide(d, l, choice)
      PROVE  Refined
  BY <1>1, <1>7 DEF Decide, row, done
<1>8. ASSUME NEW d \in Decisions, ApproveCommit(d) PROVE Refined
  <2>1. target[d] \in Logs /\ status[target[d]] \in {"pending_approval"} /\ times' = times
    BY <1>8 DEF TInv, Targeted, SerialInv, InStep, ApproveCommit, done
  <2>2. Lifecycle!Approve(target[d])
    BY <1>8, <1>a, <2>1, StatusMove DEF ApproveCommit, Lifecycle!Approve
  <2> QED
    BY <2>1, <2>2 DEF Lifecycle!Next
<1>9. ASSUME NEW d \in Decisions, RejectCommit(d) PROVE Refined
  <2>1. target[d] \in Logs /\ status[target[d]] \in {"pending_approval"} /\ times' = times
    BY <1>9 DEF TInv, Targeted, SerialInv, InStep, RejectCommit, done
  <2>2. Lifecycle!Reject(target[d])
    BY <1>9, <1>a, <2>1, StatusMove DEF RejectCommit, Lifecycle!Reject
  <2> QED
    BY <2>1, <2>2 DEF Lifecycle!Next
<1>10. ASSUME NEW d \in Decisions, ExecRead(d) PROVE Refined
  BY <1>1, <1>10 DEF ExecRead, row, done
<1>11. ASSUME NEW d \in Decisions, ExecConclude(d, "failed"), times' = times,
              dec[d] \in {"scheduled", "ready", "executing", "running"}
       PROVE  Refined
  <2>1. target[d] \in Logs /\ status[target[d]] \in {"approved", "executing"}
    BY <1>11 DEF TInv, Targeted, SerialInv, InStep
  <2>2. Lifecycle!Fail(target[d])
    BY <1>11, <1>a, <2>1, StatusMove DEF ExecConclude, Lifecycle!Fail
  <2> QED
    BY <2>1, <2>2 DEF Lifecycle!Next
<1>12. ASSUME NEW d \in Decisions, ExecRefuse(d) \/ ExecRaise(d) PROVE Refined
  BY <1>1, <1>11, <1>12 DEF ExecRefuse, ExecRaise, done
<1>13. ASSUME NEW d \in Decisions, ExecStart(d) PROVE Refined
  <2>1. target[d] \in Logs /\ status[target[d]] \in {"approved"} /\ times' = times
    BY <1>13 DEF TInv, Targeted, SerialInv, InStep, ExecStart, done
  <2>2. Lifecycle!Start(target[d])
    BY <1>13, <1>a, <2>1, StatusMove DEF ExecStart, Lifecycle!Start
  <2> QED
    BY <2>1, <2>2 DEF Lifecycle!Next
<1>14. ASSUME NEW d \in Decisions, ExecRun(d) PROVE Refined
  <2>1. target[d] \in Logs /\ status[target[d]] = "executing" /\ times[target[d]] = 0
    BY <1>14 DEF TInv, Targeted, SerialInv, InStep, Live, ExecRun
  <2>2. PICK l \in Logs : l = target[d]
    BY <2>1
  <2>3. /\ times' = [times EXCEPT ![l] = @ + 1]
        /\ status' = status
    BY <1>14, <2>2 DEF ExecRun, Executed, row, done
  <2>4. Lifecycle!Execute(l)
    BY <1>a, <2>1, <2>2, <2>3, FirstExecution
  <2> QED
    BY <2>4 DEF Lifecycle!Next
<1>15. ASSUME NEW d \in Decisions, ExecFinish(d) PROVE Refined
  <2>1. /\ target[d] \in Logs
        /\ status[target[d]] \in Lifecycle!Fresh \cup {"executing"}
        /\ times[target[d]] = 1 /\ times' = times
    BY <1>15 DEF TInv, Targeted, SerialInv, InStep, ExecFinish, done
  <2>2. PICK s \in {"success", "failed"} : status' = [status EXCEPT ![target[d]] = s]
    BY <1>15 DEF ExecFinish, ExecConclude
  <2>3. Lifecycle!Move(target[d], Lifecycle!Fresh \cup {"executing"}, {"success", "failed"})
    BY <1>a, <2>1, <2>2, StatusMove
  <2> QED
    BY <2>1, <2>3 DEF Lifecycle!Next, Lifecycle!Report
<1>16. ASSUME NEW a \in Alerts,
              FireAlert(a) \/ \E t \in Triggers : TriggerCheck(t, a)
       PROVE  Refined
  BY <1>1, <1>16 DEF FireAlert, TriggerCheck, row, done
<1>17. ASSUME NEW p \in Plans \cup {NoPlan}, EditRunbook(p) PROVE Refined
  BY <1>1, <1>17 DEF EditRunbook, row, done
<1>18. ASSUME \/ \E w \in Workers : Subscribe(w) \/ ConnectionLost(w)
              \/ Crash \/ UNCHANGED vars
       PROVE  Refined
  BY <1>1, <1>18 DEF Subscribe, ConnectionLost, Crash, vars, row, done
<1> QED
  BY <1>2, <1>3, <1>4, <1>5, <1>6, <1>7, <1>8, <1>9, <1>10, <1>12, <1>13,
     <1>14, <1>15, <1>16, <1>17, <1>18, NextCases

\* As long as no two decisions about one log overlap, the subsystem implements
\* RemediationLifecycle: statuses move along the documented path, final ones
\* stay, and commands are executed at most once and never after a rejection,
\* through any restart, exception or lost message.
THEOREM ImplementsLifecycle ==
    ASSUME ~Overlap
    PROVE  Spec => LifecycleSpec
<1>1. Init => Lifecycle!Init
  BY DEF Init, Lifecycle!Init
<1>2. TInv /\ GateInv /\ SerialInv /\ [Next]_vars => [Lifecycle!Next]_(Lifecycle!vars)
  BY StepRefines
<1>3. TInv /\ GateInv /\ SerialInv /\ [Next]_vars => SerialInv'
  BY SerialNext
<1> QED
  BY TypeInit, TypeNext, GateInit, GateNext, SerialInit, <1>1, <1>2, <1>3, PTL
     DEF Spec, LifecycleSpec, Lifecycle!Spec
=============================================================================
