----------------------- MODULE RunbookExecutionProofs -----------------------
(***************************************************************************)
(* What RunbookExecution guarantees for runbooks of every length, with     *)
(* every choice of rollback commands.                                      *)
(*                                                                         *)
(* The inductive invariant says where an execution can be: the commands    *)
(* run without a failure so far (Forward), a failure is the command after  *)
(* the successful ones (Failure), a rollback has divided the steps it      *)
(* planned into those undone and the earlier ones still to do (Reversal),  *)
(* and what stands on the host follows from both (Standing).               *)
(***************************************************************************)
EXTENDS RunbookExecution, TLAPS

Forward ==
    /\ phase \in {"main", "verify"} =>
         /\ failed = 0 /\ undone = {} /\ todo = {} /\ outcome = "none"
         /\ late \subseteq silent
         /\ effects \subseteq 1..done /\ 1..done \ silent \subseteq effects
    /\ phase = "main" => checked = 0
    /\ phase = "verify" => done = N /\ checked < Checks
    /\ phase = "rollback" => outcome = "none"

Failure ==
    /\ failed # 0 => failed = done + 1
    /\ phase = "rollback" \/ outcome = "failed" => failed = done + 1 \/ done = N
    /\ silent \subseteq 1..done
    /\ late \subseteq silent \cup {done + 1}

Reversal ==
    /\ todo \subseteq undoable \cap 1..done
    /\ undone \subseteq undoable \cap 1..done
    /\ \A i \in undone, j \in todo : j < i
    /\ undone # {} \/ todo # {} \/ outcome = "failed" =>
         undoable \cap 1..done \subseteq undone \cup todo

Standing ==
    /\ effects \subseteq 1..(done + 1)
    /\ effects \cap undone \subseteq silent
    /\ 1..done \ (undoable \cup silent) \subseteq effects

IInv == TypeOK /\ Forward /\ Failure /\ Reversal /\ Standing /\ SuccessStands

\* Every execution starts in the invariant.
LEMMA IInvInit == Init => IInv
BY SizeAssumption DEF Init, IInv, TypeOK, Forward, Failure, Reversal, Standing,
   SuccessStands, Steps

\* Whether a rollback starts or there is nothing to roll back, what happened on
\* the host is divided as Reversal says.
LEMMA RollbackStarts ==
    ASSUME StartRollback(done), TypeOK, undone = {}, todo = {}
    PROVE  /\ todo' = undoable \cap 1..done
           /\ phase' \in {"rollback", "over"}
           /\ phase' = "rollback" => outcome' = outcome
           /\ phase' = "over" => outcome' = "failed"
BY DEF StartRollback, RollbackPlan, Finish

\* A command that counts as done keeps the invariant, with an exit status or
\* without one.
LEMMA SuccessfulStep ==
    ASSUME IInv, N \in Nat, Checks \in Nat, phase = "main",
           UNCHANGED <<given, failed, checked, todo, undone>>,
           done' = done + 1, done' \in 1..N,
           \/ effects' = effects \cup {done'} /\ UNCHANGED <<late, silent>>
           \/ /\ effects' = effects
              /\ silent' = silent \cup {done'} /\ late' = late \cup {done'},
           IF done + 1 = N THEN AfterCommands ELSE UNCHANGED <<phase, outcome>>
    PROVE  IInv'
<1> USE DEF IInv, TypeOK, Steps
<1>1. /\ phase' \in {"main", "verify", "over"}
      /\ phase' \in {"main", "verify"} => outcome' = "none"
      /\ phase' = "verify" => done' = N /\ Checks # 0
      /\ phase' = "over" => outcome' = "success" /\ done' = N /\ Checks = 0
  BY DEF AfterCommands, Finish, Forward
<1>2. /\ effects' \subseteq 1..done' /\ 1..done' \ silent' \subseteq effects'
      /\ late' \subseteq silent' /\ silent' \subseteq 1..done'
  <2>1. 1..done' = 1..done \cup {done'} /\ done' \in 1..done'
    OBVIOUS
  <2>2. /\ late \subseteq silent /\ effects \subseteq 1..done
        /\ 1..done \ silent \subseteq effects /\ silent \subseteq 1..done
    BY DEF Forward, Failure
  <2>3. CASE effects' = effects \cup {done'} /\ UNCHANGED <<late, silent>>
    BY <2>1, <2>2, <2>3
  <2>4. CASE /\ effects' = effects
             /\ silent' = silent \cup {done'} /\ late' = late \cup {done'}
    BY <2>1, <2>2, <2>4
  <2> QED
    BY <2>3, <2>4
<1>3. /\ failed = 0 /\ checked = 0 /\ undone = {} /\ todo = {}
      /\ failed' = 0 /\ checked' = 0 /\ undone' = {} /\ todo' = {}
      /\ N' = N /\ Checks' = Checks
  BY DEF Forward, given
<1>4. TypeOK'
  BY <1>1, <1>2, <1>3 DEF given
<1>5. Forward' /\ Failure' /\ Reversal' /\ SuccessStands'
  BY <1>1, <1>2, <1>3 DEF Forward, Failure, Reversal, SuccessStands
<1>6. Standing'
  BY <1>2, <1>3 DEF Standing
<1> QED
  BY <1>4, <1>5, <1>6

\* A command that counts as failed starts the rollback, whatever it has left on
\* the host.
LEMMA FailedStep ==
    ASSUME IInv, N \in Nat, Checks \in Nat, phase = "main",
           UNCHANGED <<given, done, checked, silent, undone>>,
           failed' = done + 1, done + 1 \in Steps,
           effects' \in {effects, effects \cup {done + 1}},
           late' \in {late, late \cup {done + 1}},
           StartRollback(done)
    PROVE  IInv'
<1> USE DEF IInv, TypeOK, Steps
<1>1. undone = {} /\ todo = {} /\ outcome = "none" /\ checked = 0
  BY DEF Forward
<1>2. /\ todo' = undoable \cap 1..done
      /\ \/ phase' = "rollback" /\ outcome' = "none"
         \/ phase' = "over" /\ outcome' = "failed"
  BY <1>1, RollbackStarts
<1>3. TypeOK'
  BY <1>2 DEF given
<1>4. Forward' /\ Failure' /\ SuccessStands'
  BY <1>1, <1>2 DEF given, Forward, Failure, SuccessStands
<1>5. Reversal' /\ Standing'
  BY <1>1, <1>2 DEF given, Forward, Reversal, Standing
<1> QED
  BY <1>3, <1>4, <1>5

\* Undoing the last step still to do keeps the invariant.
LEMMA UndoneStep ==
    ASSUME IInv, N \in Nat, phase = "rollback", NEW i \in todo, IsNext(i),
           UNCHANGED <<given, done, failed, checked, late>>,
           \/ effects' = effects \ {i} /\ silent' = silent
           \/ effects' \in {effects, effects \ {i}} /\ silent' = silent \cup {i},
           undone' = undone \cup {i}, todo' = todo \ {i},
           \/ phase' = "over" /\ outcome' = "failed"
           \/ UNCHANGED <<phase, outcome>>
    PROVE  IInv'
<1> USE DEF IInv, TypeOK, Steps
<1>1. i \in undoable /\ i \in 1..done /\ i \in 1..N
  BY DEF Reversal
<1>2. TypeOK'
  BY <1>1 DEF given
<1>3. Forward' /\ Failure' /\ SuccessStands'
  BY <1>1 DEF given, Forward, Failure, SuccessStands
<1>4. Reversal'
  <2>1. \A j \in todo' : j < i
    BY <1>1 DEF IsNext
  <2>2. \A k \in undone', j \in todo' : j < k
    BY <2>1 DEF Reversal
  <2> QED
    BY <1>1, <2>2 DEF given, Reversal
<1>5. Standing'
  BY <1>1 DEF given, Standing
<1> QED
  BY <1>2, <1>3, <1>4, <1>5

\* No step leaves the invariant: one case per action.
LEMMA IInvNext == IInv /\ [Next]_vars => IInv'
<1> SUFFICES ASSUME IInv, [Next]_vars PROVE IInv'
  OBVIOUS
<1> N \in Nat /\ Checks \in Nat
  BY SizeAssumption DEF IInv, TypeOK
<1> USE DEF IInv, TypeOK, Steps
<1>1. CASE Refuse
  BY <1>1 DEF Refuse, Finish, given, host, Forward, Failure, Reversal, Standing,
              SuccessStands
<1>2. CASE NoCommands
  BY <1>2 DEF NoCommands, AfterCommands, Finish, given, host, Forward, Failure,
              Reversal, Standing, SuccessStands
<1>3. CASE StepDone
  <2>1. /\ UNCHANGED <<given, failed, checked, late, silent, todo, undone>>
        /\ done' = done + 1 /\ done' \in 1..N
        /\ effects' = effects \cup {done'}
    BY <1>3 DEF StepDone
  <2> QED
    BY <1>3, <2>1, SuccessfulStep DEF StepDone, given
<1>4. CASE StepUnreported
  <2>1. /\ UNCHANGED <<given, failed, checked, effects, todo, undone>>
        /\ done' = done + 1 /\ done' \in 1..N
        /\ silent' = silent \cup {done'} /\ late' = late \cup {done'}
    BY <1>4 DEF StepUnreported
  <2> QED
    BY <1>4, <2>1, SuccessfulStep DEF StepUnreported, given
<1>5. CASE StepFails
  <2>1. /\ failed' = done + 1 /\ done + 1 \in Steps
        /\ effects' \in {effects, effects \cup {done + 1}}
        /\ UNCHANGED <<given, done, checked, late, silent, undone>>
        /\ StartRollback(done) /\ phase = "main"
    BY <1>5 DEF StepFails
  <2> QED
    BY <2>1, FailedStep DEF given
<1>6. CASE StepLost
  <2>1. /\ failed' = done + 1 /\ done + 1 \in Steps
        /\ late' = late \cup {done + 1}
        /\ UNCHANGED <<given, done, checked, effects, silent, undone>>
        /\ StartRollback(done) /\ phase = "main"
    BY <1>6 DEF StepLost
  <2> QED
    BY <2>1, FailedStep DEF given
<1>7. CASE LateEffect
  <2>1. PICK i \in late : effects' = effects \cup {i} /\ late' = late \ {i}
    BY <1>7 DEF LateEffect
  <2>2. UNCHANGED <<given, phase, done, failed, checked, silent, todo, undone, outcome>>
    BY <1>7 DEF LateEffect
  <2> QED
    BY <2>1, <2>2 DEF given, Forward, Failure, Reversal, Standing, SuccessStands
<1>8. CASE VerifyRaises
  BY <1>8 DEF VerifyRaises, Finish, given, host, Forward, Failure, Reversal,
              Standing, SuccessStands
<1>9. CASE CheckDone
  BY <1>9 DEF CheckDone, MayVerify, Finish, given, host, Forward, Failure,
              Reversal, Standing, SuccessStands
<1>10. CASE CheckFails
  <2>1. undone = {} /\ todo = {} /\ done = N /\ outcome = "none"
    BY <1>10 DEF CheckFails, MayVerify, Forward
  <2> QED
    BY <1>10, <2>1, RollbackStarts DEF CheckFails, given, host, Forward,
       Failure, Reversal, Standing, SuccessStands
<1>11. CASE UndoDone
  <2>1. PICK i \in todo : /\ IsNext(i) /\ effects' = effects \ {i}
                          /\ undone' = undone \cup {i} /\ todo' = todo \ {i}
    BY <1>11 DEF UndoDone
  <2>2. /\ phase = "rollback" /\ silent' = silent
        /\ \/ phase' = "over" /\ outcome' = "failed"
           \/ UNCHANGED <<phase, outcome>>
    BY <1>11 DEF UndoDone, Finish
  <2> QED
    BY <1>11, <2>1, <2>2, UndoneStep DEF UndoDone
<1>12. CASE UndoUnreported
  <2>1. PICK i \in todo : /\ IsNext(i) /\ effects' \in {effects, effects \ {i}}
                          /\ undone' = undone \cup {i} /\ todo' = todo \ {i}
                          /\ silent' = silent \cup {i}
    BY <1>12 DEF UndoUnreported
  <2>2. /\ phase = "rollback"
        /\ \/ phase' = "over" /\ outcome' = "failed"
           \/ UNCHANGED <<phase, outcome>>
    BY <1>12 DEF UndoUnreported, Finish
  <2> QED
    BY <1>12, <2>1, <2>2, UndoneStep DEF UndoUnreported
<1>13. CASE UndoFails
  BY <1>13 DEF UndoFails, IsNext, Finish, given, Forward, Failure, Reversal,
              Standing, SuccessStands
<1>14. CASE Die
  <2>1. /\ phase' = "over" /\ outcome' = "lost"
        /\ UNCHANGED <<given, done, failed, checked, silent, todo, undone>>
        /\ effects' \subseteq effects
        /\ \A i \in effects : i \in effects' \/ i \in todo
        /\ late' \subseteq late \cup {done + 1}
        /\ late' = late \/ done + 1 \in Steps
    BY <1>14 DEF Die, Finish
  <2> QED
    BY <2>1 DEF given, Forward, Failure, Reversal, Standing, SuccessStands
<1>15. CASE UNCHANGED vars
  BY <1>15 DEF vars, given, host, Forward, Failure, Reversal, Standing,
              SuccessStands
<1> QED
  BY <1>1, <1>2, <1>3, <1>4, <1>5, <1>6, <1>7, <1>8, <1>9, <1>10, <1>11, <1>12,
     <1>13, <1>14, <1>15 DEF Next

LEMMA Invariant == Spec => []IInv
BY IInvInit, IInvNext, PTL DEF Spec

\* RolledBack for every runbook: when every rollback command of a failed
\* execution has succeeded, only the failed step, the steps without a rollback
\* command and those without an exit status are left on the host.
THEOREM RollbackIsComplete == Spec => []RolledBack
<1>1. IInv => RolledBack
  BY SizeAssumption DEF IInv, TypeOK, Failure, Reversal, Standing, RolledBack, Steps
<1> QED
  BY <1>1, Invariant, PTL

\* Backwards for every runbook: rollback never undoes a step before a later
\* one.
THEOREM RollbackIsBackwards == Spec => []Backwards
<1>1. IInv => Backwards
  <2> SUFFICES ASSUME IInv, NEW i \in undone, NEW j \in undoable,
                      i < j, j <= done
               PROVE  j \in undone
    BY DEF Backwards
  <2>1. j \in undone \cup todo
    BY SizeAssumption DEF IInv, TypeOK, Reversal, Steps
  <2>2. j \notin todo
    BY SizeAssumption DEF IInv, TypeOK, Reversal, Steps
  <2> QED
    BY <2>1, <2>2
<1> QED
  BY <1>1, Invariant, PTL

\* NoGap for every runbook: the commands fail fast.
THEOREM FailFast == Spec => []NoGap
<1>1. IInv => NoGap
  <2> SUFFICES ASSUME IInv, NEW i \in effects, NEW j \in 1..(i - 1),
                      j \notin undoable
               PROVE  j \in effects \cup silent
    BY DEF NoGap
  <2>1. i \in Nat /\ i <= done + 1
    BY SizeAssumption DEF IInv, TypeOK, Failure, Standing, Steps
  <2>2. j \in 1..done
    BY <2>1, SizeAssumption DEF IInv, TypeOK
  <2> QED
    BY <2>2 DEF IInv, Standing
<1> QED
  BY <1>1, Invariant, PTL

\* SuccessStands for every runbook: a success is never reported for a runbook
\* that is not entirely in effect, as far as the host has reported.
THEOREM SuccessIsReal == Spec => []SuccessStands
<1>1. IInv => SuccessStands
  BY DEF IInv
<1> QED
  BY <1>1, Invariant, PTL

\* RollsBack for every runbook: both halves of what a rollback promises.
THEOREM RollbackIsSound == Spec => []RollsBack
BY RollbackIsComplete, RollbackIsBackwards, PTL DEF RollsBack

\* CommandsStand for every runbook: both halves of what execution promises.
THEOREM CommandsAreSound == Spec => []CommandsStand
BY FailFast, SuccessIsReal, PTL DEF CommandsStand
=============================================================================
