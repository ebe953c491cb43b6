-------------------------- MODULE RunbookExecution --------------------------
(***************************************************************************)
(* One execution of a runbook on a host: its commands one after another,   *)
(* its verification commands, and the rollback of what succeeded when      *)
(* either fails.                                                           *)
(*                                                                         *)
(* RemediationAgent._execute_runbook and _execute_approved_remediation do  *)
(* the same here, with one difference: the agent passes every template     *)
(* through _resolve_command, which raises on shell metacharacters, and the *)
(* verification templates are resolved only after the commands have run.   *)
(*                                                                         *)
(* A command is abstracted to the effect it has on the host.  An exit code *)
(* other than 0 says nothing about the effect: a killed process may have   *)
(* done its work, and a command whose SSH session timed out may still do   *)
(* it later.  Nor does exit code 0: an SSH channel that closes without an   *)
(* exit status is recorded as 0.                                           *)
(***************************************************************************)
EXTENDS Naturals

CONSTANTS
    Sizes,       \* numbers of commands runbooks have; 0 after a PUT of steps []
    CheckSizes   \* numbers of verification commands

ASSUME SizeAssumption == Sizes \subseteq Nat /\ CheckSizes \subseteq Nat

VARIABLES
    by,          \* "agent" or "approved": which of the two executors
    remote,      \* over SSH, or a local process
    N,           \* number of commands of the runbook
    Checks,      \* number of its verification commands
    undoable,    \* steps with a rollback command
    piped,       \* a verification template that _resolve_command refuses
    phase,       \* "main", "verify", "rollback" or "over"
    done,        \* steps with exit code 0: always 1..done
    failed,      \* the step whose exit code was not 0, or 0
    checked,     \* verification commands with exit code 0
    effects,     \* steps whose effect is on the host
    late,        \* steps a lost session or process may have left running
    silent,      \* steps counted as done, or undone, without an exit status
    todo,        \* rollback commands not yet executed
    undone,      \* history: steps rolled back with exit code 0
    outcome      \* "none", "success", "failed", "refused", "raised" or "lost"

given == <<by, remote, N, Checks, undoable, piped>>
host  == <<effects, late, silent>>
vars  == <<given, phase, done, failed, checked, host, todo, undone, outcome>>

Steps == 1..N

TypeOK ==
    /\ N \in Sizes /\ Checks \in CheckSizes
    /\ by \in {"agent", "approved"}
    /\ remote \in BOOLEAN
    /\ undoable \subseteq Steps
    /\ piped \in BOOLEAN
    /\ phase \in {"main", "verify", "rollback", "over"}
    /\ done \in 0..N
    /\ failed \in 0..N
    /\ checked \in 0..Checks
    /\ effects \subseteq Steps
    /\ late \subseteq Steps
    /\ silent \subseteq Steps
    /\ todo \subseteq Steps
    /\ undone \subseteq Steps
    /\ outcome \in {"none", "success", "failed", "refused", "raised", "lost"}

Init ==
    /\ N \in Sizes /\ Checks \in CheckSizes
    /\ by \in {"agent", "approved"}
    /\ remote \in BOOLEAN
    /\ undoable \in SUBSET Steps
    /\ piped \in BOOLEAN
    /\ phase = "main"
    /\ done = 0
    /\ failed = 0
    /\ checked = 0
    /\ effects = {}
    /\ late = {}
    /\ silent = {}
    /\ todo = {}
    /\ undone = {}
    /\ outcome = "none"

\* The execution ends: nothing more is sent to the host.
Finish(o) ==
    /\ phase' = "over"
    /\ outcome' = o

\* (A rollback that leaves out the last successful step.)
RollbackPlanShort(last) == undoable \cap 1..(last - 1)

\* _rollback_runbook: the successful steps that have a rollback command.
RollbackPlan(last) == undoable \cap 1..last

StartRollback(last) ==
    IF RollbackPlan(last) = {}
      THEN Finish("failed") /\ UNCHANGED todo
      ELSE /\ phase' = "rollback"
           /\ todo' = RollbackPlan(last)
           /\ UNCHANGED outcome

-----------------------------------------------------------------------------
(* The runbook's commands.                                                 *)

\* Every command has succeeded: the verification commands come next.
AfterCommands ==
    IF Checks = 0
      THEN Finish("success")
      ELSE phase' = "verify" /\ UNCHANGED outcome

\* An unsafe command, or a template of a command or of a rollback command
\* that does not resolve: nothing is executed.
Refuse ==
    /\ phase = "main"
    /\ done = 0 /\ N # 0
    /\ Finish("refused")
    /\ UNCHANGED <<given, done, failed, checked, host, todo, undone>>

\* A runbook without commands: nothing failed.
NoCommands ==
    /\ phase = "main"
    /\ N = 0
    /\ AfterCommands
    /\ UNCHANGED <<given, done, failed, checked, host, todo, undone>>

\* The fail-fast loop of execute_steps goes on until the last command.
StepDone ==
    /\ phase = "main"
    /\ done < N
    /\ done' = done + 1
    /\ effects' = effects \cup {done + 1}
    /\ IF done + 1 = N THEN AfterCommands ELSE UNCHANGED <<phase, outcome>>
    /\ UNCHANGED <<given, failed, checked, late, silent, todo, undone>>

\* The SSH channel closes without an exit status: "exit_status or 0" is
\* success, although the command may have been cut off or still run.
StepUnreported ==
    /\ remote
    /\ phase = "main"
    /\ done < N
    /\ done' = done + 1
    /\ silent' = silent \cup {done + 1}
    /\ late' = late \cup {done + 1}
    /\ IF done + 1 = N THEN AfterCommands ELSE UNCHANGED <<phase, outcome>>
    /\ UNCHANGED <<given, failed, checked, effects, todo, undone>>

\* (A loop that goes on after a failed command.)
StepFailsOn ==
    /\ phase = "main"
    /\ done < N
    /\ failed' = done + 1
    /\ done' = done + 1
    /\ phase' = IF done + 1 = N THEN "over" ELSE "main"
    /\ outcome' = IF done + 1 = N THEN "success" ELSE outcome
    /\ UNCHANGED <<given, checked, host, todo, undone>>

\* The command exits with another code, or is killed after its timeout.
StepFails ==
    /\ phase = "main"
    /\ done < N
    /\ failed' = done + 1
    /\ effects' \in {effects, effects \cup {done + 1}}
    /\ StartRollback(done)
    /\ UNCHANGED <<given, done, checked, late, silent, undone>>

\* The SSH session is lost or times out: exit code -1, but the command may
\* still be running on the host.
StepLost ==
    /\ remote
    /\ phase = "main"
    /\ done < N
    /\ failed' = done + 1
    /\ late' = late \cup {done + 1}
    /\ StartRollback(done)
    /\ UNCHANGED <<given, done, checked, effects, silent, undone>>

\* ... and have its effect at any time, the end of the execution included.
LateEffect ==
    \E i \in late :
        /\ effects' = effects \cup {i}
        /\ late' = late \ {i}
        /\ UNCHANGED <<given, phase, done, failed, checked, silent, todo,
                       undone, outcome>>

-----------------------------------------------------------------------------
(* Verification.                                                           *)

\* The agent's _resolve_command raises ValueError: handle_alert is left with
\* the commands executed.
VerifyRaises ==
    /\ by = "agent"
    /\ piped
    /\ phase = "verify"
    /\ checked = 0
    /\ Finish("raised")
    /\ UNCHANGED <<given, done, failed, checked, host, todo, undone>>

MayVerify == phase = "verify" /\ ~(by = "agent" /\ piped)

\* (A verification that is over one command too late.)
CheckDoneLate ==
    /\ MayVerify
    /\ checked' = checked + 1
    /\ IF checked = Checks
         THEN Finish("success")
         ELSE UNCHANGED <<phase, outcome>>
    /\ UNCHANGED <<given, done, failed, host, todo, undone>>

\* (A verification satisfied with any successful command.)
CheckDoneAny ==
    /\ MayVerify
    /\ checked' = checked + 1
    /\ Finish("success")
    /\ UNCHANGED <<given, done, failed, host, todo, undone>>

CheckDone ==
    /\ MayVerify
    /\ checked' = checked + 1
    /\ IF checked + 1 = Checks
         THEN Finish("success")
         ELSE UNCHANGED <<phase, outcome>>
    /\ UNCHANGED <<given, done, failed, host, todo, undone>>

\* A verification command fails: every command had succeeded.
CheckFails ==
    /\ MayVerify
    /\ StartRollback(done)
    /\ UNCHANGED <<given, done, failed, checked, host, undone>>

-----------------------------------------------------------------------------
(* Rollback.                                                               *)

\* (The order in which the steps were executed.)
IsNextForward(i) == \A j \in todo : i <= j

\* reversed(successful_steps)
IsNext(i) == \A j \in todo : j <= i

UndoDone ==
    /\ phase = "rollback"
    /\ \E i \in todo :
         /\ IsNext(i)
         /\ effects' = effects \ {i}
         /\ undone' = undone \cup {i}
         /\ todo' = todo \ {i}
         /\ IF todo = {i} THEN Finish("failed") ELSE UNCHANGED <<phase, outcome>>
    /\ UNCHANGED <<given, done, failed, checked, late, silent>>

\* The same without an exit status: the step counts as undone.
UndoUnreported ==
    /\ remote
    /\ phase = "rollback"
    /\ \E i \in todo :
         /\ IsNext(i)
         /\ effects' \in {effects, effects \ {i}}
         /\ silent' = silent \cup {i}
         /\ undone' = undone \cup {i}
         /\ todo' = todo \ {i}
         /\ IF todo = {i} THEN Finish("failed") ELSE UNCHANGED <<phase, outcome>>
    /\ UNCHANGED <<given, done, failed, checked, late>>

\* A rollback command is refused by the safety check, fails or is lost: the
\* fail-fast loop leaves the remaining ones unexecuted.
UndoFails ==
    /\ phase = "rollback"
    /\ \E i \in todo : IsNext(i) /\ effects' \in {effects, effects \ {i}}
    /\ Finish("failed")
    /\ UNCHANGED <<given, done, failed, checked, late, silent, todo, undone>>

\* The backend process stops: nobody continues the execution, only the
\* command it was waiting for may still have its effect.
Die ==
    /\ phase # "over"
    /\ Finish("lost")
    /\ late' = IF phase = "main" /\ done < N THEN late \cup {done + 1} ELSE late
    /\ effects' \in {effects} \cup {effects \ {i} : i \in {j \in todo : IsNext(j)}}
    /\ UNCHANGED <<given, done, failed, checked, silent, todo, undone>>

Next ==
    \/ Refuse \/ NoCommands \/ StepDone \/ StepUnreported \/ StepFails
    \/ StepLost \/ LateEffect \/ VerifyRaises \/ CheckDone \/ CheckFails
    \/ UndoDone \/ UndoUnreported \/ UndoFails \/ Die

Spec == Init /\ [][Next]_vars

-----------------------------------------------------------------------------
(* What an execution guarantees.                                           *)

\* Whatever is killed, lost or late, the effects on the host never skip a
\* command: a step has its effect only if every step before it has, was undone
\* or never reported how it ended (fail-fast in execute_steps, reverse order in
\* _rollback_runbook).
NoGap ==
    \A i \in effects : \A j \in 1..(i - 1) :
        j \in effects \cup undoable \cup silent

\* Rollback runs backwards: no step is undone while a later one that can be
\* undone still stands (test_handle_alert_runs_rollbacks_in_reverse_order).
Backwards ==
    \A i \in undone : \A j \in undoable :
        i < j /\ j <= done => j \in undone

\* A failed execution whose rollback commands all succeeded leaves behind only
\* steps that have no rollback command, the step that failed, whose effect
\* nobody knows, and those that never reported an exit status.
RolledBack ==
    outcome = "failed" /\ todo = {} =>
        effects \subseteq (Steps \ undoable) \cup {failed} \cup silent

\* "success" is only reported when every command and every verification
\* command counts as succeeded, and then everything stands: nothing was
\* undone, and only a step without an exit status can be missing or late.
SuccessStands ==
    outcome = "success" =>
        /\ Steps \ effects \subseteq silent
        /\ checked = Checks
        /\ late \subseteq silent

\* _rollback_runbook: a rollback is complete, and never undoes a step before a
\* later one.
RollsBack == RolledBack /\ Backwards

\* execute_steps: the commands take effect in their order, without a gap that
\* no rollback explains, and a success means all of them.
CommandsStand == NoGap /\ SuccessStands
=============================================================================
