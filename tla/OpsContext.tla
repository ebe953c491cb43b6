----------------------------- MODULE OpsContext -----------------------------
(***************************************************************************)
(* The conversation of one session of the operations assistant: the        *)
(* context OpsAgentLoop keeps in memory and sends to the language model,   *)
(* and the messages it saves, from which the context is rebuilt after a    *)
(* restart. The model's interface demands that an assistant message with   *)
(* tool calls is followed, without a gap, by one tool message per call,    *)
(* and that a tool message follows the call it answers.                    *)
(*                                                                         *)
(* Runs of one session are serialised by a lock, so an action is the whole *)
(* of what happens between two points where a call can fail or a process   *)
(* can end. Texts are left out: a message is its role, the calls it makes  *)
(* and the call it answers.                                                *)
(***************************************************************************)
EXTENDS Naturals, Sequences, SequencesExt

CONSTANTS
  MaxCalls,     \* bound on the tool calls of the session
  MaxTurns,     \* bound on the user's messages
  MaxFaults     \* bound on failed database writes and restarts

ASSUME ContextAssumption == {MaxCalls, MaxTurns, MaxFaults} \subseteq Nat

VARIABLES
  context,      \* OpsAgentLoop._context
  saved,        \* the session's OpsMessage rows, by created_at
  loaded,       \* _context_loaded
  ctxPhase,     \* what the run is doing
  toolCalls,    \* tool calls of the last answer that are not finished
  calls, turns, ctxFaults

ctxVars == <<context, saved, loaded, ctxPhase, toolCalls, calls, turns, ctxFaults>>

Msg(role) == [role |-> role, calls |-> {}, id |-> 0]
Calling(ids) == [role |-> "assistant", calls |-> ids, id |-> 0]
Tool(id) == [role |-> "tool", calls |-> {}, id |-> id]
SystemPrompt == Msg("system")
HostHint == Msg("hint")      \* the system message about the target host

\* Rows that are not part of the conversation.
SkillRow == Msg("skill_load")

ContextInit ==
  /\ context = <<SystemPrompt>>
  /\ saved = <<>>
  /\ loaded = FALSE
  /\ ctxPhase = "idle"
  /\ toolCalls = <<>>
  /\ calls = 0 /\ turns = 0 /\ ctxFaults = 0

-----------------------------------------------------------------------------
(* Rebuilding, compacting and completing the context.                      *)

\* Mutant: a skill that was loaded is restored as the message it was.
ContextRowSkills(row) == IF row.role = "skill_load" THEN <<Msg("system")>> ELSE <<row>>

\* Rows other than texts, summaries, calls and results are skipped.
ContextRow(row) == IF row.role = "skill_load" THEN <<>> ELSE <<row>>

Rebuilt(rows) ==
  <<SystemPrompt>> \o FlattenSeq([i \in DOMAIN rows |-> ContextRow(rows[i])])

WithoutHint(ctx) ==
  FlattenSeq([i \in DOMAIN ctx |-> IF ctx[i] = HostHint THEN <<>> ELSE <<ctx[i]>>])

KeepRecent == 6

\* The prompt, a summary and the last six messages, wherever that cuts.
Compacted(ctx) ==
  <<ctx[1], Msg("system")>> \o SubSeq(ctx, Len(ctx) - KeepRecent + 1, Len(ctx))

\* Mutant: the answers are looked for in the whole context.
AnsweredInAny(ctx, i) == {ctx[j].id : j \in {k \in i + 1 .. Len(ctx) : ctx[k].role = "tool"}}

\* The calls answered in the block of tool messages right after message i.
AnsweredIn(ctx, i) ==
  {ctx[j].id : j \in {k \in i + 1 .. Len(ctx) : \A h \in i + 1 .. k : ctx[h].role = "tool"}}

Missing(ctx, i) == ctx[i].calls \ AnsweredIn(ctx, i)

\* What is sent: a placeholder is inserted for every call without an answer.
Normalized(ctx) ==
  FlattenSeq([i \in DOMAIN ctx |->
                <<ctx[i]>> \o [k \in DOMAIN SetToSeq(Missing(ctx, i)) |->
                                 Tool(SetToSeq(Missing(ctx, i))[k])]])

-----------------------------------------------------------------------------
(* One turn: the user's message, then rounds of answers and tool calls.    *)

\* run(): load, replace the hint about the host, save and append the message,
\* compact when the session has used its tokens and the summary succeeds.
Turn ==
  /\ ctxPhase = "idle"
  /\ turns < MaxTurns
  /\ turns' = turns + 1
  /\ LET base == IF loaded THEN context ELSE Rebuilt(saved) IN
     \E hint \in BOOLEAN, compact \in BOOLEAN :
       LET hinted == IF hint THEN Append(WithoutHint(base), HostHint) ELSE base
           full == Append(hinted, Msg("user"))
       IN /\ compact => Len(full) > KeepRecent + 2
          /\ context' = IF compact THEN Compacted(full) ELSE full
          /\ saved' = saved \o IF compact THEN <<Msg("user"), Msg("system")>> ELSE <<Msg("user")>>
  /\ loaded' = TRUE
  /\ ctxPhase' = "infer"
  /\ UNCHANGED <<toolCalls, calls, ctxFaults>>

\* The model answers with text only: the run ends.
AnswerText ==
  /\ ctxPhase = "infer"
  /\ context' = Append(context, Msg("assistant"))
  /\ saved' = Append(saved, Msg("assistant"))
  /\ ctxPhase' = "idle"
  /\ UNCHANGED <<loaded, toolCalls, calls, turns, ctxFaults>>

\* The model calls one or two tools; its text, if any, is saved on its own.
AnswerCalls ==
  /\ ctxPhase = "infer"
  /\ \E n \in 1..2, text \in BOOLEAN :
       /\ calls + n <= MaxCalls
       /\ context' = Append(context, Calling(calls + 1 .. calls + n))
       /\ saved' = IF text THEN Append(saved, Msg("assistant")) ELSE saved
       /\ toolCalls' = [k \in 1..n |-> calls + k]
       /\ calls' = calls + n
  /\ ctxPhase' = "tools"
  /\ UNCHANGED <<loaded, turns, ctxFaults>>

\* The next call starts: its row is saved.
StartTool ==
  /\ ctxPhase = "tools"
  /\ toolCalls # <<>>
  /\ saved' = Append(saved, Calling({Head(toolCalls)}))
  /\ ctxPhase' = "running"
  /\ UNCHANGED <<context, loaded, toolCalls, calls, turns, ctxFaults>>

\* The tool load_skill saves a row and emits SKILL_LOADED; consuming the event
\* puts the skill into the context, and so does the loop after the result.
SkillResult ==
  /\ ctxPhase = "running"
  /\ context' = context \o <<Msg("system"), Tool(Head(toolCalls)), Msg("system")>>
  /\ saved' = Append(saved, SkillRow)
  /\ ctxPhase' = "answered"
  /\ UNCHANGED <<loaded, toolCalls, calls, turns, ctxFaults>>

\* Any other tool; a timeout or an exception is a result as well.
ToolResult ==
  /\ ctxPhase = "running"
  /\ context' = Append(context, Tool(Head(toolCalls)))
  /\ ctxPhase' = "answered"
  /\ UNCHANGED <<saved, loaded, toolCalls, calls, turns, ctxFaults>>

\* The result is saved; provide_conclusion ends the run after the last call.
SaveResult ==
  /\ ctxPhase = "answered"
  /\ saved' = Append(saved, Tool(Head(toolCalls)))
  /\ toolCalls' = Tail(toolCalls)
  /\ IF Tail(toolCalls) # <<>> THEN ctxPhase' = "tools" ELSE ctxPhase' \in {"infer", "idle"}
  /\ UNCHANGED <<context, loaded, calls, turns, ctxFaults>>

\* A write to the database fails: the run ends with an error event.
RunFails ==
  /\ ctxPhase # "idle"
  /\ ctxFaults < MaxFaults
  /\ ctxFaults' = ctxFaults + 1
  /\ ctxPhase' = "idle"
  /\ toolCalls' = <<>>
  /\ UNCHANGED <<context, saved, loaded, calls, turns>>

\* The worker restarts, or the browser reaches another worker: a new loop.
NewLoop ==
  /\ ctxFaults < MaxFaults
  /\ ctxFaults' = ctxFaults + 1
  /\ context' = <<SystemPrompt>>
  /\ loaded' = FALSE
  /\ ctxPhase' = "idle"
  /\ toolCalls' = <<>>
  /\ UNCHANGED <<saved, calls, turns>>

ContextNext ==
  Turn \/ AnswerText \/ AnswerCalls \/ StartTool \/ SkillResult \/ ToolResult \/ SaveResult
  \/ RunFails \/ NewLoop

ContextSpec == ContextInit /\ [][ContextNext]_ctxVars

-----------------------------------------------------------------------------
(* Properties.                                                             *)

\* Every call of s is answered in the block of tool messages right after it.
AllAnswered(s) ==
  \A i \in DOMAIN s : \A c \in s[i].calls :
    \E j \in i + 1 .. Len(s) : s[j] = Tool(c) /\ \A k \in i + 1 .. j : s[k].role = "tool"

\* Every tool message of s is in the block right after the call it answers.
AllFollow(s) ==
  \A j \in DOMAIN s : s[j].role = "tool" =>
    \E i \in 1 .. j - 1 : s[j].id \in s[i].calls /\ \A k \in i + 1 .. j - 1 : s[k].role = "tool"

\* What is sent to the model never has a call without an answer, although runs
\* fail between a call and its result (_normalized_messages_for_tool_protocol).
CallsAreAnswered == ctxPhase = "infer" => AllAnswered(Normalized(context))

\* The saved messages always rebuild a context in which every result follows
\* its call, wherever a run failed (_ensure_context_loaded, _to_context_message).
ReloadIsWellFormed == AllFollow(Rebuilt(saved))

\* "only after the tool message is appended is more system context injected, so
\* that the protocol's order assistant(tool_calls) -> tool is not interrupted":
\* consuming SKILL_LOADED injects it before (ops_agent_loop.py, _consume_tool_events).
OrderIsKept == ctxPhase \in {"tools", "infer"} => AllFollow(context)
=============================================================================
