------------------------------ MODULE Notifier ------------------------------
(***************************************************************************)
(* Notifications of alerts: the channels and message templates that        *)
(* administrators edit, their copies in Redis, and one notification after  *)
(* another that is sent to all its channels at the same time, each with    *)
(* retries, on one database session.                                       *)
(*                                                                         *)
(* What is sent is left out, and with it the difference between the seven  *)
(* types of channel. All channels of the model share one kind of template, *)
(* and a default template is of that kind or of the kind "all".            *)
(***************************************************************************)
EXTENDS Naturals, FiniteSets

CONSTANTS
  Channels,
  Templates,
  MaxAttempts     \* notification_max_retries

ASSUME NotifierAssumption == MaxAttempts \in Nat \ {0}

VARIABLES
  enabled,     \* channels with is_enabled
  copied,      \* the cached list: a set of channels in a singleton, or {}
  defaults,    \* kind of each template that is a default, "no" otherwise
  remembered,  \* is the kind's template in Redis?
  editor,      \* has an administrator committed and not yet deleted the copy?
  list,        \* the notification: [pc, to], with the channels read
  send,        \* its tasks: [pc, tries]
  log          \* [status, retries] of the task's row, NoLog without one

adminVars == <<enabled, defaults, editor>>
cacheVars == <<copied, remembered>>
sendVars == <<send, log>>
notifierVars == <<adminVars, cacheVars, list, sendVars>>

NoLog == [status |-> "none", retries |-> 0]
NotSending == [pc |-> "idle", tries |-> 0]

NotifierInit ==
  /\ enabled = Channels /\ copied = {}
  /\ defaults \in [Templates -> {"no", "own", "all"}]
  /\ \A k \in {"own", "all"} : Cardinality({t \in Templates : defaults[t] = k}) <= 1
  /\ remembered = FALSE /\ editor = FALSE
  /\ list = [pc |-> "none", to |-> {}]
  /\ send = [c \in Channels |-> NotSending]
  /\ log = [c \in Channels |-> NoLog]

-----------------------------------------------------------------------------
(* Administration.                                                         *)

\* A channel is created or enabled, disabled or deleted; then, after the
\* COMMIT, the copied list is deleted.
EditChannel(c) ==
  /\ ~editor /\ editor' = TRUE
  /\ enabled' = IF c \in enabled THEN enabled \ {c} ELSE enabled \cup {c}
  /\ UNCHANGED <<defaults, cacheVars, list, sendVars>>

ForgetList ==
  /\ editor /\ editor' = FALSE
  /\ copied' = {}
  /\ UNCHANGED <<enabled, defaults, remembered, list, sendVars>>

\* A template becomes a default of kind k and those of its kind cease to be;
\* its own edits and its deletion; the template in Redis stays.
EditTemplate(t, k) ==
  /\ defaults' = [s \in Templates |->
                    CASE s = t -> k
                      [] s # t /\ k # "no" /\ defaults[s] = k -> "no"
                      [] OTHER -> defaults[s]]
  /\ UNCHANGED <<enabled, editor, cacheVars, list, sendVars>>

\* An edit without is_default moves a default template to another kind.
MoveTemplate(t, k) ==
  /\ defaults[t] \in {"own", "all"} \ {k}
  /\ defaults' = [defaults EXCEPT ![t] = k]
  /\ UNCHANGED <<enabled, editor, cacheVars, list, sendVars>>

\* Mutant: the list is copied without an expiry.
ListExpiresNever == FALSE

ListExpires == copied # {}

CopyExpires ==
  /\ ListExpires /\ copied' = {}
  /\ UNCHANGED <<adminVars, remembered, list, sendVars>>

TemplateExpires ==
  /\ remembered /\ remembered' = FALSE
  /\ UNCHANGED <<adminVars, copied, list, sendVars>>

-----------------------------------------------------------------------------
(* send_alert_notification, _get_channels_for_rule, _get_enabled_channels. *)

\* An alert's tasks look for a template first; those of a remediation's
\* result post once, without a row.
Begin(to, first) ==
  /\ list' = [pc |-> "sending", to |-> {}]
  /\ send' = [c \in Channels |-> IF c \in to THEN [pc |-> first, tries |-> 0] ELSE NotSending]
  /\ log' = [c \in Channels |-> NoLog]

\* The rule names channels: those of them that are enabled. (Within the
\* rule's silence nothing happens.)
NotifyChosen(chosen) ==
  /\ list.pc = "none" /\ chosen # {}
  /\ Begin(chosen \cap enabled, "template")
  /\ UNCHANGED <<adminVars, cacheVars>>

\* It names none: the copied list, or the enabled channels ...
NotifyAll(first) ==
  /\ list.pc = "none"
  /\ IF copied # {}
       THEN \E to \in copied : Begin(to, first)
       ELSE list' = [pc |-> first, to |-> enabled] /\ UNCHANGED sendVars
  /\ UNCHANGED <<adminVars, cacheVars>>

\* ... which are then copied.
CopyList ==
  /\ list.pc \in {"template", "once"}
  /\ copied' = {list.to}
  /\ Begin(list.to, list.pc)
  /\ UNCHANGED <<adminVars, remembered>>

NotifyAlert == NotifyAll("template")

\* send_remediation_notification.
NotifyRemediation == NotifyAll("once")

\* _send_remediation_to_channel; an exception is dropped.
PostOnce(c) ==
  /\ send[c].pc = "once"
  /\ send' = [send EXCEPT ![c] = NotSending]
  /\ UNCHANGED <<adminVars, cacheVars, list, log>>

\* Every task is over.
NotificationEnds ==
  /\ list.pc = "sending"
  /\ \A c \in Channels : send[c].pc = "idle"
  /\ list' = [pc |-> "none", to |-> {}]
  /\ UNCHANGED <<adminVars, cacheVars, sendVars>>

-----------------------------------------------------------------------------
(* _send_to_channel.                                                       *)

OfKind(k) == {t \in Templates : defaults[t] = k}

\* _get_default_template: two defaults of a kind are an exception, which ends
\* the task. Only a template of the channel's kind is found again in Redis.
FindTemplate(c) ==
  /\ send[c].pc = "template"
  /\ LET broken == Cardinality(OfKind("own")) > 1
                   \/ (OfKind("own") = {} /\ Cardinality(OfKind("all")) > 1) IN
       /\ send' = [send EXCEPT ![c] = IF broken /\ ~remembered THEN NotSending
                                      ELSE [@ EXCEPT !.pc = "ready"]]
       /\ remembered' = (remembered \/ Cardinality(OfKind("own")) = 1)
  /\ UNCHANGED <<adminVars, copied, list, log>>

\* retries counts the attempts that failed.
AfterAttempt(s, ok) ==
  IF ok THEN [pc |-> "sent", tries |-> s.tries]
  ELSE [pc |-> IF s.tries + 1 < MaxAttempts THEN "ready" ELSE "failed", tries |-> s.tries + 1]

\* The handler of the channel's type. It is not ok without an address or with
\* one that is not allowed, when the answer is not 2xx, and when the answer is
\* lost after the channel has taken the message; DingTalk, Feishu and WeCom
\* answer 200 also to a message that the robot refuses.
Attempt(c, ok) ==
  /\ send[c].pc = "ready"
  /\ send' = [send EXCEPT ![c] = AfterAttempt(@, ok)]
  /\ UNCHANGED <<adminVars, cacheVars, list, log>>

\* The task's row is committed, and with it all the session holds.
Log(c) ==
  /\ send[c].pc \in {"sent", "failed"}
  /\ log' = [log EXCEPT ![c] = [status |-> send[c].pc, retries |-> send[c].tries]]
  /\ send' = [send EXCEPT ![c] = NotSending]
  /\ UNCHANGED <<adminVars, cacheVars, list>>

UsesSession(c) == send[c].pc \in {"template", "sent", "failed"}

\* Two tasks use the session at once: one of them may raise, and is over.
Clash(c) ==
  /\ UsesSession(c)
  /\ \E d \in Channels \ {c} : UsesSession(d)
  /\ send' = [send EXCEPT ![c] = NotSending]
  /\ UNCHANGED <<adminVars, cacheVars, list, log>>

RetryLimit == 3

\* POST /logs/{id}/retry of a failed row: the function it imports does not
\* exist, so the attempt is counted and nothing is sent.
RetryFailed(c) ==
  /\ list.pc = "none"
  /\ log[c].status = "failed" /\ log[c].retries < RetryLimit
  /\ log' = [log EXCEPT ![c].retries = @ + 1]
  /\ UNCHANGED <<adminVars, cacheVars, list, send>>

-----------------------------------------------------------------------------
SendingStep ==
  \/ CopyList \/ NotificationEnds
  \/ \E c \in Channels :
       FindTemplate(c) \/ PostOnce(c) \/ Log(c) \/ \E ok \in BOOLEAN : Attempt(c, ok)

NotifierNext ==
  \/ \E c \in Channels : EditChannel(c) \/ Clash(c) \/ RetryFailed(c)
  \/ \E t \in Templates : \/ \E k \in {"no", "own", "all"} : EditTemplate(t, k)
                          \/ \E k \in {"own", "all"} : MoveTemplate(t, k)
  \/ ForgetList \/ CopyExpires \/ TemplateExpires \/ NotifyAlert \/ NotifyRemediation \/ SendingStep
  \/ \E chosen \in SUBSET Channels : NotifyChosen(chosen)

\* Tasks run to their end and copies expire; nobody need notify or edit.
NotifierFairness ==
  /\ WF_notifierVars(SendingStep)
  /\ WF_notifierVars(ForgetList)
  /\ WF_notifierVars(CopyExpires)

NotifierSpec == NotifierInit /\ [][NotifierNext]_notifierVars /\ NotifierFairness

-----------------------------------------------------------------------------
\* A channel that is disabled or deleted for good gets no notification any
\* more at last, although a notification may copy the list it had read before
\* the edit deleted the copy (update_channel, _get_enabled_channels).
DisabledIsSilent ==
  \A c \in Channels : (<>[](c \notin enabled)) => <>[](send[c].pc = "idle")

\* "if it is marked as a default, the other defaults of its kind are no longer":
\* a kind has at most one default template, as _get_default_template expects.
OneDefault == \A k \in {"own", "all"} : Cardinality(OfKind(k)) <= 1
=============================================================================
