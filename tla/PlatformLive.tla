---------------------------- MODULE PlatformLive -----------------------------
(***************************************************************************)
(* One run for the components whose properties need fairness. They share   *)
(* no state here, so that nothing is lost when only one of them moves in a *)
(* behaviour: the rigid variable "focus" says which. The others stay as    *)
(* they began, in a state of theirs that is the same in every behaviour,   *)
(* and their fairness asks nothing of them.                                *)
(***************************************************************************)
EXTENDS HostPresence, Webhook, Notifier, AgentServices, PromTargets

VARIABLE focus

ASSUME LiveAssumption == Incoming \cup Deliveries \cup Services \subseteq 1 .. 2 /\ Tasks = 1 .. 2

liveVars == <<presenceVars, webhookVars, notifierVars, agentServicesVars, targetVars, focus>>

LiveInit ==
  /\ focus \in {"presence", "webhook", "notifier", "services", "databases", "targets"}
  /\ PresenceInit /\ WebhookInit /\ NotifierInit /\ AgentServicesInit /\ TargetsInit
  /\ hosts[1] = "one"
  /\ focus # "webhook" => groups = {Incoming} /\ \A a \in Incoming : hosts[a] = "one"
  /\ focus # "notifier" => \A t \in Templates : defaults[t] = "no"
  /\ focus # "services" => runs = {}
  /\ focus # "targets" => malformed = {}

\* A step of one component; the others stay.
Presence(step) ==
  /\ focus = "presence" /\ step
  /\ UNCHANGED <<focus, webhookVars, notifierVars, agentServicesVars, targetVars>>
Hook(step) ==
  /\ focus = "webhook" /\ step
  /\ UNCHANGED <<focus, presenceVars, notifierVars, agentServicesVars, targetVars>>
Notifying(step) ==
  /\ focus = "notifier" /\ step
  /\ UNCHANGED <<focus, presenceVars, webhookVars, agentServicesVars, targetVars>>
Serving(step) ==
  /\ focus \in {"services", "databases"} /\ step
  /\ IF focus = "services" THEN UNCHANGED target ELSE UNCHANGED runs
  /\ UNCHANGED <<focus, presenceVars, webhookVars, notifierVars, targetVars>>
Exporting(step) ==
  /\ focus = "targets" /\ step
  /\ UNCHANGED <<focus, presenceVars, webhookVars, notifierVars, agentServicesVars>>

LiveNext ==
  \/ Presence(PresenceNext) \/ Hook(WebhookNext) \/ Notifying(NotifierNext)
  \/ Serving(AgentServicesNext) \/ Exporting(TargetsNext)

-----------------------------------------------------------------------------
(* The fairness of each component, when it is the one that moves. Since    *)
(* focus is rigid, one condition can stand for one of each component; the  *)
(* alerts, deliveries and services of the instance are numbers.            *)

ByHand == Exporters \ Tasks

\* Weakly fair.
Goes(i) ==
  \/ Hook(Works(i))
  \/ Serving(Probe(i))
  \/ i = 1 /\ Presence(PresenceLoops)
  \/ i = 1 /\ Notifying(SendingStep)
  \/ i = 2 /\ Notifying(ForgetList)
  \/ Exporting(ExportReads(i))

Ends(i) ==
  \/ Hook(BackgroundEnds(i))
  \/ i = 1 /\ Serving(RoundStep)
  \/ i = 1 /\ Notifying(CopyExpires)
  \/ Exporting(ExportEnds(i))

Expiry(i) ==
  \/ Hook(KeyExpires(i))
  \/ i = 1 /\ Exporting(\E x \in ByHand : ReadsOn(x))
  \/ i = 2 /\ Exporting(\E x \in ByHand : ExportEnds(x))

\* Strongly fair.
Succeeds(i) ==
  \/ Hook(Repeats(i))
  \/ Serving(Report(i, TRUE))
  \/ Exporting(ExportWrites(i))

Syncs == Serving(SyncTargets(TRUE))

LiveFairness ==
  /\ SF_liveVars(Syncs)
  /\ \A i \in 1 .. 2 : /\ WF_liveVars(Goes(i)) /\ WF_liveVars(Ends(i)) /\ WF_liveVars(Expiry(i))
                       /\ SF_liveVars(Succeeds(i))

LiveSpec == LiveInit /\ [][LiveNext]_liveVars /\ LiveFairness
=============================================================================
