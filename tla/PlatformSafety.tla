---------------------------- MODULE PlatformSafety ----------------------------
(***************************************************************************)
(* One run for the components that share no state with another one and     *)
(* whose properties need no fairness. The rigid variable "focus" names the *)
(* one that moves in a behaviour; the others stay in an initial state of   *)
(* theirs, the same in every behaviour. A behaviour of the components side *)
(* by side projects to a behaviour of each of them alone, so nothing that  *)
(* a property of one of them says is lost.                                 *)
(***************************************************************************)
EXTENDS OpsContext, Sessions, AiConfigs, OpsSessions, Retention, LogPipeline,
        OnCall, PromSync, Inventory, Reports, RunbookExecution,
        RemediationGate, AgentUpdate, KeywordAlerts, AnomalyScan, LiveTail,
        Layouts, HealthScore, LogStore, RequestLimits, ChannelDelivery,
        Escalation, Sla

VARIABLE focus

safetyVars == <<focus, ctxVars, sessionVars, aiConfigsVars, opsSessionsVars,
                retentionVars, logVars, onCallVars, rulesVars, inventoryVars,
                reportVars, vars, gateVars, updateVars, keywordVars, scanVars,
                liveTailVars, layoutVars, healthVars, logStoreVars, limitVars,
                deliveryVars, escalationVars, slaVars>>

SafetyInit ==
  /\ focus \in {"context", "sessions", "configs", "talks", "retention",
                "logs", "oncall", "rules", "inventory", "reports",
                "execution", "gate", "update", "keywords", "scan", "tails",
                "layouts", "score", "store", "limits", "channel",
                "escalation", "sla"}
  /\ ContextInit /\ SessionsInit /\ AiConfigsInit /\ OpsSessionsInit
  /\ LogInit /\ OnCallInit /\ RulesInit /\ InventoryInit /\ ReportsInit
  /\ KeywordInit /\ ScanInit /\ LiveTailInit /\ LayoutsInit /\ LimitsInit
  /\ SlaInit
  /\ RetentionInit /\ (focus # "retention" => \A t \in Configured : days[t] = MaxDays)
  /\ Init
  /\ focus # "execution" =>
       /\ N = 1 /\ Checks = 0 /\ by = "agent" /\ undoable = {} /\ ~ remote /\ ~ piped
  /\ GateInit /\ (focus # "gate" => editions[1] = [n \in Runbooks |-> Gone])
  /\ UpdateInit /\ (focus # "update" => installed = 1)
  /\ HealthInit
  /\ focus # "score" =>
       now = [now EXCEPT !.online = HostTotal, !.firing = 0, !.active = 0, !.errors = 0, !.cpu = 600]
  /\ LogStoreInit /\ (focus # "store" => mode = "postgresql")
  /\ DeliveryInit
  /\ focus # "channel" =>
       kind = "webhook" /\ setup.whole /\ setup.address = "own" /\ barred = {} /\ mood = "accepts"
  /\ EscalationInit /\ (focus # "escalation" => original = "warning")

\* A step of one component; the others stay.
Talking(step) ==
  /\ focus = "context" /\ step
  /\ UNCHANGED <<focus, sessionVars, aiConfigsVars, opsSessionsVars,
                 retentionVars, logVars, onCallVars, rulesVars, inventoryVars,
                 reportVars, vars, gateVars, updateVars, keywordVars,
                 scanVars, liveTailVars, layoutVars, healthVars, logStoreVars,
                 limitVars, deliveryVars, escalationVars, slaVars>>
Signing(step) ==
  /\ focus = "sessions" /\ step
  /\ UNCHANGED <<focus, ctxVars, aiConfigsVars, opsSessionsVars,
                 retentionVars, logVars, onCallVars, rulesVars, inventoryVars,
                 reportVars, vars, gateVars, updateVars, keywordVars,
                 scanVars, liveTailVars, layoutVars, healthVars, logStoreVars,
                 limitVars, deliveryVars, escalationVars, slaVars>>
Configuring(step) ==
  /\ focus = "configs" /\ step
  /\ UNCHANGED <<focus, ctxVars, sessionVars, opsSessionsVars, retentionVars,
                 logVars, onCallVars, rulesVars, inventoryVars, reportVars,
                 vars, gateVars, updateVars, keywordVars, scanVars,
                 liveTailVars, layoutVars, healthVars, logStoreVars,
                 limitVars, deliveryVars, escalationVars, slaVars>>
Browsing(step) ==
  /\ focus = "talks" /\ step
  /\ UNCHANGED <<focus, ctxVars, sessionVars, aiConfigsVars, retentionVars,
                 logVars, onCallVars, rulesVars, inventoryVars, reportVars,
                 vars, gateVars, updateVars, keywordVars, scanVars,
                 liveTailVars, layoutVars, healthVars, logStoreVars,
                 limitVars, deliveryVars, escalationVars, slaVars>>
Retaining(step) ==
  /\ focus = "retention" /\ step
  /\ UNCHANGED <<focus, ctxVars, sessionVars, aiConfigsVars, opsSessionsVars,
                 logVars, onCallVars, rulesVars, inventoryVars, reportVars,
                 vars, gateVars, updateVars, keywordVars, scanVars,
                 liveTailVars, layoutVars, healthVars, logStoreVars,
                 limitVars, deliveryVars, escalationVars, slaVars>>
Logging(step) ==
  /\ focus = "logs" /\ step
  /\ UNCHANGED <<focus, ctxVars, sessionVars, aiConfigsVars, opsSessionsVars,
                 retentionVars, onCallVars, rulesVars, inventoryVars,
                 reportVars, vars, gateVars, updateVars, keywordVars,
                 scanVars, liveTailVars, layoutVars, healthVars, logStoreVars,
                 limitVars, deliveryVars, escalationVars, slaVars>>
Booking(step) ==
  /\ focus = "oncall" /\ step
  /\ UNCHANGED <<focus, ctxVars, sessionVars, aiConfigsVars, opsSessionsVars,
                 retentionVars, logVars, rulesVars, inventoryVars, reportVars,
                 vars, gateVars, updateVars, keywordVars, scanVars,
                 liveTailVars, layoutVars, healthVars, logStoreVars,
                 limitVars, deliveryVars, escalationVars, slaVars>>
Ruling(step) ==
  /\ focus = "rules" /\ step
  /\ UNCHANGED <<focus, ctxVars, sessionVars, aiConfigsVars, opsSessionsVars,
                 retentionVars, logVars, onCallVars, inventoryVars,
                 reportVars, vars, gateVars, updateVars, keywordVars,
                 scanVars, liveTailVars, layoutVars, healthVars, logStoreVars,
                 limitVars, deliveryVars, escalationVars, slaVars>>
Stocking(step) ==
  /\ focus = "inventory" /\ step
  /\ UNCHANGED <<focus, ctxVars, sessionVars, aiConfigsVars, opsSessionsVars,
                 retentionVars, logVars, onCallVars, rulesVars, reportVars,
                 vars, gateVars, updateVars, keywordVars, scanVars,
                 liveTailVars, layoutVars, healthVars, logStoreVars,
                 limitVars, deliveryVars, escalationVars, slaVars>>
Reporting(step) ==
  /\ focus = "reports" /\ step
  /\ UNCHANGED <<focus, ctxVars, sessionVars, aiConfigsVars, opsSessionsVars,
                 retentionVars, logVars, onCallVars, rulesVars, inventoryVars,
                 vars, gateVars, updateVars, keywordVars, scanVars,
                 liveTailVars, layoutVars, healthVars, logStoreVars,
                 limitVars, deliveryVars, escalationVars, slaVars>>
Executing(step) ==
  /\ focus = "execution" /\ step
  /\ UNCHANGED <<focus, ctxVars, sessionVars, aiConfigsVars, opsSessionsVars,
                 retentionVars, logVars, onCallVars, rulesVars, inventoryVars,
                 reportVars, gateVars, updateVars, keywordVars, scanVars,
                 liveTailVars, layoutVars, healthVars, logStoreVars,
                 limitVars, deliveryVars, escalationVars, slaVars>>
Deciding(step) ==
  /\ focus = "gate" /\ step
  /\ UNCHANGED <<focus, ctxVars, sessionVars, aiConfigsVars, opsSessionsVars,
                 retentionVars, logVars, onCallVars, rulesVars, inventoryVars,
                 reportVars, vars, updateVars, keywordVars, scanVars,
                 liveTailVars, layoutVars, healthVars, logStoreVars,
                 limitVars, deliveryVars, escalationVars, slaVars>>
Updating(step) ==
  /\ focus = "update" /\ step
  /\ UNCHANGED <<focus, ctxVars, sessionVars, aiConfigsVars, opsSessionsVars,
                 retentionVars, logVars, onCallVars, rulesVars, inventoryVars,
                 reportVars, vars, gateVars, keywordVars, scanVars,
                 liveTailVars, layoutVars, healthVars, logStoreVars,
                 limitVars, deliveryVars, escalationVars, slaVars>>
Matching(step) ==
  /\ focus = "keywords" /\ step
  /\ UNCHANGED <<focus, ctxVars, sessionVars, aiConfigsVars, opsSessionsVars,
                 retentionVars, logVars, onCallVars, rulesVars, inventoryVars,
                 reportVars, vars, gateVars, updateVars, scanVars,
                 liveTailVars, layoutVars, healthVars, logStoreVars,
                 limitVars, deliveryVars, escalationVars, slaVars>>
Scanning(step) ==
  /\ focus = "scan" /\ step
  /\ UNCHANGED <<focus, ctxVars, sessionVars, aiConfigsVars, opsSessionsVars,
                 retentionVars, logVars, onCallVars, rulesVars, inventoryVars,
                 reportVars, vars, gateVars, updateVars, keywordVars,
                 liveTailVars, layoutVars, healthVars, logStoreVars,
                 limitVars, deliveryVars, escalationVars, slaVars>>
Tailing(step) ==
  /\ focus = "tails" /\ step
  /\ UNCHANGED <<focus, ctxVars, sessionVars, aiConfigsVars, opsSessionsVars,
                 retentionVars, logVars, onCallVars, rulesVars, inventoryVars,
                 reportVars, vars, gateVars, updateVars, keywordVars,
                 scanVars, layoutVars, healthVars, logStoreVars, limitVars,
                 deliveryVars, escalationVars, slaVars>>
Arranging(step) ==
  /\ focus = "layouts" /\ step
  /\ UNCHANGED <<focus, ctxVars, sessionVars, aiConfigsVars, opsSessionsVars,
                 retentionVars, logVars, onCallVars, rulesVars, inventoryVars,
                 reportVars, vars, gateVars, updateVars, keywordVars,
                 scanVars, liveTailVars, healthVars, logStoreVars, limitVars,
                 deliveryVars, escalationVars, slaVars>>
Scoring(step) ==
  /\ focus = "score" /\ step
  /\ UNCHANGED <<focus, ctxVars, sessionVars, aiConfigsVars, opsSessionsVars,
                 retentionVars, logVars, onCallVars, rulesVars, inventoryVars,
                 reportVars, vars, gateVars, updateVars, keywordVars,
                 scanVars, liveTailVars, layoutVars, logStoreVars, limitVars,
                 deliveryVars, escalationVars, slaVars>>
Storing(step) ==
  /\ focus = "store" /\ step
  /\ UNCHANGED <<focus, ctxVars, sessionVars, aiConfigsVars, opsSessionsVars,
                 retentionVars, logVars, onCallVars, rulesVars, inventoryVars,
                 reportVars, vars, gateVars, updateVars, keywordVars,
                 scanVars, liveTailVars, layoutVars, healthVars, limitVars,
                 deliveryVars, escalationVars, slaVars>>
Limiting(step) ==
  /\ focus = "limits" /\ step
  /\ UNCHANGED <<focus, ctxVars, sessionVars, aiConfigsVars, opsSessionsVars,
                 retentionVars, logVars, onCallVars, rulesVars, inventoryVars,
                 reportVars, vars, gateVars, updateVars, keywordVars,
                 scanVars, liveTailVars, layoutVars, healthVars, logStoreVars,
                 deliveryVars, escalationVars, slaVars>>
Delivering(step) ==
  /\ focus = "channel" /\ step
  /\ UNCHANGED <<focus, ctxVars, sessionVars, aiConfigsVars, opsSessionsVars,
                 retentionVars, logVars, onCallVars, rulesVars, inventoryVars,
                 reportVars, vars, gateVars, updateVars, keywordVars,
                 scanVars, liveTailVars, layoutVars, healthVars, logStoreVars,
                 limitVars, escalationVars, slaVars>>
Escalating(step) ==
  /\ focus = "escalation" /\ step
  /\ UNCHANGED <<focus, ctxVars, sessionVars, aiConfigsVars, opsSessionsVars,
                 retentionVars, logVars, onCallVars, rulesVars, inventoryVars,
                 reportVars, vars, gateVars, updateVars, keywordVars,
                 scanVars, liveTailVars, layoutVars, healthVars, logStoreVars,
                 limitVars, deliveryVars, slaVars>>
Measuring(step) ==
  /\ focus = "sla" /\ step
  /\ UNCHANGED <<focus, ctxVars, sessionVars, aiConfigsVars, opsSessionsVars,
                 retentionVars, logVars, onCallVars, rulesVars, inventoryVars,
                 reportVars, vars, gateVars, updateVars, keywordVars,
                 scanVars, liveTailVars, layoutVars, healthVars, logStoreVars,
                 limitVars, deliveryVars, escalationVars>>

SafetyNext ==
  \/ Talking(ContextNext) \/ Signing(SessionsNext)
  \/ Configuring(AiConfigsNext) \/ Browsing(OpsSessionsNext)
  \/ Retaining(RetentionNext) \/ Logging(LogNext) \/ Booking(OnCallNext)
  \/ Ruling(RulesNext) \/ Stocking(InventoryNext) \/ Reporting(ReportsNext)
  \/ Executing(Next) \/ Deciding(GateNext) \/ Updating(UpdateNext)
  \/ Matching(KeywordNext) \/ Scanning(ScanNext) \/ Tailing(LiveTailNext)
  \/ Arranging(LayoutsNext) \/ Scoring(HealthNext) \/ Storing(LogStoreNext)
  \/ Limiting(LimitsNext) \/ Delivering(DeliveryNext)
  \/ Escalating(EscalationNext) \/ Measuring(SlaNext)

SafetySpec == SafetyInit /\ [][SafetyNext]_safetyVars
=============================================================================
