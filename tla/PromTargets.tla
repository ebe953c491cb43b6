----------------------------- MODULE PromTargets -----------------------------
(***************************************************************************)
(* The scrape targets of Prometheus: a task of each worker, and operators' *)
(* requests, export the hosts that are online and the services that are    *)
(* active to two files, which Prometheus reads by itself.                  *)
(***************************************************************************)
CONSTANTS
  PromHosts,    \* rows of hosts, and of services, that may be exported
  Exporters,    \* the tasks and the requests
  Tasks         \* the tasks of the workers

ASSUME TargetsAssumption == Tasks # {} /\ Tasks \subseteq Exporters

VARIABLES
  online,       \* hosts and services that are online or active: [hosts, services]
  malformed,    \* services with a port in their URL that is none
  export,       \* what each exporter does: [pc, read]
  targets       \* hosts.json and services.json

targetVars == <<online, malformed, export, targets>>

AllTargets == [hosts : SUBSET PromHosts, services : SUBSET PromHosts]
NoTargets == [hosts |-> {}, services |-> {}]

TargetsInit ==
  /\ online = NoTargets /\ targets = NoTargets
  /\ malformed \in SUBSET PromHosts
  /\ export = [x \in Exporters |-> [pc |-> "sleep", read |-> NoTargets]]

\* hosts.status and services.is_active change elsewhere.
TargetsChange(new) ==
  /\ new # online /\ online' = new
  /\ UNCHANGED <<malformed, export, targets>>

\* The hosts are read, and then the services.
ExportReads(x) ==
  /\ export[x].pc \in {"sleep", "read"}
  /\ export' = [export EXCEPT ![x] =
       IF @.pc = "sleep" THEN [pc |-> "read", read |-> [NoTargets EXCEPT !.hosts = online.hosts]]
                         ELSE [pc |-> "write", read |-> [@.read EXCEPT !.services = online.services]]]
  /\ UNCHANGED <<online, malformed, targets>>

\* Mutant: an exception ends the task.
AfterFailureNone == "dead"

\* The task's exception is logged, and it sleeps; a request is over.
AfterFailure == "sleep"

\* build_service_targets raises at the first malformed URL.
Exportable(t) == t.services \cap malformed = {}

\* Both files are replaced, the one after the other, without an await.
ExportWrites(x) ==
  /\ export[x].pc = "write" /\ Exportable(export[x].read)
  /\ targets' = export[x].read
  /\ export' = [export EXCEPT ![x] = [pc |-> "sleep", read |-> NoTargets]]
  /\ UNCHANGED <<online, malformed>>

\* A query has failed, or the targets cannot be built, or the first or the
\* second file cannot be written.
ExportFails(x) ==
  /\ export[x].pc = "write"
  /\ \/ targets' = targets
     \/ /\ Exportable(export[x].read)
        /\ targets' = [targets EXCEPT !.hosts = export[x].read.hosts]
  /\ export' = [export EXCEPT ![x] = [pc |-> AfterFailure, read |-> NoTargets]]
  /\ UNCHANGED <<online, malformed>>

ExportEnds(x) == ExportWrites(x) \/ ExportFails(x)

TargetsNext ==
  \/ \E new \in AllTargets : TargetsChange(new)
  \/ \E x \in Exporters : ExportReads(x) \/ ExportEnds(x)

ReadsOn(x) == export[x].pc = "read" /\ ExportReads(x)

\* The tasks sleep and run again, what has begun ends, and a query or a file
\* that may fail does not fail for ever.
TargetsFairness ==
  /\ \A x \in Tasks : WF_targetVars(ExportReads(x)) /\ SF_targetVars(ExportWrites(x))
  /\ \A x \in Exporters : WF_targetVars(ReadsOn(x)) /\ WF_targetVars(ExportEnds(x))

TargetsSpec == TargetsInit /\ [][TargetsNext]_targetVars /\ TargetsFairness

-----------------------------------------------------------------------------
\* Hosts and services that stay as they are are exported at last, although a
\* round may fail between the two files and the rounds of the workers overlap
\* (prom_file_sd_loop, sync_file_sd). One malformed URL of an active service
\* stops the export of all others, the hosts' too, as long as it is there.
\* Requests by hand may put an older state back; they are not made for ever.
TargetsFollow ==
  \A t \in AllTargets :
    <>[](online = t /\ Exportable(t) /\ \A x \in Exporters \ Tasks : export[x].pc = "sleep")
      => <>[](targets = t)
=============================================================================
