------------------------------ MODULE LogStore -------------------------------
(***************************************************************************)
(* log_entries and the layer above it: the service that searches, stores,  *)
(* cleans and migrates through a backend, while reports of agents insert   *)
(* rows. Rows are numbered when they are inserted and appear when their    *)
(* transaction commits; agents may report lines late, so the timestamps    *)
(* have an order of their own.                                             *)
(*                                                                         *)
(* The address of ClickHouse is given a port twice, which no request       *)
(* accepts: that backend answers every call as a failure, caught inside.   *)
(***************************************************************************)
EXTENDS Naturals, FiniteSets, FiniteSetsExt

CONSTANTS
  MaxRows,   \* bound on the rows
  Times,     \* timestamps of log lines
  BatchSize  \* 100 to 10000

ASSUME LogStoreAssumption == Times \subseteq Nat /\ BatchSize \in Nat \ {0} /\ MaxRows \in Nat

VARIABLES
  mode,              \* log_backend_type
  stamp,             \* the timestamps of the rows that have a number
  entries,           \* the rows that are committed and not deleted
  inserting,         \* those whose transaction is open
  migration,         \* [pc, target, total, offset, broken]
  handed,            \* how often each row was handed to the primary backend
  migrated, errors,  \* what the migration reports
  counted,           \* history: the rows at the count
  disturbed,         \* history: a row was deleted or appeared below others, or a read failed
  lastSearch         \* how many rows the last search found, and how many there were

storeVars == <<stamp, entries, inserting>>
migrationVars == <<migration, handed, migrated, errors, counted>>
logStoreVars == <<mode, storeVars, migrationVars, disturbed, lastSearch>>

Numbered == 1 .. Cardinality(DOMAIN stamp)
NoSearch == [asked |-> 0, found |-> 0]

LogStoreInit ==
  /\ mode \in {"postgresql", "clickhouse", "loki"}
  /\ stamp = <<>> /\ entries = {} /\ inserting = {}
  /\ migration = [pc |-> "none", target |-> "none", total |-> 0, offset |-> 0, broken |-> FALSE]
  /\ handed = [id \in 1 .. MaxRows |-> 0] /\ migrated = 0 /\ errors = 0
  /\ counted = {} /\ disturbed = FALSE /\ lastSearch = NoSearch

Running == migration.pc = "read"

\* ingest_logs inserts into log_entries, whatever the mode is; so does
\* store_logs when the mode is not "postgresql".
InsertRow(time) ==
  /\ Cardinality(Numbered) < MaxRows
  /\ LET id == Cardinality(Numbered) + 1 IN
     /\ stamp' = [i \in Numbered \cup {id} |-> IF i = id THEN time ELSE stamp[i]]
     /\ inserting' = inserting \cup {id}
  /\ UNCHANGED <<mode, entries, migrationVars, disturbed, lastSearch>>

EndInsert(id, success) ==
  /\ id \in inserting /\ inserting' = inserting \ {id}
  /\ entries' = IF success THEN entries \cup {id} ELSE entries
  /\ disturbed' = (disturbed \/ (Running /\ success /\ \E other \in entries : other > id))
  /\ UNCHANGED <<mode, stamp, migrationVars, lastSearch>>

\* cleanup_logs, hourly or by hand with a retention of 1 to 365 days. With the
\* PostgreSQL backend the second DELETE is the first one again.
CleanUp(cutoff) ==
  /\ \E id \in entries : stamp[id] < cutoff
  /\ entries' = {id \in entries : stamp[id] >= cutoff}
  /\ disturbed' = (disturbed \/ Running)
  /\ UNCHANGED <<mode, stamp, inserting, migrationVars, lastSearch>>

-----------------------------------------------------------------------------
(* Backends                                                                *)

\* Loki is not there: its mode has PostgreSQL as its primary backend.
Primary == IF mode = "clickhouse" THEN "clickhouse" ELSE "postgresql"

\* store_logs of the backends: the PostgreSQL one says that it has done what
\* its caller was to do.
Stores(backend) == backend = "postgresql"

\* search_logs and get_stats, with what is asked for reduced to a time. The
\* ClickHouse backend turns its failure into an empty answer, so that the
\* fallback is never asked.
PostgresFinds(since) == {id \in entries : stamp[id] >= since}
PostgresCounts(since) == Cardinality(PostgresFinds(since))
ClickHouseFinds(since) == {}
ClickHouseCounts(since) == 0

Search(since) ==
  /\ lastSearch' = [asked |-> PostgresCounts(since),
                found |-> Cardinality(IF Primary = "postgresql" THEN PostgresFinds(since)
                                      ELSE ClickHouseFinds(since))]
  /\ UNCHANGED <<mode, storeVars, migrationVars, disturbed>>

\* The numbers by level and by hour, of the dashboard and of log_admin.
Count(since) ==
  /\ lastSearch' = [asked |-> PostgresCounts(since),
                found |-> IF Primary = "postgresql" THEN PostgresCounts(since)
                          ELSE ClickHouseCounts(since)]
  /\ UNCHANGED <<mode, storeVars, migrationVars, disturbed>>

-----------------------------------------------------------------------------
(* migrate_data, by the endpoint or the script, whose range of dates is    *)
(* used to count in a dry run and for nothing else.                        *)

\* To another backend than the one that is read, which is always log_entries.
BeginMigration(target) ==
  /\ migration.pc = "none"
  /\ migration' = [pc |-> "read", target |-> target, total |-> Cardinality(entries), offset |-> 0,
                   broken |-> FALSE]
  /\ counted' = entries /\ disturbed' = FALSE
  /\ UNCHANGED <<mode, storeVars, handed, migrated, errors, lastSearch>>

\* Mutant: the pages are those of the search, by timestamp.
BatchByTime ==
  LET before(a, b) == stamp[a] < stamp[b] \/ (stamp[a] = stamp[b] /\ a < b)
      place(id) == Cardinality({other \in entries : before(other, id)})
  IN  {id \in entries : place(id) >= migration.offset /\ place(id) < migration.offset + BatchSize}

\* A page of the rows in the order of their numbers, by OFFSET and LIMIT.
Batch ==
  LET place(id) == Cardinality({other \in entries : other < id})
  IN  {id \in entries : place(id) >= migration.offset /\ place(id) < migration.offset + BatchSize}

Goes == Running /\ migration.offset < migration.total

\* A batch goes to the primary backend if the target is ClickHouse, whatever
\* the primary is; to another target it goes nowhere.
MigrateBatch ==
  /\ Goes /\ ~ migration.broken /\ Batch # {}
  /\ LET sent == IF migration.target = "clickhouse" THEN Batch ELSE {} IN
     /\ handed' = [id \in DOMAIN handed |-> IF id \in sent THEN handed[id] + 1 ELSE handed[id]]
     /\ migrated' = IF Stores(Primary) THEN migrated + Cardinality(sent) ELSE migrated
     /\ errors' = IF Stores(Primary) THEN errors ELSE errors + Cardinality(sent)
  /\ migration' = [migration EXCEPT !.offset = @ + BatchSize]
  /\ UNCHANGED <<mode, storeVars, counted, disturbed, lastSearch>>

\* After a failed statement the transaction of the session answers no other.
BatchFails ==
  /\ Goes /\ migration' = [migration EXCEPT !.offset = @ + BatchSize, !.broken = TRUE]
  /\ errors' = errors + BatchSize /\ disturbed' = TRUE
  /\ UNCHANGED <<mode, storeVars, handed, migrated, counted, lastSearch>>

EndMigration ==
  /\ Running /\ (~ Goes \/ (Batch = {} /\ ~ migration.broken))
  /\ migration' = [migration EXCEPT !.pc = "done"]
  /\ UNCHANGED <<mode, storeVars, handed, migrated, errors, counted, disturbed, lastSearch>>

LogStoreNext ==
  \/ \E time \in Times : InsertRow(time) \/ CleanUp(time) \/ Search(time) \/ Count(time)
  \/ \E id \in inserting, success \in BOOLEAN : EndInsert(id, success)
  \/ MigrateBatch \/ BatchFails \/ EndMigration
  \/ \E target \in {"clickhouse", "postgresql"} : BeginMigration(target)

LogStoreSpec == LogStoreInit /\ [][LogStoreNext]_logStoreVars

(***************************************************************************)
(* A migration that runs while agents report loses and doubles nothing:    *)
(* each row there was at the count was handed on once, and the numbers it  *)
(* reports account for them, unless a row was deleted meanwhile, appeared  *)
(* below rows that were there already, or a batch failed.                  *)
(***************************************************************************)
HandedOnce ==
  migration.pc = "done" /\ migration.target = "clickhouse" /\ ~ disturbed =>
    /\ \A id \in counted : handed[id] = 1
    /\ \A id \in DOMAIN handed : handed[id] <= 1
    /\ migrated + errors >= migration.total

\* What a search is for and what does not hold: what is stored and asked for
\* is found. In the mode "clickhouse" nothing is ever found.
StoredIsFound == lastSearch.found = lastSearch.asked
=============================================================================
