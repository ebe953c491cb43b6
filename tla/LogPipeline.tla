---------------------------- MODULE LogPipeline -----------------------------
(***************************************************************************)
(* From the lines of the files that an agent follows to the rows of        *)
(* log_entries: a tailer per file, one buffer and one lock, batches that   *)
(* are reported while the lock is held, and offsets that are saved after a *)
(* report that was answered.                                               *)
(*                                                                         *)
(* A line is a pair of a file and a number; of its text the model keeps    *)
(* whether it starts an entry of a multi-line file.                        *)
(***************************************************************************)
EXTENDS Naturals, FiniteSets

CONSTANTS
  Files,
  MultiLine,    \* the files whose source is multi-line
  Full,         \* entries that make a batch at once (100 in the code)
  MaxLines,     \* bound on lines of a file
  MaxRestarts   \* bound on restarts of the agent

ASSUME LogAssumption ==
  MultiLine \subseteq Files /\ Full \in Nat \ {0} /\ Files \cap {"flush", "nobody"} = {}

VARIABLES
  size,         \* lines of each file
  starts,       \* the lines that start an entry
  pos,          \* lines each tailer has read
  offsets,      \* offsets in memory: function of files, of some
  savedOffsets, \* offsets.json
  pending,      \* lines of the unfinished entry of each file
  work,         \* what a tailer hands over: [pc, entry, next, to]
  buffer, batch, \* sets of entries
  holder,       \* who holds the lock: a file, "flush" or "nobody"
  stored,       \* lines in log_entries
  refused,      \* lines whose report failed
  passedOver,   \* lines a restart did not come back to
  restarts

logVars == <<size, starts, pos, offsets, savedOffsets, pending, work, buffer, batch, holder,
             stored, refused, passedOver, restarts>>

NoWork == [pc |-> "read", entry |-> {}, next |-> {}, to |-> 0]
NoOffsets == [f \in {} |-> 0]
AllLines(f, n) == {<<f, i>> : i \in 1 .. n}

\* load_offsets finds no file, and every tailer starts at the end of its file.
LogInit ==
  /\ size = [f \in Files |-> 0] /\ starts = {}
  /\ pos = size /\ offsets = NoOffsets /\ savedOffsets = NoOffsets
  /\ pending = [f \in Files |-> {}] /\ work = [f \in Files |-> NoWork]
  /\ buffer = {} /\ batch = {} /\ holder = "nobody"
  /\ stored = {} /\ refused = {} /\ passedOver = {} /\ restarts = 0

WriteLine(f, start) ==
  /\ size[f] < MaxLines
  /\ start => f \in MultiLine
  /\ size' = [size EXCEPT ![f] = @ + 1]
  /\ starts' = IF start THEN starts \cup {<<f, size[f] + 1>>} ELSE starts
  /\ UNCHANGED <<pos, offsets, savedOffsets, pending, work, buffer, batch, holder, stored, refused,
                 passedOver, restarts>>

-----------------------------------------------------------------------------
(* The tailers.                                                            *)

\* offsets[path] = f.tell() follows _process_line.
Done(f, next, to) ==
  /\ pending' = [pending EXCEPT ![f] = next]
  /\ pos' = [pos EXCEPT ![f] = to]
  /\ offsets' = [g \in DOMAIN offsets \cup {f} |-> IF g = f THEN to ELSE offsets[g]]
  /\ work' = [work EXCEPT ![f] = NoWork]

HandOver(f, entry, next, to) ==
  /\ work' = [work EXCEPT ![f] = [pc |-> "lock", entry |-> entry, next |-> next, to |-> to]]
  /\ UNCHANGED <<pos, offsets, pending>>

\* A line that starts an entry ends the one before it; one that does not is
\* added to it; without one, and in other files, it is an entry of its own.
ReadLine(f) ==
  LET to == pos[f] + 1
      line == <<f, to>> IN
    /\ work[f].pc = "read" /\ pos[f] < size[f]
    /\ IF line \in starts
         THEN IF pending[f] # {} THEN HandOver(f, pending[f], {line}, to) ELSE Done(f, {line}, to)
         ELSE IF pending[f] # {} THEN Done(f, pending[f] \cup {line}, to)
              ELSE HandOver(f, {line}, {}, to)
    /\ UNCHANGED <<size, starts, savedOffsets, buffer, batch, holder, stored, refused, passedOver, restarts>>

\* Two seconds at the end of the file end an entry too.
EndPending(f) ==
  /\ work[f].pc = "read" /\ pos[f] = size[f] /\ pending[f] # {}
  /\ HandOver(f, pending[f], {}, pos[f])
  /\ UNCHANGED <<size, starts, savedOffsets, buffer, batch, holder, stored, refused, passedOver, restarts>>

\* Mutant: entries are added while a report is under way.
LockFreeAlways(f) == holder # f

LockFree(f) == holder = "nobody"

\* _on_log_entry adds the entry, and reports the buffer when it is full.
AddEntry(f) ==
  LET all == buffer \cup {work[f].entry} IN
    /\ work[f].pc = "lock" /\ LockFree(f)
    /\ IF Cardinality(all) < Full
         THEN buffer' = all /\ Done(f, work[f].next, work[f].to) /\ UNCHANGED <<batch, holder>>
         ELSE /\ buffer' = {} /\ batch' = all /\ holder' = f
              /\ work' = [work EXCEPT ![f].pc = "report"]
              /\ UNCHANGED <<pos, offsets, pending>>
    /\ UNCHANGED <<size, starts, savedOffsets, stored, refused, passedOver, restarts>>

\* _flush_loop.
FlushBuffer ==
  /\ holder = "nobody" /\ buffer # {}
  /\ holder' = "flush" /\ batch' = buffer /\ buffer' = {}
  /\ UNCHANGED <<size, starts, pos, offsets, savedOffsets, pending, work, stored, refused, passedOver, restarts>>

\* What happens to a batch: it is stored, in one COMMIT (ingest_logs), or not,
\* and the answer comes or not. A batch is never sent again.
ReportEnds(isStored, answered) ==
  LET lines == UNION batch IN
    /\ holder # "nobody"
    /\ answered => isStored
    /\ stored' = IF isStored THEN stored \cup lines ELSE stored
    /\ refused' = IF isStored THEN refused ELSE refused \cup lines
    /\ savedOffsets' = IF answered THEN offsets ELSE savedOffsets
    /\ batch' = {} /\ holder' = "nobody"
    /\ IF holder = "flush" THEN UNCHANGED <<pos, offsets, pending, work>>
       ELSE Done(holder, work[holder].next, work[holder].to)
    /\ UNCHANGED <<size, starts, buffer, passedOver, restarts>>

InMemory == (UNION {pending[f] : f \in Files}) \cup (UNION buffer) \cup (UNION batch)

\* A new process knows what was saved. It starts at the end of a file that
\* has no offset; the offset of a multi-line file counts unfinished entries.
RestartCollector ==
  /\ restarts < MaxRestarts /\ restarts' = restarts + 1
  /\ offsets' = savedOffsets
  /\ pos' = [f \in Files |-> IF f \in DOMAIN savedOffsets THEN savedOffsets[f] ELSE size[f]]
  /\ passedOver' = passedOver \cup UNION {
       IF f \notin DOMAIN savedOffsets THEN AllLines(f, size[f])
       ELSE IF f \in MultiLine THEN AllLines(f, savedOffsets[f]) \cap InMemory ELSE {} : f \in Files}
  /\ pending' = [f \in Files |-> {}] /\ work' = [f \in Files |-> NoWork]
  /\ buffer' = {} /\ batch' = {} /\ holder' = "nobody"
  \* A report that was under way may be stored all the same.
  /\ stored' \in {stored, stored \cup UNION batch}
  /\ UNCHANGED <<size, starts, savedOffsets, refused>>

LogNext ==
  \/ FlushBuffer \/ RestartCollector
  \/ \E f \in Files : \/ ReadLine(f) \/ EndPending(f) \/ AddEntry(f)
                      \/ \E start \in BOOLEAN : WriteLine(f, start)
  \/ \E isStored, answered \in BOOLEAN : ReportEnds(isStored, answered)

LogSpec == LogInit /\ [][LogNext]_logVars

-----------------------------------------------------------------------------
\* What lies before a saved offset is not in the memory of the agent alone: it
\* is stored, unless it was in a batch whose report failed or before the place
\* where a restart found the end of a file. Only the entries of a multi-line
\* file may be saved while they wait (LogCollector: the lock is held while a
\* batch is reported, so that the offsets saved after it are those of its lines).
SavedIsStored ==
  \A f \in DOMAIN savedOffsets :
    \A line \in AllLines(f, savedOffsets[f]) :
      line \in stored \cup refused \cup passedOver \/ (f \in MultiLine /\ line \in InMemory)
=============================================================================
