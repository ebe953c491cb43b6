----------------------------- MODULE LogProofs ------------------------------
(***************************************************************************)
(* Theorems about log lines on their way: from the files an agent follows  *)
(* to the rows of log_entries, and from there to browsers, for any number  *)
(* of files, lines and browsers.                                           *)
(***************************************************************************)
EXTENDS LogPipeline, LiveTail, AnomalyScan, LogStore, FiniteSetTheorems,
        WellFoundedInduction, TLAPS

-----------------------------------------------------------------------------
(* The log collector.  What a tailer has read is stored or accounted for,  *)
(* or in memory (Covered); the place it has reached is the offset that a   *)
(* report would save (LogType); an entry that is handed over is what was   *)
(* pending and the line that was read (Handing); and while a batch is      *)
(* reported nothing waits in the buffer (Locked).                          *)

Safe == stored \cup refused \cup passedOver

LogType ==
    /\ pos \in [Files -> Nat] /\ size \in [Files -> Nat]
    /\ DOMAIN offsets \subseteq Files /\ \A f \in DOMAIN offsets : offsets[f] = pos[f]
    /\ DOMAIN savedOffsets \subseteq Files /\ \A f \in DOMAIN savedOffsets : savedOffsets[f] \in Nat
    /\ pending = [f \in Files |-> pending[f]] /\ work = [f \in Files |-> work[f]]
    /\ \A f \in Files : /\ DOMAIN work[f] = {"pc", "entry", "next", "to"}
                        /\ work[f].pc \in {"read", "lock", "report"}
    /\ holder \in Files \cup {"nobody", "flush"}

\* Only entries of multi-line files have more than one line.
Plain ==
    /\ \A f \in Files : \A i \in Nat : <<f, i>> \in starts => f \in MultiLine
    /\ \A f \in Files : f \notin MultiLine => pending[f] = {} /\ work[f].next = {}

Handing ==
    \A f \in Files : work[f].pc # "read" =>
        /\ work[f].to \in Nat
        /\ pending[f] \subseteq work[f].entry \cup work[f].next
        /\ AllLines(f, work[f].to) \subseteq AllLines(f, pos[f]) \cup work[f].entry \cup work[f].next

Locked ==
    /\ holder # "nobody" => buffer = {}
    /\ holder = "nobody" => batch = {}
    /\ \A f \in Files : work[f].pc = "report" <=> holder = f
    /\ \A f \in Files : holder = f => work[f].entry \in batch

Covered ==
    \A f \in Files :
        AllLines(f, pos[f]) \subseteq Safe \cup pending[f] \cup (UNION buffer) \cup (UNION batch)

LogInv == LogType /\ Plain /\ Handing /\ Locked /\ Covered /\ SavedIsStored

\* Lines that are in memory stay there or are accounted for.
LEMMA NothingForgotten ==
    ASSUME SavedIsStored, savedOffsets' = savedOffsets, Safe \subseteq Safe',
           InMemory \subseteq InMemory' \cup Safe'
    PROVE  SavedIsStored'
  BY DEF SavedIsStored, Safe

\* offsets[path] = f.tell().
LEMMA DoneKeeps ==
    ASSUME LogInv, NEW f \in Files, NEW next, NEW to \in Nat, Done(f, next, to)
    PROVE  /\ pos' \in [Files -> Nat] /\ pos'[f] = to /\ pending'[f] = next
           /\ work'[f] = NoWork
           /\ \A g \in Files : g # f => /\ pos'[g] = pos[g] /\ pending'[g] = pending[g]
                                        /\ work'[g] = work[g]
           /\ pending' = [g \in Files |-> pending'[g]] /\ work' = [g \in Files |-> work'[g]]
           /\ DOMAIN offsets' \subseteq Files /\ \A g \in DOMAIN offsets' : offsets'[g] = pos'[g]
<1>1. /\ pending' = [pending EXCEPT ![f] = next] /\ pos' = [pos EXCEPT ![f] = to]
      /\ offsets' = [g \in DOMAIN offsets \cup {f} |-> IF g = f THEN to ELSE offsets[g]]
      /\ work' = [work EXCEPT ![f] = NoWork]
  BY DEF Done
<1>2. /\ pos' \in [Files -> Nat] /\ pos'[f] = to /\ \A g \in Files : g # f => pos'[g] = pos[g]
  BY <1>1 DEF LogInv, LogType
<1>3. /\ pending'[f] = next /\ pending' = [g \in Files |-> pending'[g]]
      /\ \A g \in Files : g # f => pending'[g] = pending[g]
  BY <1>1 DEF LogInv, LogType
<1>4. /\ work'[f] = NoWork /\ work' = [g \in Files |-> work'[g]]
      /\ \A g \in Files : g # f => work'[g] = work[g]
  BY <1>1 DEF LogInv, LogType
<1>5. DOMAIN offsets' \subseteq Files /\ \A g \in DOMAIN offsets' : offsets'[g] = pos'[g]
  BY <1>1, <1>2 DEF LogInv, LogType
<1> QED
  BY <1>2, <1>3, <1>4, <1>5

LEMMA HandOverKeeps ==
    ASSUME LogInv, NEW f \in Files, NEW entry, NEW next, NEW to \in Nat, HandOver(f, entry, next, to)
    PROVE  /\ UNCHANGED <<pos, offsets, pending>>
           /\ work'[f].pc = "lock" /\ work'[f].entry = entry /\ work'[f].next = next /\ work'[f].to = to
           /\ DOMAIN work'[f] = {"pc", "entry", "next", "to"}
           /\ \A g \in Files : g # f => work'[g] = work[g]
           /\ work' = [g \in Files |-> work'[g]]
  BY DEF HandOver, LogInv, LogType

LEMMA NoWorkIsRead == NoWork.pc = "read" /\ NoWork.next = {} /\ DOMAIN NoWork = {"pc", "entry", "next", "to"}
  BY DEF NoWork

\* A step of tailer f: of the buffer, the lock and the batch nothing changes.
LEMMA TailerSteps ==
    ASSUME LogInv, NEW f \in Files, work[f].pc = "read",
           UNCHANGED <<size, starts, savedOffsets, buffer, batch, holder, stored, refused, passedOver>>,
           NEW next, NEW to \in Nat, NEW entry,
           f \notin MultiLine => next = {},
           \/ /\ Done(f, next, to) /\ pending[f] \subseteq next
              /\ AllLines(f, to) \subseteq AllLines(f, pos[f]) \cup next
           \/ /\ HandOver(f, entry, next, to) /\ pending[f] \subseteq entry
              /\ AllLines(f, to) \subseteq AllLines(f, pos[f]) \cup entry \cup next
    PROVE  LogInv'
<1>0. holder # f
  BY DEF LogInv, Locked
<1>1. ASSUME Done(f, next, to), pending[f] \subseteq next,
             AllLines(f, to) \subseteq AllLines(f, pos[f]) \cup next
      PROVE  LogInv'
  <2>1. /\ pos' \in [Files -> Nat] /\ pos'[f] = to /\ pending'[f] = next
        /\ work'[f] = NoWork
        /\ \A g \in Files : g # f => /\ pos'[g] = pos[g] /\ pending'[g] = pending[g]
                                     /\ work'[g] = work[g]
        /\ pending' = [g \in Files |-> pending'[g]] /\ work' = [g \in Files |-> work'[g]]
        /\ DOMAIN offsets' \subseteq Files /\ \A g \in DOMAIN offsets' : offsets'[g] = pos'[g]
    BY <1>1, DoneKeeps
  <2>2. LogType'
    BY <2>1, NoWorkIsRead DEF LogInv, LogType
  <2>3. Plain'
    BY <2>1, NoWorkIsRead DEF LogInv, Plain
  <2>4. Handing'
    BY <2>1, NoWorkIsRead DEF LogInv, Handing
  <2>5. Locked'
    BY <1>0, <2>1, NoWorkIsRead DEF LogInv, Locked
  <2>6. Safe' = Safe
    BY DEF Safe
  <2>7. Covered'
    BY <1>1, <2>1, <2>6 DEF LogInv, Covered
  <2>8. InMemory \subseteq InMemory'
    <3>1. \A g \in Files : pending[g] \subseteq pending'[g]
      BY <1>1, <2>1
    <3> QED
      BY <3>1 DEF InMemory
  <2>9. SavedIsStored'
    BY <2>6, <2>8, NothingForgotten DEF LogInv
  <2> QED
    BY <2>2, <2>3, <2>4, <2>5, <2>7, <2>9 DEF LogInv
<1>2. ASSUME HandOver(f, entry, next, to), pending[f] \subseteq entry,
             AllLines(f, to) \subseteq AllLines(f, pos[f]) \cup entry \cup next
      PROVE  LogInv'
  <2>1. /\ UNCHANGED <<pos, offsets, pending>>
        /\ work'[f].pc = "lock" /\ work'[f].entry = entry /\ work'[f].next = next /\ work'[f].to = to
        /\ DOMAIN work'[f] = {"pc", "entry", "next", "to"}
        /\ \A g \in Files : g # f => work'[g] = work[g]
        /\ work' = [g \in Files |-> work'[g]]
    BY <1>2, HandOverKeeps
  <2>2. LogType'
    BY <2>1 DEF LogInv, LogType
  <2>3. Plain'
    BY <2>1 DEF LogInv, Plain
  <2>4. Handing'
    BY <1>2, <2>1 DEF LogInv, Handing
  <2>5. Locked'
    BY <1>0, <2>1 DEF LogInv, Locked
  <2>6. Safe' = Safe /\ InMemory' = InMemory
    BY <2>1 DEF Safe, InMemory
  <2>7. Covered'
    BY <2>1, <2>6 DEF LogInv, Covered
  <2>8. SavedIsStored'
    BY <2>6, NothingForgotten DEF LogInv
  <2> QED
    BY <2>2, <2>3, <2>4, <2>5, <2>7, <2>8 DEF LogInv
<1> QED
  BY <1>1, <1>2

LEMMA UnionOfMore ==
    /\ \A S, e : UNION (S \cup {e}) = (UNION S) \cup e
    /\ UNION {} = {}
<1>1. UNION {} = {}
  OBVIOUS
<1>2. ASSUME NEW S, NEW e PROVE UNION (S \cup {e}) = (UNION S) \cup e
  <2>1. ASSUME NEW x \in UNION (S \cup {e}) PROVE x \in (UNION S) \cup e
    <3>1. PICK y \in S \cup {e} : x \in y
      BY <2>1
    <3> QED
      BY <3>1
  <2>2. ASSUME NEW x \in (UNION S) \cup e PROVE x \in UNION (S \cup {e})
    <3>1. CASE x \in e
      BY <3>1
    <3>2. CASE x \in (UNION S)
      <4>1. PICK y \in S : x \in y
        BY <3>2
      <4> QED
        BY <4>1
    <3> QED
      BY <2>2, <3>1, <3>2
  <2> QED
    BY <2>1, <2>2
<1> QED
  BY <1>1, <1>2

\* The lines in memory, by where they are.
LEMMA MemoryIs ==
    \A x : x \in InMemory <=> \/ \E f \in Files : x \in pending[f]
                             \/ x \in (UNION buffer) \/ x \in (UNION batch)
  BY Zenon DEF InMemory

LEMMA MemoryPrime ==
    \A x : x \in InMemory' <=> \/ \E f \in Files : x \in pending'[f]
                              \/ x \in (UNION buffer') \/ x \in (UNION batch')
  BY Zenon DEF InMemory

LEMMA OneLineMore ==
    ASSUME NEW f, NEW n \in Nat
    PROVE  AllLines(f, n + 1) \subseteq AllLines(f, n) \cup {<<f, n + 1>>}
<1> SUFFICES ASSUME NEW i \in 1 .. n + 1 PROVE <<f, i>> \in AllLines(f, n) \cup {<<f, n + 1>>}
  BY DEF AllLines
<1>1. i \in 1 .. n \/ i = n + 1
  OBVIOUS
<1> QED
  BY <1>1 DEF AllLines

LEMMA LogNextInv == LogInv /\ [LogNext]_logVars => LogInv'
<1> SUFFICES ASSUME LogInv, [LogNext]_logVars PROVE LogInv'
  OBVIOUS
<1>1. CASE UNCHANGED logVars
  BY <1>1 DEF LogInv, LogType, Plain, Handing, Locked, Covered, Safe, SavedIsStored, InMemory, logVars
<1>2. ASSUME NEW f \in Files, NEW start \in BOOLEAN, WriteLine(f, start) PROVE LogInv'
  <2>1. /\ start => f \in MultiLine
        /\ size' = [size EXCEPT ![f] = size[f] + 1]
        /\ starts' = IF start THEN starts \cup {<<f, size[f] + 1>>} ELSE starts
        /\ UNCHANGED <<pos, offsets, savedOffsets, pending, work, buffer, batch, holder, stored, refused,
                       passedOver>>
    BY <1>2 DEF WriteLine
  <2>2. size' \in [Files -> Nat]
    BY <2>1 DEF LogInv, LogType
  <2>3. LogType'
    BY <2>1, <2>2 DEF LogInv, LogType
  <2>4. Plain'
    BY <2>1 DEF LogInv, Plain
  <2>5. Handing' /\ Locked'
    BY <2>1 DEF LogInv, Handing, Locked
  <2>6. Safe' = Safe /\ InMemory' = InMemory
    BY <2>1 DEF Safe, InMemory
  <2>7. Covered'
    BY <2>1, <2>6 DEF LogInv, Covered
  <2>8. SavedIsStored'
    BY <2>1, <2>6, NothingForgotten DEF LogInv
  <2> QED
    BY <2>3, <2>4, <2>5, <2>7, <2>8 DEF LogInv
<1>3. ASSUME NEW f \in Files, ReadLine(f) PROVE LogInv'
  <2> DEFINE to == pos[f] + 1
             line == <<f, to>>
  <2>1. /\ work[f].pc = "read"
        /\ IF line \in starts
             THEN IF pending[f] # {} THEN HandOver(f, pending[f], {line}, to) ELSE Done(f, {line}, to)
             ELSE IF pending[f] # {} THEN Done(f, pending[f] \cup {line}, to)
                  ELSE HandOver(f, {line}, {}, to)
        /\ UNCHANGED <<size, starts, savedOffsets, buffer, batch, holder, stored, refused, passedOver>>
    BY <1>3 DEF ReadLine
  <2>2. to \in Nat /\ pos[f] \in Nat
    BY DEF LogInv, LogType
  <2>3. AllLines(f, to) \subseteq AllLines(f, pos[f]) \cup {line}
    BY <2>2, OneLineMore
  <2>4. line \in starts => f \in MultiLine
    BY <2>2 DEF LogInv, Plain
  <2>5. f \notin MultiLine => pending[f] = {}
    BY DEF LogInv, Plain
  <2> DEFINE one == {line}  more == pending[f] \cup {line}  none == {}  entry == pending[f]
  <2>6. CASE line \in starts /\ pending[f] # {}
    <3>1. HandOver(f, entry, one, to) /\ pending[f] \subseteq entry
          /\ AllLines(f, to) \subseteq AllLines(f, pos[f]) \cup entry \cup one
      BY <2>1, <2>3, <2>6
    <3>2. f \notin MultiLine => one = {}
      BY <2>4, <2>6
    <3> HIDE DEF to, one, entry
    <3> QED
      BY <2>1, <2>2, <3>1, <3>2, TailerSteps
  <2>7. CASE line \in starts /\ pending[f] = {}
    <3>1. Done(f, one, to) /\ pending[f] \subseteq one
          /\ AllLines(f, to) \subseteq AllLines(f, pos[f]) \cup one
      BY <2>1, <2>3, <2>7
    <3>2. f \notin MultiLine => one = {}
      BY <2>4, <2>7
    <3> HIDE DEF to, one
    <3> QED
      BY <2>1, <2>2, <3>1, <3>2, TailerSteps
  <2>8. CASE line \notin starts /\ pending[f] # {}
    <3>1. Done(f, more, to) /\ pending[f] \subseteq more
          /\ AllLines(f, to) \subseteq AllLines(f, pos[f]) \cup more
      BY <2>1, <2>3, <2>8
    <3>2. f \notin MultiLine => more = {}
      BY <2>5, <2>8
    <3> HIDE DEF to, more
    <3> QED
      BY <2>1, <2>2, <3>1, <3>2, TailerSteps
  <2>9. CASE line \notin starts /\ pending[f] = {}
    <3>1. HandOver(f, one, none, to) /\ pending[f] \subseteq one
          /\ AllLines(f, to) \subseteq AllLines(f, pos[f]) \cup one \cup none
      BY <2>1, <2>3, <2>9
    <3>2. f \notin MultiLine => none = {}
      OBVIOUS
    <3> HIDE DEF to, one, none
    <3> QED
      BY <2>1, <2>2, <3>1, <3>2, TailerSteps
  <2> QED
    BY <2>6, <2>7, <2>8, <2>9
<1>4. ASSUME NEW f \in Files, EndPending(f) PROVE LogInv'
  <2> DEFINE none == {}  entry == pending[f]  to == pos[f]
  <2>1. /\ work[f].pc = "read" /\ HandOver(f, entry, none, to)
        /\ UNCHANGED <<size, starts, savedOffsets, buffer, batch, holder, stored, refused, passedOver>>
    BY <1>4 DEF EndPending
  <2>2. /\ to \in Nat /\ pending[f] \subseteq entry /\ (f \notin MultiLine => none = {})
        /\ AllLines(f, to) \subseteq AllLines(f, pos[f]) \cup entry \cup none
    BY DEF LogInv, LogType
  <2> HIDE DEF none, entry, to
  <2> QED
    BY <2>1, <2>2, TailerSteps
<1>5. ASSUME NEW f \in Files, AddEntry(f) PROVE LogInv'
  <2> DEFINE all == buffer \cup {work[f].entry}
             next == work[f].next
             to == work[f].to
             entry == work[f].entry
  <2>1. /\ work[f].pc = "lock" /\ holder = "nobody" /\ batch = {}
        /\ UNCHANGED <<size, starts, savedOffsets, stored, refused, passedOver>>
    BY <1>5 DEF AddEntry, LockFree, LogInv, Locked
  <2>2. \/ buffer' = all /\ Done(f, next, to) /\ UNCHANGED <<batch, holder>>
        \/ /\ buffer' = {} /\ batch' = all /\ holder' = f
           /\ work' = [work EXCEPT ![f].pc = "report"]
           /\ UNCHANGED <<pos, offsets, pending>>
    BY <1>5 DEF AddEntry
  <2>3. /\ to \in Nat /\ pending[f] \subseteq entry \cup next
        /\ AllLines(f, to) \subseteq AllLines(f, pos[f]) \cup entry \cup next
    BY <2>1 DEF LogInv, Handing
  <2>4. f \notin MultiLine => next = {}
    BY DEF LogInv, Plain
  <2>5. (UNION all) = (UNION buffer) \cup entry /\ (UNION batch) = {}
    BY <2>1, UnionOfMore
  <2>6. Safe' = Safe
    BY <2>1 DEF Safe
  <2>7. CASE buffer' = all /\ Done(f, next, to) /\ UNCHANGED <<batch, holder>>
    <3> HIDE DEF all, next, to, entry
    <3>1. /\ pos' \in [Files -> Nat] /\ pos'[f] = to /\ pending'[f] = next
          /\ work'[f] = NoWork
          /\ \A g \in Files : g # f => /\ pos'[g] = pos[g] /\ pending'[g] = pending[g]
                                       /\ work'[g] = work[g]
          /\ pending' = [g \in Files |-> pending'[g]] /\ work' = [g \in Files |-> work'[g]]
          /\ DOMAIN offsets' \subseteq Files /\ \A g \in DOMAIN offsets' : offsets'[g] = pos'[g]
      BY <2>3, <2>7, DoneKeeps
    <3>2. (UNION buffer') = (UNION buffer) \cup entry /\ (UNION batch') = {} /\ batch' = {}
      BY <2>1, <2>5, <2>7
    <3>3. LogType'
      BY <2>1, <2>7, <3>1, NoWorkIsRead DEF LogInv, LogType
    <3>4. Plain'
      BY <2>1, <2>4, <3>1, NoWorkIsRead DEF LogInv, Plain
    <3>5. Handing'
      BY <3>1, NoWorkIsRead DEF LogInv, Handing
    <3>6. Locked'
      <4>1. holder' = "nobody" /\ f # "nobody" /\ \A g \in Files : g # "nobody"
        BY <2>1, <2>7, LogAssumption
      <4> QED
        BY <2>1, <3>1, <3>2, <4>1, NoWorkIsRead DEF LogInv, Locked
    <3>7. Covered'
      <4> SUFFICES ASSUME NEW g \in Files
                   PROVE  AllLines(g, pos'[g]) \subseteq Safe \cup pending'[g] \cup (UNION buffer')
        BY <2>6, <3>2 DEF Covered
      <4>1. AllLines(g, pos[g]) \subseteq Safe \cup pending[g] \cup (UNION buffer)
        BY <2>5 DEF LogInv, Covered
      <4>2. CASE g = f
        <5>1. AllLines(f, to) \subseteq AllLines(f, pos[f]) \cup entry \cup next
          BY <2>3
        <5>2. AllLines(f, pos[f]) \subseteq Safe \cup pending[f] \cup (UNION buffer)
          BY <4>1, <4>2
        <5>3. pos'[g] = to /\ pending'[g] = next
          BY <3>1, <4>2
        <5> HIDE DEF Safe
        <5> QED
          BY <2>3, <3>2, <4>2, <5>1, <5>2, <5>3
      <4>3. CASE g # f
        BY <3>1, <3>2, <4>1, <4>3
      <4> QED
        BY <4>2, <4>3
    <3>8. InMemory \subseteq InMemory'
      <4>1. \A g \in Files : pending[g] \subseteq pending'[g] \cup entry
        BY <2>3, <3>1
      <4>2. (UNION batch) = {} /\ (UNION buffer') = (UNION buffer) \cup entry
        BY <2>5, <3>2
      <4>3. ASSUME NEW x \in InMemory PROVE x \in InMemory'
        <5>1. (\E g \in Files : x \in pending[g]) \/ x \in (UNION buffer)
          BY <4>2, MemoryIs
        <5>2. (\E g \in Files : x \in pending'[g]) \/ x \in (UNION buffer')
          BY <4>1, <4>2, <5>1
        <5> QED
          BY <5>2, MemoryPrime
      <4> QED
        BY <4>3
    <3>9. SavedIsStored'
      BY <2>1, <2>6, <3>8, NothingForgotten DEF LogInv
    <3> QED
      BY <3>3, <3>4, <3>5, <3>6, <3>7, <3>9 DEF LogInv
  <2>8. CASE /\ buffer' = {} /\ batch' = all /\ holder' = f
             /\ work' = [work EXCEPT ![f].pc = "report"]
             /\ UNCHANGED <<pos, offsets, pending>>
    <3>1. /\ work' = [g \in Files |-> work'[g]] /\ work'[f].pc = "report" /\ work'[f].entry = entry
          /\ work'[f].next = next /\ work'[f].to = to
          /\ DOMAIN work'[f] = {"pc", "entry", "next", "to"}
          /\ \A g \in Files : g # f => work'[g] = work[g]
      BY <2>8 DEF LogInv, LogType
    <3>2. (UNION batch') = (UNION buffer) \cup entry /\ (UNION buffer') = {} /\ entry \in batch'
      BY <2>5, <2>8
    <3> HIDE DEF all, next, to, entry
    <3>3. LogType'
      BY <2>1, <2>8, <3>1 DEF LogInv, LogType
    <3>4. Plain'
      BY <2>1, <2>4, <2>8, <3>1 DEF LogInv, Plain
    <3>5. Handing'
      BY <2>3, <2>8, <3>1 DEF LogInv, Handing
    <3>6. Locked'
      <4>1. \A g \in Files : g # f => work[g].pc # "report"
        BY <2>1, LogAssumption DEF LogInv, Locked
      <4>2. f # "nobody"
        BY LogAssumption
      <4> QED
        BY <2>8, <3>1, <3>2, <4>1, <4>2 DEF Locked
    <3>7. Covered'
      <4>1. (UNION batch') = (UNION buffer) \cup entry /\ (UNION batch) = {}
        BY <2>5, <3>2
      <4>2. UNCHANGED <<pos, pending>>
        BY <2>8
      <4>3. \A g \in Files : AllLines(g, pos[g]) \subseteq Safe \cup pending[g] \cup (UNION buffer)
        BY <4>1 DEF LogInv, Covered
      <4> QED
        BY <2>6, <4>1, <4>2, <4>3 DEF Covered
    <3>8. InMemory \subseteq InMemory'
      <4>1. ASSUME NEW x \in InMemory PROVE x \in InMemory'
        <5>1. (\E g \in Files : x \in pending[g]) \/ x \in (UNION buffer)
          BY <2>5, MemoryIs
        <5>2. (\E g \in Files : x \in pending'[g]) \/ x \in (UNION batch')
          BY <2>8, <3>2, <5>1
        <5> QED
          BY <5>2, MemoryPrime
      <4> QED
        BY <4>1
    <3>9. SavedIsStored'
      BY <2>1, <2>6, <3>8, NothingForgotten DEF LogInv
    <3> QED
      BY <3>3, <3>4, <3>5, <3>6, <3>7, <3>9 DEF LogInv
  <2> QED
    BY <2>2, <2>7, <2>8
<1>6. ASSUME FlushBuffer PROVE LogInv'
  <2>1. /\ holder = "nobody" /\ batch = {} /\ holder' = "flush" /\ batch' = buffer /\ buffer' = {}
        /\ UNCHANGED <<size, starts, pos, offsets, savedOffsets, pending, work, stored, refused, passedOver>>
    BY <1>6 DEF FlushBuffer, LogInv, Locked
  <2>2. (UNION batch) = {} /\ (UNION buffer') = {} /\ (UNION batch') = (UNION buffer)
    BY <2>1, UnionOfMore
  <2>3. LogType' /\ Plain' /\ Handing'
    BY <2>1 DEF LogInv, LogType, Plain, Handing
  <2>4. Locked'
    BY <2>1, LogAssumption DEF LogInv, Locked
  <2>5. Safe' = Safe /\ InMemory' = InMemory
    <3>1. Safe' = Safe
      BY <2>1 DEF Safe
    <3>2. ASSUME NEW x PROVE x \in InMemory' <=> x \in InMemory
      <4>1. pending' = pending
        BY <2>1
      <4> QED
        BY <2>2, <4>1, MemoryIs, MemoryPrime
    <3> QED
      BY <3>1, <3>2
  <2>6. Covered'
    <3>1. \A g \in Files : AllLines(g, pos[g]) \subseteq Safe \cup pending[g] \cup (UNION buffer)
      BY <2>2 DEF LogInv, Covered
    <3> QED
      BY <2>1, <2>2, <2>5, <3>1 DEF Covered
  <2>7. SavedIsStored'
    BY <2>1, <2>5, NothingForgotten DEF LogInv
  <2> QED
    BY <2>3, <2>4, <2>6, <2>7 DEF LogInv
<1>7. ASSUME NEW isStored \in BOOLEAN, NEW answered \in BOOLEAN, ReportEnds(isStored, answered)
      PROVE  LogInv'
  <2> DEFINE lines == UNION batch
  <2>1. /\ holder # "nobody" /\ buffer = {} /\ batch' = {} /\ holder' = "nobody"
        /\ Safe' = Safe \cup lines
        /\ savedOffsets' = offsets \/ savedOffsets' = savedOffsets
        /\ UNCHANGED <<size, starts, buffer, passedOver>>
    BY <1>7 DEF ReportEnds, Safe, LogInv, Locked
  <2>2. \/ holder = "flush" /\ UNCHANGED <<pos, offsets, pending, work>>
        \/ holder \in Files /\ Done(holder, work[holder].next, work[holder].to)
    BY <1>7 DEF ReportEnds, LogInv, LogType
  <2>3. (UNION buffer) = {} /\ (UNION buffer') = {} /\ (UNION batch') = {}
    BY <2>1, UnionOfMore
  <2>4. /\ pos' \in [Files -> Nat] /\ pending' = [g \in Files |-> pending'[g]]
        /\ work' = [g \in Files |-> work'[g]]
        /\ DOMAIN offsets' \subseteq Files /\ \A g \in DOMAIN offsets' : offsets'[g] = pos'[g]
        /\ \A g \in Files : \/ /\ holder # g /\ pos'[g] = pos[g] /\ pending'[g] = pending[g]
                               /\ work'[g] = work[g]
                            \/ /\ holder = g /\ pos'[g] = work[g].to /\ pending'[g] = work[g].next
                               /\ work'[g] = NoWork
    <3>1. CASE holder = "flush" /\ UNCHANGED <<pos, offsets, pending, work>>
      BY <3>1, LogAssumption DEF LogInv, LogType
    <3>2. CASE holder \in Files /\ Done(holder, work[holder].next, work[holder].to)
      <4> DEFINE next == work[holder].next
                 to == work[holder].to
      <4>1. to \in Nat
        BY <3>2 DEF LogInv, Locked, Handing
      <4>2. Done(holder, next, to)
        BY <3>2
      <4> HIDE DEF next, to
      <4>3. /\ pos' \in [Files -> Nat] /\ pos'[holder] = to /\ pending'[holder] = next
            /\ work'[holder] = NoWork
            /\ \A g \in Files : g # holder => /\ pos'[g] = pos[g] /\ pending'[g] = pending[g]
                                              /\ work'[g] = work[g]
            /\ pending' = [g \in Files |-> pending'[g]] /\ work' = [g \in Files |-> work'[g]]
            /\ DOMAIN offsets' \subseteq Files /\ \A g \in DOMAIN offsets' : offsets'[g] = pos'[g]
        BY <3>2, <4>1, <4>2, DoneKeeps
      <4> QED
        BY <4>3 DEF next, to
    <3> QED
      BY <2>2, <3>1, <3>2
  <2>5. \A g \in Files : holder = g =>
          /\ pending[g] \subseteq lines \cup work[g].next
          /\ AllLines(g, work[g].to) \subseteq AllLines(g, pos[g]) \cup lines \cup work[g].next
    <3>1. \A g \in Files : holder = g => work[g].entry \subseteq lines
      BY DEF LogInv, Locked
    <3> QED
      BY <3>1 DEF LogInv, Locked, Handing
  <2> HIDE DEF lines
  <2>6. LogType'
    BY <2>1, <2>4, NoWorkIsRead DEF LogInv, LogType
  <2>7. Plain'
    BY <2>1, <2>4, NoWorkIsRead DEF LogInv, Plain
  <2>8. Handing'
    BY <2>4, NoWorkIsRead DEF LogInv, Handing
  <2>9. Locked'
    <3>1. \A g \in Files : work'[g].pc # "report" /\ holder' # g
      BY <2>1, <2>4, NoWorkIsRead, LogAssumption DEF LogInv, Locked
    <3> QED
      BY <2>1, <3>1 DEF Locked
  <2>10. \A g \in Files : AllLines(g, pos[g]) \subseteq Safe' \cup pending[g]
    BY <2>1, <2>3 DEF LogInv, Covered, lines
  <2>11. Covered'
    <3> SUFFICES ASSUME NEW g \in Files PROVE AllLines(g, pos'[g]) \subseteq Safe' \cup pending'[g]
      BY DEF Covered
    <3>1. CASE holder # g
      BY <2>4, <2>10, <3>1
    <3>2. CASE holder = g
      <4>1. pos'[g] = work[g].to /\ pending'[g] = work[g].next
        BY <2>4, <3>2
      <4>2. AllLines(g, work[g].to) \subseteq AllLines(g, pos[g]) \cup lines \cup work[g].next
        BY <2>5, <3>2
      <4>3. pending[g] \subseteq lines \cup work[g].next /\ lines \subseteq Safe'
        BY <2>1, <2>5, <3>2
      <4> HIDE DEF Safe
      <4> QED
        BY <2>10, <4>1, <4>2, <4>3
    <3> QED
      BY <3>1, <3>2
  <2>12. \A g \in Files : pending[g] \subseteq Safe' \cup pending'[g]
    BY <2>1, <2>4, <2>5
  <2>13. ASSUME savedOffsets' = savedOffsets PROVE SavedIsStored'
    <3>1. ASSUME NEW x \in InMemory PROVE x \in InMemory' \cup Safe'
      <4>1. (\E g \in Files : x \in pending[g]) \/ x \in lines
        BY <2>3, MemoryIs DEF lines
      <4> QED
        BY <2>1, <2>12, <4>1, MemoryPrime
    <3>2. InMemory \subseteq InMemory' \cup Safe' /\ Safe \subseteq Safe'
      BY <2>1, <3>1
    <3> QED
      BY <2>13, <3>2, NothingForgotten DEF LogInv
  <2>14. ASSUME savedOffsets' = offsets PROVE SavedIsStored'
    <3> SUFFICES ASSUME NEW g \in DOMAIN offsets, NEW line \in AllLines(g, offsets[g])
                 PROVE  line \in Safe' \/ (g \in MultiLine /\ line \in InMemory')
      BY <2>14 DEF SavedIsStored, Safe
    <3>1. g \in Files /\ offsets[g] = pos[g]
      BY DEF LogInv, LogType
    <3>2. line \in Safe' \/ line \in pending[g]
      BY <2>10, <3>1
    <3>3. line \in Safe' \/ (line \in pending[g] /\ line \in pending'[g])
      BY <2>12, <3>1, <3>2
    <3>4. line \in pending[g] => g \in MultiLine
      BY <3>1 DEF LogInv, Plain
    <3> QED
      BY <3>1, <3>3, <3>4, MemoryPrime
  <2> QED
    BY <2>1, <2>6, <2>7, <2>8, <2>9, <2>11, <2>13, <2>14 DEF LogInv
<1>8. ASSUME RestartCollector PROVE LogInv'
  <2> DEFINE Passed(f) == IF f \notin DOMAIN savedOffsets THEN AllLines(f, size[f])
                          ELSE IF f \in MultiLine THEN AllLines(f, savedOffsets[f]) \cap InMemory ELSE {}
  <2>1. /\ offsets' = savedOffsets
        /\ pos' = [f \in Files |-> IF f \in DOMAIN savedOffsets THEN savedOffsets[f] ELSE size[f]]
        /\ passedOver' = passedOver \cup UNION {Passed(f) : f \in Files}
        /\ pending' = [f \in Files |-> {}] /\ work' = [f \in Files |-> NoWork]
        /\ buffer' = {} /\ batch' = {} /\ holder' = "nobody"
        /\ stored' \in {stored, stored \cup UNION batch}
        /\ UNCHANGED <<size, starts, savedOffsets, refused>>
    BY <1>8 DEF RestartCollector
  <2>2. \A f \in Files : Passed(f) \subseteq passedOver'
    BY <2>1
  <2>3. Safe \subseteq Safe' /\ passedOver' \subseteq Safe'
    BY <2>1 DEF Safe
  <2> HIDE DEF Passed
  <2>4. ASSUME NEW f \in Files, f \in DOMAIN savedOffsets
        PROVE  AllLines(f, savedOffsets[f]) \subseteq Safe'
    <3> SUFFICES ASSUME NEW line \in AllLines(f, savedOffsets[f]) PROVE line \in Safe'
      OBVIOUS
    <3>1. line \in Safe \/ (f \in MultiLine /\ line \in InMemory)
      BY <2>4 DEF LogInv, SavedIsStored, Safe
    <3>2. f \in MultiLine /\ line \in InMemory => line \in Passed(f)
      BY <2>4 DEF Passed
    <3> QED
      BY <2>2, <2>3, <3>1, <3>2
  <2>5. ASSUME NEW f \in Files, f \notin DOMAIN savedOffsets PROVE AllLines(f, size[f]) \subseteq Safe'
    <3>1. AllLines(f, size[f]) = Passed(f)
      BY <2>5 DEF Passed
    <3> QED
      BY <2>2, <2>3, <3>1
  <2>6. pos' \in [Files -> Nat]
    BY <2>1 DEF LogInv, LogType
  <2>7. LogType'
    BY <2>1, <2>6, NoWorkIsRead DEF LogInv, LogType
  <2>8. Plain'
    BY <2>1, NoWorkIsRead DEF LogInv, Plain
  <2>9. Handing'
    BY <2>1, NoWorkIsRead DEF Handing
  <2>10. Locked'
    BY <2>1, NoWorkIsRead, LogAssumption DEF Locked
  <2>11. \A f \in Files : AllLines(f, pos'[f]) \subseteq Safe'
    BY <2>1, <2>4, <2>5
  <2>12. Covered'
    BY <2>11 DEF Covered
  <2>13. SavedIsStored'
    <3>1. DOMAIN savedOffsets \subseteq Files
      BY DEF LogInv, LogType
    <3>2. \A f \in DOMAIN savedOffsets : AllLines(f, savedOffsets[f]) \subseteq Safe'
      BY <2>4, <3>1
    <3> QED
      BY <2>1, <3>2 DEF SavedIsStored, Safe
  <2> QED
    BY <2>7, <2>8, <2>9, <2>10, <2>12, <2>13 DEF LogInv
<1> QED
  BY <1>1, <1>2, <1>3, <1>4, <1>5, <1>6, <1>7, <1>8 DEF LogNext

\* What lies before an offset that an agent has saved is stored, or its batch
\* failed, or a restart passed it over, but for the unfinished entries of
\* multi-line files, however tailers, flushes, reports and restarts fall.
THEOREM SavedOffsetsAreStored == LogSpec => []SavedIsStored
<1>1. LogInit => LogInv
  <2> SUFFICES ASSUME LogInit PROVE LogInv
    OBVIOUS
  <2>1. \A f \in Files : pos[f] = 0 /\ AllLines(f, 0) = {}
    BY DEF LogInit, AllLines
  <2> QED
    BY <2>1, NoWorkIsRead, LogAssumption DEF LogInit, LogInv, LogType, Plain, Handing, Locked, Covered,
       SavedIsStored, NoOffsets
<1>2. LogInv => SavedIsStored
  BY DEF LogInv
<1> QED
  BY <1>1, <1>2, LogNextInv, PTL DEF LogSpec

-----------------------------------------------------------------------------
(* The live tail.  A queue holds the newest batches in their order, up to  *)
(* the last that was published (Newest); what is newer than any Capacity   *)
(* of them and not in the queue was shown, or is being sent (Seen).        *)

TailRow ==
    [at : {"closed", "open", "sending"}, filtered : BOOLEAN, gone : BOOLEAN, since : Nat,
     queue : Seq(Nat), taken : Nat]

TailType ==
    /\ published \in Nat /\ tails \in [Tails -> TailRow] /\ shownTo \in [Tails -> SUBSET Nat]

NewestLast(queue, last) ==
    /\ Len(queue) <= Capacity
    /\ \A i \in 1 .. Len(queue) : queue[i] + Len(queue) = last + i

Sent(row, sentTo) == IF row.at = "sending" THEN sentTo \cup {row.taken} ELSE sentTo

Follows(row, sentTo, last) ==
    row.at # "closed" =>
      /\ NewestLast(row.queue, last)
      /\ \A b \in Nat :
           row.since < b /\ b + Len(row.queue) <= last /\ b + Capacity > last => b \in Sent(row, sentTo)

Seen == \A t \in Tails : Follows(tails[t], shownTo[t], published)

TailInv == TailType /\ Seen

LEMMA NoBatches == <<>> \in Seq(Nat) /\ Len(<<>>) = 0
  OBVIOUS

LEMMA ClosedIsClosed == Closed \in TailRow /\ Closed.at = "closed"
  BY NoBatches DEF Closed, TailRow

\* publish keeps the queue the newest batches, and drops only what is too old.
LEMMA PutKeepsNewest ==
    ASSUME NEW queue \in Seq(Nat), NEW last \in Nat, NewestLast(queue, last)
    PROVE  /\ Put(queue, last + 1) \in Seq(Nat) /\ NewestLast(Put(queue, last + 1), last + 1)
           /\ \/ Len(Put(queue, last + 1)) = Len(queue) + 1
              \/ Len(Put(queue, last + 1)) = Capacity
<1> DEFINE kept == IF Len(queue) < Capacity THEN queue ELSE Tail(queue)
           new == Append(kept, last + 1)
<1>0. Capacity \in Nat \ {0} /\ Len(queue) \in Nat
  BY LiveTailAssumption
<1>1. kept \in Seq(Nat) /\ Len(kept) < Capacity
  <2>1. CASE Len(queue) < Capacity
    BY <2>1
  <2>2. CASE ~ (Len(queue) < Capacity)
    <3>1. queue # <<>> /\ Len(queue) = Capacity
      BY <1>0, <2>2, NoBatches DEF NewestLast
    <3> QED
      BY <1>0, <2>2, <3>1
  <2> QED
    BY <2>1, <2>2
<1>2. \A i \in 1 .. Len(kept) : kept[i] + Len(kept) = last + i
  <2>1. CASE Len(queue) < Capacity
    BY <2>1 DEF NewestLast
  <2>2. CASE ~ (Len(queue) < Capacity)
    <3>1. queue # <<>> /\ Len(kept) = Len(queue) - 1
      BY <1>0, <2>2, NoBatches
    <3>2. \A i \in 1 .. Len(kept) : kept[i] = queue[i + 1] /\ i + 1 \in 1 .. Len(queue)
      BY <1>0, <2>2, <3>1
    <3>3. ASSUME NEW i \in 1 .. Len(kept) PROVE kept[i] + Len(kept) = last + i
      <4>1. i + 1 \in 1 .. Len(queue) /\ kept[i] = queue[i + 1]
        BY <3>2
      <4>2. queue[i + 1] \in Nat
        BY <4>1
      <4>3. queue[i + 1] + Len(queue) = last + (i + 1)
        BY <4>1 DEF NewestLast
      <4>4. i \in Nat
        OBVIOUS
      <4> HIDE DEF kept
      <4>5. Len(kept) \in Nat /\ Len(queue) = Len(kept) + 1
        BY <1>0, <3>1, <1>1
      <4> DEFINE a == queue[i + 1]
                 n == Len(kept)
      <4>6. a \in Nat /\ n \in Nat /\ kept[i] = a /\ a + (n + 1) = last + (i + 1)
        BY <4>1, <4>2, <4>3, <4>5
      <4> HIDE DEF a, n
      <4>7. a + n = last + i
        BY <4>4, <4>6
      <4> USE DEF n
      <4> QED
        BY <4>6, <4>7
    <3> QED
      BY <3>3
  <2> QED
    BY <2>1, <2>2
<1>3. Len(kept) \in Nat /\ (Len(kept) = Len(queue) \/ Len(kept) + 1 = Capacity)
  <2>1. CASE ~ (Len(queue) < Capacity)
    <3>1. queue # <<>> /\ Len(queue) = Capacity
      BY <1>0, <2>1, NoBatches DEF NewestLast
    <3> QED
      BY <1>0, <1>1, <2>1, <3>1
  <2> QED
    BY <1>1, <2>1
<1>4. Put(queue, last + 1) = new
  BY DEF Put
<1> HIDE DEF kept
<1>5. /\ new \in Seq(Nat) /\ Len(new) = Len(kept) + 1
      /\ \A i \in 1 .. Len(kept) : new[i] = kept[i]
      /\ new[Len(kept) + 1] = last + 1
  BY <1>1
<1> HIDE DEF new
<1>6. NewestLast(new, last + 1)
  <2>1. \A i \in 1 .. Len(new) : i \in 1 .. Len(kept) \/ i = Len(kept) + 1
    BY <1>3, <1>5
  <2>2. \A i \in 1 .. Len(kept) : kept[i] \in Nat
    BY <1>1
  <2>3. ASSUME NEW i \in 1 .. Len(new) PROVE new[i] + Len(new) = (last + 1) + i
    <3>1. CASE i \in 1 .. Len(kept)
      <4>1. new[i] = kept[i] /\ kept[i] \in Nat /\ kept[i] + Len(kept) = last + i /\ i \in Nat
        BY <1>2, <1>5, <2>2, <3>1
      <4> DEFINE a == kept[i]
                 n == Len(kept)
      <4>2. a \in Nat /\ n \in Nat /\ new[i] = a /\ Len(new) = n + 1 /\ a + n = last + i
        BY <1>3, <1>5, <4>1
      <4> HIDE DEF a, n
      <4>3. a + (n + 1) = (last + 1) + i
        BY <4>1, <4>2
      <4> QED
        BY <4>2, <4>3
    <3>2. CASE i = Len(kept) + 1
      BY <1>3, <1>5, <3>2
    <3> QED
      BY <2>1, <3>1, <3>2
  <2>4. Len(new) <= Capacity
    BY <1>0, <1>1, <1>3, <1>5
  <2> QED
    BY <2>3, <2>4 DEF NewestLast
<1> QED
  BY <1>3, <1>4, <1>5, <1>6

\* What happens to one tail leaves the others as they are.
LEMMA OneTail ==
    ASSUME NEW t \in Tails, NEW row \in TailRow, NEW sentTo \in SUBSET Nat, TailInv,
           tails' = [tails EXCEPT ![t] = row], shownTo' = [shownTo EXCEPT ![t] = sentTo],
           published' = published, Follows(row, sentTo, published)
    PROVE  TailInv'
<1>1. TailType'
  BY DEF TailInv, TailType
<1>2. ASSUME NEW u \in Tails PROVE Follows(tails'[u], shownTo'[u], published')
  <2>1. CASE u = t
    <3>1. tails'[u] = row /\ shownTo'[u] = sentTo
      BY <2>1 DEF TailInv, TailType
    <3> QED
      BY <3>1
  <2>2. CASE u # t
    <3>1. tails'[u] = tails[u] /\ shownTo'[u] = shownTo[u]
      BY <2>2 DEF TailInv, TailType
    <3> QED
      BY <3>1 DEF TailInv, Seen
  <2> QED
    BY <2>1, <2>2
<1> QED
  BY <1>1, <1>2 DEF TailInv, Seen

LEMMA PublishBatchInv == TailInv /\ PublishBatch => TailInv'
<1> SUFFICES ASSUME TailInv, PublishBatch PROVE TailInv'
  OBVIOUS
<1>1. published \in Nat /\ published' = published + 1 /\ shownTo' = shownTo
  BY DEF TailInv, TailType, PublishBatch
<1>2. ASSUME NEW t \in Tails
      PROVE  tails'[t] \in TailRow /\ Follows(tails'[t], shownTo'[t], published')
  <2>1. tails[t] \in TailRow /\ Follows(tails[t], shownTo[t], published)
    BY DEF TailInv, TailType, Seen
  <2>2. CASE tails[t].at = "closed"
    <3>1. tails'[t] = tails[t]
      BY <2>2 DEF PublishBatch, Subscribed
    <3> QED
      BY <2>1, <2>2, <3>1 DEF Follows
  <2>3. CASE tails[t].at # "closed"
    <3> DEFINE queue == tails[t].queue
               new == Put(queue, published + 1)
               row == tails'[t]
    <3>1. row = [tails[t] EXCEPT !.queue = new]
      BY <2>3 DEF PublishBatch, Subscribed
    <3>2. queue \in Seq(Nat) /\ NewestLast(queue, published)
      BY <2>1, <2>3 DEF TailRow, Follows
    <3>3. /\ new \in Seq(Nat) /\ NewestLast(new, published + 1)
          /\ Len(new) = Len(queue) + 1 \/ Len(new) = Capacity
      BY <1>1, <3>2, PutKeepsNewest
    <3>4. Len(queue) \in Nat /\ Len(new) \in Nat /\ Capacity \in Nat
      BY <3>2, <3>3, LiveTailAssumption
    <3>5. \A b \in Nat : tails[t].since < b /\ b + Len(queue) <= published /\ b + Capacity > published
            => b \in Sent(tails[t], shownTo[t])
      BY <2>1, <2>3 DEF Follows
    <3> HIDE DEF new
    <3>6. /\ row \in TailRow /\ row.queue = new /\ row.since = tails[t].since
          /\ row.at = tails[t].at /\ row.taken = tails[t].taken
      BY <2>1, <3>1, <3>3 DEF TailRow
    <3>7. Sent(row, shownTo'[t]) = Sent(tails[t], shownTo[t])
      BY <1>1, <3>6 DEF Sent
    <3> HIDE DEF row, queue
    <3>8. ASSUME NEW b \in Nat, row.since < b, b + Len(new) <= published + 1, b + Capacity > published + 1
          PROVE  b \in Sent(row, shownTo'[t])
      <4>1. b + Len(queue) <= published /\ b + Capacity > published
        BY <1>1, <3>3, <3>4, <3>8
      <4> QED
        BY <3>5, <3>6, <3>7, <3>8, <4>1
    <3>9. Follows(row, shownTo'[t], published')
      BY <1>1, <3>3, <3>6, <3>8 DEF Follows
    <3> QED
      BY <3>6, <3>9 DEF row
  <2> QED
    BY <2>2, <2>3
<1>3. tails' = [t \in Tails |-> tails'[t]]
  BY DEF PublishBatch
<1>4. TailType'
  BY <1>1, <1>2, <1>3 DEF TailInv, TailType
<1> QED
  BY <1>2, <1>4 DEF TailInv, Seen

LEMMA OpenTailInv == ASSUME TailInv, NEW t \in Tails, NEW filtered \in BOOLEAN, OpenTail(t, filtered)
                     PROVE  TailInv'
<1> DEFINE row == [Closed EXCEPT !.at = "open", !.filtered = filtered, !.since = published]
<1>1. published \in Nat
  BY DEF TailInv, TailType
<1>2. row \in TailRow /\ row.queue = <<>> /\ row.since = published
  BY <1>1, NoBatches DEF TailRow, Closed
<1>3. Follows(row, {}, published)
  BY <1>1, <1>2, NoBatches, LiveTailAssumption DEF Follows, NewestLast
<1> HIDE DEF row
<1>4. {} \in SUBSET Nat
  OBVIOUS
<1> QED
  BY <1>2, <1>3, <1>4, OneTail DEF OpenTail, row

LEMMA TakeBatchInv == ASSUME TailInv, NEW t \in Tails, TakeBatch(t) PROVE TailInv'
<1>0. tails' = [tails EXCEPT ![t] =
                  IF tails[t].filtered THEN Closed
                  ELSE [tails[t] EXCEPT !.at = "sending", !.taken = Head(tails[t].queue),
                                        !.queue = Tail(tails[t].queue)]]
  BY DEF TakeBatch
<1> DEFINE queue == tails[t].queue
           rest == Tail(queue)
           sending == [tails[t] EXCEPT !.at = "sending", !.taken = Head(queue), !.queue = rest]
<1>1. /\ published \in Nat /\ tails[t] \in TailRow /\ shownTo[t] \in SUBSET Nat
      /\ tails \in [Tails -> TailRow] /\ shownTo \in [Tails -> SUBSET Nat]
      /\ Follows(tails[t], shownTo[t], published)
  BY DEF TailInv, TailType, Seen
<1>2. /\ tails[t].at = "open" /\ queue # <<>> /\ published' = published
      /\ shownTo' = [shownTo EXCEPT ![t] = shownTo[t]]
  <2>1. shownTo' = shownTo
    BY DEF TakeBatch
  <2> QED
    BY <1>1, <2>1 DEF TakeBatch
<1>3. CASE tails[t].filtered
  <2>1. Follows(Closed, shownTo[t], published)
    BY ClosedIsClosed DEF Follows
  <2>2. tails' = [tails EXCEPT ![t] = Closed]
    BY <1>3 DEF TakeBatch
  <2> QED
    BY <1>1, <1>2, <2>1, <2>2, ClosedIsClosed, OneTail
<1>4. CASE ~ tails[t].filtered
  <2>1. queue \in Seq(Nat) /\ NewestLast(queue, published)
    BY <1>1, <1>2 DEF TailRow, Follows
  <2>2. \A b \in Nat : tails[t].since < b /\ b + Len(queue) <= published /\ b + Capacity > published
          => b \in shownTo[t]
    BY <1>1, <1>2 DEF Follows, Sent
  <2>3. /\ Head(queue) \in Nat /\ rest \in Seq(Nat) /\ Len(queue) = Len(rest) + 1
        /\ Len(rest) \in Nat /\ Head(queue) = queue[1]
        /\ \A i \in 1 .. Len(rest) : rest[i] = queue[i + 1]
    BY <1>2, <2>1
  <2>4. Head(queue) + Len(queue) = published + 1
    <3>1. 1 \in 1 .. Len(queue)
      BY <2>3
    <3> QED
      BY <2>1, <2>3, <3>1 DEF NewestLast
  <2>5. /\ sending \in TailRow /\ sending.queue = rest /\ sending.since = tails[t].since
        /\ sending.at = "sending" /\ sending.taken = Head(queue)
    BY <1>1, <2>3 DEF TailRow
  <2> DEFINE head == Head(queue)
             n == Len(rest)
  <2>6. n \in Nat /\ head \in Nat /\ head + (n + 1) = published + 1 /\ Len(queue) = n + 1
    BY <2>3, <2>4
  <2>7. NewestLast(rest, published)
    <3>1. Len(rest) <= Capacity
      BY <2>1, <2>3, LiveTailAssumption DEF NewestLast
    <3>2. ASSUME NEW i \in 1 .. Len(rest) PROVE rest[i] + Len(rest) = published + i
      <4> DEFINE a == rest[i]
      <4>1. i \in Nat /\ i + 1 \in 1 .. Len(queue) /\ a = queue[i + 1]
        BY <2>3
      <4>2. a \in Nat
        BY <2>3
      <4>3. a + Len(queue) = published + (i + 1)
        BY <2>1, <4>1 DEF NewestLast
      <4> HIDE DEF a, n, rest, queue
      <4>4. a + (n + 1) = published + (i + 1)
        BY <2>6, <4>3
      <4>5. a + n = published + i
        BY <1>1, <2>6, <4>1, <4>2, <4>4
      <4> QED
        BY <4>5 DEF a, n
    <3> QED
      BY <3>1, <3>2 DEF NewestLast
  <2> HIDE DEF sending
  <2>8. ASSUME NEW b \in Nat, sending.since < b, b + Len(rest) <= published, b + Capacity > published
        PROVE  b \in Sent(sending, shownTo[t])
    <3>1. Sent(sending, shownTo[t]) = shownTo[t] \cup {head}
      BY <2>5 DEF Sent
    <3> HIDE DEF head, n, rest, queue
    <3>2. b + n <= published
      BY <2>8 DEF n
    <3>3. b = head \/ b + (n + 1) <= published
      BY <1>1, <2>6, <3>2
    <3> QED
      BY <2>2, <2>5, <2>6, <2>8, <3>1, <3>3
  <2>9. Follows(sending, shownTo[t], published)
    BY <2>5, <2>7, <2>8 DEF Follows
  <2>10. tails' = [tails EXCEPT ![t] = sending]
    BY <1>0, <1>4 DEF sending
  <2> QED
    BY <1>1, <1>2, <2>5, <2>9, <2>10, OneTail
<1> QED
  BY <1>3, <1>4

LEMMA SendBatchInv == ASSUME TailInv, NEW t \in Tails, SendBatch(t) PROVE TailInv'
<1> DEFINE row == [tails[t] EXCEPT !.at = "open"]
           now == shownTo[t] \cup {tails[t].taken}
<1>1. /\ tails[t] \in TailRow /\ shownTo[t] \in SUBSET Nat /\ published' = published
      /\ tails \in [Tails -> TailRow] /\ shownTo \in [Tails -> SUBSET Nat]
      /\ Follows(tails[t], shownTo[t], published) /\ tails[t].at = "sending"
  BY DEF TailInv, TailType, Seen, SendBatch
<1>2. CASE tails[t].gone
  <2>1. Follows(Closed, shownTo[t], published)
    BY ClosedIsClosed DEF Follows
  <2>2. tails' = [tails EXCEPT ![t] = Closed] /\ shownTo' = [shownTo EXCEPT ![t] = shownTo[t]]
    BY <1>1, <1>2 DEF SendBatch
  <2> QED
    BY <1>1, <2>1, <2>2, ClosedIsClosed, OneTail
<1>3. CASE ~ tails[t].gone
  <2>1. /\ row \in TailRow /\ row.at = "open" /\ row.queue = tails[t].queue
        /\ row.since = tails[t].since /\ now \in SUBSET Nat
    BY <1>1 DEF TailRow
  <2>2. tails' = [tails EXCEPT ![t] = row] /\ shownTo' = [shownTo EXCEPT ![t] = now]
    BY <1>1, <1>3 DEF SendBatch
  <2> HIDE DEF row
  <2>3. Sent(row, now) = Sent(tails[t], shownTo[t])
    BY <1>1, <2>1 DEF Sent
  <2>4. Follows(row, now, published)
    BY <1>1, <2>1, <2>3 DEF Follows
  <2> QED
    BY <1>1, <2>1, <2>2, <2>4, OneTail
<1> QED
  BY <1>2, <1>3

LEMMA LeaveInv == ASSUME TailInv, NEW t \in Tails, Leave(t) PROVE TailInv'
<1> DEFINE row == [tails[t] EXCEPT !.gone = TRUE]
<1>1. /\ tails[t] \in TailRow /\ shownTo[t] \in SUBSET Nat /\ published' = published
      /\ tails \in [Tails -> TailRow] /\ shownTo \in [Tails -> SUBSET Nat]
      /\ Follows(tails[t], shownTo[t], published)
  BY DEF TailInv, TailType, Seen, Leave
<1>2. /\ row \in TailRow /\ row.at = tails[t].at /\ row.queue = tails[t].queue
      /\ row.since = tails[t].since /\ row.taken = tails[t].taken
  BY <1>1 DEF TailRow
<1>3. tails' = [tails EXCEPT ![t] = row] /\ shownTo' = [shownTo EXCEPT ![t] = shownTo[t]]
  BY <1>1 DEF Leave
<1> HIDE DEF row
<1>4. Sent(row, shownTo[t]) = Sent(tails[t], shownTo[t])
  BY <1>2 DEF Sent
<1>5. Follows(row, shownTo[t], published)
  BY <1>1, <1>2, <1>4 DEF Follows
<1> QED
  BY <1>1, <1>2, <1>3, <1>5, OneTail

LEMMA LiveTailNextInv == TailInv /\ [LiveTailNext]_liveTailVars => TailInv'
<1> SUFFICES ASSUME TailInv, [LiveTailNext]_liveTailVars PROVE TailInv'
  OBVIOUS
<1>1. CASE published' = published /\ tails' = tails /\ shownTo' = shownTo
  BY <1>1 DEF TailInv, TailType, Seen
<1>2. CASE PublishBatch
  BY <1>2, PublishBatchInv
<1>3. CASE \E t \in Tails : \/ TakeBatch(t) \/ SendBatch(t) \/ Leave(t)
                          \/ \E filtered \in BOOLEAN : OpenTail(t, filtered)
  BY <1>3, TakeBatchInv, SendBatchInv, LeaveInv, OpenTailInv
<1>4. CASE StoreBatch \/ UNCHANGED liveTailVars
  BY <1>1, <1>4 DEF StoreBatch, liveTailVars, tailVars
<1>5. CASE \E s \in Streams : \/ Start(s) \/ Subscribe(s) \/ Release(s) \/ Leak(s)
                            \/ \E ip \in Ips : Connect(s, ip)
  BY <1>1, <1>5 DEF Start, Subscribe, Release, Leak, Connect, tailVars
<1>6. CASE \E ip \in Ips : Trigger(ip) \/ FiveSecondsPass(ip)
  BY <1>1, <1>6 DEF Trigger, FiveSecondsPass, tailVars
<1> QED
  BY <1>2, <1>3, <1>4, <1>5, <1>6 DEF LiveTailNext

LEMMA TailInvIsEnough == TailInv => NewestKept
<1> SUFFICES ASSUME TailInv, NEW t \in Tails, tails[t].at # "closed",
                    NEW b \in tails[t].since + 1 .. published, b + Capacity > published
             PROVE  b \in shownTo[t] \cup {tails[t].taken} \cup Range(tails[t].queue)
  BY DEF NewestKept, Subscribed
<1> DEFINE queue == tails[t].queue
           n == Len(queue)
           i == b - (published - n)
<1>1. /\ published \in Nat /\ tails[t] \in TailRow /\ tails[t].since \in Nat /\ queue \in Seq(Nat)
      /\ Follows(tails[t], shownTo[t], published)
  BY DEF TailInv, TailType, Seen, TailRow
<1>2. b \in Nat /\ tails[t].since < b /\ b <= published /\ n \in Nat
  BY <1>1
<1>3. CASE b + n <= published
  BY <1>1, <1>2, <1>3 DEF Follows, Sent
<1>4. CASE ~ (b + n <= published)
  <2>1. i \in 1 .. n /\ b + n = published + i
    BY <1>1, <1>2, <1>4
  <2>2. queue[i] + n = published + i
    BY <1>1, <2>1 DEF Follows, NewestLast
  <2> HIDE DEF i
  <2>3. queue[i] \in Nat /\ i \in DOMAIN queue
    BY <1>1, <2>1
  <2> DEFINE a == queue[i]
  <2>4. a \in Nat /\ a + n = published + i
    BY <2>2, <2>3
  <2> HIDE DEF a, n
  <2>5. a = b
    BY <1>2, <2>1, <2>4
  <2> USE DEF a
  <2> QED
    BY <2>3, <2>5 DEF Range
<1> QED
  BY <1>3, <1>4

\* A slow browser misses old batches and no new ones, for any capacity of the
\* queues and any number of browsers: of the batches published since it
\* subscribed, each of the newest Capacity is shown, being sent or queued.
THEOREM NewestBatchesKept == LiveTailSpec => []NewestKept
<1>1. LiveTailInit => TailInv
  BY ClosedIsClosed DEF LiveTailInit, TailInv, TailType, Seen, Follows
<1> QED
  BY <1>1, LiveTailNextInv, TailInvIsEnough, PTL DEF LiveTailSpec

-----------------------------------------------------------------------------
(* The scan of logs.  A line that no insight is about was crowded out,     *)
(* or is in the call that runs, or is so young that the next scan will     *)
(* still look back far enough to read it (Pending).  A call of up to Grace *)
(* delays the next scan no further than ScanWindow has room for; a longer  *)
(* one, and a line that comes too late, are among the missed.              *)

ScanType ==
    /\ scanTime \in Nat /\ logged \in [Lines -> Nat] /\ button \subseteq Lines
    /\ scan \in [pc : {"sleep", "calling"}, since : Nat, lines : SUBSET Lines]

OnTime ==
    /\ scan.since <= scanTime
    /\ scan.pc = "sleep" => scanTime <= scan.since + ScanEvery

Pending(l) ==
    \/ scan.pc = "sleep" /\ logged[l] + Grace >= scan.since
    \/ scan.pc = "calling" /\ logged[l] + ScanWindow >= scan.since
                           /\ (l \in scan.lines \/ logged[l] >= scan.since)

Tracked == \A l \in Written \ NoisyLines : l \in shown \cup missed \/ Crowded(l) \/ Pending(l)

ScanInv == ScanType /\ OnTime /\ Tracked

Newer(l) == {m \in Written \ {l} : logged[m] >= logged[l]}
Room == IF ModelLimit < ScanLimit THEN ModelLimit ELSE ScanLimit

LEMMA ScanNumbers ==
    /\ ScanEvery \in Nat /\ ScanWindow \in Nat /\ ScanLimit \in Nat /\ ModelLimit \in Nat
    /\ Grace \in Nat /\ ScanEvery + Grace = ScanWindow /\ NoisyLines \subseteq Lines
    /\ Room \in Nat /\ Room <= ModelLimit /\ Room <= ScanLimit
  BY ScanAssumption DEF Room, Grace

LEMMA CrowdedByNewer == \A l \in Lines : Crowded(l) <=> Cardinality(Newer(l)) >= Room
  BY DEF Crowded, Newer, Room

\* What the limit of a query leaves out is crowded out.
LEMMA LeftOutIsCrowded ==
    ASSUME IsFiniteSet(Lines), logged \in [Lines -> Nat], NEW lines \in SUBSET Written,
           NEW limit \in {ScanLimit, ModelLimit}, NEW s \in NewestLines(limit, lines), NEW l \in lines \ s
    PROVE  Crowded(l)
<1>1. Written \subseteq Lines
  BY DEF Written
<1>2. s \subseteq lines /\ Cardinality(s) = limit /\ \A m \in s : logged[l] <= logged[m]
  BY DEF NewestLines
<1>3. s \subseteq Newer(l) /\ Newer(l) \subseteq Lines
  BY <1>1, <1>2 DEF Newer
<1>4. IsFiniteSet(Newer(l)) /\ Cardinality(s) <= Cardinality(Newer(l)) /\ Cardinality(Newer(l)) \in Nat
  BY <1>3, FS_Subset, FS_CardinalityType
<1> QED
  BY <1>1, <1>2, <1>4, ScanNumbers, CrowdedByNewer

\* Lines come and keep their times, so what is crowded out stays so.
LEMMA CrowdedStays ==
    ASSUME IsFiniteSet(Lines), logged \in [Lines -> Nat], logged' \in [Lines -> Nat],
           \A m \in Written : logged'[m] = logged[m], NEW l \in Written, Crowded(l)
    PROVE  Crowded(l)'
<1>1. Written \subseteq Written' /\ Written' \subseteq Lines
  BY DEF Written
<1>2. Newer(l) \subseteq Newer(l)' /\ Newer(l)' \subseteq Lines
  BY <1>1 DEF Newer
<1>3. Cardinality(Newer(l)) <= Cardinality(Newer(l)')
  BY <1>2, FS_Subset
<1>4. Cardinality(Newer(l)) \in Nat /\ Cardinality(Newer(l)') \in Nat
  BY <1>2, FS_Subset, FS_CardinalityType
<1>5. Cardinality(Newer(l)) >= Room
  BY <1>1, CrowdedByNewer
<1>6. Cardinality(Newer(l)') >= Room
  BY <1>3, <1>4, <1>5, ScanNumbers
<1> QED
  BY <1>6 DEF Crowded, Newer, Room

LEMMA ScanReadsInv == ASSUME IsFiniteSet(Lines), ScanInv, ScanReads PROVE ScanInv'
<1>0. PICK s \in NewestLines(ScanLimit, BadLines(ScanWindow)) : \E sent \in NewestLines(ModelLimit, Unsuppressed(s)) :
        scan' = IF sent = {} THEN Asleep ELSE [pc |-> "calling", since |-> scanTime, lines |-> sent]
  BY DEF ScanReads
<1>1. PICK sent \in NewestLines(ModelLimit, Unsuppressed(s)) :
        scan' = IF sent = {} THEN Asleep ELSE [pc |-> "calling", since |-> scanTime, lines |-> sent]
  BY <1>0
<1>2. /\ scanTime' = scanTime /\ logged' = logged /\ shown' = shown /\ missed' = missed /\ button' = button
      /\ scan.pc = "sleep"
  BY DEF ScanReads
<1>3. Written \subseteq Lines /\ BadLines(ScanWindow) \subseteq Written
  BY DEF Written, BadLines
<1>4. s \subseteq BadLines(ScanWindow) /\ Unsuppressed(s) \subseteq s /\ sent \subseteq Unsuppressed(s)
  BY DEF NewestLines, Unsuppressed
<1>5. scanTime \in Nat /\ logged \in [Lines -> Nat] /\ scan.since \in Nat
  BY DEF ScanInv, ScanType
<1>6. /\ scan' \in [pc : {"sleep", "calling"}, since : Nat, lines : SUBSET Lines]
      /\ scan'.since = scanTime /\ scan'.lines = sent
      /\ scan'.pc = IF sent = {} THEN "sleep" ELSE "calling"
  BY <1>1, <1>3, <1>4, <1>5 DEF Asleep
<1>7. ScanType' /\ OnTime'
  BY <1>2, <1>5, <1>6, ScanNumbers DEF ScanInv, ScanType, OnTime
<1>8. ASSUME NEW l \in Written \ NoisyLines, l \notin shown \cup missed, ~ Crowded(l)
      PROVE  Pending(l)'
  <2>1. logged[l] + Grace >= scan.since /\ scanTime <= scan.since + ScanEvery /\ logged[l] \in Nat
    BY <1>2, <1>3, <1>5, <1>8 DEF ScanInv, OnTime, Tracked, Pending
  <2>2. logged[l] + ScanWindow >= scanTime
    BY <1>5, <2>1, ScanNumbers
  <2>3. l \in BadLines(ScanWindow)
    BY <2>2 DEF BadLines
  <2>4. l \in s
    BY <1>3, <1>5, <1>8, <2>3, LeftOutIsCrowded
  <2>5. l \in Unsuppressed(s) /\ Unsuppressed(s) \in SUBSET Written
    BY <1>3, <1>4, <1>8, <2>4 DEF Unsuppressed
  <2>6. l \in sent
    BY <1>3, <1>5, <1>8, <2>5, LeftOutIsCrowded
  <2> QED
    BY <1>2, <1>5, <1>6, <2>2, <2>6 DEF Pending
<1>9. Tracked'
  BY <1>2, <1>8 DEF Tracked, Written, Crowded
<1> QED
  BY <1>7, <1>9 DEF ScanInv

LEMMA ScanNextInv == IsFiniteSet(Lines) /\ ScanInv /\ [ScanNext]_scanVars => ScanInv'
<1> SUFFICES ASSUME IsFiniteSet(Lines), ScanInv, [ScanNext]_scanVars PROVE ScanInv'
  OBVIOUS
<1>0. /\ scanTime \in Nat /\ logged \in [Lines -> Nat] /\ scan.since \in Nat /\ Written \subseteq Lines
      /\ scan \in [pc : {"sleep", "calling"}, since : Nat, lines : SUBSET Lines] /\ button \subseteq Lines
  BY DEF ScanInv, ScanType, Written
<1>1. ASSUME scanTime' = scanTime, logged' = logged, button' \subseteq Lines, scan' = scan,
             shown \subseteq shown', missed' = missed
      PROVE  ScanInv'
  BY <1>1 DEF ScanInv, ScanType, OnTime, Tracked, Written, Crowded, Pending
<1>2. ASSUME scanTime' = scanTime, logged' = logged, button' \subseteq Lines, scan' = Asleep,
             shown' = shown, Written \ shown \subseteq missed'
      PROVE  ScanInv'
  <2>1. /\ scan' \in [pc : {"sleep", "calling"}, since : Nat, lines : SUBSET Lines]
        /\ scan'.since = scanTime /\ scan'.pc = "sleep"
    BY <1>0, <1>2 DEF Asleep
  <2>2. ScanType' /\ OnTime'
    BY <1>0, <1>2, <2>1, ScanNumbers DEF ScanType, OnTime
  <2> QED
    BY <1>2, <2>2 DEF ScanInv, Tracked, Written
<1>3. CASE ScanMinutePasses
  <2>1. /\ logged' = logged /\ shown' = shown /\ missed' = missed /\ button' = button /\ scan' = scan
        /\ scanTime' = scanTime + 1
        /\ scan.pc = "sleep" => scanTime < scan.since + ScanEvery
    BY <1>3 DEF ScanMinutePasses
  <2>2. ScanType' /\ OnTime'
    BY <1>0, <2>1, ScanNumbers DEF ScanInv, ScanType, OnTime
  <2> QED
    BY <2>1, <2>2 DEF ScanInv, Tracked, Written, Crowded, Pending
<1>4. ASSUME NEW l \in Lines, NEW at \in 1 .. MaxMinute, WriteLog(l, at) PROVE ScanInv'
  <2>0. at \in Nat
    OBVIOUS
  <2>1. /\ shown' = shown /\ button' = button /\ scan' = scan /\ scanTime' = scanTime
        /\ logged[l] = 0 /\ logged' = [logged EXCEPT ![l] = at] /\ missed \subseteq missed'
        /\ at + (IF scan.pc = "sleep" THEN Grace ELSE 0) < scan.since => l \in missed'
    BY <1>4 DEF WriteLog
  <2>2. /\ logged' \in [Lines -> Nat] /\ logged'[l] = at
        /\ \A m \in Lines \ {l} : logged'[m] = logged[m]
    BY <1>0, <2>0, <2>1
  <2>3. \A m \in Written : logged'[m] = logged[m]
    BY <2>1, <2>2 DEF Written
  <2>4. ScanType' /\ OnTime'
    BY <1>0, <2>1, <2>2 DEF ScanInv, ScanType, OnTime
  <2>5. \A m \in Written : Crowded(m) => Crowded(m)'
    BY <1>0, <2>2, <2>3, CrowdedStays
  <2>6. \A m \in Written : Pending(m) => Pending(m)'
    BY <2>1, <2>3 DEF Pending
  <2>7. l \in missed' \/ Pending(l)'
    BY <1>0, <2>0, <2>1, <2>2, ScanNumbers DEF Pending
  <2>8. Written' \subseteq Written \cup {l}
    BY <2>2 DEF Written
  <2>9. Tracked'
    <3> SUFFICES ASSUME NEW m \in Written' \ NoisyLines
                 PROVE  m \in shown' \cup missed' \/ Crowded(m)' \/ Pending(m)'
      BY DEF Tracked
    <3> QED
      BY <2>1, <2>5, <2>6, <2>7, <2>8 DEF ScanInv, Tracked
  <2> QED
    BY <2>4, <2>9 DEF ScanInv
<1>5. CASE ScanReads
  BY <1>5, ScanReadsInv
<1>6. CASE ScanStores
  <2>0. scan.pc = "calling" /\ shown' = shown \cup scan.lines
    BY <1>6 DEF ScanStores
  <2>1. /\ scanTime' = scanTime /\ logged' = logged /\ button' = button /\ missed \subseteq missed'
        /\ scan' = Asleep
    BY <1>6 DEF ScanStores
  <2>gap. ASSUME Overlong PROVE Written \ shown' \subseteq missed'
    BY <1>6, <2>gap DEF ScanStores
  <2>2. /\ scan' \in [pc : {"sleep", "calling"}, since : Nat, lines : SUBSET Lines]
        /\ scan'.since = scanTime /\ scan'.pc = "sleep"
    BY <1>0, <2>1 DEF Asleep
  <2>3. ScanType' /\ OnTime'
    BY <1>0, <2>1, <2>2, ScanNumbers DEF ScanType, OnTime
  <2>4. ASSUME NEW l \in Written, Pending(l) PROVE l \in shown' \cup missed' \/ Pending(l)'
    <3>1. l \in scan.lines \/ (logged[l] >= scan.since /\ logged[l] \in Nat)
      BY <1>0, <2>0, <2>4 DEF Pending
    <3>2. CASE Overlong
      BY <2>gap, <3>2
    <3>3. CASE ~ Overlong
      <4>1. scanTime <= scan.since + Grace
        BY <1>0, <2>0, <3>3, ScanNumbers DEF Overlong
      <4>2. l \in scan.lines \/ logged[l] + Grace >= scanTime
        BY <1>0, <3>1, <4>1, ScanNumbers
      <4> QED
        BY <2>0, <2>1, <2>2, <4>2 DEF Pending
    <3> QED
      BY <3>2, <3>3
  <2>5. Tracked'
    <3>1. Written' = Written /\ \A l \in Written : Crowded(l)' <=> Crowded(l)
      BY <2>1 DEF Written, Crowded
    <3> QED
      BY <2>0, <2>1, <2>4, <3>1 DEF ScanInv, Tracked
  <2> QED
    BY <2>3, <2>5 DEF ScanInv
<1>7. CASE ScanMisses
  BY <1>0, <1>2, <1>7 DEF ScanMisses
<1>8. CASE RestartScanner
  BY <1>2, <1>8 DEF RestartScanner
<1>9. CASE PressButton
  <2>1. button' \subseteq Lines
    BY <1>0, <1>9 DEF PressButton, NewestLines, BadLines
  <2> QED
    BY <1>1, <1>9, <2>1 DEF PressButton
<1>10. CASE \E success \in BOOLEAN : ButtonEnds(success)
  BY <1>1, <1>10 DEF ButtonEnds
<1>11. CASE UNCHANGED scanVars
  BY <1>0, <1>1, <1>11 DEF scanVars
<1> QED
  BY <1>3, <1>4, <1>5, <1>6, <1>7, <1>8, <1>9, <1>10, <1>11 DEF ScanNext

\* The scans leave no gap, for any number of lines, any limits and any period
\* of the button, as long as a scan looks back at least as far as it sleeps:
\* what is too old to be read again is in an insight, missed or crowded out.
THEOREM ScansLeaveNoGap == ASSUME IsFiniteSet(Lines) PROVE ScanSpec => []SeenOrMissed
<1>1. ScanInit => ScanInv
  BY ScanNumbers DEF ScanInit, ScanInv, ScanType, OnTime, Tracked, Written
<1>2. ScanInv => SeenOrMissed
  <2> SUFFICES ASSUME ScanInv, NEW l \in Written \ NoisyLines,
                      logged[l] + ScanWindow + Grace < scanTime, ~ Overlong, Pending(l)
               PROVE  FALSE
    BY DEF ScanInv, SeenOrMissed, Tracked
  <2>1. /\ scanTime \in Nat /\ logged[l] \in Nat /\ scan.since \in Nat
        /\ scan.pc = "sleep" => scanTime <= scan.since + ScanEvery
        /\ scan.pc = "calling" => scanTime <= scan.since + Grace
    BY ScanNumbers DEF ScanInv, ScanType, OnTime, Written, Overlong
  <2> QED
    BY <2>1, ScanNumbers DEF Pending
<1>3. ScanInv /\ [ScanNext]_scanVars => ScanInv'
  BY ScanNextInv
<1> QED
  BY <1>1, <1>2, <1>3, PTL DEF ScanSpec

-----------------------------------------------------------------------------
(* The migration.  While it reads undisturbed the rows of the count have   *)
(* the lowest numbers, so that new ones shift no page (Below), and exactly *)
(* the rows on the pages already read were handed on (Paged).              *)

Ids == 1 .. MaxRows
Before(id) == {other \in entries : other < id}
Place(id) == Cardinality(Before(id))
Reached == {id \in counted : Place(id) < migration.offset}

StoreType ==
    /\ DOMAIN stamp = 1 .. Cardinality(DOMAIN stamp) /\ Cardinality(DOMAIN stamp) \in 0 .. MaxRows
    /\ entries \cup inserting \subseteq DOMAIN stamp /\ entries \cap inserting = {}
    /\ counted \subseteq Ids
    /\ migration \in [pc : {"none", "read", "done"}, target : {"none", "clickhouse", "postgresql"},
                      total : Nat, offset : Nat, broken : BOOLEAN]
    /\ handed \in [Ids -> Nat] /\ migrated \in Nat /\ errors \in Nat /\ disturbed \in BOOLEAN

Unread ==
    migration.pc = "none" =>
      migration.offset = 0 /\ ~ migration.broken /\ migrated = 0 /\ errors = 0
      /\ handed = [id \in Ids |-> 0]

Below ==
    /\ counted \subseteq entries /\ \A id \in entries \ counted, c \in counted : c < id
    /\ migration.total = Cardinality(counted) /\ ~ migration.broken

Paged ==
    /\ \A id \in Ids : handed[id] <= 1
    /\ \A id \in Ids : id \notin entries \/ migration.offset <= Place(id) => handed[id] = 0
    /\ \A id \in Reached : handed[id] = 1
    /\ Cardinality(Reached) <= migrated + errors

Paging == Running /\ migration.target = "clickhouse" /\ ~ disturbed => Below /\ Paged

StoreInv == StoreType /\ Unread /\ Paging /\ HandedOnce

LEMMA IdsAreFinite == IsFiniteSet(Ids) /\ \A S \in SUBSET Ids : IsFiniteSet(S) /\ Cardinality(S) \in Nat
<1>1. IsFiniteSet(Ids)
  BY LogStoreAssumption, FS_Interval DEF Ids
<1>2. ASSUME NEW S \in SUBSET Ids PROVE IsFiniteSet(S) /\ Cardinality(S) \in Nat
  BY <1>1, FS_Subset, FS_CardinalityType
<1> QED
  BY <1>1, <1>2

LEMMA Smallest == ASSUME NEW S \in SUBSET Nat, S # {} PROVE \E x \in S : \A y \in S : x <= y
<1> DEFINE upTo == {0 .. x : x \in S}
           R == StrictSubsetOrdering(Nat)
<1>1. \A x \in S : IsFiniteSet(0 .. x) /\ 0 .. x \in SUBSET Nat
  BY FS_Interval
<1>2. upTo \subseteq FiniteSubsetsOf(Nat) /\ upTo # {}
  BY <1>1 DEF FiniteSubsetsOf
<1>3. IsWellFoundedOn(R, FiniteSubsetsOf(Nat))
  BY FS_StrictSubsetOrderingWellFounded
<1> HIDE DEF upTo, R
<1>4. PICK least \in upTo : \A other \in upTo : ~ (<<other, least>> \in R)
  BY <1>2, <1>3, WFMin
<1>5. PICK x \in S : least = 0 .. x
  BY <1>4 DEF upTo
<1>6. ASSUME NEW y \in S, y < x PROVE FALSE
  <2>1. 0 .. y \in upTo
    BY DEF upTo
  <2>2. 0 .. y \subseteq 0 .. x /\ 0 .. y # 0 .. x
    <3>1. x \in 0 .. x /\ x \notin 0 .. y
      BY <1>6
    <3> QED
      BY <1>6, <3>1
  <2>3. <<0 .. y, 0 .. x>> \in R
    BY <1>1, <2>2 DEF R, StrictSubsetOrdering
  <2> QED
    BY <1>4, <1>5, <2>1, <2>3
<1>7. \A y \in S : x <= y
  BY <1>6
<1> QED
  BY <1>7

LEMMA Largest == ASSUME NEW S \in SUBSET Ids, S # {} PROVE \E x \in S : \A y \in S : y <= x
<1> DEFINE T == {n \in Nat : n <= MaxRows /\ MaxRows - n \in S}
<1>1. MaxRows \in Nat
  BY LogStoreAssumption
<1>2. ASSUME NEW y \in S PROVE MaxRows - y \in T /\ y \in Nat /\ y <= MaxRows
  BY <1>1 DEF Ids
<1>3. PICK n \in T : \A m \in T : n <= m
  BY <1>2, Smallest
<1>4. MaxRows - n \in S /\ n \in Nat
  OBVIOUS
<1>5. \A y \in S : y <= MaxRows - n
  BY <1>1, <1>2, <1>3
<1> QED
  BY <1>4, <1>5

LEMMA StoreTypes ==
    ASSUME StoreType
    PROVE  /\ entries \subseteq Ids /\ inserting \subseteq Ids
           /\ \A id \in Ids : Place(id) \in Nat /\ Before(id) \subseteq Ids /\ IsFiniteSet(Before(id))
           /\ IsFiniteSet(entries) /\ Cardinality(entries) \in Nat
           /\ MaxRows \in Nat /\ BatchSize \in Nat \ {0} /\ Ids \subseteq Nat
<1>1. entries \subseteq Ids /\ inserting \subseteq Ids /\ MaxRows \in Nat /\ BatchSize \in Nat \ {0} /\ Ids \subseteq Nat
  BY LogStoreAssumption DEF StoreType, Ids
<1>2. \A id \in Ids : Before(id) \in SUBSET Ids
  BY <1>1 DEF Before
<1> QED
  BY <1>1, <1>2, IdsAreFinite DEF Place

\* A page is empty only behind the last row.
LEMMA EmptyPageIsLast ==
    ASSUME StoreType, Batch = {}, NEW id \in entries
    PROVE  Place(id) < migration.offset
<1> DEFINE offset == migration.offset
           late == {e \in entries : ~ (Place(e) < offset)}
<1>0. offset \in Nat /\ entries \subseteq Ids /\ Ids \subseteq Nat /\ BatchSize \in Nat \ {0}
  BY StoreTypes DEF StoreType
<1> SUFFICES ASSUME late # {} PROVE FALSE
  OBVIOUS
<1>1. PICK first \in late : \A y \in late : first <= y
  BY <1>0, Smallest
<1>2. first \in entries /\ first \in Ids /\ Place(first) \in Nat /\ IsFiniteSet(Before(first)) /\ Before(first) \subseteq Ids
  BY <1>0, <1>1, StoreTypes
<1>3. \A e \in Before(first) : e \in entries /\ e \in Ids /\ e < first /\ Place(e) < offset
  <2> SUFFICES ASSUME NEW e \in Before(first) PROVE e \in entries /\ e \in Ids /\ e < first /\ Place(e) < offset
    OBVIOUS
  <2>1. e \in entries /\ e < first /\ e \in Ids
    BY <1>0 DEF Before
  <2>2. e \notin late
    BY <1>0, <1>1, <1>2, <2>1
  <2> QED
    BY <2>1, <2>2
<1>4. Place(first) <= offset
  <2>1. CASE Before(first) = {}
    BY <1>0, <2>1, FS_EmptySet DEF Place
  <2>2. CASE Before(first) # {}
    <3>1. PICK last \in Before(first) : \A y \in Before(first) : y <= last
      BY <1>2, <2>2, Largest
    <3>2. Before(last) = Before(first) \ {last}
      <4>1. last \in entries /\ last < first /\ last \in Nat /\ first \in Nat
        BY <1>0, <1>2, <1>3, <3>1
      <4>2. ASSUME NEW e \in Before(last) PROVE e \in Before(first) \ {last}
        <5>1. e \in entries /\ e < last /\ e \in Nat
          BY <1>0 DEF Before
        <5>2. e < first /\ e # last
          BY <4>1, <5>1
        <5> QED
          BY <5>1, <5>2 DEF Before
      <4>3. ASSUME NEW e \in Before(first) \ {last} PROVE e \in Before(last)
        <5>1. e \in entries /\ e <= last /\ e # last /\ e \in Nat
          BY <1>0, <1>3, <3>1
        <5>2. e < last
          BY <4>1, <5>1
        <5> QED
          BY <5>1, <5>2 DEF Before
      <4> QED
        BY <4>2, <4>3
    <3>3. Cardinality(Before(first) \ {last}) = Cardinality(Before(first)) - 1
      BY <1>2, FS_RemoveElement
    <3>4. Place(last) = Place(first) - 1 /\ Place(last) < offset
      BY <1>3, <3>2, <3>3 DEF Place
    <3> QED
      BY <1>0, <1>2, <3>4
  <2> QED
    BY <2>1, <2>2
<1>5. offset <= Place(first)
  BY <1>0, <1>1, <1>2
<1>6. first \in Batch
  <2>1. Place(first) >= migration.offset /\ Place(first) < migration.offset + BatchSize
    BY <1>0, <1>2, <1>4, <1>5
  <2> QED
    BY <1>2, <2>1 DEF Batch, Place, Before
<1> QED
  BY <1>6

LEMMA BatchIsPage ==
    \A id : id \in Batch <=> /\ id \in entries /\ Place(id) >= migration.offset
                            /\ Place(id) < migration.offset + BatchSize
  BY DEF Batch, Place, Before

LEMMA UnionIsNoMore ==
    ASSUME NEW S \in SUBSET Ids, NEW T \in SUBSET Ids
    PROVE  Cardinality(S \cup T) <= Cardinality(S) + Cardinality(T)
<1>1. IsFiniteSet(S) /\ IsFiniteSet(T) /\ S \cap T \in SUBSET Ids
  BY IdsAreFinite
<1>2. Cardinality(S \cup T) = Cardinality(S) + Cardinality(T) - Cardinality(S \cap T)
  BY <1>1, FS_Union
<1>3. Cardinality(S) \in Nat /\ Cardinality(T) \in Nat /\ Cardinality(S \cap T) \in Nat
  BY <1>1, IdsAreFinite
<1> QED
  BY <1>2, <1>3

LEMMA InsertRowInv == ASSUME StoreInv, NEW time, InsertRow(time) PROVE StoreInv'
<1> DEFINE n == Cardinality(DOMAIN stamp)
<1>1. n \in 0 .. MaxRows /\ DOMAIN stamp = 1 .. n /\ MaxRows \in Nat
  BY LogStoreAssumption DEF StoreInv, StoreType
<1>2. Cardinality(Numbered) = n
  BY <1>1, FS_Interval DEF Numbered
<1>3. /\ n < MaxRows /\ inserting' = inserting \cup {n + 1} /\ DOMAIN stamp' = (1 .. n) \cup {n + 1}
      /\ entries' = entries /\ UNCHANGED migrationVars /\ disturbed' = disturbed
  BY <1>2 DEF InsertRow, Numbered
<1>4. DOMAIN stamp' = 1 .. (n + 1) /\ Cardinality(1 .. (n + 1)) = n + 1
  <2> HIDE DEF n
  <2>1. n \in Nat /\ n + 1 \in Int /\ 1 \in Int
    BY <1>1
  <2>2. Cardinality(1 .. (n + 1)) = n + 1
    BY <2>1, FS_Interval
  <2>3. (1 .. n) \cup {n + 1} = 1 .. (n + 1)
    BY <2>1
  <2> QED
    BY <1>3, <2>2, <2>3
<1> HIDE DEF n
<1>5. StoreType'
  <2>1. n + 1 \notin entries /\ n + 1 \in 0 .. MaxRows
    BY <1>1, <1>3 DEF StoreInv, StoreType
  <2>2. (entries \cup inserting)' \subseteq DOMAIN stamp' /\ (entries \cap inserting)' = {}
    BY <1>1, <1>3, <1>4, <2>1 DEF StoreInv, StoreType
  <2>3. DOMAIN stamp' = 1 .. Cardinality(DOMAIN stamp') /\ Cardinality(DOMAIN stamp') \in 0 .. MaxRows
    BY <1>4, <2>1
  <2> QED
    BY <1>3, <2>2, <2>3 DEF StoreInv, StoreType, migrationVars
<1>6. Unread' /\ Paging' /\ HandedOnce'
  BY <1>3 DEF StoreInv, Unread, Paging, Running, Below, Paged, Reached, Place, Before, HandedOnce, migrationVars
<1> QED
  BY <1>5, <1>6 DEF StoreInv

LEMMA EndInsertInv ==
    ASSUME StoreInv, NEW id \in inserting, NEW success \in BOOLEAN, EndInsert(id, success) PROVE StoreInv'
<1>1. /\ id \in inserting /\ inserting' = inserting \ {id} /\ stamp' = stamp /\ UNCHANGED migrationVars
      /\ entries' = IF success THEN entries \cup {id} ELSE entries
      /\ disturbed' = (disturbed \/ (Running /\ success /\ \E other \in entries : other > id))
  BY DEF EndInsert
<1>2. StoreType
  BY DEF StoreInv
<1>3. entries \subseteq Ids /\ id \in Ids /\ id \notin entries /\ Ids \subseteq Nat /\ counted \subseteq Ids
  BY <1>1, <1>2, StoreTypes DEF StoreType
<1>4. StoreType'
  <2>1. (entries \cup inserting)' \subseteq DOMAIN stamp' /\ (entries \cap inserting)' = {}
    BY <1>1, <1>2 DEF StoreType
  <2>2. disturbed' \in BOOLEAN
    BY <1>1, <1>2 DEF StoreType
  <2> QED
    BY <1>1, <1>2, <2>1, <2>2 DEF StoreType, migrationVars
<1>5. Unread' /\ HandedOnce'
  BY <1>1, <1>2 DEF StoreInv, StoreType, Unread, HandedOnce, Running, migrationVars
<1>6. Paging'
  <2> SUFFICES ASSUME Running', migration'.target = "clickhouse", ~ disturbed' PROVE Below' /\ Paged'
    BY DEF Paging
  <2>1. Below /\ Paged
    BY <1>1 DEF StoreInv, Paging, Running, migrationVars
  <2>2. CASE ~ success
    BY <1>1, <2>1, <2>2 DEF Below, Paged, Reached, Place, Before, migrationVars
  <2>3. CASE success
    <3>1. \A other \in entries : other < id
      <4>1. ~ (\E other \in entries : other > id)
        BY <1>1, <2>3 DEF Running, migrationVars
      <4> QED
        BY <1>3, <4>1
    <3>2. \A other \in entries : Place(other)' = Place(other)
      <4> SUFFICES ASSUME NEW other \in entries PROVE Before(other)' = Before(other)
        BY DEF Place
      <4>1. ~ (id < other)
        BY <1>3, <3>1
      <4> QED
        BY <1>1, <2>3, <4>1 DEF Before
    <3>3. Below'
      BY <1>1, <2>1, <2>3, <3>1 DEF Below, migrationVars
    <3>4. Reached' = Reached
      BY <1>1, <2>1, <3>2 DEF Reached, Below, migrationVars
    <3>5. Paged'
      BY <1>1, <1>3, <2>1, <2>3, <3>2, <3>4 DEF Paged, migrationVars
    <3> QED
      BY <3>3, <3>5
  <2> QED
    BY <2>2, <2>3
<1> QED
  BY <1>4, <1>5, <1>6 DEF StoreInv

LEMMA CleanUpInv == ASSUME StoreInv, NEW cutoff, CleanUp(cutoff) PROVE StoreInv'
<1>1. /\ entries' \subseteq entries /\ inserting' = inserting /\ stamp' = stamp /\ UNCHANGED migrationVars
      /\ disturbed' = (disturbed \/ Running)
  BY DEF CleanUp
<1>2. StoreType'
  BY <1>1 DEF StoreInv, StoreType, migrationVars
<1>3. Unread' /\ HandedOnce' /\ Paging'
  BY <1>1 DEF StoreInv, StoreType, Unread, HandedOnce, Running, Paging, migrationVars
<1> QED
  BY <1>2, <1>3 DEF StoreInv

LEMMA BeginMigrationInv ==
    ASSUME StoreInv, NEW target \in {"clickhouse", "postgresql"}, BeginMigration(target) PROVE StoreInv'
<1>1. /\ migration' = [pc |-> "read", target |-> target, total |-> Cardinality(entries), offset |-> 0,
                       broken |-> FALSE]
      /\ counted' = entries /\ disturbed' = FALSE /\ UNCHANGED storeVars
      /\ handed' = handed /\ migrated' = migrated /\ errors' = errors /\ migration.pc = "none"
  BY DEF BeginMigration
<1>2. entries \subseteq Ids /\ Cardinality(entries) \in Nat /\ StoreType
      /\ \A id \in Ids : Place(id) \in Nat
  BY StoreTypes DEF StoreInv
<1>3. StoreType'
  BY <1>1, <1>2 DEF StoreType, storeVars
<1>4. handed = [id \in Ids |-> 0] /\ migrated = 0 /\ errors = 0
  BY <1>1 DEF StoreInv, Unread
<1>5. Below'
  BY <1>1 DEF Below, storeVars
<1>6. Reached' = {}
  <2>1. \A id \in entries : Place(id)' = Place(id) /\ ~ (Place(id) < 0)
    BY <1>1, <1>2 DEF Place, Before, storeVars
  <2> QED
    BY <1>1, <2>1 DEF Reached
<1>7. Paged'
  BY <1>1, <1>4, <1>6, FS_EmptySet DEF Paged
<1> QED
  BY <1>1, <1>3, <1>5, <1>7 DEF StoreInv, Unread, Paging, HandedOnce

LEMMA BatchFailsInv == ASSUME StoreInv, BatchFails PROVE StoreInv'
<1>1. /\ migration' = [migration EXCEPT !.offset = @ + BatchSize, !.broken = TRUE]
      /\ errors' = errors + BatchSize /\ disturbed' = TRUE /\ migration.pc = "read"
      /\ UNCHANGED storeVars /\ handed' = handed /\ migrated' = migrated /\ counted' = counted
  BY DEF BatchFails, Goes, Running
<1>2. StoreType /\ BatchSize \in Nat /\ migration.offset \in Nat
  BY LogStoreAssumption DEF StoreInv, StoreType
<1>3. StoreType'
  <2>1. migration.offset + BatchSize \in Nat /\ errors + BatchSize \in Nat
    BY <1>2 DEF StoreType
  <2>2. migration' \in [pc : {"none", "read", "done"}, target : {"none", "clickhouse", "postgresql"},
                        total : Nat, offset : Nat, broken : BOOLEAN]
    BY <1>1, <1>2, <2>1 DEF StoreType
  <2> QED
    BY <1>1, <1>2, <2>1, <2>2 DEF StoreType, storeVars
<1>4. migration'.pc = "read"
  BY <1>1, <1>2 DEF StoreType
<1> QED
  BY <1>1, <1>3, <1>4 DEF StoreInv, Unread, Paging, HandedOnce

LEMMA MigrateBatchInv == ASSUME StoreInv, MigrateBatch PROVE StoreInv'
<1> DEFINE sent == IF migration.target = "clickhouse" THEN Batch ELSE {}
           n == Cardinality(sent)
<1>1. /\ migration.pc = "read" /\ UNCHANGED storeVars /\ counted' = counted /\ disturbed' = disturbed
      /\ handed' = [id \in DOMAIN handed |-> IF id \in sent THEN handed[id] + 1 ELSE handed[id]]
      /\ migrated' = IF Stores(Primary) THEN migrated + n ELSE migrated
      /\ errors' = IF Stores(Primary) THEN errors ELSE errors + n
      /\ migration' = [migration EXCEPT !.offset = @ + BatchSize]
  BY DEF MigrateBatch, Goes, Running
<1>2. /\ StoreType /\ entries \subseteq Ids /\ BatchSize \in Nat /\ migration.offset \in Nat
      /\ \A id \in Ids : Place(id) \in Nat
  BY StoreTypes DEF StoreInv, StoreType
<1>3. sent \subseteq entries /\ sent \in SUBSET Ids
  BY <1>2, BatchIsPage
<1>4. n \in Nat
  BY <1>3, IdsAreFinite
<1> HIDE DEF sent, n
<1>5. /\ migration'.pc = "read" /\ migration'.target = migration.target /\ migration'.broken = migration.broken
      /\ migration'.total = migration.total /\ migration'.offset = migration.offset + BatchSize
  BY <1>1, <1>2 DEF StoreType
<1>6. migrated' \in Nat /\ errors' \in Nat /\ migrated' + errors' = migrated + errors + n
  BY <1>1, <1>2, <1>4 DEF StoreType
<1>7. StoreType'
  <2>1. migration' \in [pc : {"none", "read", "done"}, target : {"none", "clickhouse", "postgresql"},
                        total : Nat, offset : Nat, broken : BOOLEAN]
    <3>1. migration.offset + BatchSize \in Nat
      BY <1>2
    <3> QED
      BY <1>1, <1>2, <3>1 DEF StoreType
  <2>2. handed' \in [Ids -> Nat]
    BY <1>1, <1>2 DEF StoreType
  <2> QED
    BY <1>1, <1>2, <1>6, <2>1, <2>2 DEF StoreType, storeVars
<1>8. Unread' /\ HandedOnce'
  BY <1>5 DEF Unread, HandedOnce
<1>9. Paging'
  <2> SUFFICES ASSUME migration.target = "clickhouse", ~ disturbed PROVE Below' /\ Paged'
    BY <1>1, <1>5 DEF Paging
  <2>1. Below /\ Paged /\ sent = Batch
    BY <1>1 DEF StoreInv, Paging, Running, sent
  <2>2. Below'
    BY <1>1, <1>5, <2>1 DEF Below, storeVars
  <2>3. \A id : Place(id)' = Place(id)
    BY <1>1 DEF Place, Before, storeVars
  <2>4. handed \in [Ids -> Nat] /\ counted \subseteq entries /\ counted \subseteq Ids
    BY <1>2, <2>1 DEF StoreType, Below
  <2>5. \A id \in Ids : handed'[id] = IF id \in Batch THEN handed[id] + 1 ELSE handed[id]
    BY <1>1, <2>1, <2>4
  <2>6. \A id \in Batch : id \in entries /\ Place(id) >= migration.offset
                        /\ Place(id) < migration.offset + BatchSize /\ handed[id] = 0
    BY <1>2, <2>1, BatchIsPage DEF Paged
  <2>7. \A id \in Ids : handed'[id] <= 1
    BY <2>1, <2>5, <2>6 DEF Paged
  <2>8. ASSUME NEW id \in Ids, id \notin entries \/ migration.offset + BatchSize <= Place(id)
        PROVE  handed'[id] = 0
    <3>1. Place(id) \in Nat
      BY <1>2
    <3>2. id \notin Batch
      BY <1>2, <2>6, <2>8, <3>1
    <3>3. id \notin entries \/ migration.offset <= Place(id)
      BY <1>2, <2>8, <3>1
    <3> QED
      BY <2>1, <2>5, <3>2, <3>3 DEF Paged
  <2>9. Reached' = Reached \cup (Batch \cap counted)
    <3>1. Reached' = {id \in counted : Place(id) < migration.offset + BatchSize}
      BY <1>1, <1>5, <2>3 DEF Reached
    <3>2. \A id : id \in Reached <=> id \in counted /\ Place(id) < migration.offset
      BY DEF Reached
    <3>3. \A id : id \in Reached' <=> id \in counted /\ Place(id) < migration.offset + BatchSize
      BY <3>1
    <3>4. \A id : id \in Reached' <=> id \in Reached \/ (id \in Batch /\ id \in counted)
      <4> TAKE id
      <4>1. CASE id \in counted
        <5>1. Place(id) \in Nat /\ id \in entries
          BY <1>2, <2>4, <4>1
        <5>2. id \in Batch <=> Place(id) >= migration.offset /\ Place(id) < migration.offset + BatchSize
          BY <5>1, BatchIsPage
        <5>3. Place(id) < migration.offset + BatchSize <=> (Place(id) < migration.offset \/ id \in Batch)
          BY <1>2, <5>1, <5>2
        <5> QED
          BY <3>2, <3>3, <4>1, <5>3
      <4>2. CASE id \notin counted
        BY <3>2, <3>3, <4>2
      <4> QED
        BY <4>1, <4>2
    <3> QED
      BY <3>4
  <2>10. \A id \in Reached' : handed'[id] = 1
    <3>1. \A id \in Batch \cap counted : handed'[id] = 1
      BY <2>4, <2>5, <2>6
    <3>2. \A id \in Reached : handed'[id] = 1
      <4>1. \A id \in Reached : id \in Ids /\ id \in counted /\ Place(id) \in Nat /\ ~ (Place(id) >= migration.offset)
        BY <1>2, <2>4 DEF Reached
      <4>2. \A id \in Reached : id \notin Batch
        BY <2>6, <4>1
      <4> QED
        BY <2>1, <2>5, <4>1, <4>2 DEF Paged
    <3> QED
      BY <2>9, <3>1, <3>2
  <2>11. Cardinality(Reached') <= migrated' + errors'
    <3>1. Reached \in SUBSET Ids /\ Batch \in SUBSET Ids /\ Reached \cup Batch \in SUBSET Ids
      BY <1>3, <2>1, <2>4 DEF Reached
    <3>2. Cardinality(Reached \cup Batch) <= Cardinality(Reached) + n
      BY <2>1, <3>1, UnionIsNoMore DEF n
    <3>3. Cardinality(Reached') <= Cardinality(Reached \cup Batch)
      <4>1. Reached' \in SUBSET (Reached \cup Batch) /\ IsFiniteSet(Reached \cup Batch)
        BY <2>9, <3>1, IdsAreFinite
      <4> QED
        BY <4>1, FS_Subset
    <3>4. Cardinality(Reached) <= migrated + errors /\ migrated \in Nat /\ errors \in Nat
      BY <1>2, <2>1 DEF Paged, StoreType
    <3>5. Reached' \in SUBSET Ids
      BY <2>9, <3>1
    <3>6. Cardinality(Reached) \in Nat /\ Cardinality(Reached') \in Nat /\ Cardinality(Reached \cup Batch) \in Nat
      BY <3>1, <3>5, IdsAreFinite
    <3> DEFINE before == Cardinality(Reached)
               after == Cardinality(Reached')
               both == Cardinality(Reached \cup Batch)
    <3>7. /\ before \in Nat /\ after \in Nat /\ both \in Nat /\ both <= before + n /\ after <= both
          /\ before <= migrated + errors
      BY <3>2, <3>3, <3>4, <3>6
    <3> HIDE DEF before, after, both
    <3>8. after <= migrated + errors + n
      BY <1>4, <3>4, <3>7
    <3> QED
      BY <1>6, <3>8 DEF after
  <2>12. Paged'
    <3>1. entries' = entries
      BY <1>1 DEF storeVars
    <3> QED
      BY <1>5, <2>3, <2>7, <2>8, <2>10, <2>11, <3>1 DEF Paged
  <2> QED
    BY <2>2, <2>12
<1> QED
  BY <1>7, <1>8, <1>9 DEF StoreInv

LEMMA EndMigrationInv == ASSUME StoreInv, EndMigration PROVE StoreInv'
<1>1. /\ migration' = [migration EXCEPT !.pc = "done"] /\ UNCHANGED storeVars /\ handed' = handed
      /\ migrated' = migrated /\ errors' = errors /\ counted' = counted /\ disturbed' = disturbed
      /\ Running /\ (~ Goes \/ (Batch = {} /\ ~ migration.broken))
  BY DEF EndMigration
<1>2. StoreType /\ entries \subseteq Ids /\ \A id \in Ids : Place(id) \in Nat
  BY StoreTypes DEF StoreInv
<1>3. /\ StoreType' /\ migration'.pc = "done" /\ migration'.target = migration.target
      /\ migration'.total = migration.total
  BY <1>1, <1>2 DEF StoreType, storeVars
<1>4. HandedOnce'
  <2> SUFFICES ASSUME migration.target = "clickhouse", ~ disturbed
               PROVE  /\ \A id \in counted : handed[id] = 1
                      /\ \A id \in DOMAIN handed : handed[id] <= 1
                      /\ migrated + errors >= migration.total
    BY <1>1, <1>3 DEF HandedOnce
  <2>1. Below /\ Paged /\ counted \subseteq Ids /\ counted \subseteq entries
    BY <1>1, <1>2 DEF StoreInv, StoreType, Paging, Below
  <2>2. ASSUME NEW c \in counted PROVE Place(c) < migration.offset
    <3>1. c \in entries /\ c \in Ids /\ Place(c) \in Nat /\ migration.offset \in Nat /\ migration.total \in Nat
      BY <1>2, <2>1 DEF StoreType
    <3>2. CASE Goes
      BY <1>1, <1>2, <3>1, <3>2, EmptyPageIsLast
    <3>3. CASE ~ Goes
      <4>1. migration.total <= migration.offset
        BY <1>1, <3>1, <3>3 DEF Goes
      <4>2. Before(c) \in SUBSET (counted \ {c})
        <5> SUFFICES ASSUME NEW e \in Before(c) PROVE e \in counted \ {c}
          OBVIOUS
        <5>1. e \in entries /\ e < c /\ e \in Nat /\ c \in Nat
          BY <1>2, <3>1, StoreTypes DEF Before
        <5>2. ~ (c < e) /\ e # c
          BY <5>1
        <5> QED
          BY <2>1, <5>1, <5>2 DEF Below
      <4>3. IsFiniteSet(counted) /\ Cardinality(counted) = migration.total
        BY <2>1, IdsAreFinite DEF Below
      <4>4. IsFiniteSet(counted \ {c}) /\ Cardinality(counted \ {c}) = migration.total - 1
        BY <4>3, FS_RemoveElement
      <4>5. Place(c) <= migration.total - 1
        BY <4>2, <4>4, FS_Subset DEF Place
      <4> QED
        BY <3>1, <4>1, <4>5
    <3> QED
      BY <3>2, <3>3
  <2>3. Reached = counted
    BY <2>2 DEF Reached
  <2>4. handed \in [Ids -> Nat] /\ migrated \in Nat /\ errors \in Nat /\ migration.total \in Nat
    BY <1>2 DEF StoreType
  <2> QED
    BY <2>1, <2>3, <2>4 DEF Below, Paged
<1> QED
  BY <1>3, <1>4 DEF StoreInv, Unread, Paging, Running

LEMMA StoreNextInv == StoreInv /\ [LogStoreNext]_logStoreVars => StoreInv'
<1> SUFFICES ASSUME StoreInv, [LogStoreNext]_logStoreVars PROVE StoreInv'
  OBVIOUS
<1>1. CASE UNCHANGED <<storeVars, migrationVars, disturbed>>
  BY <1>1 DEF StoreInv, StoreType, Unread, Paging, Running, Below, Paged, Reached, Place, Before,
     HandedOnce, storeVars, migrationVars
<1>2. ASSUME NEW time \in Times, InsertRow(time) \/ CleanUp(time) PROVE StoreInv'
  BY <1>2, InsertRowInv, CleanUpInv
<1>3. ASSUME NEW time \in Times, Search(time) \/ Count(time) PROVE StoreInv'
  BY <1>1, <1>3 DEF Search, Count
<1>4. ASSUME NEW id \in inserting, NEW success \in BOOLEAN, EndInsert(id, success) PROVE StoreInv'
  BY <1>4, EndInsertInv
<1>5. ASSUME NEW target \in {"clickhouse", "postgresql"}, BeginMigration(target) PROVE StoreInv'
  BY <1>5, BeginMigrationInv
<1>6. CASE UNCHANGED logStoreVars
  BY <1>1, <1>6 DEF logStoreVars
<1> QED
  BY <1>2, <1>3, <1>4, <1>5, <1>6, MigrateBatchInv, BatchFailsInv, EndMigrationInv DEF LogStoreNext

\* A migration page by page, with OFFSET and LIMIT, while agents go on to insert
\* rows: for any number of rows and any size of a page, each row of the count is
\* handed on once if no row was deleted or appeared below, and no batch failed.
THEOREM MigrationHandsOnOnce == LogStoreSpec => []HandedOnce
<1>1. LogStoreInit => StoreInv
  <2> SUFFICES ASSUME LogStoreInit PROVE StoreInv
    OBVIOUS
  <2>1. DOMAIN stamp = {} /\ 1 .. 0 = {} /\ MaxRows \in Nat
    BY LogStoreAssumption DEF LogStoreInit
  <2>2. StoreType
    <3>1. Cardinality(DOMAIN stamp) = 0 /\ 0 \in 0 .. MaxRows
      BY <2>1, FS_EmptySet
    <3> QED
      BY <2>1, <3>1 DEF LogStoreInit, StoreType, Ids
  <2> QED
    BY <2>2 DEF LogStoreInit, StoreInv, Unread, Paging, Running, HandedOnce, Ids
<1>2. StoreInv => HandedOnce
  BY DEF StoreInv
<1> QED
  BY <1>1, <1>2, StoreNextInv, PTL DEF LogStoreSpec

=============================================================================
