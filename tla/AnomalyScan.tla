----------------------------- MODULE AnomalyScan -----------------------------
(***************************************************************************)
(* Insights from log lines: a loop of the worker sleeps, reads the bad     *)
(* lines of the last hour, has a language model summarize them and stores  *)
(* an insight; a button of the dashboard does so at once for a period that *)
(* the user names. What the model answers is left out, what counts is      *)
(* which lines it was shown.  A call of the model takes any time: its      *)
(* timeout is one of each network operation.                               *)
(***************************************************************************)
EXTENDS Naturals, FiniteSets

CONSTANTS
  Lines,                \* log lines of a bad level
  NoisyLines,           \* those of hosts with a rule that suppresses the log scan
  ScanEvery,            \* 30 minutes
  ScanWindow,           \* 1 hour
  ScanLimit,            \* lines that a scan reads, 500
  ModelLimit,           \* and that the model is shown, 200
  ButtonWindows,        \* periods of the button, 1 to 24 hours
  ButtonLimit,          \* lines that it reads, 200
  ButtonModelLimit,     \* and that the model is shown, 100
  MaxMinute, MaxMisses  \* bounds on the clock and on failures

ASSUME ScanAssumption ==
  /\ NoisyLines \subseteq Lines /\ {ScanEvery, ScanWindow, ScanLimit, ModelLimit} \subseteq Nat
  /\ ScanEvery <= ScanWindow

VARIABLES
  scanTime,
  logged,  \* the time each line bears, 0 before it is stored
  scan,    \* the loop: [pc, since, lines]; since when it sleeps or calls
  button,  \* lines a request has sent to the model
  shown,   \* lines an insight was stored about
  missed,  \* history: lines of a failed, lost or overlong scan, or stored too late
  misses

scanVars == <<scanTime, logged, scan, button, shown, missed, misses>>

ScanInit ==
  /\ scanTime = 1 /\ logged = [l \in Lines |-> 0]
  /\ scan = [pc |-> "sleep", since |-> 1, lines |-> {}]
  /\ button = {} /\ shown = {} /\ missed = {} /\ misses = 0

Written == {l \in Lines : logged[l] # 0}

\* What a call may take for the next scan to read on where the last one read.
Grace == ScanWindow - ScanEvery

\* The time is the agent's, whose clock may be wrong and whose report may be
\* late: later than the scan that should have read the line.
WriteLog(l, at) ==
  /\ logged[l] = 0 /\ logged' = [logged EXCEPT ![l] = at]
  /\ missed' = IF at + (IF scan.pc = "sleep" THEN Grace ELSE 0) < scan.since THEN missed \cup {l} ELSE missed
  /\ UNCHANGED <<scanTime, scan, button, shown, misses>>

\* Mutant: a scan looks back as long as the loop sleeps.
BadLinesSince(window) == {l \in Written : logged[l] + ScanEvery > scanTime}

\* The bad lines of the last hour, or of the button's period.
BadLines(window) == {l \in Written : logged[l] + window >= scanTime}

\* The newest ones, by timestamp, up to the limit.
NewestLines(limit, lines) ==
  {s \in SUBSET lines :
     /\ Cardinality(s) <= limit /\ (s # lines => Cardinality(s) = limit)
     /\ \A l \in s, m \in lines \ s : logged[m] <= logged[l]}

\* The hosts are filtered after the limit.
Unsuppressed(lines) == lines \ NoisyLines

Asleep == [pc |-> "sleep", since |-> scanTime, lines |-> {}]

\* scan_recent_logs: without lines the scan is over.
ScanReads ==
  /\ scan.pc = "sleep" /\ scanTime >= scan.since + ScanEvery
  /\ \E s \in NewestLines(ScanLimit, BadLines(ScanWindow)) : \E sent \in NewestLines(ModelLimit, Unsuppressed(s)) :
       scan' = IF sent = {} THEN Asleep
               ELSE [pc |-> "calling", since |-> scanTime, lines |-> sent]
  /\ UNCHANGED <<scanTime, logged, button, shown, missed, misses>>

\* A call that took longer than that leaves a gap.
Overlong == scan.pc = "calling" /\ scanTime > scan.since + Grace

ScanStores ==
  /\ scan.pc = "calling"
  /\ shown' = shown \cup scan.lines /\ scan' = Asleep
  /\ missed' = IF Overlong THEN missed \cup (Written \ shown') ELSE missed
  /\ UNCHANGED <<scanTime, logged, button, misses>>

\* The switch is off, a query or the call fails, or the insight is not stored:
\* the next scan is the next try.
ScanMisses ==
  /\ scan.pc = "calling" \/ scanTime >= scan.since + ScanEvery
  /\ misses < MaxMisses /\ misses' = misses + 1
  /\ missed' = missed \cup (Written \ shown)
  /\ scan' = Asleep
  /\ UNCHANGED <<scanTime, logged, button, shown>>

\* A worker that starts again sleeps first.
RestartScanner ==
  /\ misses < MaxMisses /\ misses' = misses + 1
  /\ missed' = missed \cup (Written \ shown)
  /\ scan' = Asleep /\ button' = {}
  /\ UNCHANGED <<scanTime, logged, shown>>

\* analyze_logs_on_demand filters no host, and reads and shows fewer lines.
PressButton ==
  /\ button = {}
  /\ \E window \in ButtonWindows : \E s \in NewestLines(ButtonLimit, BadLines(window)) :
       button' \in NewestLines(ButtonModelLimit, s) \ {{}}
  /\ UNCHANGED <<scanTime, logged, scan, shown, missed, misses>>

\* Without an answer of the model there is an error, or an insight about nothing.
ButtonEnds(success) ==
  /\ button # {} /\ button' = {}
  /\ shown' = IF success THEN shown \cup button ELSE shown
  /\ UNCHANGED <<scanTime, logged, scan, missed, misses>>

\* A sleep that is over ends.
ScanMinutePasses ==
  /\ scanTime < MaxMinute /\ scanTime' = scanTime + 1
  /\ scan.pc = "sleep" => scanTime < scan.since + ScanEvery
  /\ UNCHANGED <<logged, scan, button, shown, missed, misses>>

ScanNext ==
  \/ ScanMinutePasses \/ \E l \in Lines, at \in 1 .. MaxMinute : WriteLog(l, at)
  \/ ScanReads \/ ScanStores \/ ScanMisses \/ RestartScanner
  \/ PressButton \/ \E success \in BOOLEAN : ButtonEnds(success)

ScanSpec == ScanInit /\ [][ScanNext]_scanVars

(***************************************************************************)
(* Scans read on where the last one read, although the sleep starts when   *)
(* the call is over and none knows what the last one read: a line that is  *)
(* too old to be read again is in a stored insight, or its host is         *)
(* suppressed, or newer lines crowded it out, or it is one of those that   *)
(* nobody promised: stored later than the scan that should have read it,   *)
(* or of a scan that failed, was lost or had a call of more than half an   *)
(* hour.                                                                   *)
(***************************************************************************)
Crowded(l) ==
  Cardinality({m \in Written \ {l} : logged[m] >= logged[l]}) >= IF ModelLimit < ScanLimit THEN ModelLimit ELSE ScanLimit

SeenOrMissed ==
  \A l \in Written \ NoisyLines :
    logged[l] + ScanWindow + Grace < scanTime => l \in shown \cup missed \/ Crowded(l) \/ Overlong
=============================================================================
