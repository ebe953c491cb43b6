--------------------------------- MODULE Sla ---------------------------------
(***************************************************************************)
(* The availability of one service, as the status board and the report     *)
(* compute it: two COUNTs for a window, or for every day of one, while     *)
(* agents report more checks. Checks are only added, but with the time of  *)
(* the agent: a day that is over, or was counted, may still get some.      *)
(***************************************************************************)
EXTENDS Integers, FiniteSets

CONSTANTS
  Targets,            \* target_percent, in hundredths of a percent
  Week,               \* days of the longer window
  NoSlaRule,
  LastDay, MaxChecks  \* bounds

ASSUME SlaAssumption == Targets \subseteq 0..10000 /\ Week \in Nat \ {0}

VARIABLES
  today,
  checks,   \* rows of service_checks: [day, status, nr], numbered within a day and status
  rule,     \* the service's rule, [target, window], or NoSlaRule
  board,    \* a request: [pc, view, target, window, day, end, total, down]
  verdict,  \* the last one: [met, target]
  truth     \* history: what a count of both at once would have said, at each total,
            \*   summed up over the days of a report

slaVars == <<today, checks, rule, board, verdict, truth>>

NotReading == [pc |-> "idle", view |-> "none", target |-> 0, window |-> "none",
               day |-> 0, end |-> 0, total |-> 0, down |-> 0]
NoCount == [total |-> 0, down |-> 0]

SlaInit ==
  /\ today = 0 /\ checks = {}
  /\ rule = NoSlaRule
  /\ board = NotReading
  /\ verdict = [met |-> FALSE, target |-> 0]
  /\ truth = NoCount

-----------------------------------------------------------------------------
\* report_service_check: the time is the agent's, whose clock may be wrong and
\* whose report may be late.
AddCheck(day, status) ==
  /\ Cardinality({c \in checks : c.day = day}) < MaxChecks
  /\ LET same == {c \in checks : c.day = day /\ c.status = status}
     IN  checks' = checks \cup {[day |-> day, status |-> status, nr |-> Cardinality(same) + 1]}
  /\ UNCHANGED <<today, rule, board, verdict, truth>>

SlaDayPasses ==
  /\ today < LastDay /\ today' = today + 1
  /\ UNCHANGED <<checks, rule, board, verdict, truth>>

\* A second rule for the service is refused, if not here then by the table.
CreateSlaRule(target, window) ==
  /\ rule = NoSlaRule /\ rule' = [target |-> target, window |-> window]
  /\ UNCHANGED <<today, checks, board, verdict, truth>>

DeleteSlaRule ==
  /\ rule # NoSlaRule /\ rule' = NoSlaRule
  /\ UNCHANGED <<today, checks, board, verdict, truth>>

WindowStart(window) == IF window = "daily" THEN today ELSE today - (today % Week)

Begin(view, target, window, day, end) ==
  /\ board.pc = "idle"
  /\ board' = [pc |-> "total", view |-> view, target |-> target, window |-> window,
               day |-> day, end |-> end, total |-> 0, down |-> 0]
  /\ truth' = NoCount
  /\ UNCHANGED <<today, checks, rule, verdict>>

\* One pair of counts, from the start of the window on.
BeginStatus ==
  /\ rule # NoSlaRule
  /\ Begin("status", rule.target, rule.window, WindowStart(rule.window), LastDay)

\* A pair of counts for every day of a period, which may lie ahead; a service
\* without a rule is measured by 99.9 percent.
BeginReport ==
  \E from \in 0..LastDay, to \in 0..LastDay :
    from <= to /\ Begin("report", IF rule = NoSlaRule THEN 9990 ELSE rule.target, "none", from, to)

\* Mutant: each count computes the start of its window anew.
CountedDaysNow ==
  IF board.view = "status" THEN WindowStart(board.window)..LastDay ELSE {board.day}

CountedDays == IF board.view = "status" THEN board.day..LastDay ELSE {board.day}

Downs(days) == Cardinality({c \in checks : c.day \in days /\ c.status = "down"})
Totals(days) == Cardinality({c \in checks : c.day \in days})

CountTotal ==
  /\ board.pc = "total"
  /\ board' = [board EXCEPT !.pc = "down", !.total = @ + Totals(CountedDays)]
  /\ truth' = [total |-> truth.total + Totals(CountedDays), down |-> truth.down + Downs(CountedDays)]
  /\ UNCHANGED <<today, checks, rule, verdict>>

\* In ten-thousandths of a percent, as round(..., 4) leaves it.
Percent(c) == (2 * (c.total - c.down) * 1000000 + c.total) \div (2 * c.total)
IsMet(c, target) == c.total > 0 /\ Percent(c) >= 100 * target

\* After it the next day of a report, or the answer.
CountDown ==
  LET down == board.down + Downs(CountedDays) IN
  /\ board.pc = "down"
  /\ IF board.view = "report" /\ board.day < board.end
       THEN /\ board' = [board EXCEPT !.pc = "total", !.down = down, !.day = @ + 1]
            /\ UNCHANGED verdict
       ELSE /\ board' = NotReading
            /\ verdict' = [met |-> IsMet([total |-> board.total, down |-> down], board.target),
                         target |-> board.target]
  /\ UNCHANGED <<today, checks, rule, truth>>

SlaNext ==
  \/ \E day \in 0..LastDay, status \in {"up", "down"} : AddCheck(day, status)
  \/ SlaDayPasses \/ DeleteSlaRule \/ BeginStatus \/ BeginReport \/ CountTotal \/ CountDown
  \/ \E target \in Targets, window \in {"daily", "weekly"} : CreateSlaRule(target, window)

SlaSpec == SlaInit /\ [][SlaNext]_slaVars

(***************************************************************************)
(* Met is true: although the counts are separate queries, between which    *)
(* agents report checks, late ones too, and days pass, a service that the  *)
(* board or the report declares within its target was so by the checks     *)
(* that were stored when its totals were taken: one total on the board,    *)
(* one for each day in a report.  A check that comes for a day after its   *)
(* counts is in neither.  (That a service is declared outside its target   *)
(* may be wrong.)                                                          *)
(***************************************************************************)
MetIsTrue ==
  board.pc = "idle" /\ verdict.met => IsMet(truth, verdict.target)
=============================================================================
