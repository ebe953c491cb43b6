--------------------------- MODULE MCAlertEngine ---------------------------
(* Model-checking instances of AlertEngine. *)
EXTENDS AlertEngine, TLC

RuleOf(d, c, k) == [duration |-> d, cooldown |-> c, continuous |-> k]

\* With and without a duration, reminding and silent.
AllRules == {RuleOf(0, 2, TRUE), RuleOf(2, 2, TRUE), RuleOf(0, 2, FALSE), RuleOf(2, 2, FALSE)}
Immediate == {RuleOf(0, 2, TRUE)}
Lasting   == {RuleOf(2, 2, TRUE)}
Silent    == {RuleOf(2, 2, FALSE)}
Brisk     == {RuleOf(0, 1, TRUE), RuleOf(0, 1, FALSE)}

Symmetry == Permutations(Engines)
=============================================================================
