--------------------------- MODULE MCRemediation ---------------------------
(* Model-checking instances of Remediation. *)
EXTENDS Remediation, TLC

\* Calls and workers are interchangeable, except in liveness runs.
Symmetry ==
    Permutations(Decisions) \cup Permutations(Triggers) \cup Permutations(Workers)
=============================================================================
