------------------------- MODULE MCWorkingTreeImpact -------------------------
(* WorkingTreeImpact with small constants. *)
EXTENDS WorkingTreeImpact, TLC

\* No definition tells two contents, two files or two callers apart.
Symmetry == Permutations(Contents) \cup Permutations(Paths) \cup Permutations(ImpactCallers)
=============================================================================
