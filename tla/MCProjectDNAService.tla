------------------------- MODULE MCProjectDNAService -------------------------
(* ProjectDNAService with small constants. *)
EXTENDS ProjectDNAService, TLC

\* No definition tells two contents, two files or two roots apart.
Symmetry == Permutations(Contents) \cup Permutations(Paths) \cup Permutations(Roots)
=============================================================================
