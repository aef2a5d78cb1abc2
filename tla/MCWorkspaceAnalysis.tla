------------------------ MODULE MCWorkspaceAnalysis -------------------------
(* WorkspaceAnalysis with small constants. *)
EXTENDS WorkspaceAnalysis, TLC

\* Only Absent is told apart from other contents.
Symmetry == Permutations(Contents \ {Absent}) \cup Permutations(Paths) \cup Permutations(Roots)
=============================================================================
