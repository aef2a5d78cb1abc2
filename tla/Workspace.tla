------------------------------ MODULE Workspace ------------------------------
(***************************************************************************)
(* What the parts of the extension share: the repositories on the user's   *)
(* machine, the files of a repository and their contents, and the limit on *)
(* unprocessed changes that the watcher and the service both apply         *)
(* (MAX_PENDING_CHANGES and MAX_PENDING_PATHS, 10 000 each).               *)
(***************************************************************************)
EXTENDS Integers, Sequences, FiniteSets

CONSTANTS
    Roots,           \* normalized repository roots
    Paths,           \* files of a repository
    Contents,        \* contents of a file
    None,            \* the null of the code
    MaxPendingPaths

CONSTANT MaxEpoch    \* bound on the watchers of one extension process

ASSUME WorkspaceAssumption ==
    /\ MaxPendingPaths \in Nat
    /\ MaxEpoch \in Nat \ {0}
    /\ None \notin Roots

Observation == [Paths -> Contents]
=============================================================================
