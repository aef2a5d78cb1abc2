------------------------- MODULE WorkingTreeImpact -------------------------
(***************************************************************************)
(* getWorkingTreeImpact of the ProjectDNAService: an impact query that     *)
(* compares two analyses of the history, awaits Git twice and the history  *)
(* once, and must not mix what it read before and after those awaits.      *)
(*                                                                         *)
(* The analysis it starts from and the epoch it captured are its impact    *)
(* entry in ProjectDNAService; comparison holds its other locals.  Which   *)
(* snapshot was taken of a clean tree at HEAD, and whether the published   *)
(* one was taken of the tree Git reports, is left open.                    *)
(***************************************************************************)
EXTENDS ProjectDNAService

VARIABLE comparison

allVars == <<vars, comparison>>

Comparison ==
    [step : {"none", "initial", "history", "final"},
     root : Roots \cup {None},            \* the repository Git is asked about
     since : Observation \cup {None},     \* its files when Git was asked
     tree : Observation \cup {None},      \* initial
     before : Nat,                        \* version of beforeSnapshot, 0: none
     after : Nat]                         \* version of afterSnapshot, 0: none

NoComparison ==
    [step |-> "none", root |-> None, since |-> None, tree |-> None, before |-> 0, after |-> 0]

ComparisonTypeOK ==
    /\ TypeOK
    /\ comparison \in [ImpactCallers -> Comparison]
    /\ \A c \in ImpactCallers :
           comparison[c].step # "none" => impact[c].status = "waiting"

Comparing(c, step) == comparison[c].step = step

InitComparison == Init /\ comparison = [c \in ImpactCallers |-> NoComparison]

\* rootPath ?? current?.rootPath ?? ''
QueriedRoot == IF rootPath = None /\ current # None THEN current.root ELSE rootPath

AskGit(c, fields) ==
    comparison' = [comparison EXCEPT ![c] =
        [fields EXCEPT !.root = QueriedRoot,
                       !.since = IF QueriedRoot = None THEN None ELSE disk[QueriedRoot]]]

\* What Git may have read of files that change while it reads them.
Reported(c) ==
    {seen \in Observation :
        \A p \in Paths : seen[p] \in {comparison[c].since[p], disk[comparison[c].root][p]}}

Reject(c) ==
    /\ impact' = [impact EXCEPT ![c] = [NoQuery EXCEPT !.status = "rejected"]]
    /\ comparison' = [comparison EXCEPT ![c] = NoComparison]

LeaveService == UNCHANGED <<disk, watchVars, publishedVars, changeTimer, disposed, phase, op,
                            snapshots, storageVars>>

GetWorkingTreeImpact(c) ==
    /\ GetImpact(c)
    /\ AskGit(c, [NoComparison EXCEPT !.step = "initial"])

ReceiveInitial(c) ==
    /\ Comparing(c, "initial")
    /\ \E tree \in Reported(c) :
           comparison' = [comparison EXCEPT ![c].step = "history", ![c].tree = tree]
    /\ LeaveService
    /\ UNCHANGED impact

\* beforeSnapshot, afterSnapshot, and the impacts of their files, computed at once;
\* then Git is asked again.
VersionsOf(c) ==
    {snapshots[i].version : i \in {j \in DOMAIN snapshots : snapshots[j].root = impact[c].dna.root}}

ReadHistory(c) ==
    /\ Comparing(c, "history")
    /\ \E before \in {0} \cup VersionsOf(c),
          after \in {0} \cup (VersionsOf(c) \cap {impact[c].dna.version}) :
           AskGit(c, [comparison[c] EXCEPT !.step = "final", !.before = before, !.after = after])
    /\ LeaveService
    /\ UNCHANGED impact

\* Mutant: only the version is compared.
IsStillCurrentByVersion(c) == current # None /\ current.version = impact[c].dna.version

IsStillCurrent(c) ==
    /\ ~impact[c].stale
    /\ current # None
    /\ current.version = impact[c].dna.version

AnswerWorkingTreeImpact(c) ==
    /\ Comparing(c, "final")
    /\ comparison[c].root # None
    /\ \E tree \in Reported(c) :
           IF tree = comparison[c].tree /\ IsStillCurrent(c)
             THEN /\ impact' = [impact EXCEPT ![c] = [NoQuery EXCEPT !.status = "answered"]]
                  /\ comparison' = [comparison EXCEPT ![c] = NoComparison]
             ELSE Reject(c)
    /\ LeaveService

\* The signal is aborted, Git fails or there is no repository left to ask about.
WorkingTreeImpactFails(c) ==
    /\ ~Comparing(c, "none")
    /\ Reject(c)
    /\ LeaveService

\* A step of the service, which does not answer these queries; they end with their
\* process.
ServiceGoesOn ==
    /\ Next
    /\ \A c \in ImpactCallers : ~Comparing(c, "none") => impact'[c].status \in {"waiting", "idle"}
    /\ comparison' = [c \in ImpactCallers |->
           IF impact'[c].status = "waiting" THEN comparison[c] ELSE NoComparison]

NextWithComparisons ==
    \/ ServiceGoesOn
    \/ \E c \in ImpactCallers :
          \/ GetWorkingTreeImpact(c) \/ ReceiveInitial(c) \/ ReadHistory(c)
          \/ AnswerWorkingTreeImpact(c) \/ WorkingTreeImpactFails(c)

ComparisonSpec == InitComparison /\ [][NextWithComparisons]_allVars

-----------------------------------------------------------------------------
(* Properties *)

\* A working-tree query is answered only while the analysis it started from is
\* still the published one and none is being computed, about the repository of
\* that analysis; and the analyses it compares are whole in the storage, none of
\* them a candidate whose snapshot was rolled back while the query waited.
WorkingTreeAnswerIsCurrent ==
    [][\A c \in ImpactCallers :
          Comparing(c, "final") /\ impact'[c].status = "answered" =>
              /\ Idle
              /\ impact[c].dna = current
              /\ comparison[c].root = current.root
              /\ \A v \in {comparison[c].before, comparison[c].after} \ {0} :
                     IntactVersion(current.root, v)]_allVars
=============================================================================
