------------------------------ MODULE SidebarPage ------------------------------
(***************************************************************************)
(* The state of the sidebar's page apart from its route: what it shows of  *)
(* the analysis and, for each kind of request, the last one it made.       *)
(* Every message of the extension host is given to every reducer, and each *)
(* reducer decides by versions, folders and request ids whether the        *)
(* message is for what it shows.  The content of analyses and answers is   *)
(* left out: an analysis is its folder and its version.                    *)
(***************************************************************************)
EXTENDS Integers

CONSTANTS
    Roots,      \* workspace folders
    Kinds,      \* kinds of requests, see below
    Parents,    \* commits that may be selected as the parent of a merge
    None

Versioned == {"entity", "evolution", "impact", "workingTree"}  \* of an analysis
Historical == {"commit", "pullRequest"}                         \* of commits
Cancellable == {"impact", "workingTree", "commit", "pullRequest"}

ASSUME PageAssumption ==
    /\ Kinds \subseteq Versioned \cup Historical
    /\ Roots # {}
    /\ None \notin Roots \cup Parents \cup Nat

-----------------------------------------------------------------------------
(* The messages of the protocol that the reducers tell apart *)

Snapshots == [type : {"analysisSnapshot"}, version : Nat, root : Roots]

AnswersTo(kinds, parents, outcomes) ==
    [type : {"result"}, kind : Kinds \cap kinds, id : Nat, version : Nat, parent : parents,
     outcome : outcomes]

QueryAnswers == AnswersTo({"entity", "evolution"}, {None}, {"result", "error"})
ImpactAnswers == AnswersTo({"impact"}, {None}, {"result", "error"})
WorkingTreeAnswers == AnswersTo({"workingTree"}, {None}, {"result", "error"})
CommitAnswers == AnswersTo({"commit"}, Parents \cup {None}, {"result", "error", "parents"})
PullRequestAnswers == AnswersTo({"pullRequest"}, {None}, {"result", "error"})

Answers == QueryAnswers \cup ImpactAnswers \cup WorkingTreeAnswers \cup CommitAnswers \cup PullRequestAnswers

ExtensionMessages ==
    [type : {"analysisUnavailable"}, root : Roots \cup {None}]
      \cup [type : {"analysisStarted"}, root : Roots]
      \cup [type : {"analysisError", "analysisComplete"}]
      \cup Snapshots
      \cup Answers

WebviewMessages ==
    [type : {"ready", "requestAnalysis", "requestRefresh"}]
      \cup [type : {"openWorkspaceTarget"}]
      \cup [type : {"request"}, kind : Kinds, id : Nat, version : Nat, parent : Parents \cup {None}]
      \cup [type : {"cancel"}, kind : Kinds, id : Nat]

-----------------------------------------------------------------------------
(* The analysis *)

AnalysisStates ==
    [status : {"loading", "empty", "analyzing", "ready", "error"}, root : Roots \cup {None},
     repository : BOOLEAN, version : Nat, error : BOOLEAN]

NoRepository(status, root) ==
    [status |-> status, root |-> root, repository |-> FALSE, version |-> 0, error |-> FALSE]

InitialAnalysis == NoRepository("loading", None)

\* Mutant: a snapshot counts only when it continues the one shown.
IsNewsOfShown(state, m) ==
    /\ m.version > state.version
    /\ state.root = m.root

\* A snapshot counts when it is newer than the one shown and of the same folder.
IsNews(state, m) ==
    /\ m.version > state.version
    /\ state.root \in {None, m.root}

AfterStarted(state, root) ==
    IF state.root = root /\ state.repository
      THEN [state EXCEPT !.status = "analyzing", !.error = FALSE]
      ELSE NoRepository("analyzing", root)

AfterError(state) ==
    IF state.repository
      THEN [state EXCEPT !.status = "ready", !.error = TRUE]
      ELSE [NoRepository("error", state.root) EXCEPT !.version = state.version, !.error = TRUE]

AfterSnapshot(state, m) ==
    IF IsNews(state, m)
      THEN [status |-> "ready", root |-> m.root, repository |-> TRUE, version |-> m.version,
            error |-> FALSE]
      ELSE state

AfterComplete(state) ==
    IF state.status = "analyzing" /\ state.repository
      THEN [state EXCEPT !.status = "ready"]
      ELSE state

ReduceAnalysis(state, m) ==
    CASE m.type = "analysisUnavailable" -> NoRepository("empty", m.root)
      [] m.type = "analysisStarted"     -> AfterStarted(state, m.root)
      [] m.type = "analysisError"       -> AfterError(state)
      [] m.type = "analysisSnapshot"    -> AfterSnapshot(state, m)
      [] m.type = "analysisComplete"    -> AfterComplete(state)
      [] OTHER                          -> state

-----------------------------------------------------------------------------
(* The requests.  A panel that is open without having asked is idle, as one that is    *)
(* closed.                                                                             *)

RequestStates ==
    [status : {"idle", "loading", "parent-selection", "ready", "error", "cancelled"},
     id : Nat, version : Nat, parent : Parents \cup {None}]

NoRequest(id) == [status |-> "idle", id |-> id, version |-> 0, parent |-> None]

\* Mutant: a new snapshot leaves the answers of the one before.
IsResetByAnalysis(kind, request, m) ==
    \/ kind \in Versioned /\ m.type = "analysisStarted"
    \/ kind \in {"workingTree"} \cup Historical /\ m.type = "analysisUnavailable"

\* What makes a kind of request forget the last one
IsReset(kind, request, m) ==
    \/ /\ kind \in Versioned
       /\ \/ m.type = "analysisStarted"
          \/ m.type = "analysisSnapshot" /\ m.version # request.version
    \/ /\ kind \in {"workingTree"} \cup Historical
       /\ m.type = "analysisUnavailable"

\* matchesParentIdentity, for the parent of a commit
MatchesParent(request, m) ==
    \/ request.parent = None
    \/ m.parent = request.parent

IsAnswer(kind, request, m) ==
    /\ m.type = "result"
    /\ m.kind = kind
    /\ request.status = "loading"
    /\ m.id = request.id
    /\ m.version = request.version
    /\ MatchesParent(request, m)

AfterAnswer(request, m) ==
    CASE m.outcome = "parents" -> [request EXCEPT !.status = "parent-selection", !.parent = None]
      [] m.outcome = "error"   -> [request EXCEPT !.status = "error", !.parent = m.parent]
      [] OTHER                 -> [request EXCEPT !.status = "ready", !.parent = m.parent]

ReduceRequest(kind, request, m) ==
    CASE IsReset(kind, request, m)  -> NoRequest(request.id)
      [] IsAnswer(kind, request, m) -> AfterAnswer(request, m)
      [] OTHER                      -> request

\* select and request: the ids of a kind are counted through the life of the page and
\* of the pages that restore its state
Requested(request, version, parent) ==
    [status |-> "loading", id |-> request.id + 1, version |-> version, parent |-> parent]

CancelledRequest(request) == [request EXCEPT !.status = "cancelled"]

-----------------------------------------------------------------------------
(* The page *)

Pages == [analysis : AnalysisStates, requests : [Kinds -> RequestStates]]

NewPage ==
    [analysis |-> InitialAnalysis, requests |-> [kind \in Kinds |-> NoRequest(0)]]

\* handleMessage of App
Reduce(page, m) ==
    [analysis |-> ReduceAnalysis(page.analysis, m),
     requests |-> [kind \in Kinds |-> ReduceRequest(kind, page.requests[kind], m)]]

\* A page made anew has the requests that were saved and knows no analysis.  A panel that
\* offers fewer than two parents, which only a child of a merge leads to, is kept here
\* and forgotten by the code (restoreCommitImpactState).
Restored(page) == [page EXCEPT !.analysis = InitialAnalysis]
=============================================================================
