-------------------------- MODULE HistoricalImpact --------------------------
(***************************************************************************)
(* Commit and pull-request impact: ProjectDNAService.getCommitImpact and   *)
(* getPullRequestImpact over the GitCommitMetadataProvider and the         *)
(* HistoricalTreeMaterializer.  A request asks Git which two trees it is   *)
(* about, materializes both in private temporary directories, analyses     *)
(* them and compares the results; whatever fails or is aborted on the way, *)
(* nested finally blocks give both directories back.                       *)
(*                                                                         *)
(* Each member of a plan is one await.  No snapshot ever has commit        *)
(* provenance, so the look-up of a persisted analysis finds nothing and is *)
(* left out.                                                               *)
(***************************************************************************)
EXTENDS GitCommand, Sequences

CONSTANT MaxParents     \* bound on the direct parents of a commit

ASSUME ParentsAssumption == MaxParents \in Nat

VARIABLES
    request,    \* the request that is being answered
    plan,       \* what it still awaits
    trees       \* the private directory of each side

vars == <<signal, command, request, plan, trees>>

Sides == {"before", "after"}

-----------------------------------------------------------------------------
(* Requests *)

\* The direct parents a commit has and that its parent has, and the parent that
\* was asked for: none, a direct one, or another commit.
CommitRequest ==
    [kind : {"commit"}, parents : 0 .. MaxParents, grandparents : 0 .. MaxParents,
     parentSha : {"none", "direct", "other"}]

\* The number of merge bases of base and head.
PullRequest == [kind : {"pullRequest"}, mergeBases : 0 .. 2]

Request == CommitRequest \cup PullRequest

\* selectParent fails: an error code, or "none".
ParentError(parents, parentSha) ==
    IF parents > 1 /\ parentSha = "none" THEN "ambiguous-merge-parent"
    ELSE IF parentSha = "other" \/ (parentSha = "direct" /\ parents = 0) THEN "invalid-parent"
    ELSE "none"

RootCommit(r) == r.kind = "commit" /\ r.parents = 0

-----------------------------------------------------------------------------
(* Plans: commands, calls of the file system and of the engines, and checks. *)

Await(call, side) == [call |-> call, side |-> side]
Awaits(calls, side) == [i \in DOMAIN calls |-> Await(calls[i], side)]

\* "check" is a look at the signal, and selectParent, mergeBase, materialized and
\* compose are what happens between two awaits and can fail or hand something over.
Commands == {"git", "archive", "listArchive", "extract"}
Checks == {"check", "selectParent", "selectGrandparent", "mergeBase", "materialized", "compose"}

ResolveGitRoot == <<"check", "realpath", "git", "realpath", "git">>

\* getCommitMetadata, of a commit with its selected parent if it has parents.
CommitMetadata(parents, select) ==
    ResolveGitRoot \o <<"git", select>>
        \o IF parents = 0 THEN <<>> ELSE <<"git">>
        \o <<"git", "git">>

PullRequestTreeRange ==
    ResolveGitRoot \o <<"git", "git", "git", "mergeBase", "git", "git", "git">>

\* materialize; the empty tree, which stands for the parent of a root commit, is
\* neither listed nor archived.
Materialize(side, empty) ==
    Awaits(<<"check", "mkdtemp", "mkdir">>
               \o (IF empty THEN <<>> ELSE <<"git", "archive", "listArchive", "extract">>)
               \o <<"measure", "hash", "materialized">>,
           side)

AnalyzeHistoricalTree(side) ==
    Awaits(<<"analyzeRepository", "synthesize", "computeIntelligence", "check">>, side)

Analyze == AnalyzeHistoricalTree("before") \o AnalyzeHistoricalTree("after")

Cleanup == <<Await("cleanup", "after"), Await("cleanup", "before")>>

MetadataOf(r) ==
    IF r.kind = "commit" THEN CommitMetadata(r.parents, "selectParent") ELSE PullRequestTreeRange

\* getCommitImpact asks for the metadata of the parent too, without a parent of
\* the parent.
ParentMetadata(r) ==
    IF r.kind = "commit" /\ r.parents > 0
      THEN CommitMetadata(r.grandparents, "selectGrandparent")
      ELSE <<>>

PlanOf(r) ==
    Awaits(MetadataOf(r), "none")
        \o Materialize("before", RootCommit(r))
        \o Materialize("after", FALSE)
        \o Awaits(<<"getHistory">> \o ParentMetadata(r), "none")
        \o Analyze
        \o <<Await("compose", "none")>>
        \o Cleanup
-----------------------------------------------------------------------------
(* State *)

NoTree == [dir |-> "none", size |-> 0, archived |-> 0, content |-> 0]

\* dir: "private" while only materialize knows of it, "handed" once its caller has
\* to clean it up, "left" when it could not be removed.
Tree ==
    [dir : {"none", "private", "handed", "removed", "left"},
     size : 0 .. Chunks,        \* of the tree in Git
     archived : 0 .. Chunks,    \* of the archive file
     content : 0 .. Chunks]     \* of the extracted files

NoRequest == [kind |-> "none"]

Outcome == {"none", "answered", "failed", "ambiguous-merge-parent", "thrown"}

Idle == plan = <<>>
Call == plan[1].call
Side == plan[1].side

HistoricalTypeOK ==
    /\ CommandTypeOK
    /\ request \in [of : Request \cup {NoRequest}, outcome : Outcome]
    /\ trees \in [Sides -> Tree]
    /\ \A i \in DOMAIN plan : plan[i].side \in Sides \cup {"none"}
    /\ command.kind # "none" => ~Idle /\ Call \in Commands

Init ==
    /\ signal = "none"
    /\ command = NoCommand
    /\ request = [of |-> NoRequest, outcome |-> "none"]
    /\ plan = <<>>
    /\ trees = [side \in Sides |-> NoTree]

-----------------------------------------------------------------------------
(* Steps of a request *)

\* getCommitImpact or getPullRequestImpact, of commits whose trees have any size;
\* only the tree before a root commit is empty by definition.
Start(r, given) ==
    /\ Idle
    /\ signal' = given
    /\ request' = [of |-> r, outcome |-> "none"]
    /\ plan' = PlanOf(r)
    /\ \E sizes \in [Sides -> 0 .. Chunks] :
           /\ RootCommit(r) => sizes["before"] = 0
           /\ trees' = [side \in Sides |-> [NoTree EXCEPT !.size = sizes[side]]]
    /\ UNCHANGED command

Continue == plan' = Tail(plan) /\ UNCHANGED request

\* The cleanup of the finally block that was entered with the directory of a side
Entered(side) == IF trees[side].dir = "handed" THEN <<Await("cleanup", side)>> ELSE <<>>

\* Mutant: the try block of the first tree begins after the second is materialized.
UnwindOneTree(outcome) ==
    /\ request' = [request EXCEPT !.outcome = outcome]
    /\ plan' = IF Side \in Sides /\ trees[Side].dir = "private"
                 THEN <<Await("rm", Side)>>
                 ELSE Entered("after") \o Entered("before")

\* A failure: the catch of materialize removes its own directory, and each finally
\* block that was entered cleans up the tree it was entered with.
Unwind(outcome) ==
    /\ request' = [request EXCEPT !.outcome = outcome]
    /\ plan' = (IF Side \in Sides /\ trees[Side].dir = "private"
                   THEN <<Await("rm", Side)>>
                   ELSE <<>>)
                  \o Entered("after") \o Entered("before")

Keep == UNCHANGED trees
SetDir(dir) == trees' = [trees EXCEPT ![Side].dir = dir]

\* A check made without waiting: of the signal, of the parents, of the merge bases.
CheckError ==
    CASE Call \in {"check", "compose"} -> IF signal = "aborted" THEN "failed" ELSE "none"
      [] Call = "selectParent" -> ParentError(request.of.parents, request.of.parentSha)
      [] Call = "selectGrandparent" -> ParentError(request.of.grandparents, "none")
      [] Call = "mergeBase" -> IF request.of.mergeBases = 1 THEN "none" ELSE "failed"
      [] OTHER -> "none"

Check ==
    /\ ~Idle
    /\ Call \in Checks
    /\ IF CheckError # "none"
         THEN /\ Unwind(IF CheckError = "ambiguous-merge-parent" THEN CheckError ELSE "failed")
              /\ Keep
         ELSE /\ plan' = Tail(plan)
              /\ IF Call = "materialized" THEN SetDir("handed") ELSE Keep
              /\ request' = [request EXCEPT
                     !.outcome = IF Call = "compose" THEN "answered" ELSE @]
    /\ UNCHANGED <<signal, command>>

\* The impact of one of the changed files cannot be computed.
ComposeFails ==
    /\ ~Idle
    /\ Call = "compose"
    /\ Unwind("failed")
    /\ Keep
    /\ UNCHANGED <<signal, command>>

\* How much a command has to write: what the tree holds, or some text.
OutputSizes == IF Call = "archive" THEN {trees[Side].size} ELSE 0 .. Chunks

RunCommand ==
    /\ ~Idle
    /\ Call \in Commands
    /\ command = NoCommand
    /\ \E size \in OutputSizes :
           command' = Spawned(IF Call = "archive" THEN "archive" ELSE "text", size)
    /\ UNCHANGED <<signal, request, plan, trees>>

\* The await of a command ends: with its output, or with a rejection.
CommandEnds ==
    /\ command # NoCommand
    /\ ~Running
    /\ command' = NoCommand
    /\ IF command.outcome = "failed"
         THEN Unwind("failed") /\ Keep
         ELSE /\ Continue
              /\ trees' = CASE Call = "archive" -> [trees EXCEPT ![Side].archived = command.flushed]
                            [] Call = "extract" -> [trees EXCEPT ![Side].content = trees[Side].archived]
                            [] OTHER -> trees
    /\ UNCHANGED signal

\* A call of the file system or of an engine.
Calls == {"realpath", "mkdtemp", "mkdir", "measure", "hash", "getHistory",
          "analyzeRepository", "synthesize", "computeIntelligence"}

CallReturns ==
    /\ ~Idle
    /\ Call \in Calls
    /\ Continue
    /\ IF Call = "mkdtemp" THEN SetDir("private") ELSE Keep
    /\ UNCHANGED <<signal, command>>

\* It fails, finds a limit exceeded, or notices the abort.
CallFails ==
    /\ ~Idle
    /\ Call \in Calls
    /\ Unwind("failed")
    /\ Keep
    /\ UNCHANGED <<signal, command>>

\* A directory is removed, or cannot be.  materialize ignores that; in a finally
\* block it takes the place of the answer.
RemoveTree ==
    /\ ~Idle
    /\ Call \in {"rm", "cleanup"}
    /\ \/ SetDir("removed") /\ UNCHANGED request
       \/ /\ SetDir("left")
          /\ request' = [request EXCEPT !.outcome = IF Call = "cleanup" THEN "thrown" ELSE @]
    /\ plan' = Tail(plan)
    /\ UNCHANGED <<signal, command>>

\* The caller aborts while the request waits: between two awaits nothing else runs.
Abort ==
    /\ Running \/ (~Idle /\ Call \in Calls \cup {"rm", "cleanup"})
    /\ AbortSignal
    /\ UNCHANGED <<request, plan, trees>>

RequestStep ==
    \/ Check \/ ComposeFails
    \/ RunCommand \/ CommandEnds
    \/ CallReturns \/ CallFails
    \/ RemoveTree

CommandEvent == CommandStep /\ UNCHANGED <<request, plan, trees>>

Next ==
    \/ RequestStep
    \/ CommandEvent
    \/ Abort
    \/ \E r \in Request, given \in {"none", "live"} : Start(r, given)

Spec == Init /\ [][Next]_vars

\* The event loop resumes what has been settled, file system and engines answer,
\* and the timer of a command fires; nothing is assumed of a command itself.
Fairness ==
    /\ WF_vars(RequestStep)
    /\ WF_vars(Timeout /\ UNCHANGED <<signal, request, plan, trees>>)

FairSpec == Spec /\ Fairness

-----------------------------------------------------------------------------
(* Properties *)

\* However a request ends (answer, error, limit, time-out or abort at any await,
\* of either tree) no private directory is left that could have been removed, and
\* no command still works in one.
TreesAreReleased ==
    /\ Idle => \A side \in Sides : trees[side].dir \in {"none", "removed", "left"}
    /\ Running /\ Side \in Sides => trees[Side].dir = "private"

\* What is analysed is all of the tree: both directories are there until both
\* analyses are done, and each holds everything Git has of its tree.
AnalysedTreesAreWhole ==
    ~Idle /\ Call \in {"analyzeRepository", "synthesize", "computeIntelligence"} =>
        \A side \in Sides :
            trees[side].dir = "handed" /\ trees[side].content = trees[side].size

\* Every request is answered or rejected, though commands may hang.
EveryRequestEnds == ~Idle ~> Idle

\* A parent has to be selected only for a merge commit, and selecting a direct
\* parent is enough.
OnlyMergesNeedAParent ==
    request.outcome = "ambiguous-merge-parent" =>
        request.of.parents > 1 /\ request.of.parentSha = "none"
=============================================================================
