---------------------------- MODULE ChangeImpact ----------------------------
(***************************************************************************)
(* The impact of the files a commit or a pull request changed, composed of *)
(* one search per changed file in the analysed tree before and in the one  *)
(* after.  The answer lists the files the changes reach and says whether it*)
(* is complete.  The working tree's answer is composed the same way, from  *)
(* two stored analyses, but calls itself complete without asking whether   *)
(* its searches were.                                                      *)
(***************************************************************************)
EXTENDS DependencyTraversal

CONSTANTS
    Comparisons,         \* what may be asked: form, trees before and after, changes
    MaxDepth,            \* the bounds of a search
    MaxEntities,
    MaxEvidencePaths,
    MaxTargets,          \* the bounds of the answer
    MaxImpactedEntities

VARIABLES
    comparison,   \* [form, before, after, changes, metadataComplete]
    targets,      \* the changed sides left to search from
    target,       \* the one searched from, or NoTarget
    impacts,      \* one entry per search: [target, files, paths, complete]
    unresolved,   \* changed sides without an entity to search from
    cuts,         \* the truncations of the answer
    answer        \* NoAnswer, or what is returned

impactVars == <<traversalVars, comparison, targets, target, impacts, unresolved, cuts, answer>>

NoTarget == [side |-> "none", path |-> 0]
NoAnswer == [complete |-> FALSE, impacted |-> {}, given |-> FALSE]

-----------------------------------------------------------------------------
(* The sides of a change: kind, previousPath, path, text *)

Side(side, path) == [side |-> side, path |-> path]

CommitFileSides(change) ==
    CASE change.kind = "added"   -> {Side("after", change.path)}
      [] change.kind = "deleted" -> {Side("before", change.path)}
      [] change.kind = "renamed" -> {Side("before", change.previousPath), Side("after", change.path)}
      [] OTHER -> {Side("before", change.path), Side("after", change.path)}

TextSides(c) == UNION {CommitFileSides(change) : change \in {d \in c.changes : d.text}}
OtherSides(c) == UNION {CommitFileSides(change) : change \in {d \in c.changes : ~d.text}}

Tree(c, side) == IF side = "before" THEN c.before ELSE c.after
HasEntity(c, t) == t.path \in Tree(c, t.side).files

\* The changes are finitely many, a path is a number, and an analysis keeps only the
\* imports from one of its files to another.
ASSUME ComparisonsAssumption ==
    \A c \in Comparisons :
      /\ IsFiniteSet(c.changes)
      /\ \A change \in c.changes : change.path \in Nat /\ change.previousPath \in Nat
      /\ \A tree \in {c.before, c.after} :
           tree.files \subseteq Files /\ tree.edges \subseteq tree.files \X tree.files

ASSUME BoundsAssumption ==
    /\ MaxDepth \in Nat /\ MaxEntities \in Nat \ {0} /\ MaxEvidencePaths \in Nat
    /\ MaxTargets \in Nat /\ MaxImpactedEntities \in Nat

\* By path, then "after" before "before".
Precedes(t, u) == t.path < u.path \/ (t.path = u.path /\ t.side = "after" /\ u.side = "before")
FirstTargets(ts) == {t \in ts : Cardinality({u \in ts : Precedes(u, t)}) < MaxTargets}

\* A pull request looks for the entities before it counts the targets, a commit
\* after: there a side without one takes the place of another.
Candidates(c) ==
    IF c.form = "pull-request"
      THEN {t \in TextSides(c) : HasEntity(c, t)}
      ELSE TextSides(c)

MissingAtOnce(c) == TextSides(c) \ Candidates(c)

ImpactInit ==
    /\ NoSearch
    /\ comparison \in Comparisons
    /\ targets = FirstTargets(Candidates(comparison))
    /\ target = NoTarget
    /\ impacts = {}
    /\ unresolved = OtherSides(comparison) \cup MissingAtOnce(comparison)
    /\ cuts = {x \in {"max-changed-files"} : ~comparison.metadataComplete}
              \cup {x \in {"max-targets"} : Cardinality(Candidates(comparison)) > MaxTargets}
    /\ answer = NoAnswer

Unchanged == UNCHANGED <<comparison, cuts, answer>>

NextTarget == CHOOSE t \in targets : \A u \in targets : u = t \/ Precedes(t, u)

\* getImpact: the search along the dependents of the changed file.
GetImpact ==
    /\ target = NoTarget /\ targets # {}
    /\ HasEntity(comparison, NextTarget)
    /\ target' = NextTarget
    /\ targets' = targets \ {NextTarget}
    /\ Search([edges |-> Tree(comparison, NextTarget.side).edges,
               startIds |-> <<NextTarget.path>>,
               direction |-> "dependents",
               maxDepth |-> MaxDepth, maxEntities |-> MaxEntities])
    /\ UNCHANGED <<impacts, unresolved>> /\ Unchanged

MissingEntity ==
    /\ target = NoTarget /\ targets # {}
    /\ ~HasEntity(comparison, NextTarget)
    /\ unresolved' = unresolved \cup {NextTarget}
    /\ targets' = targets \ {NextTarget}
    /\ UNCHANGED <<traversalVars, target, impacts>> /\ Unchanged

Step == target # NoTarget /\ Traverse
        /\ UNCHANGED <<targets, target, impacts, unresolved>> /\ Unchanged

\* Plausible bug: the path is not turned around.
CanonicalPathBackwards(f) ==
    LET To[g \in Visited] ==
          IF g = target.path THEN <<g>> ELSE <<g>> \o To[nodes[g].predecessor]
    IN  To[f]

\* buildCanonicalPath: from the changed file to one it reaches, found backwards.
CanonicalPath(f) ==
    LET To[g \in Visited] ==
          IF g = target.path THEN <<g>> ELSE Append(To[nodes[g].predecessor], g)
    IN  To[f]

\* The result of a search, which is complete when nothing cut it nor the paths
\* given as evidence.
ImpactGot ==
    /\ target # NoTarget /\ ~searching
    /\ impacts' = impacts \cup
         {[target |-> target, files |-> DOMAIN nodes,
           paths |-> {CanonicalPath(f) : f \in FirstOf(DOMAIN nodes, MaxEvidencePaths)},
           complete |-> truncations = {} /\ Cardinality(DOMAIN nodes) <= MaxEvidencePaths]}
    /\ target' = NoTarget
    /\ UNCHANGED <<traversalVars, targets, unresolved>> /\ Unchanged

Impacted == UNION {entry.files : entry \in impacts}

\* Plausible bug: the working tree's rule for every answer.
IsCompleteWithCutSearches(allCuts) == unresolved = {} /\ allCuts = {}

IsComplete(allCuts) ==
    /\ unresolved = {}
    /\ allCuts = {}
    /\ \A entry \in impacts : entry.complete

Answer ==
    LET tooMany == {x \in {"max-impacted-entities"} :
                      Cardinality(Impacted) > MaxImpactedEntities}
    IN  /\ target = NoTarget /\ targets = {} /\ ~answer.given
        /\ cuts' = cuts \cup tooMany
        /\ answer' = [complete |-> IsComplete(cuts \cup tooMany),
                      impacted |-> FirstOf(Impacted, MaxImpactedEntities),
                      given |-> TRUE]
        /\ UNCHANGED <<traversalVars, comparison, targets, target, impacts, unresolved>>

ImpactNext == GetImpact \/ MissingEntity \/ Step \/ ImpactGot \/ Answer

ImpactSpec == ImpactInit /\ [][ImpactNext]_impactVars /\ WF_impactVars(ImpactNext)

-----------------------------------------------------------------------------
(* Properties *)

ImpactTypeOK ==
    /\ comparison \in Comparisons
    /\ target = NoTarget \/ HasEntity(comparison, target)
    /\ queue \in Seq(Files) /\ index \in 0..Len(queue)
    /\ neighbors \subseteq Files \ Visited
    /\ DOMAIN nodes \subseteq Files \ Starts
    /\ {queue[i] : i \in DOMAIN queue} = Visited
    /\ Len(queue) = Cardinality(Visited)
    /\ Cardinality(DOMAIN nodes) <= request.maxEntities
    /\ truncations \subseteq {"max-depth", "max-entities"}
    /\ cuts \subseteq {"max-changed-files", "max-targets", "max-impacted-entities"}

\* The files of a tree within a distance of one of them, and those that depend on
\* it at any distance.
ReachIn(tree, f, distance) ==
    LET Reach[k \in Nat] ==
          IF k = 0 THEN {f} ELSE LET r == Reach[k - 1]
                                 IN  r \cup {g \in tree.files : \E h \in r : <<g, h>> \in tree.edges}
    IN  Reach[distance]
DependentsIn(tree, f) == ReachIn(tree, f, Cardinality(Files)) \ {f}

\* An answer that calls itself complete left nothing out: every side of every
\* change was searched from, and every file that depends on one of them, in its
\* tree, is listed; whatever cut the list of changes, the targets, a search, its
\* evidence or the answer shows.
CompleteAnswerIsWhole ==
    (answer.given /\ answer.complete) =>
      /\ comparison.metadataComplete
      /\ \A change \in comparison.changes : \A t \in CommitFileSides(change) :
           /\ \E entry \in impacts : entry.target = t
           /\ DependentsIn(Tree(comparison, t.side), t.path) \subseteq answer.impacted

\* What an answer lists is really reached by a change, complete or not.
AnswerIsReached ==
    answer.given =>
      \A f \in answer.impacted : \E t \in TextSides(comparison) :
        HasEntity(comparison, t) /\ f \in DependentsIn(Tree(comparison, t.side), t.path)

\* Each path given as evidence leads from the changed file along the imports of its
\* tree to one it reaches, and no shorter one does; as many files have one as the
\* bound allows (buildCanonicalPath).
EvidenceIsShortest ==
    \A entry \in impacts :
      LET tree == Tree(comparison, entry.target.side)
      IN  /\ Cardinality(entry.paths) =
               Cardinality(FirstOf(entry.files, MaxEvidencePaths))
          /\ \A path \in entry.paths :
               /\ path[1] = entry.target.path
               /\ path[Len(path)] \in entry.files
               /\ \A i \in 1..(Len(path) - 1) : <<path[i + 1], path[i]>> \in tree.edges
               /\ path[Len(path)] \notin ReachIn(tree, path[1], Len(path) - 2)

=============================================================================
