------------------------- MODULE DependencyTraversal -------------------------
(***************************************************************************)
(* traverseDependencyGraph: the breadth-first search from some files along *)
(* the edges of one or more graphs, cut at a depth and at a number of      *)
(* files.  A step takes the next file of the queue, or one of its          *)
(* neighbours.  Files are numbered in the order of their identifiers; only *)
(* file nodes and the edges between them are followed, so that a graph is  *)
(* here its set of edges, each from the importer to the imported file.     *)
(***************************************************************************)
EXTENDS Integers, FiniteSets, Sequences

CONSTANT Files

ASSUME FilesAssumption == Files \subseteq Nat /\ IsFiniteSet(Files)

VARIABLES
    request,      \* [edges, startIds, direction, maxDepth, maxEntities]
    queue,        \* the files met, in order
    index,        \* how many of the queue have been taken
    neighbors,    \* of the file taken last, those left to look at
    nodes,        \* file met -> [depth, predecessor]
    truncations,  \* the bounds that cut the search
    searching     \* whether it has yet to return

traversalVars == <<request, queue, index, neighbors, nodes, truncations, searching>>

\* The search from startIds, and the state in which no search was started.
Search(r) ==
    /\ request' = r
    /\ queue' = r.startIds
    /\ index' = 0
    /\ neighbors' = {}
    /\ nodes' = [f \in {} |-> f]
    /\ truncations' = {}
    /\ searching' = TRUE

NoSearch ==
    /\ request = [edges |-> {}, startIds |-> <<>>, direction |-> "dependents",
                  maxDepth |-> 0, maxEntities |-> 1]
    /\ queue = <<>> /\ index = 0 /\ neighbors = {}
    /\ nodes = [f \in {} |-> f]
    /\ truncations = {}
    /\ searching = FALSE

-----------------------------------------------------------------------------

Starts == {request.startIds[i] : i \in DOMAIN request.startIds}
Visited == Starts \cup DOMAIN nodes
Current == queue[index]
Depth(f) == IF f \in DOMAIN nodes THEN nodes[f].depth ELSE 0

\* Plausible bug: the edges are followed the other way.
DependentsReversed(f) == {g \in Files : <<f, g>> \in request.edges}

Dependents(f) == {g \in Files : <<g, f>> \in request.edges}
Dependencies(f) == {g \in Files : <<f, g>> \in request.edges}
NeighborsOf(f) ==
    CASE request.direction = "dependents"   -> Dependents(f)
      [] request.direction = "dependencies" -> Dependencies(f)
      [] request.direction = "connected"    -> Dependents(f) \cup Dependencies(f)

\* The first of a set of files, as many as the limit allows.
FirstOf(files, limit) ==
    {f \in files : Cardinality({g \in files : g < f}) < limit}

\* One more than may still be added is asked for: the one more tells that the
\* search is cut.
CollectLimit ==
    LET left == request.maxEntities - Cardinality(DOMAIN nodes) + 1
    IN  IF left > 1 THEN left ELSE 1

Dequeue ==
    /\ searching /\ neighbors = {}
    /\ index < Len(queue)
    /\ index' = index + 1
    /\ neighbors' = FirstOf(NeighborsOf(queue[index + 1]) \ Visited, CollectLimit)
    /\ UNCHANGED <<request, queue, nodes, truncations, searching>>

First(files) == CHOOSE f \in files : \A g \in files : f <= g

\* Plausible bug: a neighbour too deep ends the search without a word.
TooDeepUntold(n) ==
    /\ Depth(Current) + 1 > request.maxDepth
    /\ neighbors' = neighbors \ {n}
    /\ UNCHANGED <<request, queue, index, nodes, truncations, searching>>

TooDeep(n) ==
    /\ Depth(Current) + 1 > request.maxDepth
    /\ truncations' = truncations \cup {"max-depth"}
    /\ neighbors' = neighbors \ {n}
    /\ UNCHANGED <<request, queue, index, nodes, searching>>

TooMany ==
    /\ Depth(Current) + 1 <= request.maxDepth
    /\ Cardinality(DOMAIN nodes) >= request.maxEntities
    /\ truncations' = truncations \cup {"max-entities"}
    /\ neighbors' = {}
    /\ searching' = FALSE
    /\ UNCHANGED <<request, queue, index, nodes>>

Meet(n) ==
    /\ Depth(Current) + 1 <= request.maxDepth
    /\ Cardinality(DOMAIN nodes) < request.maxEntities
    /\ nodes' = [f \in DOMAIN nodes \cup {n} |->
                   IF f = n THEN [depth |-> Depth(Current) + 1, predecessor |-> Current]
                            ELSE nodes[f]]
    /\ queue' = Append(queue, n)
    /\ neighbors' = neighbors \ {n}
    /\ UNCHANGED <<request, index, truncations, searching>>

\* Neighbours are looked at in the order of their identifiers.
TakeNeighbor ==
    /\ searching /\ neighbors # {}
    /\ LET n == First(neighbors) IN TooDeep(n) \/ TooMany \/ Meet(n)

SearchEnds ==
    /\ searching /\ neighbors = {}
    /\ index = Len(queue)
    /\ searching' = FALSE
    /\ UNCHANGED <<request, queue, index, neighbors, nodes, truncations>>

Traverse == Dequeue \/ TakeNeighbor \/ SearchEnds

-----------------------------------------------------------------------------
(* What a search promises *)

\* The files within each distance of the start.
Within[k \in Nat] ==
    IF k = 0 THEN Starts
             ELSE Within[k - 1] \cup UNION {NeighborsOf(f) : f \in Within[k - 1]}

Distance(f) == CHOOSE k \in 0..Cardinality(Files) :
                   f \in Within[k] /\ (k = 0 \/ f \notin Within[k - 1])
Reachable == Within[Cardinality(Files)]

\* A search that returned met each file at its shortest distance, the closest
\* first; it says it was cut at the depth when and only when something is
\* deeper, and at the number of files when and only when it left one out.
SearchIsExact ==
    LET met == DOMAIN nodes
        inReach == Within[request.maxDepth] \ Starts
    IN  (~searching /\ queue # <<>>) =>
          /\ met \subseteq inReach
          /\ \A f \in met : nodes[f].depth = Distance(f)
          /\ \A f \in met, g \in inReach \ met : nodes[f].depth <= Distance(g)
          /\ "max-entities" \in truncations <=> met # inReach
          /\ truncations = {} <=> met = Reachable \ Starts
=============================================================================
