--------------------------- MODULE DependencyGraph ---------------------------
(***************************************************************************)
(* What the pipeline computes from the files it parsed: the graph of their *)
(* imports, the architecture inferred from it, and the entities the DNA    *)
(* engine synthesizes; and what an incremental analysis keeps of the       *)
(* previous ones.  "files" is always a function from the parsed paths to   *)
(* what they contain, and the content of a file is the set of specifiers   *)
(* it imports or re-exports; the rest of a FileDNA is a function of it.    *)
(***************************************************************************)
EXTENDS Integers, FiniteSets, Sequences

CONSTANTS
    None,        \* no package, no directory of a layer
    Sources,     \* the paths of supported source files
    Packages,    \* the packages outside the repository
    Candidates,  \* specifier -> the paths it may resolve to, preferred first
    Package,     \* specifier -> the package it names when no path is known, or None
    Directory,   \* path -> the layer its directories put it in, or None
    LayerNames   \* path -> the layers its directories are named after

Specifiers == DOMAIN Candidates

ASSUME GraphAssumption ==
    /\ Candidates \in [Specifiers -> Seq(Sources)]
    /\ Package \in [Specifiers -> Packages \cup {None}]
    /\ None \notin Sources \cup Packages
    /\ Sources \cap Packages = {}
    /\ \A p \in Sources : None \notin LayerNames[p]

-----------------------------------------------------------------------------
(* Resolution and construction *)

FindKnownFile(paths, known) ==
    paths[CHOOSE i \in DOMAIN paths :
            /\ paths[i] \in known
            /\ \A j \in DOMAIN paths : j < i => paths[j] \notin known]

ResolveSpecifier(s, known) ==
    IF \E i \in DOMAIN Candidates[s] : Candidates[s][i] \in known
      THEN FindKnownFile(Candidates[s], known)
      ELSE Package[s]

\* The edges of one source; an unresolved specifier gives none.
EdgesOf(p, files) ==
    {<<p, ResolveSpecifier(s, DOMAIN files)>> : s \in files[p]} \ {<<p, None>>}

BuildForSources(files, sources) ==
    UNION {EdgesOf(p, files) : p \in sources \cap DOMAIN files}

Build(files) == BuildForSources(files, DOMAIN files)

\* Plausible bug: a new or removed path is not a reason to resolve everything again.
RepairReportedOnly(previousFiles, previousEdges, files, changed) ==
    BuildForSources(files, changed)
      \cup {e \in previousEdges : e[1] \in DOMAIN files \ changed}

\* Only the changed sources are resolved again, unless a path appeared or
\* disappeared, which may change what any specifier resolves to.
Repair(previousFiles, previousEdges, files, changed) ==
    IF DOMAIN previousFiles # DOMAIN files
      THEN Build(files)
      ELSE BuildForSources(files, changed) \cup {e \in previousEdges : e[1] \notin changed}

FileEdges(files, edges) == {e \in edges : e[2] \in DOMAIN files}
DependsOn(p, files, edges) == {q \in DOMAIN files : <<p, q>> \in edges}
DependedOnBy(p, files, edges) == {q \in DOMAIN files : <<q, p>> \in edges}

-----------------------------------------------------------------------------
(* The files an analysis refreshes *)

\* The heuristics count the files of the directories they know, list them as
\* evidence, and match the edges between them.
Architecture(files, edges) ==
    LET layered == {p \in DOMAIN files : Directory[p] # None}
    IN  [layers |-> layered, directions |-> edges \cap (layered \X layered)]

\* Every path connected to one of start, ignoring the direction of the edges.
Connected(start, paths, edges) ==
    {p \in paths :
       \A reached \in SUBSET paths :
         (/\ start \cap paths \subseteq reached
          /\ \A e \in edges \cap (paths \X paths) : e[1] \in reached <=> e[2] \in reached)
         => p \in reached}

\* Plausible bug: the closure follows the edges of the new graph alone.
DirtyPathsOfCurrent(previousFiles, previousEdges, files, edges, changed) ==
    IF Architecture(previousFiles, previousEdges) # Architecture(files, edges)
      THEN DOMAIN files
      ELSE (changed \cup Connected(changed, DOMAIN files, FileEdges(files, edges)))
           \cap DOMAIN files

\* calculateDirtyPaths with a previous result.
DirtyPaths(previousFiles, previousEdges, files, edges, changed) ==
    IF Architecture(previousFiles, previousEdges) # Architecture(files, edges)
      THEN DOMAIN files
      ELSE LET old == FileEdges(previousFiles, previousEdges)
               new == FileEdges(files, edges)
               paths == DOMAIN previousFiles \cup DOMAIN files
           IN  (changed \cup Connected(changed, paths, old \cup new)) \cap DOMAIN files

-----------------------------------------------------------------------------
(* Entities *)

AtMost(a, b) == IF a < b THEN a ELSE b
AtLeast(a, b) == IF a > b THEN a ELSE b

\* In thousandths: 70 % for the files that import it and 30 % for what it
\* imports, each relative to a tenth of the nodes of the graph.
Importance(p, files, edges) ==
    LET nodes == Cardinality(DOMAIN files \cup {e[2] : e \in edges})
        Share(degree) == AtMost(1000, (1000 * 10 * degree) \div AtLeast(10, nodes))
    IN  IF nodes <= 1
          THEN 500
          ELSE AtMost(1000, (  Share(Cardinality({e \in edges : e[2] = p})) * 7
                             + Share(Cardinality({e \in edges : e[1] = p})) * 3) \div 10)

\* The risk of a file that neither imports nor is imported.
IsOrphan(p, files, edges) ==
    /\ Cardinality(DOMAIN files) > 1
    /\ DependsOn(p, files, edges) = {}
    /\ DependedOnBy(p, files, edges) = {}

SynthesizeFile(p, files, edges) ==
    [content      |-> files[p],
     dependsOn    |-> DependsOn(p, files, edges),
     dependedOnBy |-> DependedOnBy(p, files, edges),
     layers       |-> LayerNames[p] \cap {Directory[q] : q \in DOMAIN files},
     importance   |-> Importance(p, files, edges),
     orphan       |-> IsOrphan(p, files, edges)]

Synthesize(files, edges) == [p \in DOMAIN files |-> SynthesizeFile(p, files, edges)]

SynthesizeIncremental(previousEntities, files, edges, dirty) ==
    [p \in DOMAIN files |->
       IF p \in DOMAIN previousEntities /\ p \notin dirty
         THEN previousEntities[p]
         ELSE SynthesizeFile(p, files, edges)]

=============================================================================
