---------------------- MODULE IncrementalAnalysis_proofs ----------------------
(***************************************************************************)
(* Proofs about the incremental analysis, for any repository, any edits,   *)
(* reports and failures: its baseline is what the files are, apart from    *)
(* those with a report pending or to come, and what it keeps of the        *)
(* previous analysis is what a full one would compute.                     *)
(***************************************************************************)
EXTENDS IncrementalAnalysis, WellFoundedInduction, TLAPS

-----------------------------------------------------------------------------
(* The graph *)

\* The functions from some of S to T
Maps(S, T) == UNION {[D -> T] : D \in SUBSET S}

\* The parsed files of an analysis, with the specifiers each imports
FileMaps == Maps(Sources, SUBSET Specifiers)

LEMMA FileMapFacts ==
    ASSUME NEW F \in FileMaps
    PROVE  /\ DOMAIN F \subseteq Sources
           /\ \A p \in DOMAIN F : F[p] \subseteq Specifiers
BY DEF FileMaps, Maps

\* Some candidate is the first that is known.
LEMMA FirstKnown ==
    ASSUME NEW s \in Specifiers, NEW known,
           \E i \in DOMAIN Candidates[s] : Candidates[s][i] \in known
    PROVE  \E i \in DOMAIN Candidates[s] :
             /\ Candidates[s][i] = ResolveSpecifier(s, known)
             /\ Candidates[s][i] \in known
             /\ \A j \in DOMAIN Candidates[s] : j < i => Candidates[s][j] \notin known
<1> DEFINE paths == Candidates[s]
           Hits == {i \in DOMAIN paths : paths[i] \in known}
           First(i) == /\ paths[i] \in known
                       /\ \A j \in DOMAIN paths : j < i => paths[j] \notin known
<1>1. DOMAIN paths \subseteq Nat
  BY GraphAssumption
<1>2. PICK i \in Hits : \A j \in Hits : ~(<<j, i>> \in OpToRel(<, Nat))
  <2>1. Hits \subseteq Nat /\ Hits # {}
    BY <1>1
  <2> HIDE DEF Hits
  <2>2. QED BY <2>1, NatLessThanWellFounded, WFMin, Zenon
<1>3. \A j \in Hits : ~(j < i)
  BY <1>1, <1>2 DEF OpToRel
<1>4. i \in DOMAIN paths /\ First(i)
  BY <1>3
<1>5. PICK k \in DOMAIN paths : k = (CHOOSE n \in DOMAIN paths : First(n)) /\ First(k)
  BY <1>4
<1>6. ResolveSpecifier(s, known) = paths[k]
  BY <1>5, Zenon DEF ResolveSpecifier, FindKnownFile
<1>7. QED BY <1>5, <1>6

\* A specifier that resolves to a file only while other files are known, resolved
\* to one of those otherwise.
LEMMA ResolutionChanges ==
    ASSUME NEW s \in Specifiers, NEW known \in SUBSET Sources, NEW others \in SUBSET Sources,
           ResolveSpecifier(s, known) \in Sources,
           ResolveSpecifier(s, known) \in others,
           ResolveSpecifier(s, others) # ResolveSpecifier(s, known)
    PROVE  ResolveSpecifier(s, others) \in others \ known
<1> DEFINE q == ResolveSpecifier(s, known)
           paths == Candidates[s]
<1>1. DOMAIN paths \subseteq Nat
  BY GraphAssumption
<1>2. \E i \in DOMAIN paths : paths[i] \in known
  <2>1. Package[s] \notin Sources
    BY GraphAssumption
  <2>2. QED BY <2>1 DEF ResolveSpecifier
<1>3. PICK i \in DOMAIN paths : /\ paths[i] = q
                                /\ \A j \in DOMAIN paths : j < i => paths[j] \notin known
  BY <1>2, FirstKnown
<1>4. PICK k \in DOMAIN paths : /\ paths[k] = ResolveSpecifier(s, others)
                                /\ paths[k] \in others
                                /\ \A j \in DOMAIN paths : j < k => paths[j] \notin others
  BY <1>3, FirstKnown
<1>5. k < i
  BY <1>1, <1>3, <1>4
<1>6. QED BY <1>3, <1>4, <1>5

\* If an import of x leads to y among the files F and not among G, then y was
\* removed, or another import edge leads to a file that is new.
LEMMA EdgesDiffer ==
    ASSUME NEW F \in FileMaps, NEW G \in FileMaps,
           NEW x \in DOMAIN F \cap DOMAIN G, F[x] = G[x],
           NEW y \in DOMAIN F, <<x, y>> \in EdgesOf(x, F), <<x, y>> \notin EdgesOf(x, G)
    PROVE  y \notin DOMAIN G \/ \E r \in DOMAIN G \ DOMAIN F : <<x, r>> \in EdgesOf(x, G)
<1> SUFFICES ASSUME y \in DOMAIN G
             PROVE  \E r \in DOMAIN G \ DOMAIN F : <<x, r>> \in EdgesOf(x, G)
  OBVIOUS
<1>1. DOMAIN F \in SUBSET Sources /\ DOMAIN G \in SUBSET Sources /\ F[x] \subseteq Specifiers
  BY FileMapFacts
<1>2. PICK s \in F[x] : y = ResolveSpecifier(s, DOMAIN F)
  BY DEF EdgesOf
<1>3. s \in Specifiers /\ s \in G[x] /\ None \notin Sources
  BY <1>1, GraphAssumption
<1>4. ResolveSpecifier(s, DOMAIN G) # y
  BY <1>1, <1>3 DEF EdgesOf
<1>5. ResolveSpecifier(s, DOMAIN G) \in DOMAIN G \ DOMAIN F
  BY <1>1, <1>2, <1>3, <1>4, ResolutionChanges
<1>6. QED BY <1>1, <1>3, <1>5 DEF EdgesOf

\* Where every file that differs is known to have changed
ChangesKnown(F, G, changed) ==
    \A q \in (DOMAIN F \cup DOMAIN G) \ changed :
      q \in DOMAIN F /\ q \in DOMAIN G /\ F[q] = G[q]

LEMMA BuiltEdges ==
    ASSUME NEW F
    PROVE  /\ \A e \in Build(F) : e[1] \in DOMAIN F /\ e \in EdgesOf(e[1], F)
           /\ \A p \in DOMAIN F : EdgesOf(p, F) = {e \in Build(F) : e[1] = p}
           /\ \A p : \A e \in EdgesOf(p, F) : e[1] = p
BY DEF Build, BuildForSources, EdgesOf

\* A repaired graph is the one a full resolution builds.
LEMMA RepairBuilds ==
    ASSUME NEW F, NEW G, NEW changed, ChangesKnown(F, G, changed)
    PROVE  Repair(F, Build(F), G, changed) = Build(G)
<1>1. CASE DOMAIN F # DOMAIN G
  BY <1>1 DEF Repair
<1>2. CASE DOMAIN F = DOMAIN G
  <2>1. \A p \in DOMAIN G \ changed : EdgesOf(p, F) = EdgesOf(p, G)
    BY <1>2 DEF ChangesKnown, EdgesOf
  <2>2. Build(G) = BuildForSources(G, changed) \cup UNION {EdgesOf(p, G) : p \in DOMAIN G \ changed}
    BY DEF Build, BuildForSources
  <2>3. {e \in Build(F) : e[1] \notin changed} = UNION {EdgesOf(p, F) : p \in DOMAIN F \ changed}
    BY BuiltEdges
  <2>4. UNION {EdgesOf(p, F) : p \in DOMAIN F \ changed} = UNION {EdgesOf(p, G) : p \in DOMAIN G \ changed}
    BY <1>2, <2>1
  <2>5. QED BY <1>2, <2>2, <2>3, <2>4 DEF Repair
<1>3. QED BY <1>1, <1>2

\* A file that no path connects with a changed one keeps its neighbours.
LEMMA NeighboursKept ==
    ASSUME NEW F \in FileMaps, NEW G \in FileMaps, NEW reached,
           ChangesKnown(F, G, reached),
           \A e \in FileEdges(F, Build(F)) \cup FileEdges(G, Build(G)) :
              e[1] \in reached <=> e[2] \in reached,
           NEW p \in DOMAIN F, p \notin reached,
           NEW q \in DOMAIN F
    PROVE  /\ <<p, q>> \in Build(F) => q \in DOMAIN G /\ <<p, q>> \in Build(G)
           /\ <<q, p>> \in Build(F) => q \in DOMAIN G /\ <<q, p>> \in Build(G)
<1>1. ASSUME NEW x \in DOMAIN F, NEW y \in DOMAIN F, <<x, y>> \in Build(F),
             x \notin reached, y \notin reached
      PROVE  <<x, y>> \in Build(G)
  <2>1. x \in DOMAIN G /\ y \in DOMAIN G /\ F[x] = G[x] /\ <<x, y>> \in EdgesOf(x, F)
    BY <1>1, BuiltEdges DEF ChangesKnown
  <2>2. ASSUME NEW r \in DOMAIN G \ DOMAIN F, <<x, r>> \in EdgesOf(x, G)
        PROVE  FALSE
    <3>1. <<x, r>> \in FileEdges(G, Build(G))
      BY <2>1, <2>2, BuiltEdges DEF FileEdges
    <3>2. r \notin reached
      BY <1>1, <3>1
    <3>3. QED BY <2>2, <3>2 DEF ChangesKnown
  <2>3. <<x, y>> \in EdgesOf(x, G)
    BY <2>1, <2>2, EdgesDiffer
  <2>4. QED BY <2>1, <2>3, BuiltEdges
<1>2. ASSUME <<p, q>> \in Build(F) \/ <<q, p>> \in Build(F)
      PROVE  q \notin reached /\ q \in DOMAIN G
  <2>1. q \notin reached
    BY <1>2 DEF FileEdges
  <2>2. QED BY <2>1 DEF ChangesKnown
<1>3. QED BY <1>1, <1>2

\* What is not dirty keeps its content, its neighbours and its layers.
LEMMA RelationsKept ==
    ASSUME NEW F \in FileMaps, NEW G \in FileMaps, NEW changed, ChangesKnown(F, G, changed),
           NEW p \in DOMAIN G, p \in DOMAIN F,
           p \notin DirtyPaths(F, Build(F), G, Build(G), changed)
    PROVE  Relations(SynthesizeFile(p, F, Build(F))) = Relations(SynthesizeFile(p, G, Build(G)))
<1> DEFINE E == Build(F)
           D == Build(G)
           edges == FileEdges(F, E) \cup FileEdges(G, D)
           paths == DOMAIN F \cup DOMAIN G
<1>1. /\ Architecture(F, E) = Architecture(G, D)
      /\ p \notin changed
      /\ p \notin Connected(changed, paths, edges)
  BY DEF DirtyPaths
<1>2. PICK reached \in SUBSET paths :
        /\ changed \cap paths \subseteq reached
        /\ \A e \in edges \cap (paths \X paths) : e[1] \in reached <=> e[2] \in reached
        /\ p \notin reached
  <2> HIDE DEF edges, paths
  <2>1. p \in paths
    BY DEF paths
  <2>2. QED BY <1>1, <2>1, Zenon DEF Connected
<1>3. edges \subseteq paths \X paths
  <2>1. ASSUME NEW H, NEW e \in FileEdges(H, Build(H)) PROVE e \in (DOMAIN H) \X (DOMAIN H)
    <3>1. e \in Build(H) /\ e[2] \in DOMAIN H /\ e[1] \in DOMAIN H /\ e \in EdgesOf(e[1], H)
      BY BuiltEdges DEF FileEdges
    <3>2. e = <<e[1], e[2]>>
      BY <3>1 DEF EdgesOf
    <3>3. QED BY <3>1, <3>2
  <2>2. QED BY <2>1
<1>4. \A e \in edges : e[1] \in reached <=> e[2] \in reached
  BY <1>2, <1>3
<1>5. ChangesKnown(F, G, reached) /\ ChangesKnown(G, F, reached)
  BY <1>2 DEF ChangesKnown
<1>6. \A q \in DOMAIN F : /\ <<p, q>> \in E => q \in DOMAIN G /\ <<p, q>> \in D
                          /\ <<q, p>> \in E => q \in DOMAIN G /\ <<q, p>> \in D
  BY <1>2, <1>4, <1>5, NeighboursKept
<1>7. \A q \in DOMAIN G : /\ <<p, q>> \in D => q \in DOMAIN F /\ <<p, q>> \in E
                          /\ <<q, p>> \in D => q \in DOMAIN F /\ <<q, p>> \in E
  BY <1>2, <1>4, <1>5, NeighboursKept
<1> HIDE DEF E, D, edges, paths
<1>8. /\ DependsOn(p, F, E) = DependsOn(p, G, D)
      /\ DependedOnBy(p, F, E) = DependedOnBy(p, G, D)
  BY <1>6, <1>7 DEF DependsOn, DependedOnBy
<1>9. F[p] = G[p]
  BY <1>1 DEF ChangesKnown
<1>10. LayerNames[p] \cap {Directory[q] : q \in DOMAIN F} = LayerNames[p] \cap {Directory[q] : q \in DOMAIN G}
  <2>1. {q \in DOMAIN F : Directory[q] # None} = {q \in DOMAIN G : Directory[q] # None}
    BY <1>1 DEF Architecture
  <2>2. None \notin LayerNames[p]
    BY FileMapFacts, GraphAssumption
  <2>3. QED BY <2>1, <2>2
<1>11. Relations(SynthesizeFile(p, F, E)) = Relations(SynthesizeFile(p, G, D))
  BY <1>8, <1>9, <1>10, Zenon DEF Relations, SynthesizeFile
<1>12. QED BY <1>11 DEF E, D

-----------------------------------------------------------------------------
(* The inductive invariant *)

Manifests == Maps(Paths, Nat)
Told == unreported \cup pending

\* An analysis that keeps the paths it was told of
Current == baseline # None /\ ~overflow
Underway == run.stage # "idle" /\ ~run.superseded

Runs ==
    [stage : {"idle", "scan", "read"}, incremental : BOOLEAN, changed : SUBSET (Paths \cup Folders),
     ignored : SUBSET Paths, manifest : Manifests, toScan : SUBSET Paths, toRead : SUBSET Sources,
     files : FileMaps, failed : SUBSET Sources, superseded : BOOLEAN]

TypeInv ==
    /\ disk \in [Paths -> [content : FileContents \cup SUBSET Paths, stamp : Nat]]
    /\ Content(GitIgnore) \in (SUBSET Paths) \cup {Absent}
    /\ run \in Runs
    /\ run.stage # "read" => DOMAIN run.files = {} /\ run.failed = {} /\ run.toRead = {}
    /\ run.stage # "scan" => run.toScan = {}
    /\ run.toRead \cap (DOMAIN run.files \cup run.failed) = {}
    /\ run.incremental => baseline # None
    /\ baseline # None => baseline.files \in FileMaps /\ baseline.manifest \in Manifests

\* A file that was not told of is as it was read, unless its folder was removed.
ContentInv ==
    /\ Current => \A p \in DOMAIN baseline.files \ Told : Content(p) \in {baseline.files[p], Absent}
    /\ Underway => \A p \in DOMAIN run.files \ unreported : Content(p) \in {run.files[p], Absent}

\* A file that was not told of, nor its folder, is listed if it is there.
ManifestInv ==
    /\ Current /\ GitIgnore \notin Told =>
         \A p \in Sources \ Known : p \in DOMAIN baseline.manifest <=> IsThere(p, Ignored)
    /\ Underway /\ GitIgnore \notin unreported =>
         /\ run.ignored = Ignored
         /\ \A p \in Sources \ (unreported \cup FilesOf(unreported) \cup run.toScan) :
               p \in DOMAIN run.manifest <=> IsThere(p, Ignored)

\* The imports of a file that was not told of are resolved among the files.
EdgeInv ==
    Current => \A p \in DOMAIN baseline.files \ Told :
                 {e \in baseline.edges : e[1] = p} = EdgesOf(p, baseline.files)

\* An analysis that was not superseded goes on from what it captured, and reads
\* what the baseline has of the files that were not told of.
CaptureInv ==
    Underway =>
      /\ run.changed = pending
      /\ run.incremental =>
           /\ Current
           /\ \A p \in (DOMAIN run.files \cap DOMAIN baseline.files) \ Told :
                 run.files[p] = baseline.files[p]

Inv ==
    /\ TypeInv /\ IncrementalTypeOK
    /\ ContentInv /\ ManifestInv /\ EdgeInv /\ CaptureInv

LEMMA EmptyMap ==
    /\ <<>> \in FileMaps /\ <<>> \in Manifests
    /\ DOMAIN <<>> = {}
<1>1. DOMAIN <<>> = {}
  OBVIOUS
<1>2. <<>> \in [{} -> SUBSET Specifiers] /\ <<>> \in [{} -> Nat]
  BY <1>1
<1>3. QED BY <1>1, <1>2 DEF FileMaps, Manifests, Maps

LEMMA MapUpdate ==
    ASSUME NEW S, NEW T, NEW m \in Maps(S, T),
           NEW p \in S, NEW v \in T
    PROVE  [q \in DOMAIN m \cup {p} |-> IF q = p THEN v ELSE m[q]] \in Maps(S, T)
<1>1. PICK D \in SUBSET S : m \in [D -> T]
  BY DEF Maps
<1>2. D \cup {p} \in SUBSET S
  OBVIOUS
<1>3. [q \in DOMAIN m \cup {p} |-> IF q = p THEN v ELSE m[q]] \in [D \cup {p} -> T]
  BY <1>1
<1>4. QED BY <1>2, <1>3 DEF Maps

LEMMA MapRestriction ==
    ASSUME NEW S, NEW T, NEW m \in Maps(S, T), NEW R \in SUBSET DOMAIN m
    PROVE  [q \in R |-> m[q]] \in Maps(S, T)
<1>1. PICK D \in SUBSET S : m \in [D -> T]
  BY DEF Maps
<1>2. R \in SUBSET S /\ [q \in R |-> m[q]] \in [R -> T]
  BY <1>1
<1>3. QED BY <1>2 DEF Maps

LEMMA InitInv == Init => Inv
<1> SUFFICES ASSUME Init PROVE Inv
  OBVIOUS
<1>1. \A p \in Paths : Initially[p] \in FileContents \cup SUBSET Paths
  BY IncrementalAssumption DEF Paths, FileContents
<1>2. \A p \in Sources : Content(p) \in FileContents
  BY IncrementalAssumption DEF Init, Content, Paths
<1>3. /\ run.stage = "idle" /\ run.toScan = {} /\ run.toRead = {} /\ run.failed = {} /\ run.changed = {}
      /\ run.manifest = <<>> /\ run.files = <<>> /\ run.ignored = {}
      /\ run.incremental = FALSE /\ run.superseded = FALSE
      /\ run \in Runs
  BY EmptyMap, Zenon DEF Init, Idle, Runs
<1>4. TypeInv
  <2>1. Content(GitIgnore) \in (SUBSET Paths) \cup {Absent}
    BY IncrementalAssumption DEF Init, Content, Paths
  <2>2. QED BY <1>1, <1>3, <2>1, EmptyMap DEF Init, TypeInv
<1>5. IncrementalTypeOK
  <2>1. DOMAIN run.manifest = {} /\ DOMAIN run.files = {}
    BY <1>3, EmptyMap
  <2>2. IsAnalysis(run)
    BY <1>3, <2>1 DEF IsAnalysis
  <2>3. edits = 0 /\ readFailures = 0 /\ unreported = {} /\ pending = {} /\ baseline = None
        /\ overflow \in BOOLEAN
    BY DEF Init
  <2>4. edits \in 0 .. MaxEdits /\ readFailures \in 0 .. MaxReadFailures
    BY <2>3, IncrementalAssumption
  <2>5. QED BY <1>2, <1>3, <2>2, <2>3, <2>4 DEF IncrementalTypeOK
<1>6. ContentInv /\ ManifestInv /\ EdgeInv /\ CaptureInv
  BY <1>3 DEF Init, ContentInv, ManifestInv, EdgeInv, CaptureInv, Current, Underway
<1>7. QED BY <1>4, <1>5, <1>6 DEF Inv

\* An edit, or the removal of a folder, whose report is to come
LEMMA DiskChangesInv ==
    ASSUME Inv, NEW x \in Paths \cup Folders,
           disk' \in [Paths -> [content : FileContents \cup SUBSET Paths, stamp : Nat]],
           \A p \in Sources : disk'[p].content \in FileContents,
           disk'[GitIgnore].content \in (SUBSET Paths) \cup {Absent},
           \A p \in Paths : \/ disk'[p] = disk[p]
                            \/ p = x
                            \/ p \in FilesOf({x}) /\ disk'[p].content = Absent,
           unreported' = unreported \cup {x}, edits < MaxEdits, edits' = edits + 1,
           UNCHANGED <<pending, overflow, baseline, run, readFailures>>
    PROVE  Inv'
<1>1. TypeInv'
  BY DEF Inv, TypeInv, Content
<1>2. edits' \in 0 .. MaxEdits
  BY IncrementalAssumption DEF Inv, IncrementalTypeOK
<1>3. IncrementalTypeOK'
  BY <1>2 DEF Inv, IncrementalTypeOK, Content
<1>4. \A p \in Paths : p \notin unreported' =>
         Content(p)' = Content(p) \/ Content(p)' = Absent
  BY DEF Content
<1>5. \A p \in Paths : p \notin unreported' /\ p \notin FilesOf(unreported') => Content(p)' = Content(p)
  BY DEF Content, FilesOf
<1>6. GitIgnore \notin unreported' => Ignored' = Ignored
  BY <1>5, IncrementalAssumption DEF Ignored, FilesOf, Paths
<1>7. ContentInv'
  <2>1. Current' = Current /\ Underway' = Underway /\ unreported \subseteq unreported' /\ Told \subseteq Told'
    BY DEF Current, Underway, Told
  <2>2. /\ run.files \in FileMaps
        /\ Current => baseline.files \in FileMaps
    BY DEF Inv, TypeInv, Runs, Current
  <2>3. /\ Current => DOMAIN baseline.files \subseteq Paths
        /\ DOMAIN run.files \subseteq Paths
    BY <2>2, FileMapFacts DEF Paths
  <2>4. \A p : p \notin Told' => p \notin unreported'
    BY DEF Told
  <2>5. QED BY <1>4, <2>1, <2>3, <2>4 DEF Inv, ContentInv
<1>8. ManifestInv'
  <2>1. /\ unreported \subseteq unreported' /\ Told \subseteq Told' /\ Known \subseteq Known'
        /\ FilesOf(unreported) \subseteq FilesOf(unreported')
        /\ \A p : p \notin Known' => p \notin unreported' /\ p \notin FilesOf(unreported')
    BY DEF Told, Known, FilesOf
  <2>2. GitIgnore \notin unreported' =>
          \A p \in Sources : p \notin unreported' /\ p \notin FilesOf(unreported') =>
             (IsThere(p, Ignored)' <=> IsThere(p, Ignored))
    BY <1>5, <1>6 DEF IsThere, Paths
  <2>3. Current /\ GitIgnore \notin Told' =>
         \A p \in Sources \ Known' : p \in DOMAIN baseline.manifest <=> IsThere(p, Ignored)'
    BY <2>1, <2>2 DEF Inv, ManifestInv, Told
  <2>4. Underway /\ GitIgnore \notin unreported' =>
         /\ run.ignored = Ignored'
         /\ \A p \in Sources \ (unreported' \cup FilesOf(unreported') \cup run.toScan) :
               p \in DOMAIN run.manifest <=> IsThere(p, Ignored)'
    BY <1>6, <2>1, <2>2 DEF Inv, ManifestInv
  <2>5. QED BY <2>3, <2>4 DEF ManifestInv, Current, Underway
<1>9. EdgeInv' /\ CaptureInv'
  BY DEF Inv, EdgeInv, CaptureInv, Current, Underway, Told
<1>10. QED BY <1>1, <1>3, <1>7, <1>8, <1>9 DEF Inv

LEMMA EditsInv ==
    ASSUME Inv,
           \/ \E p \in Paths : \E content \in Edits[p] : Edit(p, content)
           \/ \E d \in Folders : RemoveFolder(d)
    PROVE  Inv'
<1>1. disk \in [Paths -> [content : FileContents \cup SUBSET Paths, stamp : Nat]]
      /\ \A q \in Sources : disk[q].content \in FileContents
  BY DEF Inv, TypeInv, IncrementalTypeOK, Content
<1>2. ASSUME NEW p \in Paths, NEW content \in Edits[p], Edit(p, content)
      PROVE  Inv'
  <2>1. /\ content \in FileContents \cup SUBSET Paths
        /\ p \in Sources => content \in FileContents
    BY IncrementalAssumption DEF Paths, FileContents
  <2>2. disk' = [disk EXCEPT ![p] = [content |-> content, stamp |-> disk[p].stamp + 1]]
    BY <1>2 DEF Edit
  <2>3. disk' \in [Paths -> [content : FileContents \cup SUBSET Paths, stamp : Nat]]
    BY <1>1, <2>1, <2>2
  <2>4. \A q \in Paths : disk'[q] = IF q = p THEN [content |-> content, stamp |-> disk[p].stamp + 1] ELSE disk[q]
    BY <1>1, <2>2
  <2>5. \A q \in Sources : disk'[q].content \in FileContents
    BY <1>1, <2>1, <2>4 DEF Paths
  <2>6. \A q \in Paths : disk'[q] = disk[q] \/ q = p
    BY <2>4
  <2>7. disk'[GitIgnore].content \in (SUBSET Paths) \cup {Absent}
    BY <1>1, <2>4, IncrementalAssumption DEF Paths, Inv, TypeInv, Content
  <2>8. QED BY <1>2, <2>3, <2>5, <2>6, <2>7, DiskChangesInv DEF Edit
<1>3. ASSUME NEW d \in Folders, RemoveFolder(d)
      PROVE  Inv'
  <2> DEFINE gone == {p \in FilesOf({d}) : Content(p) # Absent}
  <2>1. disk' = [p \in Paths |-> IF p \in gone
                                   THEN [content |-> Absent, stamp |-> disk[p].stamp + 1]
                                   ELSE disk[p]]
    BY <1>3 DEF RemoveFolder
  <2>2. Absent \in FileContents
    BY DEF FileContents
  <2>3. disk' \in [Paths -> [content : FileContents \cup SUBSET Paths, stamp : Nat]]
    BY <1>1, <2>1, <2>2
  <2>4. \A q \in Sources : disk'[q].content \in FileContents
    BY <1>1, <2>1, <2>2 DEF Paths
  <2>5. \A q \in Paths : disk'[q] = disk[q] \/ (q \in FilesOf({d}) /\ disk'[q].content = Absent)
    BY <2>1
  <2>6. disk'[GitIgnore].content \in (SUBSET Paths) \cup {Absent}
    BY <2>1, IncrementalAssumption DEF Paths, FilesOf, Inv, TypeInv, Content
  <2>7. QED BY <1>3, <2>3, <2>4, <2>5, <2>6, DiskChangesInv DEF RemoveFolder
<1>4. QED BY <1>2, <1>3

\* A report, or the loss of some: an analysis under way is superseded.
LEMMA ReportsInv ==
    ASSUME Inv,
           \/ \E p \in Paths \cup Folders : Report(p)
           \/ \E lost \in SUBSET unreported : LoseReports(lost)
    PROVE  Inv'
<1>1. /\ Supersede
      /\ UNCHANGED <<disk, baseline, edits, readFailures>>
      /\ (Told' = Told /\ overflow' = overflow) \/ overflow' = TRUE
      /\ unreported' \subseteq Paths \cup Folders /\ pending' \subseteq Paths \cup Folders
      /\ overflow' \in BOOLEAN
  BY DEF Report, LoseReports, Told, Inv, IncrementalTypeOK
<1>2. /\ run' \in Runs /\ run'.stage = run.stage /\ run'.manifest = run.manifest
      /\ run'.files = run.files /\ run'.failed = run.failed
      /\ run'.toScan = run.toScan /\ run'.toRead = run.toRead /\ run'.incremental = run.incremental
      /\ run'.superseded = (run.stage # "idle")
  BY <1>1 DEF Supersede, Inv, TypeInv, Runs
<1>3. TypeInv'
  BY <1>1, <1>2 DEF Inv, TypeInv, Content
<1>4. IncrementalTypeOK'
  BY <1>1, <1>2 DEF Inv, IncrementalTypeOK, IsAnalysis, Content
<1>5. ~Underway'
  BY <1>2 DEF Underway
<1>6. Current' => Current /\ Told' = Told
  BY <1>1 DEF Current
<1>7. Current' => Known' = Known
  BY <1>6 DEF Known, Told
<1>8. ContentInv' /\ ManifestInv' /\ EdgeInv' /\ CaptureInv'
  BY <1>1, <1>5, <1>6, <1>7
  DEF Inv, ContentInv, ManifestInv, EdgeInv, CaptureInv, Content, IsThere, Ignored
<1>9. QED BY <1>3, <1>4, <1>8 DEF Inv

\* A cancelled or failed analysis leaves everything as it was.
LEMMA FailInv == ASSUME Inv, Fail PROVE Inv'
<1>1. /\ run' = Idle /\ run'.stage = "idle" /\ run'.toScan = {} /\ run'.toRead = {} /\ run'.failed = {}
      /\ run'.manifest = <<>> /\ run'.files = <<>> /\ run'.incremental = FALSE
      /\ run' \in Runs
      /\ UNCHANGED <<disk, unreported, pending, overflow, baseline, edits, readFailures>>
  BY EmptyMap DEF Fail, Idle, Runs
<1>2. TypeInv'
  BY <1>1, EmptyMap DEF Inv, TypeInv, Content
<1>3. IncrementalTypeOK'
  BY <1>1, EmptyMap DEF Inv, IncrementalTypeOK, IsAnalysis, Content
<1>4. ContentInv' /\ ManifestInv' /\ EdgeInv' /\ CaptureInv'
  BY <1>1
  DEF Inv, ContentInv, ManifestInv, EdgeInv, CaptureInv, Content, IsThere, Ignored, Current, Underway, Told, Known
<1>5. QED BY <1>2, <1>3, <1>4 DEF Inv

\* What an analysis lists before its scan is right of the files it does not scan.
LEMMA StartInv == ASSUME Inv, NEW forceFull \in BOOLEAN, Start(forceFull) PROVE Inv'
<1> DEFINE incremental == ~forceFull /\ ~overflow /\ baseline # None
           reconciles == incremental /\ ~RequiresFullScan(pending)
<1>1. /\ run'.stage = "scan" /\ run'.incremental = incremental /\ run'.changed = pending
      /\ run'.ignored = Ignored
      /\ run'.manifest = (IF reconciles THEN baseline.manifest ELSE <<>>)
      /\ run'.toScan = (IF reconciles THEN pending \ Folders ELSE Paths)
      /\ run'.toRead = {} /\ run'.failed = {} /\ run'.files = <<>> /\ run'.superseded = FALSE
      /\ DOMAIN run' = {"stage", "incremental", "changed", "ignored", "manifest", "toScan", "toRead",
                        "files", "failed", "superseded"}
      /\ run' = [stage |-> run'.stage, incremental |-> run'.incremental, changed |-> run'.changed,
                 ignored |-> run'.ignored, manifest |-> run'.manifest, toScan |-> run'.toScan,
                 toRead |-> run'.toRead, files |-> run'.files, failed |-> run'.failed,
                 superseded |-> run'.superseded]
      /\ UNCHANGED <<disk, unreported, pending, overflow, baseline, edits, readFailures>>
  BY DEF Start, Idle
<1>2. /\ incremental \in BOOLEAN
      /\ pending \subseteq Paths \cup Folders
      /\ reconciles => baseline # None /\ ~overflow
  BY DEF Inv, IncrementalTypeOK
<1> HIDE DEF incremental, reconciles
<1>3. Ignored \in SUBSET Paths
  BY DEF Ignored, Inv, TypeInv
<1>4. run' \in Runs
  <2>1. run'.manifest \in Manifests
    BY <1>1, <1>2, EmptyMap DEF Inv, TypeInv
  <2>2. run'.toScan \in SUBSET Paths
    BY <1>1, <1>2
  <2>3. run'.files \in FileMaps
    BY <1>1, EmptyMap
  <2>4. QED BY <1>1, <1>2, <1>3, <2>1, <2>2, <2>3 DEF Runs
<1>5. DOMAIN run'.files = {}
  BY <1>1, EmptyMap
<1>6. TypeInv'
  BY <1>1, <1>4, <1>5 DEF Inv, TypeInv, Content, incremental
<1>7. IncrementalTypeOK'
  <2>1. DOMAIN run'.manifest \subseteq Paths
    BY <1>4 DEF Runs, Manifests, Maps
  <2>2. IsAnalysis(run)'
    BY <1>1, <1>5, <2>1 DEF IsAnalysis
  <2>3. run'.toScan \subseteq Paths
    BY <1>1, <1>2
  <2>4. QED BY <1>1, <2>2, <2>3 DEF Inv, IncrementalTypeOK, Content
<1>8. ManifestInv'
  <2> SUFFICES ASSUME GitIgnore \notin unreported,
                      NEW p \in Sources \ (unreported \cup FilesOf(unreported) \cup run'.toScan)
               PROVE  p \in DOMAIN run'.manifest <=> IsThere(p, Ignored)
    BY <1>1 DEF Inv, ManifestInv, Current, Underway, Told, Known, IsThere, Ignored, Content
  <2>1. p \in Paths /\ p \notin Folders
    BY IncrementalAssumption DEF Paths
  <2>2. reconciles /\ p \notin pending
    BY <1>1, <2>1
  <2>3. /\ Current /\ run'.manifest = baseline.manifest
        /\ GitIgnore \notin pending
        /\ p \in FilesOf(pending) => Content(p) = Absent /\ p \notin DOMAIN baseline.manifest
    BY <1>1, <1>2, <2>2 DEF Current, reconciles, RequiresFullScan
  <2>4. CASE p \in FilesOf(pending)
    BY <2>3, <2>4 DEF IsThere
  <2>5. CASE p \notin FilesOf(pending)
    <3>1. p \notin Known /\ GitIgnore \notin Told
      BY <2>2, <2>3, <2>5 DEF Known, Told, FilesOf
    <3>2. QED BY <2>3, <3>1 DEF Inv, ManifestInv
  <2>6. QED BY <2>4, <2>5
<1>9. ContentInv' /\ EdgeInv' /\ CaptureInv'
  BY <1>1, <1>2, <1>5
  DEF Inv, ContentInv, EdgeInv, CaptureInv, Current, Underway, Told, Content, incremental
<1>10. QED BY <1>6, <1>7, <1>8, <1>9 DEF Inv

LEMMA ScanEntryInv == ASSUME Inv, NEW p \in Paths, ScanEntry(p) PROVE Inv'
<1> DEFINE others == [q \in DOMAIN run.manifest \ {p} |-> run.manifest[q]]
           listed == [q \in DOMAIN others \cup {p} |-> IF q = p THEN disk[p].stamp ELSE others[q]]
           manifest == IF IsThere(p, run.ignored) THEN listed ELSE others
<1>1. /\ run.stage = "scan" /\ p \in run.toScan
      /\ run' = [run EXCEPT !.toScan = @ \ {p}, !.manifest = manifest]
      /\ UNCHANGED <<disk, unreported, pending, overflow, baseline, edits, readFailures>>
  BY DEF ScanEntry
<1>2. run \in Runs /\ run.manifest \in Manifests
  BY DEF Inv, TypeInv, Runs
<1>3. others \in Manifests
  <2>1. DOMAIN run.manifest \ {p} \in SUBSET DOMAIN run.manifest
    OBVIOUS
  <2>2. QED BY <1>2, <2>1, MapRestriction, Zenon DEF Manifests
<1>4. disk[p].stamp \in Nat
  BY DEF Inv, TypeInv
<1>5. listed \in Manifests
  <2> HIDE DEF others
  <2>1. QED BY <1>3, <1>4, MapUpdate, Zenon DEF Manifests
<1>6. manifest \in Manifests /\ DOMAIN manifest \subseteq Paths
  <2>1. manifest \in Manifests
    <3> HIDE DEF others, listed
    <3>1. QED BY <1>3, <1>5
  <2> HIDE DEF manifest
  <2>2. QED BY <2>1 DEF Manifests, Maps
<1>7. \A q : q \in DOMAIN manifest <=> IF q = p THEN IsThere(p, run.ignored) ELSE q \in DOMAIN run.manifest
  OBVIOUS
<1> HIDE DEF manifest
<1>8. /\ run' \in Runs /\ run'.stage = "scan" /\ run'.manifest = manifest
      /\ run'.toScan = run.toScan \ {p}
      /\ run'.files = run.files /\ run'.failed = run.failed /\ run'.toRead = run.toRead
      /\ run'.superseded = run.superseded /\ run'.incremental = run.incremental
      /\ run'.changed = run.changed /\ run'.ignored = run.ignored
  BY <1>1, <1>2, <1>6 DEF Runs
<1>9. TypeInv'
  BY <1>1, <1>8 DEF Inv, TypeInv, Content
<1>10. IncrementalTypeOK'
  <2>1. DOMAIN run.files = {} /\ run.failed = {}
    BY <1>1 DEF Inv, TypeInv
  <2>2. IsAnalysis(run)'
    BY <1>6, <1>8, <2>1 DEF IsAnalysis
  <2>3. QED BY <1>1, <1>8, <2>2 DEF Inv, IncrementalTypeOK, Content
<1>11. ManifestInv'
  BY <1>1, <1>7, <1>8
  DEF Inv, ManifestInv, Current, Underway, Told, Known, IsThere, Ignored, Content
<1>12. ContentInv' /\ EdgeInv' /\ CaptureInv'
  BY <1>1, <1>8 DEF Inv, ContentInv, EdgeInv, CaptureInv, Current, Underway, Told, Content
<1>13. QED BY <1>9, <1>10, <1>11, <1>12 DEF Inv

\* What is kept without being read is as it was in the baseline.
LEMMA ScanEndsInv == ASSUME Inv, ScanEnds PROVE Inv'
<1> DEFINE supported == DOMAIN run.manifest \cap Sources
           unobserved == {p \in supported : ~MustObserve(p)}
           kept == unobserved \cap DOMAIN baseline.files
           keptFailed == (unobserved \cap baseline.failed) \ kept
           files == IF run.incremental THEN [p \in kept |-> baseline.files[p]] ELSE run.files
           failed == IF run.incremental THEN keptFailed ELSE run.failed
           toRead == IF run.incremental THEN supported \ (kept \cup keptFailed) ELSE supported
<1>1. /\ run.stage = "scan" /\ run.toScan = {}
      /\ run \in Runs
      /\ DOMAIN run.files = {} /\ run.failed = {} /\ run.files \in FileMaps
      /\ UNCHANGED <<disk, unreported, pending, overflow, baseline, edits, readFailures>>
  BY DEF ScanEnds, Inv, TypeInv, Runs
<1>2. /\ run'.stage = "read" /\ run'.files = files /\ run'.failed = failed /\ run'.toRead = toRead
      /\ run'.manifest = run.manifest /\ run'.toScan = {} /\ run'.incremental = run.incremental
      /\ run'.changed = run.changed /\ run'.ignored = run.ignored /\ run'.superseded = run.superseded
      /\ run' = [run EXCEPT !.stage = "read", !.files = files, !.failed = failed, !.toRead = toRead]
  <2>1. CASE run.incremental
    BY <1>1, <2>1 DEF ScanEnds, Runs
  <2>2. CASE ~run.incremental
    BY <1>1, <2>2 DEF ScanEnds, Runs
  <2>3. QED BY <2>1, <2>2
<1>3. /\ supported \subseteq Sources
      /\ DOMAIN files \subseteq supported /\ failed \subseteq supported
      /\ toRead = supported \ (DOMAIN files \cup failed)
      /\ failed \cap DOMAIN files = {}
  BY <1>1
<1>4. run.incremental => baseline # None /\ baseline.files \in FileMaps
  BY DEF Inv, TypeInv
<1>5. files \in FileMaps
  <2>1. CASE run.incremental
    <3>1. kept \in SUBSET DOMAIN baseline.files
      OBVIOUS
    <3> HIDE DEF kept
    <3>2. [p \in kept |-> baseline.files[p]] \in FileMaps
      BY <1>4, <2>1, <3>1, MapRestriction DEF FileMaps
    <3>3. QED BY <2>1, <3>2
  <2>2. QED BY <1>1, <2>1
<1>6. run.incremental => \A p \in DOMAIN files : /\ files[p] = baseline.files[p]
                                                 /\ p \in DOMAIN baseline.files
                                                 /\ p \notin run.changed
  BY DEF MustObserve
<1>7. ~run.incremental => DOMAIN files = {}
  BY <1>1
<1> HIDE DEF files, failed, toRead
<1>8. TypeInv'
  <2>1. run' \in Runs
    BY <1>1, <1>2, <1>3, <1>5 DEF Runs
  <2>2. QED BY <1>1, <1>2, <1>3, <2>1 DEF Inv, TypeInv, Content
<1>9. IncrementalTypeOK'
  <2>1. \A p \in DOMAIN files : files[p] \subseteq Specifiers
    BY <1>5, FileMapFacts
  <2>2. IsAnalysis(run)'
    BY <1>2, <1>3, <2>1 DEF IsAnalysis, Inv, IncrementalTypeOK
  <2>3. DOMAIN run'.manifest \cap Sources = run'.toRead \cup DOMAIN run'.files \cup run'.failed
    BY <1>2, <1>3
  <2>4. QED BY <1>1, <1>2, <2>2, <2>3 DEF Inv, IncrementalTypeOK, Content
<1>10. ContentInv' /\ CaptureInv'
  <2>1. Underway' = Underway /\ Current' = Current /\ Told' = Told
    BY <1>1, <1>2 DEF Underway, Current, Told
  <2>2. Underway /\ run.incremental => Current /\ run.changed = pending
    BY DEF Inv, CaptureInv
  <2>3. Underway => \A p \in DOMAIN files \ unreported : Content(p) \in {files[p], Absent}
    BY <1>6, <1>7, <2>2 DEF Inv, ContentInv, Told
  <2>4. ContentInv'
    BY <1>1, <1>2, <2>1, <2>3 DEF Inv, ContentInv, Content
  <2>5. CaptureInv'
    BY <1>1, <1>2, <1>6, <2>1 DEF Inv, CaptureInv
  <2>6. QED BY <2>4, <2>5
<1>11. ManifestInv' /\ EdgeInv'
  BY <1>1, <1>2 DEF Inv, ManifestInv, EdgeInv, Current, Underway, Told, Known, IsThere, Ignored, Content
<1>12. QED BY <1>8, <1>9, <1>10, <1>11 DEF Inv

\* A file is read as it is, or counted among the failed ones.
LEMMA ReadInv == ASSUME Inv, NEW p \in Sources, Read(p) \/ ReadFails(p) PROVE Inv'
<1>1. /\ run.stage = "read" /\ p \in run.toRead
      /\ run \in Runs /\ run.files \in FileMaps
      /\ UNCHANGED <<disk, unreported, pending, overflow, baseline, edits>>
      /\ readFailures' \in 0 .. MaxReadFailures
  BY IncrementalAssumption DEF Read, ReadFails, Inv, TypeInv, IncrementalTypeOK, Runs
<1> DEFINE read == [q \in DOMAIN run.files \cup {p} |-> IF q = p THEN Content(p) ELSE run.files[q]]
<1>2. PICK files, failed :
        /\ run' = [run EXCEPT !.toRead = @ \ {p}, !.files = files, !.failed = failed]
        /\ \/ files = run.files /\ failed = run.failed \cup {p}
           \/ files = read /\ failed = run.failed /\ Content(p) \notin {Absent, Broken}
  <2>1. CASE ReadFailed(p)
    <3>1. run' = [run EXCEPT !.toRead = @ \ {p}, !.files = run.files, !.failed = run.failed \cup {p}]
      BY <1>1, <2>1 DEF ReadFailed, Runs
    <3>2. QED BY <3>1
  <2>2. CASE run' = [run EXCEPT !.toRead = @ \ {p}, !.files = read] /\ Content(p) \notin {Absent, Broken}
    <3>1. run' = [run EXCEPT !.toRead = @ \ {p}, !.files = read, !.failed = run.failed]
      BY <1>1, <2>2 DEF Runs
    <3>2. QED BY <2>2, <3>1
  <2>3. QED BY <2>1, <2>2 DEF Read, ReadFails
<1>3. files \in FileMaps
  <2>1. CASE files = read /\ Content(p) \notin {Absent, Broken}
    <3>1. Content(p) \in SUBSET Specifiers
      BY <2>1 DEF Inv, IncrementalTypeOK, FileContents
    <3>2. read \in FileMaps
      BY <1>1, <3>1, MapUpdate, Zenon DEF FileMaps
    <3>3. QED BY <2>1, <3>2
  <2>2. QED BY <1>1, <1>2, <2>1
<1>4. /\ DOMAIN files \cup failed = DOMAIN run.files \cup run.failed \cup {p}
      /\ DOMAIN run.files \subseteq DOMAIN files /\ run.failed \subseteq failed
      /\ failed \cap DOMAIN files = {}
      /\ \A q \in DOMAIN files : \/ q \in DOMAIN run.files /\ files[q] = run.files[q]
                                 \/ q = p /\ files[q] = Content(p) /\ Content(p) # Absent
  <2>1. p \notin DOMAIN run.files /\ p \notin run.failed /\ run.failed \cap DOMAIN run.files = {}
    BY <1>1 DEF Inv, TypeInv, IncrementalTypeOK, IsAnalysis
  <2>2. QED BY <1>2, <2>1
<1>5. /\ run'.stage = "read" /\ run'.files = files /\ run'.failed = failed
      /\ run'.toRead = run.toRead \ {p}
      /\ run'.manifest = run.manifest /\ run'.toScan = run.toScan /\ run'.incremental = run.incremental
      /\ run'.changed = run.changed /\ run'.ignored = run.ignored /\ run'.superseded = run.superseded
  BY <1>1, <1>2 DEF Runs
<1>6. p \in DOMAIN run.manifest /\ run.failed \subseteq Sources
  BY <1>1 DEF Inv, IncrementalTypeOK, Runs
<1>7. TypeInv'
  <2>1. run' \in Runs
    BY <1>1, <1>2, <1>3, <1>4, <1>6 DEF Runs
  <2>2. QED BY <1>1, <1>4, <1>5, <2>1 DEF Inv, TypeInv, Content
<1>8. IncrementalTypeOK'
  <2>1. \A q \in DOMAIN files : files[q] \subseteq Specifiers
    BY <1>3, FileMapFacts
  <2>2. IsAnalysis(run)'
    BY <1>4, <1>5, <1>6, <2>1 DEF IsAnalysis, Inv, IncrementalTypeOK
  <2>3. DOMAIN run'.manifest \cap Sources = run'.toRead \cup DOMAIN run'.files \cup run'.failed
    BY <1>1, <1>4, <1>5 DEF Inv, IncrementalTypeOK
  <2>4. QED BY <1>1, <1>5, <2>2, <2>3 DEF Inv, IncrementalTypeOK, Content
<1>9. ContentInv' /\ CaptureInv'
  <2>1. Underway' = Underway /\ Current' = Current /\ Told' = Told
    BY <1>1, <1>5 DEF Underway, Current, Told
  <2>2. Underway => \A q \in DOMAIN files \ unreported : Content(q) \in {files[q], Absent}
    BY <1>4 DEF Inv, ContentInv
  <2>3. ASSUME Underway, run.incremental
        PROVE  \A q \in (DOMAIN files \cap DOMAIN baseline.files) \ Told : files[q] = baseline.files[q]
    BY <1>4, <2>3 DEF Inv, CaptureInv, ContentInv
  <2>4. ContentInv'
    BY <1>1, <1>5, <2>1, <2>2 DEF Inv, ContentInv, Content
  <2>5. CaptureInv'
    BY <1>1, <1>5, <2>1, <2>3 DEF Inv, CaptureInv
  <2>6. QED BY <2>4, <2>5
<1>10. ManifestInv' /\ EdgeInv'
  BY <1>1, <1>5 DEF Inv, ManifestInv, EdgeInv, Current, Underway, Told, Known, IsThere, Ignored, Content
<1>11. QED BY <1>7, <1>8, <1>9, <1>10 DEF Inv

\* The candidate that becomes the baseline, when no report has superseded it
LEMMA CompleteInv == ASSUME Inv, Complete PROVE Inv'
<1>1. /\ run.stage = "read" /\ run.toRead = {} /\ run \in Runs
      /\ run' = Idle /\ run'.stage = "idle" /\ run'.toScan = {} /\ run'.toRead = {} /\ run'.failed = {}
      /\ run'.manifest = <<>> /\ run'.files = <<>> /\ run'.incremental = FALSE
      /\ run' \in Runs
      /\ UNCHANGED <<disk, unreported, edits, readFailures>>
  BY EmptyMap DEF Complete, Idle, Runs, Inv, TypeInv
<1>2. CASE run.superseded
  <2>1. UNCHANGED <<pending, overflow, baseline>>
    BY <1>2 DEF Complete
  <2>2. TypeInv'
    BY <1>1, <2>1, EmptyMap DEF Inv, TypeInv, Content
  <2>3. IncrementalTypeOK'
    BY <1>1, <2>1, EmptyMap DEF Inv, IncrementalTypeOK, IsAnalysis, Content
  <2>4. ContentInv' /\ ManifestInv' /\ EdgeInv' /\ CaptureInv'
    BY <1>1, <2>1
    DEF Inv, ContentInv, ManifestInv, EdgeInv, CaptureInv, Content, IsThere, Ignored, Current, Underway, Told, Known
  <2>5. QED BY <2>2, <2>3, <2>4 DEF Inv
<1>3. CASE ~run.superseded
  <2> DEFINE edges == IF run.incremental
                        THEN Repair(baseline.files, baseline.edges, run.files, run.changed)
                        ELSE Build(run.files)
  <2>1. /\ baseline' = Candidate /\ pending' = {} /\ overflow' = FALSE
    BY <1>3 DEF Complete, AcknowledgeChanges
  <2>2. /\ baseline'.manifest = run.manifest /\ baseline'.files = run.files
        /\ baseline'.failed = run.failed /\ baseline'.edges = edges
        /\ DOMAIN baseline'.entities = DOMAIN run.files
    BY <2>1 DEF Candidate, SynthesizeIncremental, Synthesize
  <2> HIDE DEF edges
  <2>3. run.files \in FileMaps /\ run.manifest \in Manifests
    BY <1>1 DEF Runs
  <2>4. Underway /\ Told' = unreported
    BY <1>1, <1>3, <2>1 DEF Underway, Told
  <2>5. TypeInv'
    BY <1>1, <2>2, <2>3, EmptyMap DEF Inv, TypeInv, Content
  <2>6. IncrementalTypeOK'
    <3>1. IsAnalysis(run)' /\ IsAnalysis(baseline)'
      BY <1>1, <2>2, EmptyMap DEF Inv, IncrementalTypeOK, IsAnalysis
    <3>2. DOMAIN run.manifest \cap Sources = DOMAIN run.files \cup run.failed
      BY <1>1 DEF Inv, IncrementalTypeOK
    <3>3. QED BY <1>1, <2>1, <2>2, <3>1, <3>2 DEF Inv, IncrementalTypeOK, Content
  <2>7. ContentInv'
    BY <1>1, <2>2, <2>4 DEF Inv, ContentInv, Content, Underway
  <2>8. ManifestInv'
    <3>1. Known' = unreported \cup FilesOf(unreported)
      BY <1>1, <2>1 DEF Known
    <3>2. run.toScan = {}
      BY <1>1 DEF Inv, TypeInv
    <3>3. QED BY <1>1, <2>2, <2>4, <3>1, <3>2 DEF Inv, ManifestInv, Content, IsThere, Ignored, Underway
  <2>9. EdgeInv'
    <3> SUFFICES ASSUME NEW p \in DOMAIN run.files \ unreported
                 PROVE  {e \in edges : e[1] = p} = EdgesOf(p, run.files)
      BY <2>2, <2>4 DEF EdgeInv
    <3>1. CASE ~run.incremental
      BY <3>1, BuiltEdges DEF edges
    <3>2. CASE run.incremental
      <4>1. /\ Current /\ run.changed = pending
            /\ p \notin pending /\ p \in DOMAIN baseline.files => run.files[p] = baseline.files[p]
        BY <2>4, <3>2 DEF Inv, CaptureInv, Told
      <4>2. CASE DOMAIN baseline.files # DOMAIN run.files
        BY <3>2, <4>2, BuiltEdges DEF edges, Repair
      <4>3. CASE DOMAIN baseline.files = DOMAIN run.files
        <5>1. edges = BuildForSources(run.files, run.changed)
                        \cup {e \in baseline.edges : e[1] \notin run.changed}
          BY <3>2, <4>3 DEF edges, Repair
        <5>2. \A e \in BuildForSources(run.files, run.changed) :
                e[1] \in run.changed /\ e \in EdgesOf(e[1], run.files)
          BY BuiltEdges DEF BuildForSources
        <5>3. CASE p \in run.changed
          <6>1. EdgesOf(p, run.files) \subseteq BuildForSources(run.files, run.changed)
            BY <5>3 DEF BuildForSources
          <6>2. QED BY <5>1, <5>2, <5>3, <6>1, BuiltEdges
        <5>4. CASE p \notin run.changed
          <6>1. {e \in edges : e[1] = p} = {e \in baseline.edges : e[1] = p}
            BY <5>1, <5>2, <5>4
          <6>2. {e \in baseline.edges : e[1] = p} = EdgesOf(p, baseline.files)
            BY <4>1, <4>3, <5>4 DEF Inv, EdgeInv, Told
          <6>3. EdgesOf(p, baseline.files) = EdgesOf(p, run.files)
            BY <4>1, <4>3, <5>4 DEF EdgesOf
          <6>4. QED BY <6>1, <6>2, <6>3
        <5>5. QED BY <5>3, <5>4
      <4>4. QED BY <4>2, <4>3
    <3>3. QED BY <3>1, <3>2
  <2>10. CaptureInv'
    BY <1>1 DEF CaptureInv, Underway
  <2>11. QED BY <2>5, <2>6, <2>7, <2>8, <2>9, <2>10 DEF Inv
<1>4. QED BY <1>2, <1>3

LEMMA StepInv == ASSUME Inv, [Next]_vars PROVE Inv'
<1>1. CASE UNCHANGED vars
  BY <1>1
  DEF vars, Inv, TypeInv, IncrementalTypeOK, IsAnalysis, ContentInv, ManifestInv, EdgeInv, CaptureInv,
      Content, IsThere, Ignored, Current, Underway, Told, Known
<1>2. CASE Next
  BY <1>2, EditsInv, ReportsInv, StartInv, ScanEntryInv, ScanEndsInv, ReadInv, CompleteInv, FailInv DEF Next
<1>3. QED BY <1>1, <1>2

LEMMA InvariantHolds == Spec => []Inv
<1>1. QED BY InitInv, StepInv, PTL DEF Spec

-----------------------------------------------------------------------------
(* The theorems *)

\* Types, and what each supported file of a scan ends as: parsed or failed, never
\* both, never neither (parseRepositoryFiles), for any repository and any number
\* of edits and failures.
THEOREM TypesHold == Spec => []IncrementalTypeOK
<1>1. Inv => IncrementalTypeOK
  BY DEF Inv
<1>2. QED BY <1>1, InvariantHolds, PTL

\* A file of which no report is pending or to come is in the baseline as it is on
\* the disk: the paths a scan may skip, the observations an incremental analysis
\* may keep and the acknowledgement of the reported paths never leave one stale.
THEOREM FilesStayCurrent == Spec => []FilesAreCurrent
<1>1. ASSUME Inv PROVE FilesAreCurrent
  <2> SUFFICES ASSUME Current, GitIgnore \notin Known, NEW p \in Sources \ Known
               PROVE  /\ p \in DOMAIN baseline.manifest <=> IsThere(p, Ignored)
                      /\ p \in DOMAIN baseline.files => baseline.files[p] = Content(p)
    BY DEF FilesAreCurrent, Current
  <2>1. GitIgnore \notin Told /\ p \notin Told
    BY DEF Known, Told
  <2>2. p \in DOMAIN baseline.manifest <=> IsThere(p, Ignored)
    BY <1>1, <2>1 DEF Inv, ManifestInv
  <2>3. ASSUME p \in DOMAIN baseline.files PROVE baseline.files[p] = Content(p)
    <3>1. p \in DOMAIN baseline.manifest
      BY <1>1, <2>3 DEF Inv, IncrementalTypeOK, IsAnalysis, Current
    <3>2. Content(p) # Absent
      BY <2>2, <3>1 DEF IsThere
    <3>3. QED BY <1>1, <2>1, <2>3, <3>2 DEF Inv, ContentInv
  <2>4. QED BY <2>2, <2>3
<1>2. QED BY <1>1, InvariantHolds, PTL

\* The edges of a file of which no report is pending or to come are those its
\* imports resolve to among the files of the baseline, although a repair of the
\* graph looks only at the reported sources and copies the others' edges.
THEOREM EdgesStayCurrent == Spec => []EdgesAreCurrent
<1>1. Inv => EdgesAreCurrent
  BY DEF Inv, EdgeInv, EdgesAreCurrent, Current, Told, Known
<1>2. QED BY <1>1, InvariantHolds, PTL

LEMMA DirtyClosureStep ==
    ASSUME Inv, [Next]_vars,
           baseline # None, baseline' # baseline, run.incremental,
           \A p \in Sources : DiffersAt(baseline, baseline', p) => p \in run.changed,
           EdgesAreBuilt(baseline), RelationsHold(baseline)
    PROVE  RelationsHold(baseline')
<1> DEFINE F == baseline.files
           G == run.files
           edges == Repair(F, Build(F), G, run.changed)
           dirty == DirtyPaths(F, Build(F), G, edges, run.changed)
<1>1. Complete /\ baseline' = Candidate
  BY DEF Next, vars, Edit, RemoveFolder, Report, LoseReports, Start, ScanEntry, ScanEnds, Read, ReadFails,
         Complete, Fail
<1>2. baseline.edges = Build(F)
  BY DEF EdgesAreBuilt
<1>3. /\ baseline'.files = G /\ baseline'.edges = edges
      /\ baseline'.entities = SynthesizeIncremental(baseline.entities, G, edges, dirty)
  BY <1>1, <1>2 DEF Candidate
<1>4. F \in FileMaps /\ G \in FileMaps
  BY DEF Inv, TypeInv, Runs
<1>5. ChangesKnown(F, G, run.changed)
  <2>1. DOMAIN F \subseteq Sources /\ DOMAIN G \subseteq Sources
    BY <1>4, FileMapFacts
  <2>2. \A p \in Sources \ run.changed : ~DiffersAt(baseline, baseline', p)
    OBVIOUS
  <2>3. QED BY <1>3, <2>1, <2>2 DEF ChangesKnown, DiffersAt
<1>6. edges = Build(G)
  BY <1>5, RepairBuilds
<1>7. DOMAIN baseline.entities = DOMAIN F
  BY DEF Inv, IncrementalTypeOK
<1> SUFFICES ASSUME NEW p \in DOMAIN G
             PROVE  Relations(baseline'.entities[p]) = Relations(SynthesizeFile(p, G, edges))
  BY <1>3 DEF RelationsHold
<1>8. CASE p \in DOMAIN F /\ p \notin dirty
  <2>1. baseline'.entities[p] = baseline.entities[p]
    BY <1>3, <1>7, <1>8 DEF SynthesizeIncremental
  <2>2. Relations(baseline.entities[p]) = Relations(SynthesizeFile(p, F, Build(F)))
    BY <1>2, <1>8 DEF RelationsHold
  <2>3. p \notin DirtyPaths(F, Build(F), G, Build(G), run.changed)
    BY <1>6, <1>8
  <2>4. Relations(SynthesizeFile(p, F, Build(F))) = Relations(SynthesizeFile(p, G, Build(G)))
    BY <1>4, <1>5, <1>8, <2>3, RelationsKept
  <2>5. QED BY <1>6, <2>1, <2>2, <2>4
<1>9. CASE ~(p \in DOMAIN F /\ p \notin dirty)
  BY <1>3, <1>7, <1>9 DEF SynthesizeIncremental
<1>10. QED BY <1>8, <1>9

\* The dirty closure is enough: an incremental analysis that finds no difference
\* outside the paths reported to it keeps only entities whose content, neighbours
\* and layers a full analysis would give them too (calculateDirtyPaths).
THEOREM DirtyClosureSuffices == Spec => DirtyClosureIsEnough
<1> DEFINE Kept == (/\ baseline # None /\ baseline' # baseline /\ run.incremental
                    /\ \A p \in Sources : DiffersAt(baseline, baseline', p) => p \in run.changed
                    /\ EdgesAreBuilt(baseline) /\ RelationsHold(baseline))
                   => RelationsHold(baseline')
<1>1. Inv /\ [Next]_vars => [Kept]_vars
  BY DirtyClosureStep
<1> HIDE DEF Kept
<1>2. Spec => [][Kept]_vars
  BY <1>1, InvariantHolds, PTL DEF Spec
<1>3. QED BY <1>2 DEF DirtyClosureIsEnough, Kept
=============================================================================
