------------------------- MODULE IncrementalAnalysis -------------------------
(***************************************************************************)
(* The analysis of one repository while its files change: a full analysis  *)
(* establishes a baseline, and later ones start from it and look again only*)
(* at the paths the watcher reported.  The service, the orchestrator, the  *)
(* scanner and the engines are followed from the capture of the reported   *)
(* paths to the replacement of the baseline; every file system call is a   *)
(* step of its own, between which files change and reports arrive.  The    *)
(* repository is not a Git one, so that only reports tell of changes.      *)
(***************************************************************************)
EXTENDS DependencyGraph

CONSTANTS
    Absent,           \* the content of a file that does not exist
    Broken,           \* the content of a file the parser rejects
    GitIgnore,        \* the path of .gitignore: its content is the set of paths it ignores
    Folder,           \* path -> the folder it is in, or None
    Initially,        \* path -> content before the first edit
    Edits,            \* path -> the contents an edit may give it
    MaxEdits,         \* bound on the edits
    MaxReadFailures   \* bound on the reads and parses that fail for another reason

Paths == Sources \cup {GitIgnore}
Folders == {Folder[p] : p \in Sources} \ {None}
FilesOf(folders) == {p \in Sources : Folder[p] \in folders}

FileContents == (SUBSET Specifiers) \cup {Absent, Broken}

ASSUME IncrementalAssumption ==
    /\ GitIgnore \notin Sources
    /\ Folders \cap Paths = {}
    /\ \A p \in Sources : {Initially[p]} \cup Edits[p] \subseteq FileContents
    /\ {Initially[GitIgnore]} \cup Edits[GitIgnore] \subseteq (SUBSET Paths) \cup {Absent}
    /\ MaxEdits \in Nat /\ MaxReadFailures \in Nat

VARIABLES
    disk,         \* path -> its content and modification time
    unreported,   \* files and folders that changed and of which the watcher has yet to tell
    pending,      \* pendingChanges: the reported ones
    overflow,     \* pendingOverflow: reports were lost
    baseline,     \* incrementalBaseline, or None
    run,          \* the analysis under way
    edits, readFailures

vars == <<disk, unreported, pending, overflow, baseline, run, edits, readFailures>>

Idle == [stage |-> "idle", incremental |-> FALSE, changed |-> {}, ignored |-> {},
         manifest |-> <<>>, toScan |-> {}, toRead |-> {}, files |-> <<>>, failed |-> {},
         superseded |-> FALSE]

Init ==
    /\ disk = [p \in Paths |-> [content |-> Initially[p], stamp |-> 0]]
    /\ unreported = {} /\ pending = {} /\ overflow = FALSE
    /\ baseline = None
    /\ run = Idle
    /\ edits = 0 /\ readFailures = 0

Content(p) == disk[p].content
Ignored == IF Content(GitIgnore) = Absent THEN {} ELSE Content(GitIgnore)
IsThere(p, ignored) == Content(p) # Absent /\ p \notin ignored

-----------------------------------------------------------------------------
(* Changes and their reports *)

Edit(p, content) ==
    /\ edits < MaxEdits
    /\ content # Content(p)
    /\ disk' = [disk EXCEPT ![p] = [content |-> content, stamp |-> @.stamp + 1]]
    /\ unreported' = unreported \cup {p}
    /\ edits' = edits + 1
    /\ UNCHANGED <<pending, overflow, baseline, run, readFailures>>

\* A folder is removed with its files: the editor tells of the folder alone.
RemoveFolder(d) ==
    LET gone == {p \in FilesOf({d}) : Content(p) # Absent}
    IN  /\ edits < MaxEdits
        /\ gone # {}
        /\ disk' = [p \in Paths |-> IF p \in gone
                                     THEN [content |-> Absent, stamp |-> disk[p].stamp + 1]
                                     ELSE disk[p]]
        /\ unreported' = unreported \cup {d}
        /\ edits' = edits + 1
        /\ UNCHANGED <<pending, overflow, baseline, run, readFailures>>

\* Plausible bug: a report does not disturb the analysis under way.
SupersedeNothing == UNCHANGED run

\* changeGeneration is increased: an analysis under way no longer is of the
\* latest generation.
Supersede == run' = [run EXCEPT !.superseded = run.stage # "idle"]

Report(p) ==
    /\ p \in unreported
    /\ unreported' = unreported \ {p}
    /\ pending' = pending \cup {p}
    /\ Supersede
    /\ UNCHANGED <<disk, overflow, baseline, edits, readFailures>>

\* The watcher is invalidated: what it had yet to tell may never come.
LoseReports(lost) ==
    /\ lost \subseteq unreported
    /\ unreported' = unreported \ lost
    /\ pending' = {}
    /\ overflow' = TRUE
    /\ Supersede
    /\ UNCHANGED <<disk, baseline, edits, readFailures>>

-----------------------------------------------------------------------------
(* An analysis: scan, parse, and the stages after it *)

\* The scanner looks at every file when .gitignore was reported, or a path that
\* is a folder or was one.
RequiresFullScan(changed) ==
    \/ GitIgnore \in changed
    \/ \E p \in FilesOf(changed) : Content(p) # Absent \/ p \in DOMAIN baseline.manifest

\* runAnalysis captures the reported paths and the baseline, and the scanner
\* reads .gitignore before it looks at a file.
Start(forceFull) ==
    /\ run.stage = "idle"
    /\ LET incremental == ~forceFull /\ ~overflow /\ baseline # None
           reconciles == incremental /\ ~RequiresFullScan(pending)
       IN  run' = [Idle EXCEPT !.stage = "scan",
                               !.incremental = incremental,
                               !.changed = pending,
                               !.ignored = Ignored,
                               !.manifest = IF reconciles THEN baseline.manifest ELSE <<>>,
                               !.toScan = IF reconciles THEN pending \ Folders ELSE Paths]
    /\ UNCHANGED <<disk, unreported, pending, overflow, baseline, edits, readFailures>>

ScanEntry(p) ==
    LET others == [q \in DOMAIN run.manifest \ {p} |-> run.manifest[q]]
    IN  /\ run.stage = "scan" /\ p \in run.toScan
        /\ run' = [run EXCEPT
                     !.toScan = @ \ {p},
                     !.manifest = IF IsThere(p, run.ignored)
                                    THEN [q \in DOMAIN others \cup {p} |->
                                            IF q = p THEN disk[p].stamp ELSE others[q]]
                                    ELSE others]
        /\ UNCHANGED <<disk, unreported, pending, overflow, baseline, edits, readFailures>>

MustObserve(p) ==
    \/ ~run.incremental
    \/ p \in run.changed
    \/ p \notin DOMAIN baseline.manifest
    \/ baseline.manifest[p] # run.manifest[p]

\* What was parsed before, or could not be, is kept unless it must be observed.
ScanEnds ==
    LET supported == DOMAIN run.manifest \cap Sources
        unobserved == {p \in supported : ~MustObserve(p)}
        kept == unobserved \cap DOMAIN baseline.files
        keptFailed == (unobserved \cap baseline.failed) \ kept
    IN  /\ run.stage = "scan" /\ run.toScan = {}
        /\ run' = IF run.incremental
                    THEN [run EXCEPT !.stage = "read",
                                     !.files = [p \in kept |-> baseline.files[p]],
                                     !.failed = keptFailed,
                                     !.toRead = supported \ (kept \cup keptFailed)]
                    ELSE [run EXCEPT !.stage = "read", !.toRead = supported]
        /\ UNCHANGED <<disk, unreported, pending, overflow, baseline, edits, readFailures>>

ReadFailed(p) ==
    run' = [run EXCEPT !.toRead = @ \ {p}, !.failed = @ \cup {p}]

Read(p) ==
    /\ run.stage = "read" /\ p \in run.toRead
    /\ IF Content(p) \in {Absent, Broken}
         THEN ReadFailed(p)
         ELSE run' = [run EXCEPT !.toRead = @ \ {p},
                                 !.files = [q \in DOMAIN @ \cup {p} |->
                                              IF q = p THEN Content(p) ELSE @[q]]]
    /\ UNCHANGED <<disk, unreported, pending, overflow, baseline, edits, readFailures>>

\* The file cannot be opened for a moment, or the worker that parses it dies.
ReadFails(p) ==
    /\ run.stage = "read" /\ p \in run.toRead
    /\ readFailures < MaxReadFailures
    /\ readFailures' = readFailures + 1
    /\ ReadFailed(p)
    /\ UNCHANGED <<disk, unreported, pending, overflow, baseline, edits>>

\* The core stages and the synthesis.
Candidate ==
    LET edges == IF run.incremental
                   THEN Repair(baseline.files, baseline.edges, run.files, run.changed)
                   ELSE Build(run.files)
        dirty == DirtyPaths(baseline.files, baseline.edges, run.files, edges, run.changed)
    IN  [manifest |-> run.manifest,
         files    |-> run.files,
         failed   |-> run.failed,
         edges    |-> edges,
         entities |-> IF run.incremental
                        THEN SynthesizeIncremental(baseline.entities, run.files, edges, dirty)
                        ELSE Synthesize(run.files, edges)]

AcknowledgeChanges == pending' = {} /\ overflow' = FALSE

\* The candidate becomes the baseline, whether it is published as a new version
\* or found equivalent to the current one; a superseded one is dropped.
Complete ==
    /\ run.stage = "read" /\ run.toRead = {}
    /\ IF run.superseded
         THEN UNCHANGED <<pending, overflow, baseline>>
         ELSE baseline' = Candidate /\ AcknowledgeChanges
    /\ run' = Idle
    /\ UNCHANGED <<disk, unreported, edits, readFailures>>

\* Cancellation, or an error of a stage: the reported paths stay pending.
Fail ==
    /\ run.stage # "idle"
    /\ run' = Idle
    /\ UNCHANGED <<disk, unreported, pending, overflow, baseline, edits, readFailures>>

Next ==
    \/ \E p \in Paths : \E content \in Edits[p] : Edit(p, content)
    \/ \E d \in Folders : RemoveFolder(d)
    \/ \E p \in Paths \cup Folders : Report(p)
    \/ \E lost \in SUBSET unreported : LoseReports(lost)
    \/ \E forceFull \in BOOLEAN : Start(forceFull)
    \/ \E p \in Paths : ScanEntry(p)
    \/ ScanEnds
    \/ \E p \in Sources : Read(p)
    \/ \E p \in Sources : ReadFails(p)
    \/ Complete
    \/ Fail

Spec == Init /\ [][Next]_vars

-----------------------------------------------------------------------------
(* Properties *)

IsAnalysis(b) ==
    /\ DOMAIN b.manifest \subseteq Paths
    /\ DOMAIN b.files \subseteq DOMAIN b.manifest \cap Sources
    /\ b.failed \subseteq DOMAIN b.manifest \cap Sources
    /\ b.failed \cap DOMAIN b.files = {}
    /\ \A p \in DOMAIN b.files : b.files[p] \subseteq Specifiers

\* Types, and what each supported file of a scan ends as: parsed or failed, never
\* both, never neither (parseRepositoryFiles).
IncrementalTypeOK ==
    /\ \A p \in Sources : Content(p) \in FileContents
    /\ unreported \subseteq Paths \cup Folders /\ pending \subseteq Paths \cup Folders
    /\ overflow \in BOOLEAN
    /\ edits \in 0..MaxEdits /\ readFailures \in 0..MaxReadFailures
    /\ run.stage \in {"idle", "scan", "read"}
    /\ run.toScan \subseteq Paths
    /\ IsAnalysis(run)
    /\ run.stage = "read" => DOMAIN run.manifest \cap Sources
                             = run.toRead \cup DOMAIN run.files \cup run.failed
    /\ baseline # None =>
         /\ IsAnalysis(baseline)
         /\ DOMAIN baseline.manifest \cap Sources = DOMAIN baseline.files \cup baseline.failed
         /\ DOMAIN baseline.entities = DOMAIN baseline.files

\* What changed and may not yet be in the baseline.
Known == LET told == unreported \cup pending IN told \cup FilesOf(told)

\* A file of which no report is pending or to come is in the baseline as it is on
\* the disk: no file stays stale because a scan, a parse, a skipped observation
\* or an acknowledged report overlooked it.
FilesAreCurrent ==
    (baseline # None /\ ~overflow /\ GitIgnore \notin Known) =>
      \A p \in Sources \ Known :
        /\ p \in DOMAIN baseline.manifest <=> IsThere(p, Ignored)
        /\ p \in DOMAIN baseline.files => baseline.files[p] = Content(p)

\* The edges of a file of which no report is pending or to come are those its
\* imports resolve to among the files of the baseline, although a repair looks
\* only at the reported sources and copies the others' edges.
EdgesAreCurrent ==
    (baseline # None /\ ~overflow) =>
      \A p \in DOMAIN baseline.files \ Known :
        {e \in baseline.edges : e[1] = p} = EdgesOf(p, baseline.files)

Relations(entity) ==
    [content |-> entity.content, dependsOn |-> entity.dependsOn,
     dependedOnBy |-> entity.dependedOnBy, layers |-> entity.layers]

\* Every entity of an analysis has the content of its file and the relations the
\* graph gives it.
RelationsHold(b) ==
    \A p \in DOMAIN b.files :
      Relations(b.entities[p]) = Relations(SynthesizeFile(p, b.files, b.edges))

EdgesAreBuilt(b) == b.edges = Build(b.files)

DiffersAt(old, new, p) ==
    IF p \in DOMAIN old.files
      THEN p \notin DOMAIN new.files \/ old.files[p] # new.files[p]
      ELSE p \in DOMAIN new.files

\* The dirty closure is enough: when an incremental analysis finds no difference
\* outside the paths that were reported to it, the entities it keeps are as right
\* as they were, and it makes none wrong (calculateDirtyPaths).
DirtyClosureIsEnough ==
    [][(/\ baseline # None /\ baseline' # baseline /\ run.incremental
        /\ \A p \in Sources : DiffersAt(baseline, baseline', p) => p \in run.changed
        /\ EdgesAreBuilt(baseline) /\ RelationsHold(baseline))
       => RelationsHold(baseline')]_vars
=============================================================================
