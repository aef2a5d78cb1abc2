-------------------------- MODULE ProjectDNAService --------------------------
(***************************************************************************)
(* The ProjectDNAService of packages/dna-core: one analysis operation at a *)
(* time, superseded by file changes the watcher reports while it runs,     *)
(* persisted in one storage batch, rolled back when it turns out to be     *)
(* stale, and published only afterwards.                                   *)
(*                                                                         *)
(* JavaScript runs each piece of code between two awaits atomically, so    *)
(* one action of this module is the code from one await to the next, and   *)
(* phase names the await runAnalysis is suspended at.  The storage is the  *)
(* deployed SqliteStorage, whose batches run synchronously inside the call.*)
(*                                                                         *)
(* A repository is a root; its files are Paths and the content of each is  *)
(* a member of Contents.  An analysis is what it observed of each path.    *)
(***************************************************************************)
EXTENDS Workspace, FiniteSetsExt

CONSTANTS
    ImpactCallers,  \* concurrent callers of getImpact
    Failures        \* collaborators that may fail: "git", "pipeline", "storage"

CONSTANTS           \* bounds on what the environment does
    MaxGeneration,  \* accepted change notifications per extension process
    MaxSequence,    \* notifications of one epoch
    MaxVersion      \* user requests stop once a stored version reaches it

ASSUME ServiceAssumption ==
    /\ Failures \subseteq {"git", "pipeline", "storage"}
    /\ {MaxGeneration, MaxSequence, MaxVersion} \subseteq Nat

VARIABLES
    disk,                  \* external: the content of every file
    current,               \* the published analysis, or None
    rootPath,              \* the repository the service follows, or None
    incrementalBaseline,   \* what the next incremental analysis starts from
    persistedLatestRecord, \* version of the latest record believed stored, 0: none
    pendingChanges,        \* generation of the unacknowledged change of a path, 0: none
    pendingOverflow,       \* changes were lost: only a full analysis will do
    changeGeneration,      \* number of accepted notifications
    watcherEpoch,
    watcherSequence,
    changeTimer,           \* an automatic refresh is scheduled
    disposed,
    phase,                 \* the await the analysis operation is suspended at
    op,                    \* the locals of runAnalysis
    snapshots,             \* history of the evolution engine
    versions,              \* complete version records in the storage
    latest,                \* latest-version pointer of every root, 0: missing
    storageOpen,
    impact                 \* the pending getImpact call of every caller

watchVars == <<pendingChanges, pendingOverflow, changeGeneration, watcherEpoch, watcherSequence>>
publishedVars == <<current, rootPath, incrementalBaseline, persistedLatestRecord>>
storageVars == <<versions, latest, storageOpen>>
serviceVars == <<disk, watchVars, publishedVars, changeTimer, disposed, impact>>
vars == <<disk, watchVars, publishedVars, changeTimer, disposed, phase, op,
          snapshots, storageVars, impact>>

-----------------------------------------------------------------------------
(* Values *)

Version == Nat \ {0}
DNA == [root : Roots, version : Version, content : Observation]
Baseline == [root : Roots, content : Observation]

\* null is not an analysis.
ASSUME NullAssumption == None \notin DNA \cup Baseline

\* The id of a snapshot names its repository and its own version number.
SnapshotId == Roots \X Version
Snapshot == [root : Roots, version : Version, parent : SnapshotId \cup {None}]

\* The records of one version, written and deleted as one batch: aggregate,
\* collections, snapshot and manifest.  previousVersion 0 is the manifest's null.
VersionRecord == [dna : DNA, previousVersion : Nat, snapshot : Snapshot]

Phases == {"idle", "starting", "workingTreeBefore", "recovering", "restoring",
           "orchestrating", "workingTreeAfter", "history", "snapshot",
           "persisting", "discarding", "settling"}

Operation ==
    [root : Roots \cup {None},
     forceFull : BOOLEAN,
     signal : {"none", "live", "aborted"},
     generation : Nat,                        \* operationGeneration
     tree : Observation \cup {None},          \* initialWorkingTree
     changed : SUBSET Paths,                  \* changedPaths
     baseline : Observation \cup {None},      \* previousBaseline
     restored : Nat,                          \* version recovery selected, 0: none
     previous : Nat,                          \* previousCommitted?.version ?? null
     content : Observation \cup {None},       \* what the pipeline observed
     since : Observation \cup {None},         \* the files when the awaited call was made
     version : Nat,                           \* version of the candidate, 0: none yet
     history : Seq(Snapshot),                 \* previousHistory
     latestRecord : Nat,                      \* previousLatestRecord
     persisted : BOOLEAN,                     \* result of persistAnalysis
     outcome : {"none", "ok", "failed", "superseded"}]

NoOperation ==
    [root |-> None, forceFull |-> FALSE, signal |-> "none", generation |-> 0,
     tree |-> None, changed |-> {}, baseline |-> None, restored |-> 0,
     previous |-> 0, content |-> None, since |-> None, version |-> 0, history |-> <<>>,
     latestRecord |-> 0, persisted |-> FALSE, outcome |-> "none"]

NoQuery == [status |-> "idle", dna |-> None, stale |-> FALSE]
Query == [status : {"idle", "waiting", "answered", "rejected"},
          dna : DNA \cup {None},
          stale : BOOLEAN]

\* Which locals of runAnalysis have been assigned when.
AssignedLocals ==
    /\ phase # "idle" => op.root \in Roots
    /\ phase \in {"workingTreeBefore", "orchestrating", "workingTreeAfter"} =>
           op.since \in Observation
    /\ phase \in {"workingTreeAfter", "history", "snapshot", "persisting", "discarding"} =>
           op.content \in Observation
    /\ phase \in {"history", "snapshot", "persisting", "discarding"} =>
           op.version \in Version
    /\ phase = "snapshot" => snapshots # <<>>

TypeOK ==
    /\ disk \in [Roots -> Observation]
    /\ current \in DNA \cup {None}
    /\ rootPath \in Roots \cup {None}
    /\ incrementalBaseline \in Baseline \cup {None}
    /\ persistedLatestRecord \in Nat
    /\ pendingChanges \in [Paths -> Nat]
    /\ pendingOverflow \in BOOLEAN
    /\ changeGeneration \in Nat
    /\ watcherEpoch \in Nat
    /\ watcherSequence \in Nat
    /\ changeTimer \in BOOLEAN
    /\ disposed \in BOOLEAN
    /\ phase \in Phases
    /\ op \in Operation
    /\ AssignedLocals
    /\ snapshots \in Seq(Snapshot)
    /\ versions \in SUBSET VersionRecord
    /\ latest \in [Roots -> Nat]
    /\ storageOpen \in BOOLEAN
    /\ impact \in [ImpactCallers -> Query]

-----------------------------------------------------------------------------
(* Recovery of persisted analyses (analysis-recovery.ts), for the records a *)
(* batch writes: complete, readable, and with a manifest.                   *)

\* The snapshot recovery expects of version v: numbered v, and the child of
\* the snapshot of version v - 1.
ChainedSnapshot(r, v) ==
    [root |-> r, version |-> v, parent |-> IF v = 1 THEN None ELSE <<r, v - 1>>]

IntactVersion(r, v) ==
    \E record \in versions :
        /\ record.dna.root = r
        /\ record.dna.version = v
        /\ record.previousVersion = v - 1
        /\ record.snapshot = ChainedSnapshot(r, v)

\* A version is valid when it and every version its chain refers to are intact.
ValidVersions(r) ==
    {v \in {record.dna.version : record \in versions} : \A w \in 1 .. v : IntactVersion(r, w)}

RecoveredVersion(r) == Max(ValidVersions(r) \cup {0})

RecoveredHistory(r) == [v \in 1 .. RecoveredVersion(r) |-> ChainedSnapshot(r, v)]

\* Mutant: recovery does not tell repositories apart.
InvalidRecordsOfAnyRoot(r) ==
    {record \in versions : record.dna.version \notin ValidVersions(r)}

InvalidRecords(r) ==
    {record \in versions : record.dna.root = r /\ record.dna.version \notin ValidVersions(r)}

RecoveredDNA(r, v) ==
    (CHOOSE record \in versions : record.dna.root = r /\ record.dna.version = v).dna

\* Recovery quarantines the invalid versions and repairs the latest pointer.
RepairStorage(r) ==
    /\ versions' = versions \ InvalidRecords(r)
    /\ latest' = [latest EXCEPT ![r] = RecoveredVersion(r)]

\* A recovery that fails part-way has quarantined some of them.
AbandonedRepair(r) ==
    /\ \E gone \in SUBSET InvalidRecords(r) : versions' = versions \ gone
    /\ UNCHANGED latest

-----------------------------------------------------------------------------
(* Helpers of the service *)

Idle == phase = "idle"

NoPendingChanges == [p \in Paths |-> 0]
HasPending == pendingOverflow \/ \E p \in Paths : pendingChanges[p] # 0

\* impactStateEpoch++: every waiting query has captured an older epoch.
SupersedeImpacts ==
    impact' = [c \in ImpactCallers |->
                  [impact[c] EXCEPT !.stale = impact[c].status = "waiting"]]

\* clearCurrent, for a service that goes on to follow repository r.
ClearCurrent(r) ==
    /\ current' = None
    /\ rootPath' = r
    /\ incrementalBaseline' = None
    /\ persistedLatestRecord' = 0
    /\ SupersedeImpacts

\* scheduleAutomaticRefresh: arms the timer unless disposed, without a
\* repository, or while an operation is active.
ScheduleAutomaticRefresh(root, isIdle) ==
    changeTimer' = (changeTimer \/ (~disposed /\ root # None /\ isIdle))

\* acknowledgeChanges of the finished operation.
AcknowledgeChanges ==
    /\ pendingChanges' = [p \in Paths |->
           IF pendingChanges[p] <= op.generation THEN 0 ELSE pendingChanges[p]]
    /\ pendingOverflow' = (pendingOverflow /\ changeGeneration # op.generation)
    /\ UNCHANGED <<changeGeneration, watcherEpoch, watcherSequence>>

\* runAnalysis returns, and its locals are gone: its caller settles the operation
\* in a later microtask.
Return(outcome) ==
    /\ phase' = "settling"
    /\ op' = [NoOperation EXCEPT !.root = op.root, !.outcome = outcome]

Superseded == changeGeneration # op.generation

\* MaxVersion, MaxGeneration: what users and files are allowed to do.
MayRequest == \A record \in versions : record.dna.version < MaxVersion
MayNotify == changeGeneration < MaxGeneration

-----------------------------------------------------------------------------
(* Watcher notifications *)

EditFile(r, p, c) ==
    /\ disk[r][p] # c
    /\ disk' = [disk EXCEPT ![r][p] = c]
    /\ UNCHANGED <<watchVars, publishedVars, changeTimer, disposed, phase, op,
                   snapshots, storageVars, impact>>

AcceptsFilesChanged(r, epoch, sequence) ==
    /\ ~disposed
    /\ rootPath \in {None, r}
    /\ epoch >= watcherEpoch
    /\ epoch = watcherEpoch => sequence > watcherSequence

\* An epoch newer than the known one means notifications were missed.
MissedEpoch(epoch) == watcherEpoch # 0 /\ epoch > watcherEpoch
KnownPending(epoch) == IF MissedEpoch(epoch) THEN NoPendingChanges ELSE pendingChanges

\* A notification without a path inside the root only moves the epoch.
EmptyNotification(r, epoch, sequence) ==
    /\ AcceptsFilesChanged(r, epoch, sequence)
    /\ watcherEpoch' = epoch
    /\ watcherSequence' = IF epoch = watcherEpoch THEN watcherSequence ELSE 0
    /\ pendingChanges' = KnownPending(epoch)
    /\ pendingOverflow' = (pendingOverflow \/ MissedEpoch(epoch))
    /\ UNCHANGED <<disk, changeGeneration, publishedVars, changeTimer, disposed,
                   phase, op, snapshots, storageVars, impact>>

RepositoryFilesChanged(r, epoch, sequence, changes) ==
    /\ AcceptsFilesChanged(r, epoch, sequence)
    /\ MayNotify
    /\ changes # {}
    /\ watcherEpoch' = epoch
    /\ watcherSequence' = sequence
    /\ changeGeneration' = changeGeneration + 1
    /\ pendingChanges' = [p \in Paths |->
           IF p \in changes THEN changeGeneration + 1 ELSE KnownPending(epoch)[p]]
    /\ pendingOverflow' = \/ pendingOverflow
                          \/ MissedEpoch(epoch)
                          \/ Cardinality({p \in Paths : pendingChanges'[p] # 0}) > MaxPendingPaths
    /\ rootPath' = r
    /\ ScheduleAutomaticRefresh(r, Idle)
    /\ UNCHANGED <<disk, current, incrementalBaseline, persistedLatestRecord, disposed,
                   phase, op, snapshots, storageVars, impact>>

AcceptsInvalidation(r, epoch, reason) ==
    /\ ~disposed
    /\ epoch >= watcherEpoch
    /\ watcherEpoch # 0 => epoch # watcherEpoch
    /\ reason = "workspace-change" \/ rootPath \in {None, r}

RepositoryWatcherInvalidated(r, epoch, reason) ==
    /\ AcceptsInvalidation(r, epoch, reason)
    /\ MayNotify
    /\ IF reason # "workspace-change" \/ rootPath = r
         THEN UNCHANGED <<publishedVars, impact>>
         ELSE IF rootPath = None
                THEN /\ rootPath' = r
                     /\ UNCHANGED <<current, incrementalBaseline, persistedLatestRecord, impact>>
                ELSE ClearCurrent(r)
    /\ pendingOverflow' = TRUE
    /\ pendingChanges' = NoPendingChanges
    /\ watcherEpoch' = epoch
    /\ watcherSequence' = 0
    /\ changeGeneration' = changeGeneration + 1
    /\ ScheduleAutomaticRefresh(rootPath', Idle)
    /\ UNCHANGED <<disk, disposed, phase, op, snapshots, storageVars>>

-----------------------------------------------------------------------------
(* Starting an operation *)

\* Mutant: impactStateEpoch is not incremented.
StartAnalysisKeepingQueries(r, forceFull, signal) ==
    /\ Idle
    /\ phase' = "starting"
    /\ op' = [NoOperation EXCEPT !.root = r, !.forceFull = forceFull, !.signal = signal]
    /\ UNCHANGED <<disk, watchVars, publishedVars, disposed, snapshots, storageVars, impact>>

\* startAnalysis; a call made while an operation is active starts nothing.
StartAnalysis(r, forceFull, signal) ==
    /\ Idle
    /\ phase' = "starting"
    /\ op' = [NoOperation EXCEPT !.root = r, !.forceFull = forceFull, !.signal = signal]
    /\ SupersedeImpacts
    /\ UNCHANGED <<disk, watchVars, publishedVars, disposed, snapshots, storageVars>>

Analyze(r, signal) ==
    /\ ~disposed
    /\ MayRequest
    /\ StartAnalysis(r, TRUE, signal)
    /\ UNCHANGED changeTimer

Refresh ==
    /\ ~disposed
    /\ MayRequest
    /\ rootPath # None
    /\ StartAnalysis(rootPath, FALSE, "none")
    /\ UNCHANGED changeTimer

\* The debounce timer fires: runAutomaticRefresh.  What it schedules after its
\* refresh is what Settle has scheduled already.
AutomaticRefresh ==
    /\ changeTimer
    /\ changeTimer' = FALSE
    /\ IF disposed \/ ~Idle \/ rootPath = None
         THEN UNCHANGED <<disk, watchVars, publishedVars, disposed, phase, op,
                          snapshots, storageVars, impact>>
         ELSE StartAnalysis(rootPath, FALSE, "none")

\* The caller of analyze aborts its signal.
Abort ==
    /\ phase \notin {"idle", "settling"}
    /\ op.signal = "live"
    /\ op' = [op EXCEPT !.signal = "aborted"]
    /\ UNCHANGED <<serviceVars, phase, snapshots, storageVars>>

Aborted == op.signal = "aborted"

-----------------------------------------------------------------------------
(* runAnalysis, from one await to the next *)

BeginAnalysis ==
    /\ phase = "starting"
    /\ phase' = "workingTreeBefore"
    /\ op' = [op EXCEPT !.generation = changeGeneration, !.since = disk[op.root]]
    /\ UNCHANGED <<serviceVars, snapshots, storageVars>>

\* Git and the pipeline read one file after the other: what they may have seen
\* by now, of files that may have changed since they were called.
Sightings ==
    {seen \in Observation : \A p \in Paths : seen[p] \in {op.since[p], disk[op.root][p]}}

\* What the analysis re-observes, and what it takes the rest from: nothing when
\* changes were lost.
ChangedPaths == {p \in Paths : pendingChanges[p] \in 1 .. op.generation}

\* Mutant: pendingOverflow is not looked at.
BaselineDespiteOverflow ==
    IF op.forceFull \/ incrementalBaseline = None THEN None ELSE incrementalBaseline.content

PreviousBaseline ==
    IF op.forceFull \/ pendingOverflow \/ incrementalBaseline = None
      THEN None
      ELSE incrementalBaseline.content

\* The first Git working tree arrives (None: Git failed).  The operation picks its
\* inputs and, for a repository the service does not follow, restores what the
\* storage holds of it.
ReceiveWorkingTree(tree) ==
    /\ phase = "workingTreeBefore"
    /\ \/ tree \in Sightings
       \/ tree = None /\ ("git" \in Failures \/ Aborted)
    /\ LET inputs == [op EXCEPT !.tree = tree, !.changed = ChangedPaths,
                                !.baseline = PreviousBaseline]
       IN  IF Aborted
             THEN Return("failed")
             ELSE IF rootPath # op.root
                    THEN /\ phase' = "recovering"
                         /\ op' = inputs
                    ELSE /\ phase' = "orchestrating"
                         /\ op' = [inputs EXCEPT
                                     !.since = disk[op.root],
                                     !.previous = IF current = None THEN 0 ELSE current.version]
    /\ UNCHANGED <<serviceVars, snapshots, storageVars>>

\* Recovery finishes and hands its snapshots to the evolution engine.
Recover ==
    /\ phase = "recovering"
    /\ storageOpen
    /\ RepairStorage(op.root)
    /\ snapshots' = RecoveredHistory(op.root)
    /\ phase' = "restoring"
    /\ op' = [op EXCEPT !.restored = RecoveredVersion(op.root)]
    /\ UNCHANGED <<serviceVars, storageOpen>>

RecoverFails ==
    /\ phase = "recovering"
    /\ ~storageOpen \/ "storage" \in Failures
    /\ IF storageOpen THEN AbandonedRepair(op.root) ELSE UNCHANGED <<versions, latest>>
    /\ Return("failed")
    /\ UNCHANGED <<serviceVars, snapshots, storageOpen>>

\* Mutant: the baseline is not reset.
RestoreKeepingBaseline ==
    /\ phase = "restoring"
    /\ IF op.restored = 0
         THEN ClearCurrent(None)
         ELSE /\ current' = RecoveredDNA(op.root, op.restored)
              /\ rootPath' = op.root
              /\ persistedLatestRecord' = op.restored
              /\ SupersedeImpacts
              /\ UNCHANGED incrementalBaseline
    /\ phase' = "orchestrating"
    /\ op' = [op EXCEPT !.previous = op.restored, !.since = disk[op.root]]
    /\ UNCHANGED <<disk, watchVars, changeTimer, disposed, snapshots, storageVars>>

\* restorePersistedAnalysis publishes what was recovered, or clears the service.
Restore ==
    /\ phase = "restoring"
    /\ IF op.restored = 0
         THEN ClearCurrent(None)
         ELSE /\ current' = RecoveredDNA(op.root, op.restored)
              /\ rootPath' = op.root
              /\ incrementalBaseline' = None
              /\ persistedLatestRecord' = op.restored
              /\ SupersedeImpacts
    /\ phase' = "orchestrating"
    /\ op' = [op EXCEPT !.previous = op.restored, !.since = disk[op.root]]
    /\ UNCHANGED <<disk, watchVars, changeTimer, disposed, snapshots, storageVars>>

\* Orchestrator, synthesis and intelligence.  An incremental analysis observes
\* the changed paths and takes the others from its baseline; when one of them is
\* a directory or configures the scan, it observes everything again.
ObservedPaths ==
    IF op.baseline = None THEN {Paths} ELSE {op.changed} \cup {Paths : p \in op.changed}

Orchestrate ==
    /\ phase = "orchestrating"
    /\ phase' = "workingTreeAfter"
    /\ \E seen \in Sightings, observed \in ObservedPaths :
           op' = [op EXCEPT
               !.content = [p \in Paths |-> IF p \in observed THEN seen[p] ELSE op.baseline[p]],
               !.since = disk[op.root]]
    /\ UNCHANGED <<serviceVars, snapshots, storageVars>>

OrchestrateFails ==
    /\ phase = "orchestrating"
    /\ Aborted \/ "pipeline" \in Failures
    /\ Return("failed")
    /\ UNCHANGED <<serviceVars, snapshots, storageVars>>

\* The second Git working tree, asked for when the first one arrived.
WorkingTreeFails ==
    /\ phase = "workingTreeAfter"
    /\ op.tree # None
    /\ Aborted \/ "git" \in Failures
    /\ Return("failed")
    /\ UNCHANGED <<serviceVars, snapshots, storageVars>>

\* The working tree or the generation moved on: SupersededAnalysisError.
SupersedeCandidate ==
    /\ phase = "workingTreeAfter"
    /\ \/ Superseded
       \/ op.tree # None /\ Sightings # {op.tree}
    /\ Return("superseded")
    /\ UNCHANGED <<serviceVars, snapshots, storageVars>>

Unsuperseded ==
    /\ phase = "workingTreeAfter"
    /\ op.tree # None => op.tree \in Sightings
    /\ ~Superseded

\* equivalentBaseline: the refresh found what the baseline already says.
NothingChanged == op.baseline # None /\ current # None /\ op.content = op.baseline

KeepCurrent ==
    /\ Unsuperseded
    /\ NothingChanged
    /\ incrementalBaseline' = [root |-> op.root, content |-> op.content]
    /\ AcknowledgeChanges
    /\ Return("ok")
    /\ UNCHANGED <<disk, current, rootPath, persistedLatestRecord, changeTimer, disposed,
                   snapshots, storageVars, impact>>

\* Mutant: off by one.
UnincrementedVersion == IF current = None THEN 0 ELSE current.version

NextVersion == (IF current = None THEN 0 ELSE current.version) + 1

\* The candidate is assembled and the history read for a rollback.  The locals it
\* was made from are not read any more.
AssembleCandidate ==
    /\ Unsuperseded
    /\ ~NothingChanged
    /\ IF Aborted
         THEN Return("failed")
         ELSE /\ phase' = "history"
              /\ op' = [op EXCEPT !.version = NextVersion, !.history = snapshots,
                                  !.tree = None, !.changed = {}, !.baseline = None, !.since = None]
    /\ UNCHANGED <<serviceVars, snapshots, storageVars>>

-----------------------------------------------------------------------------
(* Snapshot, persistence, publication *)

NextSnapshot ==
    LET last == snapshots[Len(snapshots)]
    IN  IF snapshots = <<>>
          THEN [root |-> op.root, version |-> 1, parent |-> None]
          ELSE [root |-> op.root, version |-> last.version + 1,
                parent |-> <<last.root, last.version>>]

CreateSnapshot ==
    /\ phase = "history"
    /\ IF Aborted
         THEN /\ Return("failed")
              /\ UNCHANGED snapshots
         ELSE /\ phase' = "snapshot"
              /\ snapshots' = Append(snapshots, NextSnapshot)
              /\ UNCHANGED op
    /\ UNCHANGED <<serviceVars, storageVars>>

Outdated == Superseded \/ disposed

\* Mutants: the rollback forgets the whole history, or does nothing.
ForgetHistory == snapshots' = <<>>
KeepCandidateSnapshot == UNCHANGED snapshots

RestoreHistory == snapshots' = op.history

SupersedeSnapshot ==
    /\ phase = "snapshot"
    /\ Outdated
    /\ RestoreHistory
    /\ Return("superseded")
    /\ UNCHANGED <<serviceVars, storageVars>>

\* What a transactional persistAnalysis requires of the storage, and what one
\* batch then writes.
PersistPreconditions ==
    /\ ~\E record \in versions :
           record.dna.root = op.root /\ record.dna.version = op.version
    /\ latest[op.root] = persistedLatestRecord

CandidateDNA == [root |-> op.root, version |-> op.version, content |-> op.content]

Persist ==
    /\ phase = "snapshot"
    /\ ~Outdated
    /\ storageOpen
    /\ PersistPreconditions
    /\ versions' = versions \cup
           {[dna |-> CandidateDNA, previousVersion |-> op.previous,
             snapshot |-> snapshots[Len(snapshots)]]}
    /\ latest' = [latest EXCEPT ![op.root] = op.version]
    /\ phase' = "persisting"
    /\ op' = [op EXCEPT !.latestRecord = persistedLatestRecord, !.persisted = TRUE]
    /\ UNCHANGED <<serviceVars, snapshots, storageOpen>>

PersistFails ==
    /\ phase = "snapshot"
    /\ ~Outdated
    /\ ~storageOpen \/ ~PersistPreconditions \/ "storage" \in Failures
    /\ phase' = "persisting"
    /\ op' = [op EXCEPT !.latestRecord = persistedLatestRecord, !.persisted = FALSE]
    /\ UNCHANGED <<serviceVars, snapshots, storageVars>>

RollBackFailure ==
    /\ phase = "persisting"
    /\ ~op.persisted
    /\ RestoreHistory
    /\ Return("failed")
    /\ UNCHANGED <<serviceVars, storageVars>>

\* Superseded or disposed while the batch was written: the history is rolled
\* back first, the stored candidate removed after the next await.
DiscardCandidate ==
    /\ phase = "persisting"
    /\ op.persisted
    /\ Outdated
    /\ RestoreHistory
    /\ phase' = "discarding"
    /\ UNCHANGED <<serviceVars, op, storageVars>>

\* Mutant: the batch deletes the records and leaves the pointer.
RemoveCandidateKeepingPointer ==
    /\ phase = "discarding"
    /\ storageOpen
    /\ latest[op.root] = op.version
    /\ versions' = {record \in versions :
                       ~(record.dna.root = op.root /\ record.dna.version = op.version)}
    /\ Return("superseded")
    /\ UNCHANGED <<serviceVars, snapshots, latest, storageOpen>>

\* removePersistedCandidate: one batch, conditional on the latest pointer.
RemoveCandidate ==
    /\ phase = "discarding"
    /\ storageOpen
    /\ latest[op.root] = op.version
    /\ versions' = {record \in versions :
                       ~(record.dna.root = op.root /\ record.dna.version = op.version)}
    /\ latest' = [latest EXCEPT ![op.root] = op.latestRecord]
    /\ Return("superseded")
    /\ UNCHANGED <<serviceVars, snapshots, storageOpen>>

\* The removal is refused or fails: a warning, and the candidate stays stored.
RemoveCandidateFails ==
    /\ phase = "discarding"
    /\ ~storageOpen \/ latest[op.root] # op.version \/ "storage" \in Failures
    /\ Return("superseded")
    /\ UNCHANGED <<serviceVars, snapshots, storageVars>>

Publish ==
    /\ phase = "persisting"
    /\ op.persisted
    /\ ~Outdated
    /\ current' = CandidateDNA
    /\ rootPath' = op.root
    /\ incrementalBaseline' = [root |-> op.root, content |-> op.content]
    /\ persistedLatestRecord' = op.version
    /\ SupersedeImpacts
    /\ AcknowledgeChanges
    /\ Return("ok")
    /\ UNCHANGED <<disk, changeTimer, disposed, snapshots, storageVars>>

\* Mutant: pending changes schedule nothing.
SettleWithoutRefresh ==
    /\ phase = "settling"
    /\ phase' = "idle"
    /\ op' = NoOperation
    /\ UNCHANGED <<serviceVars, snapshots, storageVars>>

\* The finally of startAnalysis.
Settle ==
    /\ phase = "settling"
    /\ phase' = "idle"
    /\ op' = NoOperation
    /\ IF HasPending THEN ScheduleAutomaticRefresh(rootPath, TRUE) ELSE UNCHANGED changeTimer
    /\ UNCHANGED <<disk, watchVars, publishedVars, disposed, snapshots, storageVars, impact>>

-----------------------------------------------------------------------------
(* Impact queries, disposal, restart *)

GetImpact(c) ==
    /\ impact[c].status # "waiting"
    /\ Idle
    /\ current # None
    /\ impact' = [impact EXCEPT ![c] = [status |-> "waiting", dna |-> current, stale |-> FALSE]]
    /\ UNCHANGED <<disk, watchVars, publishedVars, changeTimer, disposed, phase, op,
                   snapshots, storageVars>>

AnswerImpact(c) ==
    /\ impact[c].status = "waiting"
    /\ impact' = [impact EXCEPT ![c] = [NoQuery EXCEPT !.status =
           IF ~impact[c].stale /\ current # None /\ current.version = impact[c].dna.version
             THEN "answered" ELSE "rejected"]]
    /\ UNCHANGED <<disk, watchVars, publishedVars, changeTimer, disposed, phase, op,
                   snapshots, storageVars>>

\* Mutant: disposal supersedes nothing.
DisposeSilently ==
    /\ ~disposed
    /\ disposed' = TRUE
    /\ changeTimer' = FALSE
    /\ pendingChanges' = NoPendingChanges
    /\ ClearCurrent(None)
    /\ storageOpen' = FALSE
    /\ UNCHANGED <<disk, pendingOverflow, changeGeneration, watcherEpoch, watcherSequence,
                   phase, op, snapshots, versions, latest>>

Dispose ==
    /\ ~disposed
    /\ disposed' = TRUE
    /\ changeGeneration' = changeGeneration + 1
    /\ changeTimer' = FALSE
    /\ pendingChanges' = NoPendingChanges
    /\ ClearCurrent(None)
    /\ storageOpen' = FALSE
    /\ UNCHANGED <<disk, pendingOverflow, watcherEpoch, watcherSequence, phase, op,
                   snapshots, versions, latest>>

\* A new extension host process, after a disposal or a crash at any point.
NewProcess ==
    /\ MayRequest
    /\ disposed' = FALSE
    /\ storageOpen' = TRUE
    /\ changeTimer' = FALSE
    /\ phase' = "idle"
    /\ op' = NoOperation
    /\ pendingChanges' = NoPendingChanges
    /\ pendingOverflow' = FALSE
    /\ changeGeneration' = 0
    /\ watcherEpoch' = 0
    /\ watcherSequence' = 0
    /\ incrementalBaseline' = None
    /\ impact' = [c \in ImpactCallers |-> NoQuery]
    /\ UNCHANGED disk

\* activate restores r, the first workspace folder, before it registers anything
\* that could call the service.
RestartExtension(r) ==
    /\ NewProcess
    /\ RepairStorage(r)
    /\ snapshots' = RecoveredHistory(r)
    /\ persistedLatestRecord' = RecoveredVersion(r)
    /\ IF RecoveredVersion(r) = 0
         THEN current' = None /\ rootPath' = None
         ELSE current' = RecoveredDNA(r, RecoveredVersion(r)) /\ rootPath' = r

\* The restore of r fails; activate shows a warning and goes on.
RestartUnrestored(r) ==
    /\ "storage" \in Failures
    /\ NewProcess
    /\ AbandonedRepair(r)
    /\ snapshots' = <<>>
    /\ current' = None
    /\ rootPath' = None
    /\ persistedLatestRecord' = 0

-----------------------------------------------------------------------------
(* Specification *)

\* The record of the first analysis of r.
FirstVersion(r, content) ==
    [dna |-> [root |-> r, version |-> 1, content |-> content],
     previousVersion |-> 0,
     snapshot |-> ChainedSnapshot(r, 1)]

\* The extension is activated in a window on folder, by a storage that holds the
\* first analysis of some repositories.
Activated(folder, stored) ==
    LET own == {record \in stored : record.dna.root = folder}
    IN  /\ disk \in [Roots -> Observation]
        /\ current \in IF own = {} THEN {None} ELSE {record.dna : record \in own}
        /\ rootPath = IF own = {} THEN None ELSE folder
        /\ incrementalBaseline = None
        /\ persistedLatestRecord = IF own = {} THEN 0 ELSE 1
        /\ pendingChanges = NoPendingChanges
        /\ pendingOverflow = FALSE
        /\ changeGeneration = 0
        /\ watcherEpoch = 0
        /\ watcherSequence = 0
        /\ changeTimer = FALSE
        /\ disposed = FALSE
        /\ phase = "idle"
        /\ op = NoOperation
        /\ snapshots = IF own = {} THEN <<>> ELSE <<ChainedSnapshot(folder, 1)>>
        /\ versions = stored
        /\ latest = [r \in Roots |-> IF \E record \in stored : record.dna.root = r THEN 1 ELSE 0]
        /\ storageOpen = TRUE
        /\ impact = [c \in ImpactCallers |-> NoQuery]

\* The first activation ever.
Init == Activated(None, {})

\* Steps of the running operation: the event loop takes them without help.
RunAnalysis ==
    \/ BeginAnalysis
    \/ \E tree \in Observation \cup {None} : ReceiveWorkingTree(tree)
    \/ Recover \/ RecoverFails \/ Restore
    \/ Orchestrate \/ OrchestrateFails
    \/ WorkingTreeFails \/ SupersedeCandidate \/ KeepCurrent \/ AssembleCandidate
    \/ CreateSnapshot \/ SupersedeSnapshot
    \/ Persist \/ PersistFails \/ RollBackFailure
    \/ DiscardCandidate \/ RemoveCandidate \/ RemoveCandidateFails
    \/ Publish
    \/ Settle

\* Calls of the users of the service.
Request ==
    \/ \E r \in Roots, signal \in {"none", "live"} : Analyze(r, signal)
    \/ Refresh
    \/ Abort
    \/ \E c \in ImpactCallers : GetImpact(c)
    \/ Dispose
    \/ \E r \in Roots : RestartExtension(r) \/ RestartUnrestored(r)

\* Any notification the event bus could carry, in any order.
Notification ==
    \E r \in Roots, epoch \in 1 .. MaxEpoch :
        \/ \E sequence \in 1 .. MaxSequence :
              \/ EmptyNotification(r, epoch, sequence)
              \/ \E changes \in SUBSET Paths : RepositoryFilesChanged(r, epoch, sequence, changes)
        \/ \E reason \in {"overflow", "restart", "workspace-change"} :
              RepositoryWatcherInvalidated(r, epoch, reason)

Next ==
    \/ RunAnalysis
    \/ AutomaticRefresh
    \/ \E c \in ImpactCallers : AnswerImpact(c)
    \/ Request
    \/ Notification
    \/ \E r \in Roots, p \in Paths, c \in Contents : EditFile(r, p, c)

Spec == Init /\ [][Next]_vars

-----------------------------------------------------------------------------
(* Properties *)

\* An incremental analysis starts from the published analysis: the baseline is
\* of the same repository and says what current says.  The two are assigned in
\* different places (publication, the no-change return, restore, clearCurrent),
\* and the baseline an operation kept in a local must still be that one.
BaselineMatchesCurrent ==
    incrementalBaseline # None =>
        /\ current # None
        /\ incrementalBaseline.root = current.root
        /\ incrementalBaseline.content = current.content

\* The published analysis is always stored, whatever supersedes, discards,
\* quarantines or disposes, and rootPath names its repository.
CurrentIsStored ==
    current # None =>
        /\ rootPath = current.root
        /\ \E record \in versions : record.dna = current

\* The parts of OperationTracksService, along the phases of an operation.
GenerationIsPast == op.generation <= changeGeneration

RefreshesItsBaseline ==
    phase \in {"starting", "workingTreeBefore"} /\ ~op.forceFull /\ incrementalBaseline # None =>
        incrementalBaseline.root = op.root

RestoresAnotherRepository ==
    phase \in {"recovering", "restoring"} =>
        /\ op.baseline = None
        /\ current # None => current.root # op.root

RestoredIsStored ==
    phase = "restoring" /\ op.restored # 0 =>
        \E record \in versions : record.dna.root = op.root /\ record.dna.version = op.restored

ComparesWithTheBaseline ==
    phase \in {"orchestrating", "workingTreeAfter"} /\ op.baseline # None /\ ~Superseded =>
        incrementalBaseline = [root |-> op.root, content |-> op.baseline]

CandidateIsNewer ==
    phase \in {"history", "snapshot", "persisting", "discarding"} /\ current # None =>
        current.version < op.version

PersistedIsStored ==
    phase = "persisting" /\ op.persisted => \E record \in versions : record.dna = CandidateDNA

\* What an operation read before an await and uses after it still holds then:
\* the baseline it will compare with is the service's, as long as nothing
\* superseded it; what it restores is not the repository the service follows,
\* and is stored; its version is newer than the published one; what it is about
\* to publish is stored.
OperationTracksService ==
    /\ GenerationIsPast
    /\ RefreshesItsBaseline
    /\ RestoresAnotherRepository
    /\ RestoredIsStored
    /\ ComparesWithTheBaseline
    /\ CandidateIsNewer
    /\ PersistedIsStored

\* A crash loses nothing that was published: at any point, recovery would bring
\* back the published analysis or a newer one.
PublishedIsRecoverable ==
    current # None => RecoveredVersion(current.root) >= current.version

\* Between operations the history of the evolution engine ends at the published
\* version: every rollback restored it and no candidate left its snapshot.
HistoryEndsAtCurrent ==
    Idle /\ ~disposed /\ current # None =>
        /\ Len(snapshots) = current.version
        /\ \A i \in 1 .. Len(snapshots) : snapshots[i] = ChainedSnapshot(current.root, i)

\* Between operations the newest stored version and the latest pointer of the
\* published repository are the published version: a superseded candidate was
\* removed and the next operation's preconditions can be met.  Only a storage
\* that fails to remove a candidate leaves it, whole, with the pointer at it.
StorageMatchesCurrent ==
    Idle /\ ~disposed /\ current # None =>
        LET stored == {record.dna.version :
                          record \in {x \in versions : x.dna.root = current.root}}
        IN  /\ latest[current.root] = Max(stored)
            /\ \/ Max(stored) = current.version
               \/ "storage" \in Failures /\ Max(stored) = current.version + 1

\* An impact query is answered from the analysis that is still the published
\* one, and never while another is being computed.
ImpactAnswerIsCurrent ==
    [][\A c \in ImpactCallers :
          impact[c].status = "waiting" /\ impact'[c].status = "answered" =>
              Idle /\ impact[c].dna = current]_vars
=============================================================================
