---------------------------- MODULE SharedDatabase ----------------------------
(***************************************************************************)
(* One SQLite file, several windows.  VS Code gives every window of a user *)
(* the same globalStorageUri, so two windows on one repository read and    *)
(* write the same rows.  Each statement of SqliteStorage is synchronous,   *)
(* and a batch is one immediate transaction, but a recovery is many        *)
(* statements with an await after each, and between two of them another    *)
(* window may commit.  One action here is one statement, or the local code *)
(* from one statement to the next.                                         *)
(*                                                                         *)
(* This is ProjectDNAService!Recover, Persist and RemoveCandidate at the   *)
(* grain of single rows, for one repository.  The nine record namespaces   *)
(* of a version are represented by two: the snapshot, which recovery reads *)
(* for every version, and the aggregate, which it only validates for the   *)
(* version it selects.                                                     *)
(***************************************************************************)
EXTENDS Integers, Sequences, FiniteSets, FiniteSetsExt

CONSTANTS
    Windows,
    Missing,           \* the value of a row that is not there
    Corrupt,           \* a value JSON.parse throws on
    Invalid,           \* a value that parses and fails its schema
    Vanished,          \* evidence: unreadable, and without a raw value
    Unread,            \* evidence: not read
    Repository,        \* the repository's id, the value of its root index
    InitialDatabases   \* what earlier processes left in the file

CONSTANTS
    MaxVersion,        \* bound on the versions a window writes
    MaxAnalyses        \* bound on the analyses ever committed

ASSUME BoundAssumption == {MaxVersion, MaxAnalyses} \subseteq Nat

VARIABLES
    store,     \* the rows of dna_store
    analyses,  \* number of analyses ever committed: the last id
    win        \* what each window holds in memory

vars == <<store, analyses, win>>

-----------------------------------------------------------------------------
(* Rows and values *)

Versions == 1 .. MaxVersion
Aggregate(v) == <<"aggregate", v>>
Snapshot(v) == <<"snapshots", v>>
Manifest(v) == <<"versionManifest", v>>
Latest == <<"latest", 0>>
RootIndex == <<"rootIndex", 0>>

\* VERSION_RECORD_NAMESPACES and VERSION_NAMESPACES, in the order they are read.
RecordRows(v) == <<Aggregate(v), Snapshot(v)>>
VersionRows(v) == <<Aggregate(v), Snapshot(v), Manifest(v)>>
RowsOf(v) == {Aggregate(v), Snapshot(v), Manifest(v)}
Rows == UNION {RowsOf(v) : v \in Versions} \cup {Latest, RootIndex}

\* All rows of a version say which analysis wrote them; its snapshot also names
\* its parent, 0 for none.  A snapshot's id holds the time: no two are the same.
Analysis == [id : Nat \ {0}, parent : Nat]
Pointer == [version : Versions, manifestFormat : BOOLEAN]
Values == Analysis \cup Pointer \cup {Repository, Missing, Corrupt, Invalid}

Database == [Rows -> Values]

ASSUME DatabaseAssumption ==
    /\ InitialDatabases \subseteq Database
    /\ Missing \notin Analysis

-----------------------------------------------------------------------------
(* SqliteStorage: a batch is a function from rows to what they must hold and a *)
(* function from rows to what they hold afterwards.                            *)

\* Mutant: a precondition 'missing' is not checked.
SatisfiedIfPresent(requires) ==
    \A row \in DOMAIN requires : requires[row] # Missing => store[row] = requires[row]

Satisfied(requires) == \A row \in DOMAIN requires : store[row] = requires[row]

Each(rows, value) == [row \in rows |-> value]
Over(writes, rows) ==
    [row \in DOMAIN writes \cup DOMAIN rows |->
        IF row \in DOMAIN writes THEN writes[row] ELSE rows[row]]

ExecuteBatch(writes) == store' = Over(writes, store)

-----------------------------------------------------------------------------
(* A window *)

Phases == {"closed", "pointers", "versions", "metadata", "required", "evidence", "values",
           "inspecting", "repairing", "idle", "persisted"}

Closed ==
    [phase |-> "closed",
     calls |-> <<>>,                    \* the statements up to the next decision
     evidence |-> Each(Rows, Unread),
     keys |-> {},                       \* versionKeys not evaluated yet
     chain |-> [v \in Versions |-> 0],  \* snapshotIds of validVersions, 0: not valid
     complete |-> TRUE,                 \* requiredRecordsExist
     disturbed |-> FALSE,               \* others changed the rows during the recovery
     version |-> 0,                     \* current.version, 0: nothing analysed
     head |-> 0,                        \* id of the newest snapshot in memory
     latest |-> Missing,                \* persistedLatestRecord
     candidate |-> 0]                   \* the analysis persisted and not published

Recovering(w) == win[w].phase \notin {"closed", "idle", "persisted"}

\* Window w changed what other windows may be in the middle of reading.
Disturb(windows, w) ==
    [x \in Windows |->
        IF x # w /\ Recovering(x) THEN [windows[x] EXCEPT !.disturbed = TRUE] ELSE windows[x]]

\* A recovery disturbs the others only when it was disturbed itself.
PassOn(windows, w) == IF win[w].disturbed THEN Disturb(windows, w) ELSE windows

Call(type, row) == [type |-> type, row |-> row]
Calls(type, rows) == [i \in 1 .. Len(rows) |-> Call(type, rows[i])]

\* readRecord, one row after the other: does it exist, and what does it hold.
ReadRecords(rows) ==
    [i \in 1 .. 2 * Len(rows) |->
        Call(IF i % 2 = 1 THEN "exists" ELSE "inspect", rows[(i + 1) \div 2])]

\* Window w reaches the next phase, with these statements before its next decision.
Proceed(w, phase, calls) == win' = [win EXCEPT ![w].phase = phase, ![w].calls = calls]

Decides(w, phase) == win[w].phase = phase /\ win[w].calls = <<>>
Holds(w, row) == win[w].evidence[row]

-----------------------------------------------------------------------------
(* The statements of a recovery *)

Calling(w, type, row) ==
    /\ win[w].calls # <<>>
    /\ Head(win[w].calls) = Call(type, row)
    /\ UNCHANGED <<store, analyses>>

Answered(w, row, value) ==
    win' = [win EXCEPT ![w].calls = SelectSeq(@, LAMBDA call : call.row # row),
                       ![w].evidence = [@ EXCEPT ![row] = value]]

Exists(w, row) ==
    /\ Calling(w, "exists", row)
    /\ IF store[row] = Missing
         THEN Answered(w, row, Missing)
         ELSE win' = [win EXCEPT ![w].calls = Tail(@)]

Inspect(w, row) ==
    /\ Calling(w, "inspect", row)
    /\ Answered(w, row, IF store[row] = Missing THEN Vanished ELSE store[row])

\* list of discoverVersionKeys; row names the namespace.
List(w, namespace) ==
    /\ Calling(w, "list", namespace)
    /\ win' = [win EXCEPT ![w].calls = Tail(@),
                          ![w].keys = @ \cup
                              {v \in Versions : store[<<namespace[1], v>>] # Missing}]

\* requiredVersionRecordsExist stops at the first row that is missing.
Require(w, row) ==
    /\ Calling(w, "require", row)
    /\ win' = [win EXCEPT ![w].complete = store[row] # Missing,
                          ![w].calls = IF store[row] = Missing THEN <<>> ELSE Tail(@)]

\* readVersionValues: a load, and after a failed one whether the row exists.
Load(w, row) ==
    /\ Calling(w, "load", row)
    /\ IF store[row] \in {Missing, Corrupt}
         THEN win' = [win EXCEPT ![w].calls = <<Call("recheck", row)>> \o Tail(@)]
         ELSE Answered(w, row, store[row])

Recheck(w, row) ==
    /\ Calling(w, "recheck", row)
    /\ Answered(w, row, IF store[row] = Missing THEN Missing ELSE Vanished)

Statement(w) ==
    \/ \E row \in Rows : Exists(w, row) \/ Inspect(w, row) \/ Require(w, row)
    \/ \E row \in Rows : Load(w, row) \/ Recheck(w, row)
    \/ \E row \in {Aggregate(0), Snapshot(0), Manifest(0)} : List(w, row)

-----------------------------------------------------------------------------
(* Evaluation *)

\* parsePointer, declaredManifestVersion; 0: the pointer announces no manifest.
ManifestPointerVersion(w) ==
    LET pointer == Holds(w, Latest)
    IN  IF pointer \in Pointer /\ pointer.manifestFormat THEN pointer.version ELSE 0

\* Version v continues a chain of valid versions.
HasParent(w, v) ==
    Holds(w, Snapshot(v)).parent = IF v = 1 THEN 0 ELSE win[w].chain[v - 1]

\* Mutant: a version without a manifest always needs its predecessor.
LegacyInChain(w, v) ==
    /\ Holds(w, Manifest(v)) = Missing
    /\ ManifestPointerVersion(w) # v
    /\ v > 1 => win[w].chain[v - 1] # 0

\* Without a manifest, only a manifest pointer asks for a predecessor.
LegacyFallback(w, v) ==
    /\ Holds(w, Manifest(v)) = Missing
    /\ ManifestPointerVersion(w) # v
    /\ (ManifestPointerVersion(w) # 0 /\ v > 1) => win[w].chain[v - 1] # 0

ValidMetadata(w, v) ==
    /\ win[w].complete
    /\ Holds(w, Snapshot(v)) \in Analysis
    /\ v = 1 => HasParent(w, v)
    /\ \/ LegacyFallback(w, v)
       \/ /\ Holds(w, Manifest(v)) \in Analysis
          /\ Holds(w, Manifest(v)).id = Holds(w, Snapshot(v)).id
          /\ v > 1 => win[w].chain[v - 1] # 0
          /\ HasParent(w, v)

\* validatePersistedAnalysis finds one analysis in all rows.
OneAnalysis(w, v) ==
    /\ {Holds(w, Aggregate(v)), Holds(w, Snapshot(v))} \subseteq Analysis
    /\ Holds(w, Aggregate(v)) = Holds(w, Snapshot(v))

ValidCandidate(w, v) ==
    /\ OneAnalysis(w, v)
    /\ \/ LegacyFallback(w, v)
       \/ /\ Holds(w, Manifest(v)) = Holds(w, Aggregate(v))
          /\ v > 1 => win[w].chain[v - 1] # 0
          /\ HasParent(w, v)

-----------------------------------------------------------------------------
(* The decisions of a recovery *)

StartRecovery(w) ==
    /\ \/ win[w].phase = "closed"
       \/ win[w].phase = "idle" /\ win[w].version = 0
    /\ Proceed(w, "pointers", ReadRecords(<<Latest, RootIndex>>))
    /\ UNCHANGED <<store, analyses>>

DiscoverVersionKeys(w) ==
    /\ Decides(w, "pointers")
    /\ Proceed(w, "versions", Calls("list", VersionRows(0)))
    /\ UNCHANGED <<store, analyses>>

Judged(w) == Min(win[w].keys)

\* readVersionMetadata reads the two rows at once: exists of both comes first.
ReadVersionMetadata(w) ==
    /\ Decides(w, "versions")
    /\ win[w].keys # {}
    /\ LET rows == <<Manifest(Judged(w)), Snapshot(Judged(w))>>
       IN  Proceed(w, "metadata", Calls("exists", rows) \o Calls("inspect", rows))
    /\ UNCHANGED <<store, analyses>>

RequiredVersionRecordsExist(w) ==
    /\ Decides(w, "metadata")
    /\ Proceed(w, "required", Calls("require", RecordRows(Judged(w))))
    /\ UNCHANGED <<store, analyses>>

Forget(v) == Each(RowsOf(v), Unread)

AcceptMetadata(w) ==
    LET v == Judged(w)
    IN  /\ Decides(w, "required")
        /\ ValidMetadata(w, v)
        /\ win' = [win EXCEPT ![w].phase = "versions",
                              ![w].keys = @ \ {v},
                              ![w].chain[v] = Holds(w, Snapshot(v)).id,
                              ![w].evidence = Over(Forget(v), @)]
        /\ UNCHANGED <<store, analyses>>

\* The rows of a version that is not valid are read again, as evidence.
RejectMetadata(w) ==
    /\ Decides(w, "required")
    /\ ~ValidMetadata(w, Judged(w))
    /\ Proceed(w, "evidence", ReadRecords(VersionRows(Judged(w))))
    /\ UNCHANGED <<store, analyses>>

\* What a batch requires of the rows that were read.  A row without a raw value
\* cannot be required: evidencePreconditionRequired throws.
Evidence(w, rows) == [row \in rows |-> Holds(w, row)]
Allowed(w, rows) == Satisfied(Evidence(w, rows))

\* An error ends the recovery: the next analysis starts another one.
RecoveryFails(w) ==
    /\ win' = [win EXCEPT ![w] = Closed]
    /\ UNCHANGED store

\* cleanupVersion, quarantineVersion.
RemoveVersion(w, v) ==
    \/ /\ Allowed(w, RowsOf(v))
       /\ ExecuteBatch(Each(RowsOf(v), Missing))
       /\ win' = PassOn([win EXCEPT ![w].phase = "versions",
                                    ![w].keys = @ \ {v},
                                    ![w].chain[v] = 0,
                                    ![w].evidence = Over(Forget(v), @)], w)
    \/ ~Allowed(w, RowsOf(v)) /\ RecoveryFails(w)

RemoveInvalidVersion(w) ==
    /\ Decides(w, "evidence")
    /\ RemoveVersion(w, Judged(w))
    /\ UNCHANGED analyses

\* Mutant: the oldest valid version is selected.
OldestCandidate(w) == LET valid == {v \in Versions : win[w].chain[v] # 0}
                      IN  IF valid = {} THEN 0 ELSE Min(valid)

\* The newest version whose metadata is valid, 0: none.
Candidate(w) == Max({v \in Versions : win[w].chain[v] # 0} \cup {0})

ReadVersionValues(w) ==
    /\ Decides(w, "versions")
    /\ win[w].keys = {}
    /\ IF Candidate(w) = 0
         THEN Proceed(w, "repairing", <<>>)
         ELSE Proceed(w, "values", Calls("load", VersionRows(Candidate(w))))
    /\ UNCHANGED <<store, analyses>>

SelectCandidate(w) ==
    /\ Decides(w, "values") \/ Decides(w, "inspecting")
    /\ ValidCandidate(w, Candidate(w))
    /\ Proceed(w, "repairing", <<>>)
    /\ UNCHANGED <<store, analyses>>

InspectCandidate(w) ==
    /\ Decides(w, "values")
    /\ ~ValidCandidate(w, Candidate(w))
    /\ Proceed(w, "inspecting", ReadRecords(VersionRows(Candidate(w))))
    /\ UNCHANGED <<store, analyses>>

RemoveCandidate(w) ==
    /\ Decides(w, "inspecting")
    /\ ~ValidCandidate(w, Candidate(w))
    /\ RemoveVersion(w, Candidate(w))
    /\ UNCHANGED analyses

\* prepareSelectedPromotion: a version without a manifest gets one when the
\* pointer announces manifests.
Promotes(w) ==
    /\ Candidate(w) # 0
    /\ Holds(w, Manifest(Candidate(w))) = Missing
    /\ ManifestPointerVersion(w) # 0

DesiredPointer(w) ==
    IF Candidate(w) = 0
      THEN Missing
      ELSE [version |-> Candidate(w),
            manifestFormat |-> Promotes(w) \/ Holds(w, Manifest(Candidate(w))) # Missing]

\* repairPointers: the rows it writes, each only where it differs from what was
\* read, and each only while it still holds what was read.
Desired(w) ==
    [row \in {Latest, RootIndex} \cup (IF Promotes(w) THEN {Manifest(Candidate(w))} ELSE {}) |->
        CASE row = Latest    -> DesiredPointer(w)
          [] row = RootIndex -> IF Candidate(w) = 0 THEN Missing ELSE Repository
          [] OTHER           -> Holds(w, Aggregate(Candidate(w)))]

RepairedRows(w) == {row \in DOMAIN Desired(w) : Holds(w, row) # Desired(w)[row]}

\* What was read, or nothing, becomes the published analysis and the history.
Recovered(w) ==
    [Closed EXCEPT !.phase = "idle",
                   !.version = Candidate(w),
                   !.head = IF Candidate(w) = 0 THEN 0 ELSE win[w].chain[Candidate(w)],
                   !.latest = DesiredPointer(w)]

RepairPointers(w) ==
    /\ Decides(w, "repairing")
    /\ Allowed(w, RepairedRows(w))
    /\ ExecuteBatch([row \in RepairedRows(w) |-> Desired(w)[row]])
    /\ win' = PassOn([win EXCEPT ![w] = Recovered(w)], w)
    /\ UNCHANGED analyses

RepairFails(w) ==
    /\ Decides(w, "repairing")
    /\ ~Allowed(w, RepairedRows(w))
    /\ RecoveryFails(w)
    /\ UNCHANGED analyses

-----------------------------------------------------------------------------
(* Analyses *)

NextVersion(w) == win[w].version + 1
NextPointer(w) == [version |-> NextVersion(w), manifestFormat |-> TRUE]

\* Mutant: restored snapshots do not restore the id of the last one.
OrphanAnalysis(w) == [id |-> analyses + 1, parent |-> 0]

\* The snapshot of an analysis names the newest one in memory as its parent.
NextAnalysis(w) == [id |-> analyses + 1, parent |-> win[w].head]

PersistPreconditions(w) ==
    Over(Each({Latest}, win[w].latest), Each(RowsOf(NextVersion(w)), Missing))

\* persistAnalysis: records, manifest, root index and pointer in one batch.
Persist(w) ==
    /\ win[w].phase = "idle"
    /\ NextVersion(w) \in Versions
    /\ analyses < MaxAnalyses
    /\ Satisfied(PersistPreconditions(w))
    /\ analyses' = analyses + 1
    /\ ExecuteBatch(Over(Each(RowsOf(NextVersion(w)), NextAnalysis(w)),
                         Over(Each({RootIndex}, Repository), Each({Latest}, NextPointer(w)))))
    /\ win' = Disturb([win EXCEPT ![w].phase = "persisted", ![w].candidate = analyses'], w)

\* An analysis that is not published leaves the window as it was; one that never
\* had an analysis recovers again before the next.
Unpublished(w) ==
    IF win[w].version = 0 THEN Closed ELSE [win[w] EXCEPT !.phase = "idle", !.candidate = 0]

\* A refused batch.
PersistFails(w) ==
    /\ win[w].phase = "idle"
    /\ NextVersion(w) \in Versions
    /\ ~Satisfied(PersistPreconditions(w))
    /\ win' = [win EXCEPT ![w] = Unpublished(w)]
    /\ UNCHANGED <<store, analyses>>

Publish(w) ==
    /\ win[w].phase = "persisted"
    /\ win' = [win EXCEPT ![w] = [Closed EXCEPT !.phase = "idle",
                                                !.version = NextVersion(w),
                                                !.head = win[w].candidate,
                                                !.latest = NextPointer(w)]]
    /\ UNCHANGED <<store, analyses>>

\* removePersistedCandidate: the superseded candidate is removed while the pointer
\* still names it; otherwise it stays.
Discard(w) ==
    /\ win[w].phase = "persisted"
    /\ IF Satisfied(Each({Latest}, NextPointer(w)))
         THEN /\ ExecuteBatch(Over(Each(RowsOf(NextVersion(w)), Missing),
                                Each({Latest}, win[w].latest)))
              /\ win' = Disturb([win EXCEPT ![w] = Unpublished(w)], w)
         ELSE /\ win' = [win EXCEPT ![w] = Unpublished(w)]
              /\ UNCHANGED store
    /\ UNCHANGED analyses

\* The window is closed, reloaded or killed, between any two statements.
CloseWindow(w) ==
    /\ win[w].phase # "closed"
    /\ win' = [win EXCEPT ![w] = Closed]
    /\ UNCHANGED <<store, analyses>>

-----------------------------------------------------------------------------
Init ==
    /\ store \in InitialDatabases
    /\ analyses = Max({store[row].id : row \in {r \in Rows : store[r] \in Analysis}} \cup {0})
    /\ win = [w \in Windows |-> Closed]

Recovery(w) ==
    \/ StartRecovery(w)
    \/ Statement(w)
    \/ DiscoverVersionKeys(w)
    \/ ReadVersionMetadata(w)
    \/ RequiredVersionRecordsExist(w)
    \/ AcceptMetadata(w)
    \/ RejectMetadata(w)
    \/ RemoveInvalidVersion(w)
    \/ ReadVersionValues(w)
    \/ SelectCandidate(w)
    \/ InspectCandidate(w)
    \/ RemoveCandidate(w)
    \/ RepairPointers(w)
    \/ RepairFails(w)

Next ==
    \E w \in Windows :
        \/ Recovery(w)
        \/ Persist(w)
        \/ PersistFails(w)
        \/ Publish(w)
        \/ Discard(w)
        \/ CloseWindow(w)

Spec == Init /\ [][Next]_vars

-----------------------------------------------------------------------------
(* Properties *)

Window ==
    [phase : Phases,
     calls : Seq([type : {"exists", "inspect", "list", "require", "load", "recheck"},
                  row : {"aggregate", "snapshots", "versionManifest", "latest", "rootIndex"} \X Nat]),
     evidence : [Rows -> Values \cup {Vanished, Unread}],
     keys : SUBSET Versions,
     chain : [Versions -> Nat],
     complete : BOOLEAN,
     disturbed : BOOLEAN,
     version : 0 .. MaxVersion,
     head : Nat,
     latest : Pointer \cup {Missing},
     candidate : Nat]

\* The types of the variables, and what a window holds in which phase.
SharedTypeOK ==
    /\ store \in Database
    /\ analyses \in 0 .. MaxAnalyses
    /\ win \in [Windows -> Window]
    /\ \A w \in Windows :
           /\ (win[w].candidate # 0) <=> (win[w].phase = "persisted")
           /\ Recovering(w) => win[w].version = 0
           /\ (win[w].version = 0) <=> (win[w].latest = Missing)

\* What is stored, judged without any window: the versions whose metadata is whole
\* and continues the chain, and the newest of them that holds one analysis.
Announced ==
    IF store[Latest] \in Pointer /\ store[Latest].manifestFormat THEN store[Latest].version ELSE 0

Chained[v \in Versions] ==
    /\ Missing \notin {store[Aggregate(v)], store[Snapshot(v)]}
    /\ store[Snapshot(v)] \in Analysis
    /\ v = 1 => store[Snapshot(v)].parent = 0
    /\ IF store[Manifest(v)] = Missing
         THEN v # Announced /\ ((v > 1 /\ Announced # 0) => Chained[v - 1])
         ELSE /\ store[Manifest(v)] = store[Snapshot(v)]
              /\ v > 1 => /\ Chained[v - 1]
                          /\ store[Snapshot(v)].parent = store[Snapshot(v - 1)].id

NewestVersion ==
    Max({v \in Versions : Chained[v] /\ store[Aggregate(v)] = store[Snapshot(v)]} \cup {0})

PointersAreRight ==
    /\ IF NewestVersion = 0
         THEN store[Latest] = Missing /\ store[RootIndex] = Missing
         ELSE store[Latest] \in Pointer /\ store[Latest].version = NewestVersion
              /\ store[RootIndex] = Repository
    /\ \A v \in Versions : Chained[v] \/ \A row \in RowsOf(v) : store[row] = Missing

\* A recovery during which no window committed an analysis, or removed one, brings
\* back the newest version that is stored whole, and leaves nothing in the database
\* that is not valid -- also when another window recovers the same damaged database
\* at the same time: of two repairs of one row the second is refused or has nothing
\* left to do (analysis-recovery.ts:112-256).
RecoveryIsExact ==
    [][\A w \in Windows :
           (Recovering(w) /\ win'[w].phase = "idle" /\ ~win[w].disturbed) =>
               win'[w].version = NewestVersion' /\ PointersAreRight']_vars

\* Such a recovery never costs the database the version it should bring back: no
\* statement of it changes which version is the newest stored whole.
RecoveryLosesNothing ==
    [][\A w \in Windows :
           (Recovering(w) /\ win'[w] # win[w] /\ ~win[w].disturbed /\ ~win'[w].disturbed) =>
               NewestVersion' = NewestVersion]_vars

\* No window writes over the records of another: between two analyses the rows of
\* a version are missing (project-dna-service.ts:1747-1769).
VersionsAreNotOverwritten ==
    [][\A v \in Versions : \A row \in RowsOf(v) :
           (store[row] \in Analysis /\ store'[row] \in Analysis) => store'[row] = store[row]]_vars

\* A window that persists on top of the analysis it has in memory, while that one
\* and the versions before it are stored, leaves the new version as the one a
\* recovery will bring back: its snapshot continues the stored chain and nothing
\* newer is in the way.
CommitIsRecoverable ==
    [][\A w \in Windows :
           /\ win[w].phase = "idle" /\ win'[w].phase = "persisted"
           /\ win[w].version # 0 =>
                  /\ \A v \in 1 .. win[w].version : Chained[v]
                  /\ store[Snapshot(win[w].version)].id = win[w].head
           => NewestVersion' = win[w].version + 1]_vars
=============================================================================
