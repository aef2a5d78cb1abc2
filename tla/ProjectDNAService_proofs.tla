----------------------- MODULE ProjectDNAService_proofs -----------------------
(***************************************************************************)
(* Proofs about ProjectDNAService, for any number of repositories, files,  *)
(* contents and notifications: type correctness, that the incremental      *)
(* baseline always describes the published analysis, that the published    *)
(* analysis is always stored, that impact queries are answered from it,    *)
(* and that recovery, history and storage agree with it.  Then the query   *)
(* of WorkingTreeImpact beside it; and the running extension of            *)
(* WorkspaceAnalysis: the watcher always has a flush queued for what it    *)
(* holds, the extension uses the service only as ProjectDNAService allows, *)
(* and no change of a file is lost between the two.                        *)
(***************************************************************************)
EXTENDS WorkingTreeImpact, WorkspaceAnalysis, FiniteSetTheorems, WellFoundedInduction, TLAPS

-----------------------------------------------------------------------------
(* Recovery picks the newest of finitely many versions *)

\* There is a newest version, and what the next step restores exists.
VersionsBounded == \E n \in Nat : \A record \in versions : record.dna.version <= n

TypeInv == TypeOK /\ VersionsBounded /\ RestoredIsStored

\* Max of a non-empty bounded set of naturals is its greatest element.
LEMMA MaxOfBounded ==
    ASSUME NEW S, S \subseteq Nat, S # {}, NEW n \in Nat, \A s \in S : s <= n
    PROVE  Max(S) \in S /\ \A s \in S : s <= Max(S)
<1> DEFINE Bounds == {b \in Nat : \A s \in S : s <= b}
<1>1. Bounds \subseteq Nat /\ Bounds # {}
  OBVIOUS
<1>2. PICK b \in Bounds : \A c \in Bounds : ~(<<c, b>> \in OpToRel(<, Nat))
  BY <1>1, NatLessThanWellFounded, WFMin, Zenon
<1>3. \A x, y \in Nat : x < y => <<x, y>> \in OpToRel(<, Nat)
  BY Zenon DEF OpToRel
<1>4. \A c \in Bounds : b <= c
  <2> HIDE DEF Bounds
  <2>1. \A c \in Bounds : ~(c < b)
    BY <1>1, <1>2, <1>3, Zenon
  <2>2. QED BY <1>1, <2>1
<1>5. b \in S
  <2> SUFFICES ASSUME b \notin S PROVE FALSE
    OBVIOUS
  <2>1. PICK s \in S : TRUE
    OBVIOUS
  <2>2. b \in Nat /\ s \in Nat /\ s < b
    OBVIOUS
  <2>3. b - 1 \in Nat /\ \A t \in S : t <= b - 1
    BY <2>2
  <2>4. QED BY <1>4, <2>2, <2>3
<1>6. QED BY <1>5 DEF Max

\* The version recovery selects: none, or one whose chain is intact.
LEMMA RecoveredVersionIsValid ==
    ASSUME TypeInv, NEW r \in Roots
    PROVE  /\ RecoveredVersion(r) \in Nat
           /\ RecoveredVersion(r) # 0 => RecoveredVersion(r) \in ValidVersions(r)
<1> DEFINE S == ValidVersions(r) \cup {0}
<1>1. ValidVersions(r) \subseteq Nat \ {0}
  BY DEF TypeInv, TypeOK, ValidVersions, VersionRecord, DNA, Version
<1>2. PICK n \in Nat : \A record \in versions : record.dna.version <= n
  BY DEF TypeInv, VersionsBounded
<1>3. \A s \in S : s <= n
  BY <1>2 DEF ValidVersions
<1>4. S \subseteq Nat /\ S # {}
  BY <1>1
<1>5. Max(S) \in S
  <2> HIDE DEF S
  <2>1. QED BY <1>3, <1>4, MaxOfBounded
<1>6. QED BY <1>1, <1>5 DEF RecoveredVersion

\* A valid version is stored, and recovery keeps it.
LEMMA ValidVersionIsStored ==
    ASSUME TypeInv, NEW r \in Roots, NEW v \in ValidVersions(r)
    PROVE  /\ v \in Version
           /\ RecoveredDNA(r, v) \in DNA
           /\ RecoveredDNA(r, v).root = r
           /\ RecoveredDNA(r, v).version = v
           /\ \E record \in versions \ InvalidRecords(r) : record.dna = RecoveredDNA(r, v)
<1>1. v \in Version
  BY DEF TypeInv, TypeOK, ValidVersions, VersionRecord, DNA
<1>2. IntactVersion(r, v)
  BY <1>1 DEF ValidVersions, Version
<1> DEFINE Chosen == CHOOSE record \in versions : record.dna.root = r /\ record.dna.version = v
<1>3. Chosen \in versions /\ Chosen.dna.root = r /\ Chosen.dna.version = v
  BY <1>2 DEF IntactVersion
<1>4. Chosen \notin InvalidRecords(r)
  BY <1>3 DEF InvalidRecords
<1>5. RecoveredDNA(r, v) = Chosen.dna
  BY DEF RecoveredDNA
<1>6. Chosen.dna \in DNA
  BY <1>3 DEF TypeInv, TypeOK, VersionRecord
<1>7. QED BY <1>1, <1>3, <1>4, <1>5, <1>6
-----------------------------------------------------------------------------
(* Type correctness *)

\* The extension starts in a well-typed state.
LEMMA TypeInvInit ==
    Init => TypeInv
<1> SUFFICES ASSUME Init PROVE TypeInv
  OBVIOUS
<1>1. TypeOK
  <2>1. NoOperation \in Operation
    BY DEF NoOperation, Operation
  <2>2. AssignedLocals
    BY DEF Init, Activated, AssignedLocals
  <2>3. impact \in [ImpactCallers -> Query]
    BY DEF Init, Activated, NoQuery, Query
  <2>4. snapshots \in Seq(Snapshot)
    BY DEF Init, Activated
  <2>5. QED
    BY <2>1, <2>2, <2>3, <2>4, WorkspaceAssumption
       DEF Init, Activated, TypeOK, NoPendingChanges, Phases
<1>2. VersionsBounded
  BY DEF Init, Activated, VersionsBounded
<1>3. RestoredIsStored
  BY DEF Init, Activated, RestoredIsStored
<1>4. QED BY <1>1, <1>2, <1>3 DEF TypeInv

\* An operation that returns is left with its root and an outcome.
LEMMA ReturnTypes ==
    ASSUME NEW outcome \in {"ok", "failed", "superseded"}, Return(outcome), op.root \in Roots
    PROVE  /\ op' \in Operation /\ op'.root = op.root
           /\ op'.generation = 0 /\ op'.restored = 0
           /\ phase' = "settling"
<1>1. NoOperation \in Operation
  BY DEF NoOperation, Operation
<1>2. op' = [NoOperation EXCEPT !.root = op.root, !.outcome = outcome] /\ phase' = "settling"
  BY DEF Return
<1>3. QED BY ONLY <1>1, <1>2, op.root \in Roots, outcome \in {"ok", "failed", "superseded"}
          DEF Operation, NoOperation

\* What Git or the pipeline saw is an observation.
LEMMA SightingTypes ==
    Sightings \subseteq Observation
BY DEF Sightings

\* Steps of the running operation that change no more than its locals.
LEMMA TypeInvAnalysing ==
    ASSUME TypeInv,
           \/ BeginAnalysis \/ OrchestrateFails \/ WorkingTreeFails \/ SupersedeCandidate
           \/ AssembleCandidate \/ PersistFails \/ RemoveCandidateFails
           \/ Orchestrate \/ \E tree \in Observation \cup {None} : ReceiveWorkingTree(tree)
    PROVE  TypeInv'
<1> USE DEF TypeInv, TypeOK, VersionsBounded, RestoredIsStored, AssignedLocals, Phases, Operation,
            serviceVars, watchVars, publishedVars, storageVars
<1>1. CASE BeginAnalysis
  <2>1. disk[op.root] \in Observation
    BY <1>1 DEF BeginAnalysis
  <2>2. QED BY <1>1, <2>1 DEF BeginAnalysis
<1>2. CASE OrchestrateFails
  BY <1>2, ReturnTypes DEF OrchestrateFails
<1>3. CASE WorkingTreeFails
  BY <1>3, ReturnTypes DEF WorkingTreeFails
<1>4. CASE SupersedeCandidate
  BY <1>4, ReturnTypes DEF SupersedeCandidate
<1>5. CASE AssembleCandidate
  <2>1. NextVersion \in Version
    BY DEF NextVersion, DNA, Version
  <2>2. op.root \in Roots /\ op.content \in Observation
    BY <1>5 DEF AssembleCandidate, Unsuperseded
  <2>3. CASE Aborted
    BY <1>5, <2>2, <2>3, ReturnTypes DEF AssembleCandidate
  <2>4. CASE ~Aborted
    <3>1. phase' = "history"
          /\ op' = [op EXCEPT !.version = NextVersion, !.history = snapshots, !.tree = None,
                              !.changed = {}, !.baseline = None, !.since = None]
      BY <1>5, <2>4 DEF AssembleCandidate
    <3>2. op' \in Operation /\ op'.version = NextVersion /\ op'.root = op.root
          /\ op'.content = op.content
      BY <2>1, <3>1 DEF Version
    <3>3. QED BY <1>5, <2>1, <2>2, <3>1, <3>2 DEF AssembleCandidate
  <2>5. QED BY <2>3, <2>4
<1>6. CASE PersistFails
  BY <1>6 DEF PersistFails
<1>7. CASE RemoveCandidateFails
  BY <1>7, ReturnTypes DEF RemoveCandidateFails
<1>8. CASE Orchestrate
  <2>1. op.root \in Roots /\ disk[op.root] \in Observation
    BY <1>8 DEF Orchestrate
  <2>2. PICK seen \in Sightings, observed \in ObservedPaths :
           op' = [op EXCEPT
               !.content = [p \in Paths |-> IF p \in observed THEN seen[p] ELSE op.baseline[p]],
               !.since = disk[op.root]]
    BY <1>8, Zenon DEF Orchestrate
  <2> DEFINE content == [p \in Paths |-> IF p \in observed THEN seen[p] ELSE op.baseline[p]]
  <2>3. content \in Observation
    <3>1. seen \in Observation
      BY SightingTypes
    <3>2. observed = Paths \/ op.baseline \in Observation
      BY DEF ObservedPaths
    <3>3. QED BY <3>1, <3>2 DEF Observation
  <2>4. op' = [op EXCEPT !.content = content, !.since = disk[op.root]]
    BY <2>2
  <2> HIDE DEF content
  <2>5. op' \in Operation /\ op'.root = op.root /\ op'.content = content
        /\ op'.since = disk[op.root]
    BY <2>1, <2>3, <2>4
  <2>6. QED BY <1>8, <2>1, <2>3, <2>5 DEF Orchestrate
<1>9. ASSUME NEW tree \in Observation \cup {None}, ReceiveWorkingTree(tree)
      PROVE  TypeInv'
  <2>1. incrementalBaseline # None => incrementalBaseline.content \in Observation
    BY DEF Baseline
  <2>2. current # None => current.version \in Nat
    BY DEF DNA, Version
  <2> DEFINE inputs == [op EXCEPT !.tree = tree, !.changed = ChangedPaths,
                                  !.baseline = PreviousBaseline]
  <2>3. inputs \in Operation /\ inputs.root = op.root
    <3>1. ChangedPaths \in SUBSET Paths /\ PreviousBaseline \in Observation \cup {None}
      BY <2>1 DEF ChangedPaths, PreviousBaseline
    <3>2. QED BY <3>1
  <2> DEFINE previous == IF current = None THEN 0 ELSE current.version
  <2>4. /\ \/ Return("failed")
           \/ op' = inputs /\ phase' = "recovering"
           \/ /\ op' = [inputs EXCEPT !.since = disk[op.root], !.previous = previous]
              /\ phase' = "orchestrating"
        /\ UNCHANGED <<serviceVars, snapshots, storageVars>>
    BY <1>9, Zenon DEF ReceiveWorkingTree
  <2>5. op.root \in Roots /\ disk[op.root] \in Observation /\ previous \in Nat
    BY <1>9, <2>2 DEF ReceiveWorkingTree
  <2> HIDE DEF inputs, previous
  <2>6. CASE Return("failed")
    BY <2>4, <2>5, <2>6, ReturnTypes
  <2>7. CASE op' = inputs /\ phase' = "recovering"
    <3>1. op' \in Operation /\ op'.root = op.root
      BY <2>3, <2>7
    <3> HIDE DEF Operation
    <3>2. QED BY <2>4, <2>5, <2>7, <3>1
  <2>8. CASE /\ op' = [inputs EXCEPT !.since = disk[op.root], !.previous = previous]
             /\ phase' = "orchestrating"
    <3>1. op' \in Operation /\ op'.root = op.root /\ op'.since = disk[op.root]
      BY ONLY <2>3, <2>5, <2>8 DEF Operation
    <3> HIDE DEF Operation
    <3>2. QED BY <2>4, <2>5, <2>8, <3>1
  <2>9. QED BY <2>4, <2>6, <2>7, <2>8
<1>10. QED BY <1>1, <1>2, <1>3, <1>4, <1>5, <1>6, <1>7, <1>8, <1>9

\* The histories recovery and createSnapshot hand to the evolution engine.
LEMMA HistoryTypes ==
    ASSUME TypeInv
    PROVE  /\ \A r \in Roots : RecoveredHistory(r) \in Seq(Snapshot)
           /\ op.root \in Roots => NextSnapshot \in Snapshot
<1>1. \A r \in Roots : RecoveredHistory(r) \in Seq(Snapshot)
  <2> SUFFICES ASSUME NEW r \in Roots PROVE RecoveredHistory(r) \in Seq(Snapshot)
    OBVIOUS
  <2>1. RecoveredVersion(r) \in Nat
    BY RecoveredVersionIsValid
  <2>2. \A v \in 1 .. RecoveredVersion(r) : ChainedSnapshot(r, v) \in Snapshot
    BY <2>1 DEF ChainedSnapshot, Snapshot, SnapshotId, Version
  <2>3. QED BY <2>1, <2>2 DEF RecoveredHistory
<1>2. ASSUME op.root \in Roots PROVE NextSnapshot \in Snapshot
  <2>1. CASE snapshots = <<>>
    BY <1>2, <2>1 DEF NextSnapshot, Snapshot, Version
  <2>2. CASE snapshots # <<>>
    <3>1. snapshots[Len(snapshots)] \in Snapshot
      BY <2>2 DEF TypeInv, TypeOK
    <3>2. QED BY <1>2, <2>2, <3>1 DEF NextSnapshot, Snapshot, SnapshotId, Version
  <2>3. QED BY <2>1, <2>2
<1>3. QED BY <1>1, <1>2

\* Whatever is deleted from the storage, its records keep their types and bound.
LEMMA FewerVersions ==
    ASSUME TypeInv, NEW S \in SUBSET versions
    PROVE  /\ S \in SUBSET VersionRecord
           /\ \E n \in Nat : \A record \in S : record.dna.version <= n
BY DEF TypeInv, TypeOK, VersionsBounded

\* SupersedeImpacts keeps every query well-typed.
LEMMA SupersededImpactTypes ==
    ASSUME TypeInv, SupersedeImpacts
    PROVE  impact' \in [ImpactCallers -> Query]
<1>1. \A c \in ImpactCallers :
         [impact[c] EXCEPT !.stale = impact[c].status = "waiting"] \in Query
  <2> SUFFICES ASSUME NEW c \in ImpactCallers, NEW s \in BOOLEAN
               PROVE  [impact[c] EXCEPT !.stale = s] \in Query
    OBVIOUS
  <2>1. QED BY DEF TypeInv, TypeOK, Query
<1>2. QED BY <1>1 DEF SupersedeImpacts

\* Acknowledging changes keeps the pending ones well-typed.
LEMMA AcknowledgeTypes ==
    ASSUME TypeInv, AcknowledgeChanges
    PROVE  /\ pendingChanges' \in [Paths -> Nat]
           /\ pendingOverflow' \in BOOLEAN
           /\ UNCHANGED <<changeGeneration, watcherEpoch, watcherSequence>>
BY DEF TypeInv, TypeOK, AcknowledgeChanges

\* Steps of the running operation that touch the history or the storage.
LEMMA TypeInvStoring ==
    ASSUME TypeInv,
           \/ Recover \/ RecoverFails \/ CreateSnapshot \/ SupersedeSnapshot \/ Persist
           \/ RollBackFailure \/ DiscardCandidate \/ RemoveCandidate
    PROVE  TypeInv'
<1> USE DEF TypeInv, TypeOK, RestoredIsStored, AssignedLocals, Phases, serviceVars, watchVars,
            publishedVars, storageVars
<1>1. CASE Recover
  <2>1. op.root \in Roots
    BY <1>1 DEF Recover
  <2>2. RecoveredVersion(op.root) \in Nat
    BY <2>1, RecoveredVersionIsValid
  <2>3. RecoveredHistory(op.root) \in Seq(Snapshot)
    BY <2>1, HistoryTypes
  <2>4. VersionsBounded' /\ versions' \in SUBSET VersionRecord
    BY <1>1, FewerVersions DEF Recover, RepairStorage, VersionsBounded
  <2>5. op' \in Operation /\ op'.root = op.root
    BY <1>1, <2>2 DEF Recover, Operation
  <2>6. latest' \in [Roots -> Nat]
    BY <1>1, <2>2 DEF Recover, RepairStorage
  <2>7. RestoredIsStored'
    <3> SUFFICES ASSUME op'.restored # 0
                 PROVE  \E record \in versions' :
                            record.dna.root = op.root /\ record.dna.version = op'.restored
      BY <2>5
    <3>1. op'.restored = RecoveredVersion(op.root)
      BY <1>1 DEF Recover, Operation
    <3>2. op'.restored \in ValidVersions(op.root)
      BY <2>1, <3>1, RecoveredVersionIsValid
    <3>3. versions' = versions \ InvalidRecords(op.root)
      BY <1>1 DEF Recover, RepairStorage
    <3>4. PICK record \in versions \ InvalidRecords(op.root) :
             record.dna = RecoveredDNA(op.root, op'.restored)
      BY <2>1, <3>2, ValidVersionIsStored
    <3>5. record.dna.root = op.root /\ record.dna.version = op'.restored
      BY <2>1, <3>2, <3>4, ValidVersionIsStored
    <3>6. QED BY <3>3, <3>4, <3>5, Zenon
  <2>8. QED BY <1>1, <2>1, <2>3, <2>4, <2>5, <2>6, <2>7 DEF Recover
<1>2. CASE RecoverFails
  <2>1. VersionsBounded' /\ versions' \in SUBSET VersionRecord
    <3>1. versions' \in SUBSET versions
      BY <1>2 DEF RecoverFails, AbandonedRepair
    <3>2. QED BY <3>1, FewerVersions DEF VersionsBounded
  <2>2. op' \in Operation /\ op'.root = op.root /\ latest' = latest
    BY <1>2, ReturnTypes DEF RecoverFails, AbandonedRepair
  <2>3. QED BY <1>2, <2>1, <2>2, ReturnTypes DEF RecoverFails
<1>3. CASE CreateSnapshot
  <2>1. op.root \in Roots /\ op.version \in Version /\ op.content \in Observation
    BY <1>3 DEF CreateSnapshot
  <2>2. CASE Aborted
    <3>1. Return("failed") /\ UNCHANGED <<serviceVars, snapshots, storageVars>>
      BY <1>3, <2>2 DEF CreateSnapshot
    <3>2. QED BY <2>1, <3>1, ReturnTypes DEF VersionsBounded
  <2>3. CASE ~Aborted
    <3>1. snapshots' = Append(snapshots, NextSnapshot) /\ NextSnapshot \in Snapshot
      BY <1>3, <2>1, <2>3, HistoryTypes DEF CreateSnapshot
    <3>2. snapshots' \in Seq(Snapshot) /\ snapshots' # <<>>
      BY <3>1
    <3>3. QED BY <1>3, <2>1, <2>3, <3>2 DEF CreateSnapshot, VersionsBounded
  <2>4. QED BY <2>2, <2>3
<1>4. CASE SupersedeSnapshot
  <2>1. op' \in Operation /\ op'.root = op.root /\ op'.restored = 0 /\ phase' = "settling"
    BY <1>4, ReturnTypes DEF SupersedeSnapshot
  <2>2. snapshots' \in Seq(Snapshot)
    BY <1>4 DEF SupersedeSnapshot, RestoreHistory, Operation
  <2>3. QED BY <1>4, <2>1, <2>2 DEF SupersedeSnapshot, VersionsBounded
<1>5. CASE Persist
  <2>1. op.root \in Roots /\ op.version \in Version /\ op.content \in Observation
    BY <1>5 DEF Persist
  <2> DEFINE stored == [dna |-> CandidateDNA, previousVersion |-> op.previous,
                        snapshot |-> snapshots[Len(snapshots)]]
  <2>2. stored \in VersionRecord
    <3>1. snapshots[Len(snapshots)] \in Snapshot
      BY <1>5 DEF Persist
    <3>2. CandidateDNA \in DNA
      BY <2>1 DEF CandidateDNA, DNA
    <3>3. op.previous \in Nat
      BY DEF Operation
    <3>4. QED BY <3>1, <3>2, <3>3 DEF VersionRecord
  <2>3. versions' \in SUBSET VersionRecord
    BY <1>5, <2>2 DEF Persist
  <2>4. VersionsBounded'
    <3>1. PICK n \in Nat : \A record \in versions : record.dna.version <= n
      BY DEF VersionsBounded
    <3>2. stored.dna.version = op.version
      BY DEF CandidateDNA
    <3>3. n + op.version \in Nat /\ op.version \in Nat
      BY <2>1 DEF Version
    <3>4. \A record \in versions' : record = stored \/ record \in versions
      BY <1>5 DEF Persist
    <3>5. \A record \in versions : record.dna.version <= n + op.version
      <4>1. \A record \in versions : record.dna.version \in Nat
        BY DEF VersionRecord, DNA, Version
      <4>2. QED BY <3>1, <3>3, <4>1
    <3>6. op.version <= n + op.version
      BY <3>3
    <3> HIDE DEF stored
    <3>7. \A record \in versions' : record.dna.version <= n + op.version
      BY ONLY <3>2, <3>4, <3>5, <3>6
    <3>8. QED BY <3>3, <3>7, Zenon DEF VersionsBounded
  <2>5. op' \in Operation /\ op'.root = op.root /\ op'.version = op.version
        /\ op'.content = op.content
    BY <1>5 DEF Persist, Operation
  <2>6. latest' \in [Roots -> Nat]
    BY <1>5, <2>1 DEF Persist, Version
  <2>7. QED BY <1>5, <2>1, <2>3, <2>4, <2>5, <2>6 DEF Persist
<1>6. CASE RollBackFailure
  <2>1. op' \in Operation /\ op'.root = op.root /\ op'.restored = 0 /\ phase' = "settling"
    BY <1>6, ReturnTypes DEF RollBackFailure
  <2>2. snapshots' \in Seq(Snapshot)
    BY <1>6 DEF RollBackFailure, RestoreHistory, Operation
  <2>3. QED BY <1>6, <2>1, <2>2 DEF RollBackFailure, VersionsBounded
<1>7. CASE DiscardCandidate
  <2>1. snapshots' \in Seq(Snapshot) /\ phase' = "discarding" /\ phase = "persisting"
    BY <1>7 DEF DiscardCandidate, RestoreHistory, Operation
  <2>2. UNCHANGED <<serviceVars, op, storageVars>>
    BY <1>7 DEF DiscardCandidate
  <2>3. QED BY <2>1, <2>2 DEF VersionsBounded
<1>8. CASE RemoveCandidate
  <2>1. VersionsBounded' /\ versions' \in SUBSET VersionRecord
    <3>1. versions' \in SUBSET versions
      BY <1>8 DEF RemoveCandidate
    <3>2. QED BY <3>1, FewerVersions DEF VersionsBounded
  <2>2. op' \in Operation /\ op'.root = op.root /\ latest' \in [Roots -> Nat]
    <3>1. op.latestRecord \in Nat
      BY DEF Operation
    <3>2. QED BY <1>8, <3>1, ReturnTypes DEF RemoveCandidate
  <2>3. QED BY <1>8, <2>1, <2>2, ReturnTypes DEF RemoveCandidate
<1>9. QED BY <1>1, <1>2, <1>3, <1>4, <1>5, <1>6, <1>7, <1>8

\* Steps that change what is published, start an operation or end one.
LEMMA TypeInvPublishing ==
    ASSUME TypeInv, Restore \/ KeepCurrent \/ Publish \/ Settle
    PROVE  TypeInv'
<1> USE DEF TypeInv, TypeOK, AssignedLocals, Phases, VersionsBounded, RestoredIsStored,
            storageVars
<1>1. CASE Restore
  <2>1. op.root \in Roots /\ op.restored \in Nat
    BY <1>1 DEF Restore, Operation
  <2>2. op' \in Operation /\ op'.root = op.root /\ op'.since \in Observation
    <3>1. op' = [op EXCEPT !.previous = op.restored, !.since = disk[op.root]]
      BY <1>1 DEF Restore
    <3>2. disk[op.root] \in Observation /\ op \in Operation
      BY <2>1
    <3>3. QED BY ONLY <2>1, <3>1, <3>2 DEF Operation
  <2>3. impact' \in [ImpactCallers -> Query]
    BY <1>1, SupersededImpactTypes DEF Restore, ClearCurrent
  <2>4. current' \in DNA \cup {None}
    <3>1. CASE op.restored = 0
      BY <1>1, <3>1 DEF Restore, ClearCurrent
    <3>2. CASE op.restored # 0
      <4>1. \E record \in versions :
               record.dna.root = op.root /\ record.dna.version = op.restored
        BY <1>1, <3>2 DEF Restore
      <4>2. RecoveredDNA(op.root, op.restored) \in DNA
        BY <4>1 DEF RecoveredDNA, VersionRecord
      <4>3. QED BY <1>1, <3>2, <4>2 DEF Restore
    <3>3. QED BY <3>1, <3>2
  <2>5. QED BY <1>1, <2>1, <2>2, <2>3, <2>4 DEF Restore, ClearCurrent, watchVars
<1>2. CASE KeepCurrent
  <2>1. op.root \in Roots /\ op.content \in Observation
    BY <1>2 DEF KeepCurrent, Unsuperseded
  <2>2. op' \in Operation /\ op'.root = op.root /\ phase' = "settling"
    BY <1>2, <2>1, ReturnTypes DEF KeepCurrent
  <2>3. incrementalBaseline' \in Baseline
    BY <1>2, <2>1 DEF KeepCurrent, Baseline
  <2>4. QED BY <1>2, <2>1, <2>2, <2>3, AcknowledgeTypes DEF KeepCurrent
<1>3. CASE Publish
  <2>1. op.root \in Roots /\ op.content \in Observation /\ op.version \in Version
    BY <1>3 DEF Publish
  <2>2. op' \in Operation /\ op'.root = op.root /\ phase' = "settling"
    BY <1>3, <2>1, ReturnTypes DEF Publish
  <2>3. incrementalBaseline' \in Baseline /\ current' \in DNA
        /\ persistedLatestRecord' \in Nat
    BY <1>3, <2>1 DEF Publish, Baseline, CandidateDNA, DNA, Version
  <2>4. impact' \in [ImpactCallers -> Query]
    BY <1>3, SupersededImpactTypes DEF Publish
  <2>5. QED BY <1>3, <2>1, <2>2, <2>3, <2>4, AcknowledgeTypes DEF Publish
<1>4. CASE Settle
  <2>1. NoOperation \in Operation
    BY DEF NoOperation, Operation
  <2>2. QED
    BY <1>4, <2>1 DEF Settle, ScheduleAutomaticRefresh, publishedVars, watchVars
<1>5. QED BY <1>1, <1>2, <1>3, <1>4

\* Starting an operation, by a call or by the timer, and aborting it.
LEMMA TypeInvStarting ==
    ASSUME TypeInv,
           \/ \E r \in Roots, signal \in {"none", "live"} : Analyze(r, signal)
           \/ Refresh \/ AutomaticRefresh \/ Abort
    PROVE  TypeInv'
<1> USE DEF TypeInv, TypeOK, AssignedLocals, Phases, VersionsBounded, RestoredIsStored,
            serviceVars, watchVars, publishedVars, storageVars
<1>1. ASSUME NEW r \in Roots, NEW forceFull \in BOOLEAN, NEW signal \in {"none", "live"},
             StartAnalysis(r, forceFull, signal), changeTimer' \in BOOLEAN
      PROVE  TypeInv'
  <2>1. op' \in Operation /\ op'.root = r
    <3>1. op' = [NoOperation EXCEPT !.root = r, !.forceFull = forceFull, !.signal = signal]
      BY <1>1 DEF StartAnalysis
    <3>2. NoOperation \in Operation
      BY DEF NoOperation, Operation
    <3>3. QED BY ONLY <3>1, <3>2, r \in Roots, forceFull \in BOOLEAN, signal \in {"none", "live"}
              DEF Operation
  <2>2. impact' \in [ImpactCallers -> Query]
    BY <1>1, SupersededImpactTypes DEF StartAnalysis
  <2>3. QED BY <1>1, <2>1, <2>2 DEF StartAnalysis
<1>2. ASSUME NEW r \in Roots, NEW signal \in {"none", "live"}, Analyze(r, signal)
      PROVE  TypeInv'
  BY <1>1, <1>2 DEF Analyze
<1>3. CASE Refresh
  BY <1>1, <1>3 DEF Refresh
<1>4. CASE AutomaticRefresh
  <2>1. CASE disposed \/ ~Idle \/ rootPath = None
    BY <1>4, <2>1 DEF AutomaticRefresh
  <2>2. CASE ~(disposed \/ ~Idle \/ rootPath = None)
    BY <1>1, <1>4, <2>2 DEF AutomaticRefresh
  <2>3. QED BY <2>1, <2>2
<1>5. CASE Abort
  <2>1. op' \in Operation
    BY <1>5 DEF Abort, Operation
  <2>2. op'.root = op.root /\ op'.content = op.content /\ op'.version = op.version
        /\ op'.restored = op.restored /\ op'.since = op.since
    BY <1>5 DEF Abort, Operation
  <2>3. UNCHANGED <<serviceVars, phase, snapshots, storageVars>>
    BY <1>5 DEF Abort
  <2>4. AssignedLocals' /\ VersionsBounded' /\ RestoredIsStored'
    BY <2>2, <2>3
  <2> HIDE DEF AssignedLocals, VersionsBounded, RestoredIsStored
  <2>5. QED BY <2>1, <2>3, <2>4
<1>6. QED BY <1>2, <1>3, <1>4, <1>5

\* Whatever else a step does, an operation it does not touch is as it was.
LEMMA OperationUntouched ==
    ASSUME TypeInv, UNCHANGED <<phase, op, snapshots, versions>>
    PROVE  AssignedLocals' /\ VersionsBounded' /\ RestoredIsStored'
BY DEF TypeInv, TypeOK, AssignedLocals, VersionsBounded, RestoredIsStored

\* Watcher notifications.
LEMMA TypeInvNotification ==
    ASSUME TypeInv, Notification
    PROVE  TypeInv'
<1> USE DEF TypeInv, TypeOK, publishedVars, storageVars
<1>1. ASSUME NEW r \in Roots, NEW epoch \in 1 .. MaxEpoch, NEW sequence \in 1 .. MaxSequence,
             EmptyNotification(r, epoch, sequence)
      PROVE  TypeInv'
  <2>1. KnownPending(epoch) \in [Paths -> Nat]
    BY DEF KnownPending, NoPendingChanges
  <2>2. epoch \in Nat
    BY WorkspaceAssumption
  <2>3. QED BY <1>1, <2>1, <2>2, OperationUntouched DEF EmptyNotification
<1>2. ASSUME NEW r \in Roots, NEW epoch \in 1 .. MaxEpoch, NEW sequence \in 1 .. MaxSequence,
             NEW changes \in SUBSET Paths, RepositoryFilesChanged(r, epoch, sequence, changes)
      PROVE  TypeInv'
  <2>1. KnownPending(epoch) \in [Paths -> Nat]
    BY DEF KnownPending, NoPendingChanges
  <2>2. epoch \in Nat /\ sequence \in Nat
    BY WorkspaceAssumption
  <2>3. pendingChanges' \in [Paths -> Nat]
    BY <1>2, <2>1 DEF RepositoryFilesChanged
  <2>4. pendingOverflow' \in BOOLEAN /\ changeTimer' \in BOOLEAN
    BY <1>2 DEF RepositoryFilesChanged, ScheduleAutomaticRefresh
  <2>5. /\ watcherEpoch' \in Nat /\ watcherSequence' \in Nat
        /\ changeGeneration' = changeGeneration + 1 /\ rootPath' = r
        /\ UNCHANGED <<disk, current, incrementalBaseline, persistedLatestRecord, disposed,
                       phase, op, snapshots, storageVars, impact>>
    BY <1>2, <2>2 DEF RepositoryFilesChanged
  <2>6. AssignedLocals' /\ VersionsBounded' /\ RestoredIsStored'
    BY <2>5, OperationUntouched
  <2>7. QED BY <2>3, <2>4, <2>5, <2>6
<1>3. ASSUME NEW r \in Roots, NEW epoch \in 1 .. MaxEpoch,
             NEW reason \in {"overflow", "restart", "workspace-change"},
             RepositoryWatcherInvalidated(r, epoch, reason)
      PROVE  TypeInv'
  <2>1. epoch \in Nat
    BY WorkspaceAssumption
  <2>2. /\ current' \in DNA \cup {None}
        /\ rootPath' \in Roots \cup {None}
        /\ incrementalBaseline' \in Baseline \cup {None}
        /\ persistedLatestRecord' \in Nat
        /\ impact' \in [ImpactCallers -> Query]
    <3>1. CASE ClearCurrent(r)
      BY <3>1, SupersededImpactTypes DEF ClearCurrent
    <3>2. CASE ~ClearCurrent(r)
      BY <1>3, <3>2 DEF RepositoryWatcherInvalidated
    <3>3. QED BY <3>1, <3>2
  <2>3. pendingChanges' \in [Paths -> Nat] /\ changeTimer' \in BOOLEAN
    BY <1>3 DEF RepositoryWatcherInvalidated, NoPendingChanges, ScheduleAutomaticRefresh
  <2>4. /\ watcherEpoch' = epoch /\ watcherSequence' = 0 /\ pendingOverflow' = TRUE
        /\ changeGeneration' = changeGeneration + 1
        /\ UNCHANGED <<disk, disposed, phase, op, snapshots, storageVars>>
    BY <1>3 DEF RepositoryWatcherInvalidated
  <2>5. AssignedLocals' /\ VersionsBounded' /\ RestoredIsStored'
    BY <2>4, OperationUntouched
  <2>6. QED BY <2>1, <2>2, <2>3, <2>4, <2>5
<1>4. QED BY <1>1, <1>2, <1>3 DEF Notification

\* Impact queries, disposal, restart, and edits of files.
LEMMA TypeInvEnvironment ==
    ASSUME TypeInv,
           \/ \E c \in ImpactCallers : AnswerImpact(c) \/ GetImpact(c)
           \/ Dispose
           \/ \E r \in Roots : RestartExtension(r) \/ RestartUnrestored(r)
           \/ \E r \in Roots, p \in Paths, c \in Contents : EditFile(r, p, c)
           \/ UNCHANGED vars
    PROVE  TypeInv'
<1> USE DEF TypeInv, TypeOK, watchVars, publishedVars, storageVars
<1>1. ASSUME NEW c \in ImpactCallers, AnswerImpact(c)
      PROVE  TypeInv'
  <2>1. impact' \in [ImpactCallers -> Query]
    BY <1>1 DEF AnswerImpact, NoQuery, Query
  <2>2. QED BY <1>1, <2>1, OperationUntouched DEF AnswerImpact
<1>2. ASSUME NEW c \in ImpactCallers, GetImpact(c)
      PROVE  TypeInv'
  <2>1. impact' \in [ImpactCallers -> Query]
    BY <1>2 DEF GetImpact, Query
  <2>2. UNCHANGED <<disk, watchVars, publishedVars, changeTimer, disposed, phase, op,
                    snapshots, storageVars>>
    BY <1>2 DEF GetImpact
  <2>3. QED BY <2>1, <2>2, OperationUntouched
<1>3. CASE Dispose
  <2>1. impact' \in [ImpactCallers -> Query]
    BY <1>3, SupersededImpactTypes DEF Dispose, ClearCurrent
  <2>2. /\ current' = None /\ rootPath' = None /\ incrementalBaseline' = None
        /\ persistedLatestRecord' = 0
        /\ pendingChanges' = NoPendingChanges /\ changeGeneration' = changeGeneration + 1
        /\ {disposed', changeTimer', storageOpen'} \subseteq BOOLEAN
        /\ UNCHANGED <<disk, pendingOverflow, watcherEpoch, watcherSequence, phase, op,
                       snapshots, versions, latest>>
    BY <1>3 DEF Dispose, ClearCurrent
  <2>3. NoPendingChanges \in [Paths -> Nat]
    BY DEF NoPendingChanges
  <2>4. AssignedLocals' /\ VersionsBounded' /\ RestoredIsStored'
    BY <2>2, OperationUntouched
  <2>5. QED BY <2>1, <2>2, <2>3, <2>4
<1>4. ASSUME NEW r \in Roots, RestartExtension(r) \/ RestartUnrestored(r)
      PROVE  TypeInv'
  <2>1. NoOperation \in Operation
    BY DEF NoOperation, Operation
  <2>2. /\ op' = NoOperation /\ phase' = "idle"
        /\ pendingChanges' = NoPendingChanges
        /\ impact' = [c \in ImpactCallers |-> NoQuery]
        /\ disk' = disk /\ incrementalBaseline' = None
        /\ pendingOverflow' = FALSE /\ changeTimer' = FALSE
        /\ disposed' = FALSE /\ storageOpen' = TRUE
        /\ changeGeneration' = 0 /\ watcherEpoch' = 0 /\ watcherSequence' = 0
    <3>1. NewProcess
      BY <1>4 DEF RestartExtension, RestartUnrestored
    <3>2. QED BY ONLY <3>1 DEF NewProcess
  <2>3. RecoveredVersion(r) \in Nat
    BY RecoveredVersionIsValid
  <2>4. /\ current' \in DNA \cup {None}
        /\ rootPath' \in Roots \cup {None}
        /\ persistedLatestRecord' \in Nat
    <3>1. RecoveredVersion(r) # 0 => RecoveredDNA(r, RecoveredVersion(r)) \in DNA
      BY RecoveredVersionIsValid, ValidVersionIsStored
    <3>2. QED BY <1>4, <2>3, <3>1 DEF RestartExtension, RestartUnrestored
  <2>5. snapshots' \in Seq(Snapshot)
    <3>1. RecoveredHistory(r) \in Seq(Snapshot) /\ <<>> \in Seq(Snapshot)
      BY HistoryTypes
    <3>2. snapshots' = RecoveredHistory(r) \/ snapshots' = <<>>
      BY <1>4, Zenon DEF RestartExtension, RestartUnrestored
    <3>3. QED BY <3>1, <3>2
  <2>6. versions' \in SUBSET versions
    BY <1>4 DEF RestartExtension, RestartUnrestored, RepairStorage, AbandonedRepair
  <2>7. versions' \in SUBSET VersionRecord /\ VersionsBounded'
    BY <2>6, FewerVersions DEF VersionsBounded
  <2>8. latest' \in [Roots -> Nat]
    BY <1>4, <2>3 DEF RestartExtension, RestartUnrestored, RepairStorage, AbandonedRepair
  <2>9. NoPendingChanges \in [Paths -> Nat] /\ [c \in ImpactCallers |-> NoQuery] \in [ImpactCallers -> Query]
    BY DEF NoPendingChanges, NoQuery, Query
  <2>10. AssignedLocals' /\ RestoredIsStored' /\ phase' \in Phases
    BY <2>2 DEF AssignedLocals, RestoredIsStored, Phases
  <2>11. QED BY <2>1, <2>2, <2>4, <2>5, <2>7, <2>8, <2>9, <2>10
<1>5. ASSUME NEW r \in Roots, NEW p \in Paths, NEW c \in Contents, EditFile(r, p, c)
      PROVE  TypeInv'
  <2>1. disk' \in [Roots -> Observation]
    BY <1>5 DEF EditFile, Observation
  <2>2. QED BY <1>5, <2>1, OperationUntouched DEF EditFile
<1>6. CASE UNCHANGED vars
  <2>1. UNCHANGED <<disk, changeTimer, disposed, phase, op, snapshots, impact>>
        /\ UNCHANGED watchVars /\ UNCHANGED publishedVars /\ UNCHANGED storageVars
    BY <1>6, Zenon DEF vars
  <2>2. QED BY <2>1, OperationUntouched
<1>7. QED BY <1>1, <1>2, <1>3, <1>4, <1>5, <1>6

\* Every step keeps the types.
LEMMA TypeInvNext ==
    TypeInv /\ [Next]_vars => TypeInv'
<1> SUFFICES ASSUME TypeInv, [Next]_vars PROVE TypeInv'
  OBVIOUS
<1>1. CASE RunAnalysis
  BY <1>1, TypeInvAnalysing, TypeInvStoring, TypeInvPublishing DEF RunAnalysis
<1>2. CASE Request
  BY <1>2, TypeInvStarting, TypeInvEnvironment DEF Request
<1>3. CASE AutomaticRefresh \/ Notification
  BY <1>3, TypeInvStarting, TypeInvNotification
<1>4. CASE \/ \E c \in ImpactCallers : AnswerImpact(c)
           \/ \E r \in Roots, p \in Paths, c \in Contents : EditFile(r, p, c)
           \/ UNCHANGED vars
  BY <1>4, TypeInvEnvironment
<1>5. QED BY <1>1, <1>2, <1>3, <1>4 DEF Next

\* The strengthened type invariant holds of every reachable state.
LEMMA TypeInvariance ==
    Spec => []TypeInv
BY TypeInvInit, TypeInvNext, PTL DEF Spec

\* Every variable of the service, the locals of the running operation included,
\* has its type whenever an await is reached.
THEOREM TypeCorrect ==
    Spec => []TypeOK
<1>1. TypeInv => TypeOK
  BY DEF TypeInv
<1>2. QED BY <1>1, TypeInvariance, PTL

-----------------------------------------------------------------------------
(* The published analysis is stored, and is what the baseline describes.   *)
(* Neither is inductive: both rest on what the running operation kept from *)
(* before its awaits, which OperationTracksService relates to the service. *)

Safe == BaselineMatchesCurrent /\ CurrentIsStored /\ OperationTracksService

SafeInv == TypeInv /\ Safe

\* What Safe is about, apart from the operation.
safetyVars == <<current, rootPath, incrementalBaseline, versions, changeGeneration>>

\* The extension starts with nothing published, stored or running.
LEMMA SafeInit ==
    Init => SafeInv
<1> SUFFICES ASSUME Init PROVE SafeInv
  OBVIOUS
<1>1. Safe
  BY DEF Init, Activated, NoOperation, Safe, BaselineMatchesCurrent, CurrentIsStored,
         OperationTracksService, GenerationIsPast, RefreshesItsBaseline,
         RestoresAnotherRepository, RestoredIsStored, ComparesWithTheBaseline,
         CandidateIsNewer, PersistedIsStored
<1>2. QED BY <1>1, TypeInvInit DEF SafeInv

\* A step that leaves all of it alone.
LEMMA SafeUnchanged ==
    ASSUME SafeInv, UNCHANGED <<safetyVars, phase, op>>
    PROVE  Safe'
BY DEF SafeInv, safetyVars, Safe, BaselineMatchesCurrent, CurrentIsStored,
       OperationTracksService, GenerationIsPast, RefreshesItsBaseline,
       RestoresAnotherRepository, RestoredIsStored, ComparesWithTheBaseline,
       CandidateIsNewer, PersistedIsStored, Superseded, CandidateDNA

\* An operation that gives up, or is over, holds nothing the service depends on.
LEMMA SafeGivingUp ==
    ASSUME SafeInv, UNCHANGED safetyVars, phase' \in {"idle", "settling"},
           op'.generation <= changeGeneration
    PROVE  Safe'
BY DEF SafeInv, safetyVars, Safe, BaselineMatchesCurrent, CurrentIsStored,
       OperationTracksService, GenerationIsPast, RefreshesItsBaseline,
       RestoresAnotherRepository, RestoredIsStored, ComparesWithTheBaseline,
       CandidateIsNewer, PersistedIsStored

\* An operation that returns gives up its locals.
LEMMA SafeReturn ==
    ASSUME SafeInv, UNCHANGED safetyVars, NEW outcome \in {"ok", "failed", "superseded"},
           Return(outcome), op.root \in Roots
    PROVE  Safe'
<1>1. 0 <= changeGeneration
  BY DEF SafeInv, TypeInv, TypeOK
<1>2. QED BY <1>1, ReturnTypes, SafeGivingUp

\* Steps of the running operation up to the candidate.
LEMMA SafeAnalysing ==
    ASSUME SafeInv, TypeInv',
           \/ BeginAnalysis \/ Orchestrate \/ AssembleCandidate
           \/ \E tree \in Observation \cup {None} : ReceiveWorkingTree(tree)
    PROVE  Safe'
<1> USE DEF Safe, BaselineMatchesCurrent, CurrentIsStored, OperationTracksService,
            GenerationIsPast, RefreshesItsBaseline, RestoresAnotherRepository,
            RestoredIsStored, ComparesWithTheBaseline, CandidateIsNewer, PersistedIsStored
<1>1. op \in Operation /\ current \in DNA \cup {None} /\ changeGeneration \in Nat
      /\ incrementalBaseline \in Baseline \cup {None} /\ Safe
      /\ (phase # "idle" => op.root \in Roots)
  BY DEF SafeInv, TypeInv, TypeOK, AssignedLocals
<1>2. CASE BeginAnalysis
  BY <1>1, <1>2 DEF BeginAnalysis, Operation, serviceVars, watchVars, publishedVars, storageVars
<1>3. CASE Orchestrate
  BY <1>1, <1>3 DEF Orchestrate, Operation, serviceVars, watchVars, publishedVars, storageVars,
                    Superseded
<1>4. CASE AssembleCandidate
  <2>1. UNCHANGED safetyVars
    BY <1>4 DEF AssembleCandidate, serviceVars, watchVars, publishedVars, storageVars, safetyVars
  <2>2. CASE Aborted
    BY <1>1, <1>4, <2>1, <2>2, SafeReturn DEF AssembleCandidate, Unsuperseded
  <2>3. CASE ~Aborted
    <3>1. phase' = "history" /\ op'.generation = op.generation
      BY <1>1, <1>4, <2>3 DEF AssembleCandidate, Operation
    <3>2. op'.version = (IF current = None THEN 0 ELSE current.version) + 1
      BY <1>1, <1>4, <2>3 DEF AssembleCandidate, NextVersion, Operation
    <3>3. current # None => current.version \in Nat
      BY <1>1 DEF DNA, Version
    <3>4. QED BY <1>1, <2>1, <3>1, <3>2, <3>3 DEF safetyVars
  <2>4. QED BY <2>2, <2>3
<1>5. ASSUME NEW tree \in Observation \cup {None}, ReceiveWorkingTree(tree)
      PROVE  Safe'
  <2>1. UNCHANGED safetyVars /\ phase = "workingTreeBefore"
    BY <1>5 DEF ReceiveWorkingTree, serviceVars, watchVars, publishedVars, storageVars, safetyVars
  <2>2. CASE Aborted
    BY <1>1, <1>5, <2>1, <2>2, SafeReturn DEF ReceiveWorkingTree
  <2>3. ASSUME ~Aborted
        PROVE  /\ op'.generation = op.generation
               /\ op'.root = op.root
               /\ op'.baseline = PreviousBaseline
    <3> DEFINE inputs == [op EXCEPT !.tree = tree, !.changed = ChangedPaths,
                                    !.baseline = PreviousBaseline]
               previous == IF current = None THEN 0 ELSE current.version
    <3>1. \/ op' = inputs
          \/ op' = [inputs EXCEPT !.since = disk[op.root], !.previous = previous]
      BY <1>5, <2>3, Zenon DEF ReceiveWorkingTree
    <3>2. inputs \in Operation /\ inputs.generation = op.generation /\ inputs.root = op.root
          /\ inputs.baseline = PreviousBaseline
      <4>1. /\ op \in Operation
            /\ ChangedPaths \in SUBSET Paths
            /\ PreviousBaseline \in Observation \cup {None}
        BY <1>1 DEF Baseline, ChangedPaths, PreviousBaseline
      <4>2. QED BY ONLY <4>1, tree \in Observation \cup {None} DEF Operation
    <3> HIDE DEF inputs, previous
    <3>3. op'.generation = inputs.generation /\ op'.root = inputs.root
          /\ op'.baseline = inputs.baseline
      BY ONLY <3>1, <3>2 DEF Operation
    <3>4. QED BY <3>2, <3>3
  <2>4. CASE ~Aborted
    <3>1. \/ phase' = "recovering" /\ rootPath # op.root
          \/ phase' = "orchestrating"
      BY <1>5, <2>4 DEF ReceiveWorkingTree
    <3>2. incrementalBaseline # None =>
             incrementalBaseline = [root |-> incrementalBaseline.root,
                                    content |-> incrementalBaseline.content]
      BY <1>1 DEF Baseline
    <3>3. op'.baseline # None => incrementalBaseline # None /\ incrementalBaseline.root = op.root
      BY <1>1, <2>1, <2>3, <2>4 DEF PreviousBaseline
    <3>4. QED
      BY <1>1, <2>1, <2>3, <2>4, <3>1, <3>2, <3>3 DEF safetyVars, Superseded, PreviousBaseline
  <2>5. QED BY <2>2, <2>4
<1>6. QED BY <1>2, <1>3, <1>4, <1>5

\* Recovery, restore and the writing of a candidate.
LEMMA SafeStoring ==
    ASSUME SafeInv, TypeInv',
           \/ Recover \/ RecoverFails \/ Restore \/ CreateSnapshot \/ Persist \/ PersistFails
           \/ DiscardCandidate \/ RemoveCandidate
    PROVE  Safe'
<1> USE DEF Safe, BaselineMatchesCurrent, CurrentIsStored, OperationTracksService,
            GenerationIsPast, RefreshesItsBaseline, RestoresAnotherRepository,
            RestoredIsStored, ComparesWithTheBaseline, CandidateIsNewer, PersistedIsStored
<1>1. op \in Operation /\ current \in DNA \cup {None} /\ changeGeneration \in Nat
      /\ incrementalBaseline \in Baseline \cup {None} /\ Safe
      /\ (phase # "idle" => op.root \in Roots)
  BY DEF SafeInv, TypeInv, TypeOK, AssignedLocals
\* What recovery quarantines belongs to another repository than the published one.
<1>2. ASSUME phase = "recovering", versions \ versions' \subseteq InvalidRecords(op.root),
             current # None
      PROVE  \E record \in versions' : record.dna = current
  <2>1. PICK record \in versions : record.dna = current
    BY <1>1, <1>2
  <2>2. record \notin InvalidRecords(op.root)
    BY <1>1, <1>2, <2>1 DEF InvalidRecords
  <2>3. QED BY <1>2, <2>1, <2>2
<1>3. CASE Recover
  <2>1. /\ phase = "recovering" /\ phase' = "restoring"
        /\ UNCHANGED <<current, rootPath, incrementalBaseline, changeGeneration>>
        /\ versions \ versions' \subseteq InvalidRecords(op.root)
    BY <1>3 DEF Recover, RepairStorage, serviceVars, watchVars, publishedVars
  <2>2. op'.root = op.root /\ op'.baseline = op.baseline /\ op'.generation = op.generation
    BY <1>1, <1>3 DEF Recover, Operation
  <2>3. RestoredIsStored'
    BY DEF TypeInv
  <2>4. QED BY <1>1, <1>2, <2>1, <2>2, <2>3
<1>4. CASE RecoverFails
  <2>1. /\ phase = "recovering" /\ phase' = "settling"
        /\ UNCHANGED <<current, rootPath, incrementalBaseline, changeGeneration>>
    BY <1>4 DEF RecoverFails, Return, serviceVars, watchVars, publishedVars
  <2>2. versions \ versions' \subseteq InvalidRecords(op.root)
    BY <1>4 DEF RecoverFails, AbandonedRepair
  <2>3. op'.generation = 0
    BY <1>1, <1>4, ReturnTypes DEF RecoverFails
  <2>4. QED BY <1>1, <1>2, <2>1, <2>2, <2>3
<1>5. CASE Restore
  <2>1. /\ phase = "restoring" /\ phase' = "orchestrating" /\ incrementalBaseline' = None
        /\ UNCHANGED <<versions, changeGeneration>>
    BY <1>5 DEF Restore, ClearCurrent, watchVars, storageVars
  <2>2. op'.baseline = op.baseline /\ op'.generation = op.generation
    BY <1>1, <1>5 DEF Restore, Operation
  <2>3. CASE op.restored = 0
    BY <1>1, <1>5, <2>1, <2>2, <2>3 DEF Restore, ClearCurrent
  <2>4. CASE op.restored # 0
    <3>1. \E record \in versions : /\ record.dna = RecoveredDNA(op.root, op.restored)
                                   /\ record.dna.root = op.root
      BY <1>1, <2>1, <2>4 DEF RecoveredDNA
    <3>2. current' = RecoveredDNA(op.root, op.restored) /\ rootPath' = op.root
      BY <1>5, <2>4 DEF Restore
    <3>3. QED BY <1>1, <2>1, <2>2, <3>1, <3>2
  <2>5. QED BY <2>3, <2>4
<1>6. CASE CreateSnapshot
  <2>1. UNCHANGED safetyVars
    BY <1>6 DEF CreateSnapshot, serviceVars, watchVars, publishedVars, storageVars, safetyVars
  <2>2. CASE Aborted
    BY <1>1, <1>6, <2>1, <2>2, SafeReturn DEF CreateSnapshot
  <2>3. CASE ~Aborted
    BY <1>1, <1>6, <2>1, <2>3 DEF CreateSnapshot, safetyVars
  <2>4. QED BY <2>2, <2>3
<1>7. CASE Persist
  <2>1. /\ phase = "snapshot" /\ phase' = "persisting"
        /\ UNCHANGED <<current, rootPath, incrementalBaseline, changeGeneration>>
        /\ versions \subseteq versions'
    BY <1>7 DEF Persist, serviceVars, watchVars, publishedVars
  <2> DEFINE stored == [dna |-> CandidateDNA, previousVersion |-> op.previous,
                        snapshot |-> snapshots[Len(snapshots)]]
  <2>2. op'.generation = op.generation /\ op'.version = op.version /\ CandidateDNA' = CandidateDNA
    BY <1>1, <1>7 DEF Persist, Operation, CandidateDNA
  <2>3. stored \in versions' /\ stored.dna = CandidateDNA
    BY <1>7 DEF Persist
  <2> HIDE DEF stored
  <2>4. QED BY <1>1, <2>1, <2>2, <2>3
<1>8. CASE PersistFails
  <2>1. phase = "snapshot" /\ phase' = "persisting" /\ UNCHANGED safetyVars
    BY <1>8 DEF PersistFails, serviceVars, watchVars, publishedVars, storageVars, safetyVars
  <2>2. op'.generation = op.generation /\ op'.version = op.version /\ ~op'.persisted
    BY <1>1, <1>8 DEF PersistFails, Operation
  <2>3. QED BY <1>1, <2>1, <2>2 DEF safetyVars
<1>9. CASE DiscardCandidate
  <2>1. phase = "persisting" /\ phase' = "discarding" /\ UNCHANGED <<safetyVars, op>>
    BY <1>9 DEF DiscardCandidate, serviceVars, watchVars, publishedVars, storageVars, safetyVars
  <2>2. QED BY <1>1, <2>1 DEF safetyVars
<1>10. CASE RemoveCandidate
  <2>1. /\ phase = "discarding" /\ phase' = "settling"
        /\ UNCHANGED <<current, rootPath, incrementalBaseline, changeGeneration>>
    BY <1>10 DEF RemoveCandidate, Return, serviceVars, watchVars, publishedVars
  <2>2. op'.generation = 0
    BY <1>1, <1>10, ReturnTypes DEF RemoveCandidate
  <2>3. ASSUME current # None PROVE \E record \in versions' : record.dna = current
    <3>1. PICK record \in versions : record.dna = current
      BY <1>1, <2>3
    <3>2. record.dna.version # op.version
      BY <1>1, <2>1, <2>3, <3>1 DEF Operation, DNA, Version
    <3>3. QED BY <1>10, <3>1, <3>2 DEF RemoveCandidate
  <2>4. QED BY <1>1, <2>1, <2>2, <2>3
<1>11. QED BY <1>3, <1>4, <1>5, <1>6, <1>7, <1>8, <1>9, <1>10

\* Publication, the return without a change, the end of the operation.
LEMMA SafePublishing ==
    ASSUME SafeInv, TypeInv', KeepCurrent \/ Publish \/ Settle
    PROVE  Safe'
<1> USE DEF Safe, BaselineMatchesCurrent, CurrentIsStored, OperationTracksService,
            GenerationIsPast, RefreshesItsBaseline, RestoresAnotherRepository,
            RestoredIsStored, ComparesWithTheBaseline, CandidateIsNewer, PersistedIsStored
<1>1. op \in Operation /\ changeGeneration \in Nat /\ Safe
      /\ (phase # "idle" => op.root \in Roots)
  BY DEF SafeInv, TypeInv, TypeOK, AssignedLocals
\* The operation's baseline is still the service's, so that nothing changes.
<1>2. CASE KeepCurrent
  <2>1. incrementalBaseline = [root |-> op.root, content |-> op.content]
    BY <1>1, <1>2 DEF KeepCurrent, NothingChanged, Unsuperseded
  <2>2. UNCHANGED safetyVars
    BY <1>2, <2>1 DEF KeepCurrent, AcknowledgeChanges, storageVars, safetyVars
  <2>3. QED BY <1>1, <1>2, <2>2, SafeReturn DEF KeepCurrent, Unsuperseded
<1>3. CASE Publish
  <2>1. /\ phase = "persisting" /\ phase' = "settling" /\ op.persisted
        /\ UNCHANGED <<versions, changeGeneration>>
        /\ current' = CandidateDNA /\ rootPath' = op.root
        /\ incrementalBaseline' = [root |-> op.root, content |-> op.content]
    BY <1>3 DEF Publish, AcknowledgeChanges, Return, storageVars
  <2>2. op'.generation = 0
    BY <1>1, <1>3, ReturnTypes DEF Publish
  <2>3. current'.root = op.root /\ current'.content = op.content /\ current' # None
    <3>1. CandidateDNA \in DNA
      BY <1>3 DEF CandidateDNA, DNA, Publish, SafeInv, TypeInv, TypeOK, AssignedLocals
    <3>2. QED BY <2>1, <3>1, NullAssumption DEF CandidateDNA
  <2>4. QED BY <1>1, <2>1, <2>2, <2>3
<1>4. CASE Settle
  <2>1. UNCHANGED safetyVars /\ phase' = "idle" /\ op'.generation = 0
    BY <1>4 DEF Settle, NoOperation, watchVars, publishedVars, storageVars, safetyVars
  <2>2. QED BY <1>1, <2>1, SafeGivingUp
<1>5. QED BY <1>2, <1>3, <1>4

\* Starting an operation and aborting it.
LEMMA SafeStarting ==
    ASSUME SafeInv,
           \/ \E r \in Roots, signal \in {"none", "live"} : Analyze(r, signal)
           \/ Refresh \/ AutomaticRefresh \/ Abort
    PROVE  Safe'
<1> USE DEF Safe, BaselineMatchesCurrent, CurrentIsStored, OperationTracksService,
            GenerationIsPast, RefreshesItsBaseline, RestoresAnotherRepository,
            RestoredIsStored, ComparesWithTheBaseline, CandidateIsNewer, PersistedIsStored
<1>1. op \in Operation /\ changeGeneration \in Nat /\ Safe
      /\ (phase # "idle" => op.root \in Roots)
  BY DEF SafeInv, TypeInv, TypeOK, AssignedLocals
<1>2. ASSUME NEW r, NEW forceFull \in BOOLEAN, NEW signal, StartAnalysis(r, forceFull, signal),
             forceFull \/ r = rootPath
      PROVE  Safe'
  <2>1. UNCHANGED safetyVars /\ phase' = "starting"
    BY <1>2 DEF StartAnalysis, watchVars, publishedVars, storageVars, safetyVars
  <2>2. op'.generation = 0 /\ op'.root = r /\ op'.forceFull = forceFull
    BY <1>2 DEF StartAnalysis, NoOperation
  <2>3. QED BY <1>1, <1>2, <2>1, <2>2 DEF safetyVars
<1>3. ASSUME NEW r \in Roots, NEW signal \in {"none", "live"}, Analyze(r, signal)
      PROVE  Safe'
  BY <1>2, <1>3 DEF Analyze
<1>4. CASE Refresh
  BY <1>2, <1>4 DEF Refresh
<1>5. CASE AutomaticRefresh
  <2>1. CASE disposed \/ ~Idle \/ rootPath = None
    BY <1>5, <2>1, SafeUnchanged
       DEF AutomaticRefresh, watchVars, publishedVars, storageVars, safetyVars
  <2>2. CASE ~(disposed \/ ~Idle \/ rootPath = None)
    BY <1>2, <1>5, <2>2 DEF AutomaticRefresh
  <2>3. QED BY <2>1, <2>2
<1>6. CASE Abort
  <2>1. UNCHANGED <<safetyVars, phase>>
    BY <1>6 DEF Abort, serviceVars, watchVars, publishedVars, storageVars, safetyVars
  <2>2. op' = [op EXCEPT !.signal = "aborted"]
    BY <1>6 DEF Abort
  <2>3. /\ op'.root = op.root /\ op'.forceFull = op.forceFull /\ op'.generation = op.generation
        /\ op'.baseline = op.baseline /\ op'.restored = op.restored /\ op'.version = op.version
        /\ op'.content = op.content /\ op'.persisted = op.persisted
    BY ONLY <1>1, <2>2 DEF Operation
  <2>4. QED BY <1>1, <2>1, <2>3 DEF safetyVars, Superseded, CandidateDNA
<1>7. QED BY <1>3, <1>4, <1>5, <1>6

\* Watcher notifications.
LEMMA SafeNotification ==
    ASSUME SafeInv, Notification
    PROVE  Safe'
<1> USE DEF Safe, BaselineMatchesCurrent, CurrentIsStored, OperationTracksService,
            GenerationIsPast, RefreshesItsBaseline, RestoresAnotherRepository,
            RestoredIsStored, ComparesWithTheBaseline, CandidateIsNewer, PersistedIsStored
<1>1. op.generation \in Nat /\ changeGeneration \in Nat /\ Safe
      /\ (current # None => current.root \in Roots)
  BY DEF SafeInv, TypeInv, TypeOK, Operation, DNA
<1>2. ASSUME NEW r \in Roots, NEW epoch, NEW sequence, EmptyNotification(r, epoch, sequence)
      PROVE  Safe'
  BY <1>2, SafeUnchanged DEF EmptyNotification, publishedVars, storageVars, safetyVars
\* Changes supersede the running operation; the repository they are of is the
\* one the service follows, if it follows one.
<1>3. ASSUME NEW r \in Roots, NEW epoch, NEW sequence, NEW changes,
             RepositoryFilesChanged(r, epoch, sequence, changes)
      PROVE  Safe'
  <2>1. /\ changeGeneration' = changeGeneration + 1 /\ rootPath' = r
        /\ UNCHANGED <<current, incrementalBaseline, phase, op, versions>>
    BY <1>3 DEF RepositoryFilesChanged, storageVars
  <2>2. rootPath \in {None, r}
    BY <1>3 DEF RepositoryFilesChanged, AcceptsFilesChanged
  <2>3. current # None => rootPath' = current.root
    BY <1>1, <2>1, <2>2, WorkspaceAssumption
  <2>4. GenerationIsPast' /\ Superseded'
    BY <1>1, <2>1 DEF Superseded
  <2>5. QED BY <1>1, <2>1, <2>3, <2>4 DEF CandidateDNA
<1>4. ASSUME NEW r \in Roots, NEW epoch, NEW reason,
             RepositoryWatcherInvalidated(r, epoch, reason)
      PROVE  Safe'
  <2>1. changeGeneration' = changeGeneration + 1 /\ UNCHANGED <<phase, op, versions>>
    BY <1>4 DEF RepositoryWatcherInvalidated, storageVars
  <2>2. \/ UNCHANGED <<current, rootPath, incrementalBaseline>>
        \/ rootPath = None /\ UNCHANGED <<current, incrementalBaseline>>
        \/ current' = None /\ incrementalBaseline' = None
    BY <1>4 DEF RepositoryWatcherInvalidated, ClearCurrent, publishedVars
  <2>3. current # None => rootPath # None
    BY <1>1, WorkspaceAssumption
  <2>4. GenerationIsPast' /\ Superseded'
    BY <1>1, <2>1 DEF Superseded
  <2>5. QED BY <1>1, <2>1, <2>2, <2>3, <2>4 DEF CandidateDNA
<1>5. QED BY <1>2, <1>3, <1>4 DEF Notification

\* Disposal and restart.
LEMMA SafeRestarting ==
    ASSUME SafeInv,
           Dispose \/ \E r \in Roots : RestartExtension(r) \/ RestartUnrestored(r)
    PROVE  Safe'
<1> USE DEF Safe, BaselineMatchesCurrent, CurrentIsStored, OperationTracksService,
            GenerationIsPast, RefreshesItsBaseline, RestoresAnotherRepository,
            RestoredIsStored, ComparesWithTheBaseline, CandidateIsNewer, PersistedIsStored
<1>1. op.generation \in Nat /\ changeGeneration \in Nat /\ Safe /\ TypeInv
  BY DEF SafeInv, TypeInv, TypeOK, Operation
<1>2. CASE Dispose
  <2>1. /\ changeGeneration' = changeGeneration + 1 /\ UNCHANGED <<phase, op, versions>>
        /\ current' = None /\ incrementalBaseline' = None
    BY <1>2 DEF Dispose, ClearCurrent
  <2>2. GenerationIsPast' /\ Superseded'
    BY <1>1, <2>1 DEF Superseded
  <2>3. QED BY <1>1, <2>1, <2>2 DEF CandidateDNA
<1>3. ASSUME NEW r \in Roots, RestartExtension(r) \/ RestartUnrestored(r)
      PROVE  Safe'
  <2>1. NewProcess
    BY <1>3 DEF RestartExtension, RestartUnrestored
  <2>2. phase' = "idle" /\ op'.generation = 0 /\ changeGeneration' = 0
        /\ incrementalBaseline' = None
    BY <2>1 DEF NewProcess, NoOperation
  <2>3. current' # None => /\ rootPath' = current'.root
                           /\ \E record \in versions' : record.dna = current'
    <3>1. CASE RestartUnrestored(r) \/ RecoveredVersion(r) = 0
      BY <1>3, <3>1 DEF RestartExtension, RestartUnrestored
    <3>2. CASE RestartExtension(r) /\ RecoveredVersion(r) # 0
      <4>1. RecoveredVersion(r) \in ValidVersions(r)
        BY <1>1, <3>2, RecoveredVersionIsValid
      <4>2. current' = RecoveredDNA(r, RecoveredVersion(r)) /\ rootPath' = r
        BY <3>2 DEF RestartExtension
      <4>3. versions' = versions \ InvalidRecords(r)
        BY <3>2 DEF RestartExtension, RepairStorage
      <4>4. QED BY <1>1, <4>1, <4>2, <4>3, ValidVersionIsStored
    <3>3. QED BY <1>3, <3>1, <3>2
  <2>4. QED BY <2>2, <2>3
<1>4. QED BY <1>2, <1>3

\* Every step keeps SafeInv.
LEMMA SafeNext ==
    SafeInv /\ [Next]_vars => SafeInv'
<1> SUFFICES ASSUME SafeInv, [Next]_vars PROVE SafeInv'
  OBVIOUS
<1>1. TypeInv'
  BY TypeInvNext DEF SafeInv
<1>2. CASE \/ OrchestrateFails \/ WorkingTreeFails \/ SupersedeCandidate \/ SupersedeSnapshot
           \/ RollBackFailure \/ RemoveCandidateFails
  <2>1. UNCHANGED safetyVars
    BY <1>2 DEF OrchestrateFails, WorkingTreeFails, SupersedeCandidate, SupersedeSnapshot,
                RollBackFailure, RemoveCandidateFails, serviceVars, watchVars, publishedVars,
                storageVars, safetyVars
  <2>2. Return("failed") \/ Return("superseded")
    BY <1>2 DEF OrchestrateFails, WorkingTreeFails, SupersedeCandidate, SupersedeSnapshot,
                RollBackFailure, RemoveCandidateFails
  <2>3. op.root \in Roots
    BY <1>2 DEF OrchestrateFails, WorkingTreeFails, SupersedeCandidate, SupersedeSnapshot,
                RollBackFailure, RemoveCandidateFails, SafeInv, TypeInv, TypeOK, AssignedLocals
  <2>4. Safe'
    BY <2>1, <2>2, <2>3, SafeReturn
  <2>5. QED BY <1>1, <2>4 DEF SafeInv
<1>3. CASE RunAnalysis /\ ~(\/ OrchestrateFails \/ WorkingTreeFails \/ SupersedeCandidate
                            \/ SupersedeSnapshot \/ RollBackFailure \/ RemoveCandidateFails)
  BY <1>1, <1>3, SafeAnalysing, SafeStoring, SafePublishing DEF RunAnalysis, SafeInv
<1>4. CASE \/ \E c \in ImpactCallers : AnswerImpact(c) \/ GetImpact(c)
           \/ \E r \in Roots, p \in Paths, c \in Contents : EditFile(r, p, c)
           \/ UNCHANGED vars
  <2>1. UNCHANGED <<safetyVars, phase, op>>
    BY <1>4 DEF AnswerImpact, GetImpact, EditFile, vars, watchVars, publishedVars, storageVars,
                safetyVars
  <2>2. QED BY <1>1, <2>1, SafeUnchanged DEF SafeInv
<1>5. CASE AutomaticRefresh \/ Notification
  BY <1>1, <1>5, SafeStarting, SafeNotification DEF SafeInv
<1>6. CASE Request
  BY <1>1, <1>4, <1>6, SafeStarting, SafeRestarting DEF Request, SafeInv
<1>7. QED BY <1>2, <1>3, <1>4, <1>5, <1>6 DEF Next

\* The safety invariant holds of every reachable state.
LEMMA SafeInvariance ==
    Spec => []SafeInv
BY SafeInit, SafeNext, PTL DEF Spec

\* An incremental analysis always starts from the published one, whatever was
\* superseded, restored, published or cleared while operations ran.
THEOREM IncrementalBaselineIsPublished ==
    Spec => []BaselineMatchesCurrent
<1>1. SafeInv => BaselineMatchesCurrent
  BY DEF SafeInv, Safe
<1>2. QED BY <1>1, SafeInvariance, PTL

\* The published analysis is always in the storage, and of the repository the
\* service follows.
THEOREM PublishedIsStored ==
    Spec => []CurrentIsStored
<1>1. SafeInv => CurrentIsStored
  BY DEF SafeInv, Safe
<1>2. QED BY <1>1, SafeInvariance, PTL

\* What runAnalysis keeps in its locals across awaits stays true of the service
\* it returns to.
THEOREM OperationStaysInStep ==
    Spec => []OperationTracksService
<1>1. SafeInv => OperationTracksService
  BY DEF SafeInv, Safe
<1>2. QED BY <1>1, SafeInvariance, PTL

-----------------------------------------------------------------------------
(* Impact queries *)

\* A query that nothing superseded waits on an idle service that still publishes
\* the analysis it was asked of.
FreshQueries ==
    \A c \in ImpactCallers :
        impact[c].status = "waiting" /\ ~impact[c].stale => Idle /\ impact[c].dna = current

ImpactInv == TypeInv /\ FreshQueries

\* A step that supersedes the queries leaves none fresh.
LEMMA SupersededQueries ==
    ASSUME TypeInv, SupersedeImpacts
    PROVE  FreshQueries'
<1>1. SUFFICES ASSUME NEW c \in ImpactCallers, impact'[c].status = "waiting"
               PROVE  impact'[c].stale
  BY DEF FreshQueries
<1>2. impact[c] \in Query
  BY DEF TypeInv, TypeOK
<1>3. impact'[c] = [impact[c] EXCEPT !.stale = impact[c].status = "waiting"]
  BY DEF SupersedeImpacts
<1>4. impact'[c].status = impact[c].status
  BY <1>2, <1>3 DEF Query
<1>5. impact'[c].stale = (impact[c].status = "waiting")
  BY <1>2, <1>3 DEF Query
<1>6. QED BY <1>1, <1>4, <1>5

\* The other steps keep current, unless an operation runs, and never start one.
LEMMA QueriesLeftAlone ==
    ASSUME ImpactInv, UNCHANGED impact, ~Idle \/ UNCHANGED <<current, phase>>
    PROVE  FreshQueries'
BY DEF ImpactInv, FreshQueries, Idle

\* Every step keeps the fresh queries those of the published analysis.
LEMMA FreshQueriesNext ==
    ImpactInv /\ [Next]_vars => ImpactInv'
<1> SUFFICES ASSUME ImpactInv, [Next]_vars PROVE FreshQueries'
  BY TypeInvNext DEF ImpactInv
<1> TypeInv
  BY DEF ImpactInv
<1>1. CASE RunAnalysis
  <2>1. ~Idle
    BY <1>1 DEF RunAnalysis, Idle, BeginAnalysis, ReceiveWorkingTree, Recover, RecoverFails,
                Restore, Orchestrate, OrchestrateFails, WorkingTreeFails, SupersedeCandidate,
                KeepCurrent, AssembleCandidate, Unsuperseded, CreateSnapshot, SupersedeSnapshot,
                Persist, PersistFails, RollBackFailure, DiscardCandidate, RemoveCandidate,
                RemoveCandidateFails, Publish, Settle
  <2>2. UNCHANGED impact \/ SupersedeImpacts
    BY <1>1 DEF RunAnalysis, BeginAnalysis, ReceiveWorkingTree, Recover, RecoverFails,
                Restore, ClearCurrent, Orchestrate, OrchestrateFails, WorkingTreeFails,
                SupersedeCandidate, KeepCurrent, AssembleCandidate, CreateSnapshot,
                SupersedeSnapshot, Persist, PersistFails, RollBackFailure, DiscardCandidate,
                RemoveCandidate, RemoveCandidateFails, Publish, Settle, serviceVars
  <2>3. QED BY <2>1, <2>2, QueriesLeftAlone, SupersededQueries
<1>2. CASE \/ \E r \in Roots, signal \in {"none", "live"} : Analyze(r, signal)
           \/ Refresh \/ AutomaticRefresh
  <2>1. SupersedeImpacts \/ UNCHANGED <<impact, current, phase>>
    BY <1>2 DEF Analyze, Refresh, AutomaticRefresh, StartAnalysis, publishedVars
  <2>2. QED BY <2>1, QueriesLeftAlone, SupersededQueries
<1>3. CASE Notification \/ Dispose
  <2>1. SupersedeImpacts \/ UNCHANGED <<impact, current, phase>>
    <3>1. ASSUME NEW r, NEW epoch, NEW sequence, NEW changes,
                 \/ EmptyNotification(r, epoch, sequence)
                 \/ RepositoryFilesChanged(r, epoch, sequence, changes)
          PROVE  UNCHANGED <<impact, current, phase>>
      BY <3>1 DEF EmptyNotification, RepositoryFilesChanged, publishedVars
    <3>2. ASSUME NEW r, NEW epoch, NEW reason, RepositoryWatcherInvalidated(r, epoch, reason)
          PROVE  SupersedeImpacts \/ UNCHANGED <<impact, current, phase>>
      BY <3>2 DEF RepositoryWatcherInvalidated, ClearCurrent, publishedVars
    <3>3. Dispose => SupersedeImpacts
      BY DEF Dispose, ClearCurrent
    <3>4. QED BY <1>3, <3>1, <3>2, <3>3, Zenon DEF Notification
  <2>2. QED BY <2>1, QueriesLeftAlone, SupersededQueries
<1>4. CASE \/ Abort
           \/ \E r \in Roots, p \in Paths, c \in Contents : EditFile(r, p, c)
           \/ UNCHANGED vars
  <2>1. UNCHANGED <<impact, current, phase>>
    BY <1>4 DEF Abort, EditFile, vars, serviceVars, publishedVars
  <2>2. QED BY <2>1, QueriesLeftAlone
<1>5. ASSUME NEW c \in ImpactCallers, GetImpact(c)
      PROVE  FreshQueries'
  <2>1. /\ Idle /\ UNCHANGED <<current, phase>>
        /\ impact' = [impact EXCEPT ![c] = [status |-> "waiting", dna |-> current, stale |-> FALSE]]
    BY <1>5 DEF GetImpact, publishedVars
  <2>2. impact \in [ImpactCallers -> Query]
    BY DEF TypeInv, TypeOK
  <2>3. QED BY <2>1, <2>2 DEF ImpactInv, FreshQueries, Idle
<1>6. ASSUME NEW c \in ImpactCallers, AnswerImpact(c)
      PROVE  FreshQueries'
  <2>1. /\ UNCHANGED <<current, phase>>
        /\ \A d \in ImpactCallers \ {c} : impact'[d] = impact[d]
        /\ impact'[c].status # "waiting"
    BY <1>6 DEF AnswerImpact, NoQuery, publishedVars, TypeInv, TypeOK
  <2>2. QED BY <2>1 DEF ImpactInv, FreshQueries, Idle
<1>7. ASSUME NEW r \in Roots, RestartExtension(r) \/ RestartUnrestored(r)
      PROVE  FreshQueries'
  BY <1>7 DEF RestartExtension, RestartUnrestored, NewProcess, NoQuery, FreshQueries
<1>8. QED BY <1>1, <1>2, <1>3, <1>4, <1>5, <1>6, <1>7 DEF Next, Request

\* What a step does to the queries: nothing, superseding all of them, or asking or
\* answering one; a new process has none.
LEMMA ImpactSteps ==
    ASSUME [Next]_vars
    PROVE  \/ UNCHANGED impact
           \/ SupersedeImpacts
           \/ \E c \in ImpactCallers : GetImpact(c) \/ AnswerImpact(c)
           \/ impact' = [c \in ImpactCallers |-> NoQuery]
BY DEF Next, Request, RunAnalysis, BeginAnalysis, ReceiveWorkingTree, Recover, RecoverFails,
       Restore, ClearCurrent, Orchestrate, OrchestrateFails, WorkingTreeFails,
       SupersedeCandidate, KeepCurrent, AssembleCandidate, CreateSnapshot,
       SupersedeSnapshot, Persist, PersistFails, RollBackFailure, DiscardCandidate,
       RemoveCandidate, RemoveCandidateFails, Publish, Settle, serviceVars, Analyze, Refresh,
       AutomaticRefresh, StartAnalysis, Notification, EmptyNotification,
       RepositoryFilesChanged, RepositoryWatcherInvalidated, Dispose, Abort, EditFile, vars,
       RestartExtension, RestartUnrestored, NewProcess

\* getImpact answers only from the analysis that is still published, and only
\* while none is being computed, however queries, analyses and notifications
\* interleave.
THEOREM ImpactAnswersAreCurrent ==
    Spec => ImpactAnswerIsCurrent
<1>1. Init => ImpactInv
  BY TypeInvInit DEF Init, Activated, NoQuery, ImpactInv, FreshQueries
<1>2. ASSUME ImpactInv, [Next]_vars, NEW c \in ImpactCallers,
             impact[c].status = "waiting", impact'[c].status = "answered"
      PROVE  Idle /\ impact[c].dna = current
  <2>1. TypeInv /\ impact[c] \in Query
    BY <1>2 DEF ImpactInv, TypeInv, TypeOK
  <2>2. CASE \E d \in ImpactCallers : AnswerImpact(d)
    <3>1. PICK d \in ImpactCallers : AnswerImpact(d)
      BY <2>2
    <3>2. d = c
      BY <1>2, <3>1 DEF AnswerImpact
    <3>3. ~impact[c].stale
      BY <1>2, <2>1, <3>1, <3>2 DEF AnswerImpact, NoQuery, TypeInv, TypeOK
    <3>4. QED BY <1>2, <3>3 DEF ImpactInv, FreshQueries
  <2>3. CASE SupersedeImpacts \/ UNCHANGED impact
    <3>1. impact'[c].status = impact[c].status
      BY <1>2, <2>1, <2>3 DEF SupersedeImpacts, Query
    <3>2. QED BY <1>2, <3>1
  <2>4. CASE \E d \in ImpactCallers : GetImpact(d)
    BY <1>2, <2>4 DEF GetImpact, TypeInv, TypeOK, ImpactInv
  <2>5. CASE impact' = [d \in ImpactCallers |-> NoQuery]
    BY <1>2, <2>5 DEF NoQuery
  <2>6. QED BY <1>2, <2>2, <2>3, <2>4, <2>5, ImpactSteps
<1>3. ImpactInv /\ [Next]_vars =>
         [\A c \in ImpactCallers :
             impact[c].status = "waiting" /\ impact'[c].status = "answered" =>
                 Idle /\ impact[c].dna = current]_vars
  BY <1>2
<1>4. QED BY <1>1, <1>3, FreshQueriesNext, PTL DEF Spec, ImpactAnswerIsCurrent

-----------------------------------------------------------------------------
(* Recovery.  Whatever the service published comes back after a crash, and *)
(* between operations history, storage and latest pointer agree with it.   *)
(* This holds as long as the service is not moved to another workspace: a  *)
(* workspace change clears what is published but not the history of the    *)
(* evolution engine.                                                       *)

\* The one notification that makes the service leave a repository it follows.
ChangesWorkspace ==
    \E r \in Roots, epoch \in 1 .. MaxEpoch :
        /\ RepositoryWatcherInvalidated(r, epoch, "workspace-change")
        /\ rootPath \notin {None, r}

\* The first n snapshots of r, and those of the published analysis.
HistoryOf(r, n) == [v \in 1 .. n |-> ChainedSnapshot(r, v)]
PublishedVersion == IF current = None THEN 0 ELSE current.version
PublishedHistory == IF current = None THEN <<>> ELSE HistoryOf(current.root, current.version)

StoredVersions(r) ==
    {record.dna.version : record \in {x \in versions : x.dna.root = r}}

\* The stored versions of a repository are an intact chain up to its pointer.
StorageIsChained ==
    /\ \A r \in Roots : StoredVersions(r) = 1 .. latest[r]
    /\ \A record \in versions :
           /\ record.previousVersion = record.dna.version - 1
           /\ record.snapshot = ChainedSnapshot(record.dna.root, record.dna.version)

\* The candidate of the running operation is in the storage.
CandidateIsStored == phase = "discarding" \/ (phase = "persisting" /\ op.persisted)

\* What is being restored is the newest stored version and its history.
RestoringInv ==
    phase = "restoring" =>
        op.restored = latest[op.root] /\ snapshots = HistoryOf(op.root, op.restored)

\* The history is the published one, but for the one being restored and for the
\* candidate's snapshot, for which the operation kept the published one.
HistoryInv ==
    /\ phase \notin {"restoring", "snapshot", "persisting"} => snapshots = PublishedHistory
    /\ phase \in {"snapshot", "persisting"} =>
           /\ op.history = PublishedHistory
           /\ snapshots = Append(op.history, ChainedSnapshot(op.root, op.version))

\* The candidate follows the published version, in the repository of the operation.
CandidateInv ==
    /\ phase \in {"orchestrating", "workingTreeAfter", "history", "snapshot", "persisting",
                  "discarding"} =>
           /\ op.previous = PublishedVersion
           /\ current # None => current.root = op.root
    /\ phase \in {"history", "snapshot", "persisting", "discarding"} =>
           op.version = PublishedVersion + 1
    /\ phase = "history" => op.history = PublishedHistory
    /\ CandidateIsStored =>
           /\ ~disposed
           /\ latest[op.root] = op.version
           /\ op.latestRecord = op.version - 1

\* The pointer is at the published version, or at a candidate that stayed stored.
PointerInv ==
    current # None /\ ~CandidateIsStored =>
        \/ latest[current.root] = current.version
        \/ "storage" \in Failures /\ latest[current.root] = current.version + 1

\* A disposed service publishes nothing, unless it was restoring when disposed.
Follows == ~disposed \/ current # None

Recoverable ==
    /\ StorageIsChained
    /\ storageOpen = ~disposed
    /\ persistedLatestRecord = PublishedVersion
    /\ RestoringInv
    /\ Follows => HistoryInv /\ CandidateInv /\ PointerInv

RecoveryInv == SafeInv /\ Recoverable

\* What Recoverable is about, apart from the operation.
recoveryVars == <<current, persistedLatestRecord, disposed, snapshots, storageVars>>

\* Recovery of an intact chain selects its end, and has nothing to quarantine.
LEMMA RecoveredIsLatest ==
    ASSUME TypeInv, StorageIsChained, NEW r \in Roots
    PROVE  RecoveredVersion(r) = latest[r] /\ InvalidRecords(r) = {}
<1>1. latest[r] \in Nat
  BY DEF TypeInv, TypeOK
<1>2. \A v \in 1 .. latest[r] : IntactVersion(r, v)
  <2> SUFFICES ASSUME NEW v \in 1 .. latest[r] PROVE IntactVersion(r, v)
    OBVIOUS
  <2>1. PICK record \in versions : record.dna.root = r /\ record.dna.version = v
    BY DEF StorageIsChained, StoredVersions
  <2>2. QED BY <2>1 DEF StorageIsChained, IntactVersion
<1>3. \A v : IntactVersion(r, v) => v \in 1 .. latest[r]
  BY DEF StorageIsChained, StoredVersions, IntactVersion
<1>4. ValidVersions(r) = 1 .. latest[r]
  <2>1. ASSUME NEW v \in ValidVersions(r) PROVE v \in 1 .. latest[r]
    <3>1. v \in Version /\ \A w \in 1 .. v : IntactVersion(r, w)
      BY DEF ValidVersions, TypeInv, TypeOK, VersionRecord, DNA
    <3>2. QED BY <1>3, <3>1 DEF Version
  <2>2. ASSUME NEW v \in 1 .. latest[r] PROVE v \in ValidVersions(r)
    <3>1. PICK record \in versions : record.dna.version = v
      BY <1>2 DEF IntactVersion
    <3>2. \A w \in 1 .. v : IntactVersion(r, w)
      BY <1>1, <1>2
    <3>3. QED BY <3>1, <3>2 DEF ValidVersions
  <2>3. QED BY <2>1, <2>2
<1>5. RecoveredVersion(r) = latest[r]
  <2> DEFINE S == (1 .. latest[r]) \cup {0}
  <2>1. S \subseteq Nat /\ S # {} /\ latest[r] \in S /\ \A s \in S : s <= latest[r]
    BY <1>1
  <2>2. Max(S) \in S /\ \A s \in S : s <= Max(S)
    <3> HIDE DEF S
    <3>1. QED BY <1>1, <2>1, MaxOfBounded
  <2>3. Max(S) = latest[r]
    <3> HIDE DEF S
    <3>1. Max(S) \in Nat /\ Max(S) <= latest[r] /\ latest[r] <= Max(S)
      BY <2>1, <2>2
    <3>2. QED BY <1>1, <3>1
  <2>4. QED BY <1>4, <2>3 DEF RecoveredVersion
<1>6. InvalidRecords(r) = {}
  <2>1. \A record \in versions : record.dna.root = r => record.dna.version \in ValidVersions(r)
    BY <1>4 DEF StorageIsChained, StoredVersions
  <2>2. QED BY <2>1 DEF InvalidRecords
<1>7. QED BY <1>5, <1>6

\* So recovery repairs nothing, whether it completes or not.
LEMMA RepairsNothing ==
    ASSUME TypeInv, StorageIsChained, NEW r \in Roots, RepairStorage(r) \/ AbandonedRepair(r)
    PROVE  UNCHANGED <<versions, latest>>
<1>1. RecoveredVersion(r) = latest[r] /\ InvalidRecords(r) = {}
  BY RecoveredIsLatest
<1>2. CASE RepairStorage(r)
  BY <1>1, <1>2 DEF RepairStorage, TypeInv, TypeOK
<1>3. CASE AbandonedRepair(r)
  BY <1>1, <1>3 DEF AbandonedRepair
<1>4. QED BY <1>2, <1>3

\* What is restored of an intact chain is its end.
LEMMA RestoresLatest ==
    ASSUME TypeInv, StorageIsChained, NEW r \in Roots, latest[r] # 0
    PROVE  /\ RecoveredDNA(r, latest[r]) \in DNA
           /\ RecoveredDNA(r, latest[r]).root = r
           /\ RecoveredDNA(r, latest[r]).version = latest[r]
<1>1. latest[r] \in ValidVersions(r)
  BY RecoveredIsLatest, RecoveredVersionIsValid
<1>2. QED BY <1>1, ValidVersionIsStored

\* No history, and the history one snapshot longer.
LEMMA Histories ==
    ASSUME NEW r, NEW n \in Nat
    PROVE  /\ HistoryOf(r, 0) = <<>>
           /\ Append(HistoryOf(r, n), ChainedSnapshot(r, n + 1)) = HistoryOf(r, n + 1)
           /\ Len(HistoryOf(r, n)) = n
           /\ \A v \in 1 .. n : HistoryOf(r, n)[v] = ChainedSnapshot(r, v)
<1>1. HistoryOf(r, 0) = <<>>
  BY DEF HistoryOf
<1> DEFINE h == HistoryOf(r, n)
<1>2. Len(h) = n /\ \A v \in 1 .. n : h[v] = ChainedSnapshot(r, v)
  BY DEF HistoryOf
<1>3. Append(h, ChainedSnapshot(r, n + 1)) = HistoryOf(r, n + 1)
  BY DEF HistoryOf
<1>4. QED BY <1>1, <1>2, <1>3

\* The published history, once it is known whose it is.
LEMMA PublishedHistoryOf ==
    ASSUME TypeInv, NEW r, current # None => current.root = r
    PROVE  /\ PublishedVersion \in Nat
           /\ PublishedHistory = HistoryOf(r, PublishedVersion)
BY Histories DEF PublishedVersion, PublishedHistory, TypeInv, TypeOK, DNA, Version

\* A step that leaves alone what was published, stored and remembered, of an
\* operation that has not reached its candidate's snapshot and does not restore.
LEMMA RecoverableBefore ==
    ASSUME RecoveryInv, UNCHANGED recoveryVars,
           phase \in {"idle", "starting", "workingTreeBefore", "recovering", "orchestrating",
                      "workingTreeAfter", "history", "settling"},
           phase' \in {"idle", "starting", "workingTreeBefore", "recovering", "settling"}
    PROVE  Recoverable'
BY
   DEF RecoveryInv, Recoverable, Follows, RestoringInv, recoveryVars, storageVars,
       StorageIsChained, StoredVersions,
       ChainedSnapshot, PublishedVersion, PublishedHistory, HistoryOf, HistoryInv, CandidateInv,
       PointerInv, CandidateIsStored

\* A step that leaves the operation alone too, or only aborts it.
LEMMA RecoverableUnchanged ==
    ASSUME RecoveryInv, UNCHANGED <<recoveryVars, phase>>,
           op' = op \/ Abort
    PROVE  Recoverable'
<1>1. /\ op'.root = op.root /\ op'.restored = op.restored /\ op'.previous = op.previous
      /\ op'.version = op.version /\ op'.history = op.history
      /\ op'.latestRecord = op.latestRecord /\ op'.persisted = op.persisted
  <2>1. op \in Operation
    BY DEF RecoveryInv, SafeInv, TypeInv, TypeOK
  <2>2. QED BY <2>1 DEF Abort, Operation
<1>2. QED BY <1>1
    DEF RecoveryInv, Recoverable, Follows, RestoringInv, recoveryVars, storageVars,
        StorageIsChained, StoredVersions,
        ChainedSnapshot, PublishedVersion, PublishedHistory, HistoryOf, HistoryInv, CandidateInv,
        PointerInv, CandidateIsStored

\* Steps of the running operation up to the candidate.
LEMMA RecoverableAnalysing ==
    ASSUME RecoveryInv, TypeInv',
           \/ BeginAnalysis \/ Orchestrate \/ AssembleCandidate \/ KeepCurrent
           \/ OrchestrateFails \/ WorkingTreeFails \/ SupersedeCandidate \/ Settle
           \/ \E tree \in Observation \cup {None} : ReceiveWorkingTree(tree)
    PROVE  Recoverable'
<1> USE DEF recoveryVars, storageVars, serviceVars, publishedVars
<1>0. op \in Operation /\ SafeInv /\ Recoverable /\ TypeInv /\ UNCHANGED recoveryVars
  BY DEF RecoveryInv, SafeInv, TypeInv, TypeOK, BeginAnalysis, Orchestrate, AssembleCandidate,
         KeepCurrent, OrchestrateFails, WorkingTreeFails, SupersedeCandidate, Settle,
         ReceiveWorkingTree
<1>1. CASE BeginAnalysis \/ Settle
  BY <1>0, <1>1, RecoverableBefore DEF BeginAnalysis, Settle
<1>2. CASE KeepCurrent \/ OrchestrateFails \/ WorkingTreeFails \/ SupersedeCandidate
  BY <1>0, <1>2, RecoverableBefore
     DEF KeepCurrent, Unsuperseded, OrchestrateFails, WorkingTreeFails, SupersedeCandidate, Return
<1>3. CASE Orchestrate
  <2>1. PICK seen \in Sightings, observed \in ObservedPaths :
           op' = [op EXCEPT
               !.content = [p \in Paths |-> IF p \in observed THEN seen[p] ELSE op.baseline[p]],
               !.since = disk[op.root]]
    BY <1>3, Zenon DEF Orchestrate
  <2>2. op'.root = op.root /\ op'.previous = op.previous
    BY <1>0, <2>1 DEF Operation
  <2>3. phase = "orchestrating" /\ phase' = "workingTreeAfter"
    BY <1>3 DEF Orchestrate
  <2>4. QED BY <1>0, <2>2, <2>3
      DEF Recoverable, Follows, RestoringInv, StorageIsChained, StoredVersions, ChainedSnapshot,
          PublishedVersion,
          PublishedHistory, HistoryOf, HistoryInv, CandidateInv, PointerInv, CandidateIsStored
<1>4. CASE AssembleCandidate
  <2>1. phase = "workingTreeAfter"
    BY <1>4 DEF AssembleCandidate, Unsuperseded
  <2>2. CASE Aborted
    BY <1>0, <1>4, <2>1, <2>2, RecoverableBefore DEF AssembleCandidate, Return
  <2>3. CASE ~Aborted
    <3>1. phase' = "history"
          /\ op' = [op EXCEPT !.version = NextVersion, !.history = snapshots, !.tree = None,
                              !.changed = {}, !.baseline = None, !.since = None]
      BY <1>4, <2>3 DEF AssembleCandidate
    <3>2. /\ op'.root = op.root /\ op'.previous = op.previous
          /\ op'.version = PublishedVersion + 1 /\ op'.history = snapshots
      BY <1>0, <3>1 DEF Operation, NextVersion, PublishedVersion
    <3>3. QED BY <1>0, <2>1, <3>1, <3>2
        DEF Recoverable, Follows, RestoringInv, StorageIsChained, StoredVersions,
            ChainedSnapshot, PublishedVersion,
            PublishedHistory, HistoryOf, HistoryInv, CandidateInv, PointerInv, CandidateIsStored
  <2>4. QED BY <2>2, <2>3
<1>5. ASSUME NEW tree \in Observation \cup {None}, ReceiveWorkingTree(tree)
      PROVE  Recoverable'
  <2>1. phase = "workingTreeBefore"
    BY <1>5 DEF ReceiveWorkingTree
  <2>2. CASE Aborted \/ rootPath # op.root
    BY <1>0, <1>5, <2>1, <2>2, RecoverableBefore DEF ReceiveWorkingTree, Return
  <2>3. CASE ~Aborted /\ rootPath = op.root
    <3> DEFINE inputs == [op EXCEPT !.tree = tree, !.changed = ChangedPaths,
                                    !.baseline = PreviousBaseline]
    <3>1. phase' = "orchestrating"
          /\ op' = [inputs EXCEPT !.since = disk[op.root],
                                  !.previous = IF current = None THEN 0 ELSE current.version]
      BY <1>5, <2>3, Zenon DEF ReceiveWorkingTree
    <3>2. op'.root = op.root /\ op'.previous = PublishedVersion
      BY <1>0, <3>1 DEF Operation, PublishedVersion
    <3>3. current # None => current.root = op.root
      BY <1>0, <2>3 DEF SafeInv, Safe, CurrentIsStored
    <3>4. QED BY <1>0, <2>1, <3>1, <3>2, <3>3
        DEF Recoverable, Follows, RestoringInv, StorageIsChained, StoredVersions,
            ChainedSnapshot, PublishedVersion,
            PublishedHistory, HistoryOf, HistoryInv, CandidateInv, PointerInv, CandidateIsStored
  <2>4. QED BY <2>2, <2>3
<1>6. QED BY <1>1, <1>2, <1>3, <1>4, <1>5

\* Recovery and what it publishes.
LEMMA RecoverableRestoring ==
    ASSUME RecoveryInv, TypeInv', Recover \/ RecoverFails \/ Restore
    PROVE  Recoverable'
<1>0. op \in Operation /\ SafeInv /\ Recoverable /\ TypeInv /\ StorageIsChained
  BY DEF RecoveryInv, Recoverable, Follows, RestoringInv, SafeInv, TypeInv, TypeOK
<1>1. CASE Recover
  <2>1. op.root \in Roots /\ phase = "recovering" /\ phase' = "restoring"
    BY <1>0, <1>1 DEF Recover, TypeInv, TypeOK, AssignedLocals
  <2>2. RecoveredVersion(op.root) = latest[op.root]
    BY <1>0, <2>1, RecoveredIsLatest
  <2>3. UNCHANGED <<versions, latest, storageOpen, disposed, current, persistedLatestRecord>>
    BY <1>0, <1>1, <2>1, RepairsNothing DEF Recover, serviceVars, publishedVars
  <2>4. op'.root = op.root /\ op'.restored = latest[op.root]
    BY <1>0, <1>1, <2>2 DEF Recover, Operation
  <2>5. snapshots' = HistoryOf(op.root, latest[op.root])
    BY <1>1, <2>2 DEF Recover, RecoveredHistory, HistoryOf
  <2>6. QED BY <1>0, <2>1, <2>3, <2>4, <2>5
      DEF Recoverable, Follows, RestoringInv, StorageIsChained, StoredVersions, ChainedSnapshot,
          PublishedVersion,
          PublishedHistory, HistoryOf, HistoryInv, CandidateInv, PointerInv, CandidateIsStored
<1>2. CASE RecoverFails
  <2>1. op.root \in Roots /\ phase = "recovering" /\ phase' = "settling"
    BY <1>0, <1>2 DEF RecoverFails, Return, TypeInv, TypeOK, AssignedLocals
  <2>2. UNCHANGED <<versions, latest>>
    BY <1>0, <1>2, <2>1, RepairsNothing DEF RecoverFails
  <2>3. UNCHANGED recoveryVars
    BY <1>2, <2>2 DEF RecoverFails, serviceVars, publishedVars, recoveryVars, storageVars
  <2>4. QED BY <2>1, <2>3, RecoverableBefore
<1>3. CASE Restore
  <2>1. /\ op.root \in Roots /\ phase = "restoring" /\ phase' = "orchestrating"
        /\ UNCHANGED <<versions, latest, storageOpen, disposed, snapshots>>
    BY <1>0, <1>3 DEF Restore, TypeInv, TypeOK, AssignedLocals, storageVars
  <2>2. op'.root = op.root /\ op'.previous = op.restored
    BY <1>0, <1>3 DEF Restore, Operation
  <2>3. op.restored = 0 => current' = None /\ persistedLatestRecord' = 0
    BY <1>3 DEF Restore, ClearCurrent
  <2>4. op.restored # 0 => /\ current' = RecoveredDNA(op.root, op.restored)
                           /\ persistedLatestRecord' = op.restored
    BY <1>3 DEF Restore
  <2>5. op.restored = latest[op.root] /\ snapshots = HistoryOf(op.root, op.restored)
    BY <1>0, <2>1 DEF Recoverable, RestoringInv
  <2>6. op.restored # 0 => /\ current' # None /\ current'.root = op.root
                           /\ current'.version = op.restored
    BY <1>0, <2>1, <2>4, <2>5, RestoresLatest, NullAssumption
  <2>7. /\ PublishedVersion' = op.restored /\ persistedLatestRecord' = op.restored
        /\ PublishedHistory' = HistoryOf(op.root, op.restored)
    <3>1. CASE op.restored = 0
      BY <2>3, <3>1, Histories DEF PublishedVersion, PublishedHistory
    <3>2. CASE op.restored # 0
      BY <2>4, <2>6, <3>2 DEF PublishedVersion, PublishedHistory, HistoryOf, ChainedSnapshot
    <3>3. QED BY <3>1, <3>2
  <2>8. HistoryInv' /\ CandidateInv' /\ PointerInv' /\ RestoringInv'
    BY <2>1, <2>2, <2>3, <2>5, <2>6, <2>7
       DEF HistoryInv, CandidateInv, PointerInv, CandidateIsStored, RestoringInv
  <2>9. QED BY <1>0, <2>1, <2>7, <2>8
      DEF Recoverable, StorageIsChained, StoredVersions, ChainedSnapshot
<1>4. QED BY <1>1, <1>2, <1>3

\* The candidate's snapshot, and rolling it back.
LEMMA RecoverableSnapshot ==
    ASSUME RecoveryInv, TypeInv',
           CreateSnapshot \/ SupersedeSnapshot \/ RollBackFailure \/ DiscardCandidate
    PROVE  Recoverable'
<1> USE DEF serviceVars, publishedVars, storageVars
<1>0. op \in Operation /\ SafeInv /\ Recoverable /\ TypeInv
  BY DEF RecoveryInv, SafeInv, TypeInv, TypeOK
<1>1. UNCHANGED <<versions, latest, storageOpen, disposed, current, persistedLatestRecord>>
  BY DEF CreateSnapshot, SupersedeSnapshot, RollBackFailure, DiscardCandidate
<1>2. CASE CreateSnapshot
  <2>1. CASE Aborted
    BY <1>1, <1>2, <2>1, RecoverableBefore DEF CreateSnapshot, Return, recoveryVars
  <2>2. CASE ~Aborted
    <3>1. /\ phase = "history" /\ phase' = "snapshot" /\ op' = op
          /\ snapshots' = Append(snapshots, NextSnapshot)
      BY <1>2, <2>2 DEF CreateSnapshot
    <3>2. ASSUME Follows
          PROVE  NextSnapshot = ChainedSnapshot(op.root, op.version)
      <4>1. /\ snapshots = PublishedHistory /\ op.version = PublishedVersion + 1
            /\ current # None => current.root = op.root
        BY <1>0, <3>1, <3>2 DEF Recoverable, Follows, RestoringInv, HistoryInv, CandidateInv
      <4> DEFINE n == PublishedVersion
      <4>2. n \in Nat /\ snapshots = HistoryOf(op.root, n)
        BY <1>0, <4>1, PublishedHistoryOf
      <4> HIDE DEF n
      <4>3. Len(snapshots) = n /\ \A v \in 1 .. n : snapshots[v] = ChainedSnapshot(op.root, v)
        BY <4>2, Histories
      <4>4. CASE n = 0
        <5>1. snapshots = <<>>
          BY <4>2, <4>4, Histories
        <5>2. op.version = 1
          BY <4>1, <4>4 DEF n
        <5>3. QED BY <5>1, <5>2 DEF NextSnapshot, ChainedSnapshot
      <4>5. CASE n # 0
        <5>1. snapshots[n] = ChainedSnapshot(op.root, n) /\ snapshots # <<>> /\ Len(snapshots) = n
          BY <4>2, <4>3, <4>5
        <5>2. op.version = n + 1
          BY <4>1 DEF n
        <5>3. NextSnapshot = [root |-> op.root, version |-> n + 1, parent |-> <<op.root, n>>]
          BY <5>1 DEF NextSnapshot, ChainedSnapshot
        <5>4. QED BY <4>2, <4>5, <5>2, <5>3 DEF ChainedSnapshot
      <4>6. QED BY <4>4, <4>5
    <3>3. Follows => HistoryInv' /\ CandidateInv' /\ PointerInv'
      BY <1>0, <1>1, <3>1, <3>2
         DEF Recoverable, Follows, RestoringInv, HistoryInv, CandidateInv, PointerInv,
             CandidateIsStored,
             PublishedVersion, PublishedHistory, HistoryOf, ChainedSnapshot
    <3>4. QED BY <1>0, <1>1, <3>1, <3>3
        DEF Recoverable, Follows, RestoringInv, StorageIsChained, StoredVersions,
            ChainedSnapshot, PublishedVersion
  <2>3. QED BY <2>1, <2>2
<1>3. CASE SupersedeSnapshot \/ RollBackFailure \/ DiscardCandidate
  <2>1. phase \in {"snapshot", "persisting"} /\ snapshots' = op.history
    BY <1>3 DEF SupersedeSnapshot, RollBackFailure, DiscardCandidate, RestoreHistory
  <2>2. Follows => snapshots' = PublishedHistory'
    BY <1>0, <1>1, <2>1
       DEF Recoverable, Follows, RestoringInv, HistoryInv, PublishedHistory, HistoryOf,
           ChainedSnapshot
  <2>3. \/ phase' = "settling" /\ ~CandidateIsStored
        \/ phase' = "discarding" /\ op' = op /\ CandidateIsStored
    BY <1>3 DEF SupersedeSnapshot, RollBackFailure, DiscardCandidate, Return, CandidateIsStored
  <2>4. Follows => HistoryInv' /\ CandidateInv' /\ PointerInv'
    BY <1>0, <1>1, <2>1, <2>2, <2>3
       DEF Recoverable, Follows, RestoringInv, HistoryInv, CandidateInv, PointerInv,
           CandidateIsStored, PublishedVersion
  <2>5. QED BY <1>0, <1>1, <2>3, <2>4
      DEF Recoverable, Follows, RestoringInv, StorageIsChained, StoredVersions, ChainedSnapshot,
          PublishedVersion
<1>4. QED BY <1>2, <1>3

\* The candidate is written, or is not.
LEMMA RecoverablePersisting ==
    ASSUME RecoveryInv, TypeInv', Persist \/ PersistFails
    PROVE  Recoverable'
<1> USE DEF serviceVars, publishedVars, storageVars
<1>0. op \in Operation /\ SafeInv /\ Recoverable /\ TypeInv
  BY DEF RecoveryInv, SafeInv, TypeInv, TypeOK
<1>1. /\ phase = "snapshot" /\ phase' = "persisting" /\ ~disposed /\ op.root \in Roots
      /\ UNCHANGED <<current, persistedLatestRecord, disposed, snapshots, storageOpen>>
  BY <1>0 DEF Persist, PersistFails, Outdated, TypeInv, TypeOK, AssignedLocals
<1>2. /\ op.previous = PublishedVersion /\ op.version = PublishedVersion + 1
      /\ current # None => current.root = op.root
      /\ snapshots = Append(op.history, ChainedSnapshot(op.root, op.version))
      /\ op.history = PublishedHistory
      /\ persistedLatestRecord = PublishedVersion /\ PublishedVersion \in Nat
  BY <1>0, <1>1, PublishedHistoryOf
     DEF Recoverable, Follows, RestoringInv, HistoryInv, CandidateInv
<1>4. /\ op'.root = op.root /\ op'.history = op.history /\ op'.version = op.version
      /\ op'.previous = op.previous /\ op'.latestRecord = persistedLatestRecord
  BY <1>0 DEF Persist, PersistFails, Operation
<1>5. /\ PublishedVersion' = PublishedVersion /\ PublishedHistory' = PublishedHistory
      /\ HistoryInv'
  BY <1>1, <1>2, <1>4
     DEF PublishedVersion, PublishedHistory, HistoryOf, ChainedSnapshot, HistoryInv
<1>6. CASE Persist
  <2> DEFINE record == [dna |-> CandidateDNA, previousVersion |-> op.previous,
                        snapshot |-> snapshots[Len(snapshots)]]
  <2>1. /\ latest[op.root] = PublishedVersion
        /\ versions' = versions \cup {record}
        /\ latest' = [latest EXCEPT ![op.root] = op.version]
    BY <1>2, <1>6 DEF Persist, PersistPreconditions
  <2>2. snapshots[Len(snapshots)] = ChainedSnapshot(op.root, op.version)
    <3>1. op.history = HistoryOf(op.root, PublishedVersion)
      BY <1>0, <1>2, PublishedHistoryOf
    <3>2. snapshots = HistoryOf(op.root, op.version)
      BY <1>2, <3>1, Histories
    <3>3. op.version \in Nat /\ op.version \in 1 .. op.version
      BY <1>2
    <3>4. /\ Len(HistoryOf(op.root, op.version)) = op.version
          /\ HistoryOf(op.root, op.version)[op.version] = ChainedSnapshot(op.root, op.version)
      BY <3>3, Histories
    <3>5. QED BY <3>2, <3>4
  <2>3. /\ record.dna.root = op.root /\ record.dna.version = op.version
        /\ record.previousVersion = op.version - 1
        /\ record.snapshot = ChainedSnapshot(op.root, op.version)
    BY <1>2, <2>2 DEF CandidateDNA
  <2> HIDE DEF record
  <2>4. \A r \in Roots : StoredVersions(r)' = 1 .. latest'[r]
    <3> SUFFICES ASSUME NEW r \in Roots PROVE StoredVersions(r)' = 1 .. latest'[r]
      OBVIOUS
    <3>1. StoredVersions(r) = 1 .. latest[r] /\ latest \in [Roots -> Nat]
      BY <1>0 DEF Recoverable, Follows, RestoringInv, StorageIsChained, TypeInv, TypeOK
    <3>2. CASE r # op.root
      <4>1. StoredVersions(r)' = StoredVersions(r)
        BY <2>1, <2>3, <3>2 DEF StoredVersions
      <4>2. QED BY <2>1, <3>1, <3>2, <4>1
    <3>3. CASE r = op.root
      <4>1. StoredVersions(r)' = StoredVersions(r) \cup {op.version}
        BY <2>1, <2>3, <3>3 DEF StoredVersions
      <4>2. latest'[r] = op.version /\ latest[r] = PublishedVersion
        BY <1>1, <2>1, <3>1, <3>3
      <4>3. QED BY <1>2, <3>1, <4>1, <4>2
    <3>4. QED BY <3>2, <3>3
  <2>5. StorageIsChained'
    BY <1>0, <2>1, <2>3, <2>4
       DEF Recoverable, Follows, RestoringInv, StorageIsChained, ChainedSnapshot
  <2>6. op'.persisted = TRUE /\ latest'[op.root] = op.version
    BY <1>0, <1>1, <1>6, <2>1 DEF Persist, Operation, TypeInv, TypeOK
  <2>7. CandidateInv' /\ PointerInv'
    BY <1>1, <1>2, <1>4, <1>5, <2>6 DEF CandidateInv, PointerInv, CandidateIsStored
  <2>8. QED BY <1>0, <1>1, <1>5, <2>5, <2>7 DEF Recoverable, Follows, RestoringInv
<1>7. CASE PersistFails
  <2>1. op'.persisted = FALSE /\ UNCHANGED <<versions, latest>>
    BY <1>0, <1>7 DEF PersistFails, Operation
  <2>2. CandidateInv' /\ PointerInv'
    BY <1>0, <1>1, <1>2, <1>4, <1>5, <2>1
       DEF Recoverable, Follows, RestoringInv, CandidateInv, PointerInv, CandidateIsStored
  <2>3. QED BY <1>0, <1>1, <1>5, <2>1, <2>2
      DEF Recoverable, Follows, RestoringInv, StorageIsChained, StoredVersions, ChainedSnapshot
<1>8. QED BY <1>6, <1>7

\* The stored candidate is removed, or stays; or it is published.
LEMMA RecoverableSettling ==
    ASSUME RecoveryInv, TypeInv', RemoveCandidate \/ RemoveCandidateFails \/ Publish
    PROVE  Recoverable'
<1> USE DEF serviceVars, publishedVars, storageVars
<1>0. op \in Operation /\ SafeInv /\ Recoverable /\ TypeInv
  BY DEF RecoveryInv, SafeInv, TypeInv, TypeOK
<1>1. /\ op.root \in Roots /\ CandidateIsStored /\ phase' = "settling"
      /\ UNCHANGED <<disposed, storageOpen>>
  BY <1>0 DEF RemoveCandidate, RemoveCandidateFails, Publish, TypeInv, TypeOK, AssignedLocals,
              CandidateIsStored, Return
<1>2. Follows => /\ latest[op.root] = op.version /\ op.latestRecord = op.version - 1
                 /\ op.version = PublishedVersion + 1 /\ PublishedVersion \in Nat
                 /\ current # None => current.root = op.root
  BY <1>0, <1>1, PublishedHistoryOf DEF Recoverable, Follows, CandidateInv, CandidateIsStored
<1>3. CASE RemoveCandidate
  <2>1. ~disposed /\ Follows
    BY <1>0, <1>3 DEF RemoveCandidate, Recoverable, Follows
  <2>2. /\ phase = "discarding"
        /\ versions' = {record \in versions :
                          ~(record.dna.root = op.root /\ record.dna.version = op.version)}
        /\ latest' = [latest EXCEPT ![op.root] = op.version - 1]
        /\ UNCHANGED <<current, persistedLatestRecord, snapshots>>
    BY <1>2, <1>3, <2>1 DEF RemoveCandidate
  <2>3. \A r \in Roots : StoredVersions(r)' = 1 .. latest'[r]
    <3> SUFFICES ASSUME NEW r \in Roots PROVE StoredVersions(r)' = 1 .. latest'[r]
      OBVIOUS
    <3>1. StoredVersions(r) = 1 .. latest[r] /\ latest \in [Roots -> Nat]
      BY <1>0 DEF Recoverable, Follows, RestoringInv, StorageIsChained, TypeInv, TypeOK
    <3>2. CASE r # op.root
      <4>1. StoredVersions(r)' = StoredVersions(r)
        BY <2>2, <3>2 DEF StoredVersions
      <4>2. QED BY <2>2, <3>1, <3>2, <4>1
    <3>3. CASE r = op.root
      <4>1. StoredVersions(r)' = StoredVersions(r) \ {op.version}
        BY <2>2, <3>3 DEF StoredVersions
      <4>2. latest'[r] = op.version - 1 /\ latest[r] = op.version
        BY <1>1, <1>2, <2>1, <2>2, <3>1, <3>3
      <4>3. QED BY <1>2, <2>1, <3>1, <4>1, <4>2
    <3>4. QED BY <3>2, <3>3
  <2>4. StorageIsChained'
    BY <1>0, <2>2, <2>3 DEF Recoverable, Follows, RestoringInv, StorageIsChained, ChainedSnapshot
  <2>5. latest'[op.root] = PublishedVersion /\ snapshots = PublishedHistory
    BY <1>0, <1>1, <1>2, <2>1, <2>2 DEF TypeInv, TypeOK, Recoverable, HistoryInv, Follows
  <2>6. HistoryInv' /\ CandidateInv' /\ PointerInv'
    BY <1>1, <1>2, <2>1, <2>2, <2>5
       DEF HistoryInv, CandidateInv, PointerInv, CandidateIsStored, PublishedVersion,
           PublishedHistory, HistoryOf, ChainedSnapshot
  <2>7. QED BY <1>0, <1>1, <2>2, <2>4, <2>6
      DEF Recoverable, Follows, RestoringInv, PublishedVersion
<1>4. CASE RemoveCandidateFails
  <2>1. /\ phase = "discarding"
        /\ UNCHANGED <<versions, latest, current, persistedLatestRecord, snapshots>>
    BY <1>4 DEF RemoveCandidateFails
  <2>2. Follows => ~disposed /\ "storage" \in Failures /\ snapshots = PublishedHistory
    BY <1>0, <1>1, <1>2, <1>4, <2>1
       DEF RemoveCandidateFails, Recoverable, Follows, HistoryInv, CandidateInv
  <2>3. Follows => HistoryInv' /\ CandidateInv' /\ PointerInv'
    BY <1>1, <1>2, <2>1, <2>2
       DEF HistoryInv, CandidateInv, PointerInv, CandidateIsStored, PublishedVersion,
           PublishedHistory, HistoryOf, ChainedSnapshot
  <2>4. QED BY <1>0, <1>1, <2>1, <2>3
      DEF Recoverable, Follows, RestoringInv, StorageIsChained, StoredVersions, ChainedSnapshot,
          PublishedVersion
<1>5. CASE Publish
  <2>1. /\ ~disposed /\ Follows /\ phase = "persisting"
        /\ UNCHANGED <<versions, latest, snapshots>>
        /\ current' = CandidateDNA /\ persistedLatestRecord' = op.version
    BY <1>5 DEF Publish, Outdated, Follows
  <2>2. /\ current' # None /\ current'.root = op.root /\ current'.version = op.version
        /\ PublishedVersion' = op.version
    <3>1. op.version \in Version /\ op.content \in Observation
      BY <1>0, <2>1 DEF TypeInv, TypeOK, AssignedLocals
    <3>2. CandidateDNA \in DNA
      BY <1>1, <3>1 DEF CandidateDNA, DNA
    <3>3. QED BY <2>1, <3>2, NullAssumption DEF CandidateDNA, PublishedVersion
  <2>3. snapshots = HistoryOf(op.root, op.version)
    <3>1. /\ op.history = PublishedHistory
          /\ snapshots = Append(op.history, ChainedSnapshot(op.root, op.version))
      BY <1>0, <2>1 DEF Recoverable, Follows, RestoringInv, HistoryInv
    <3>2. op.history = HistoryOf(op.root, PublishedVersion)
      BY <1>0, <1>2, <2>1, <3>1, PublishedHistoryOf
    <3>3. QED BY <1>2, <2>1, <3>1, <3>2, Histories
  <2>4. PublishedHistory' = HistoryOf(op.root, op.version)
    BY <2>2 DEF PublishedHistory, HistoryOf, ChainedSnapshot
  <2>5. HistoryInv' /\ CandidateInv' /\ PointerInv'
    BY <1>1, <1>2, <2>1, <2>2, <2>3, <2>4
       DEF HistoryInv, CandidateInv, PointerInv, CandidateIsStored
  <2>6. QED BY <1>0, <1>1, <2>1, <2>2, <2>5
      DEF Recoverable, Follows, RestoringInv, StorageIsChained, StoredVersions, ChainedSnapshot
<1>6. QED BY <1>3, <1>4, <1>5

\* Disposal and restart.
LEMMA RecoverableRestarting ==
    ASSUME RecoveryInv, TypeInv',
           Dispose \/ \E r \in Roots : RestartExtension(r) \/ RestartUnrestored(r)
    PROVE  Recoverable'
<1>0. SafeInv /\ Recoverable /\ TypeInv /\ StorageIsChained
  BY DEF RecoveryInv, Recoverable, Follows, RestoringInv, SafeInv
<1>1. CASE Dispose
  <2>1. /\ disposed' /\ ~storageOpen' /\ UNCHANGED <<versions, latest>>
        /\ persistedLatestRecord' = 0 /\ current' = None
    BY <1>1 DEF Dispose, ClearCurrent
  <2>2. ~Follows' /\ storageOpen' = ~disposed' /\ PublishedVersion' = 0
    BY <2>1 DEF Follows, PublishedVersion, TypeInv, TypeOK
  <2>3. UNCHANGED <<phase, op, snapshots>>
    BY <1>1 DEF Dispose
  <2>4. QED BY <1>0, <2>1, <2>2, <2>3
      DEF Recoverable, RestoringInv, StorageIsChained, StoredVersions, HistoryOf, ChainedSnapshot
<1>2. ASSUME NEW r \in Roots, RestartExtension(r) \/ RestartUnrestored(r)
      PROVE  Recoverable'
  <2>1. UNCHANGED <<versions, latest>>
    BY <1>0, <1>2, RepairsNothing DEF RestartExtension, RestartUnrestored
  <2>2. disposed' = FALSE /\ storageOpen' = TRUE /\ phase' = "idle"
    BY <1>2 DEF RestartExtension, RestartUnrestored, NewProcess
  <2>3. RecoveredVersion(r) = latest[r] /\ latest[r] \in Nat
    BY <1>0, RecoveredIsLatest DEF TypeInv, TypeOK
  <2>4. CASE RestartUnrestored(r) \/ latest[r] = 0
    <3>1. current' = None /\ persistedLatestRecord' = 0 /\ snapshots' = <<>>
      <4>1. latest[r] = 0 => RecoveredHistory(r) = <<>>
        BY <2>3, Histories DEF RecoveredHistory, HistoryOf
      <4>2. QED BY <1>2, <2>3, <2>4, <4>1 DEF RestartExtension, RestartUnrestored
    <3>2. QED BY <1>0, <2>1, <2>2, <3>1
        DEF Recoverable, Follows, RestoringInv, StorageIsChained, StoredVersions,
            ChainedSnapshot, PublishedVersion,
            PublishedHistory, HistoryInv, CandidateInv, PointerInv, CandidateIsStored
  <2>5. CASE RestartExtension(r) /\ latest[r] # 0
    <3>1. /\ current' = RecoveredDNA(r, latest[r]) /\ persistedLatestRecord' = latest[r]
          /\ snapshots' = HistoryOf(r, latest[r])
      BY <2>3, <2>5 DEF RestartExtension, RecoveredHistory, HistoryOf
    <3>2. current' # None /\ current'.root = r /\ current'.version = latest[r]
      BY <1>0, <2>5, <3>1, RestoresLatest, NullAssumption
    <3>3. PublishedVersion' = latest[r] /\ PublishedHistory' = HistoryOf(r, latest[r])
      BY <3>2 DEF PublishedVersion, PublishedHistory, HistoryOf, ChainedSnapshot
    <3>4. HistoryInv' /\ CandidateInv' /\ PointerInv'
      BY <2>1, <2>2, <3>1, <3>2, <3>3 DEF HistoryInv, CandidateInv, PointerInv, CandidateIsStored
    <3>5. QED BY <1>0, <2>1, <2>2, <3>1, <3>3, <3>4
        DEF Recoverable, Follows, RestoringInv, StorageIsChained, StoredVersions, ChainedSnapshot
  <2>6. QED BY <1>2, <2>4, <2>5
<1>3. QED BY <1>1, <1>2

\* Requests and notifications; of the latter, those that do not change workspace.
LEMMA RecoverableRequesting ==
    ASSUME RecoveryInv, TypeInv', ~ChangesWorkspace,
           \/ \E r \in Roots, signal \in {"none", "live"} : Analyze(r, signal)
           \/ Refresh \/ AutomaticRefresh \/ Abort \/ Notification
           \/ \E c \in ImpactCallers : GetImpact(c) \/ AnswerImpact(c)
           \/ \E r \in Roots, p \in Paths, c \in Contents : EditFile(r, p, c)
           \/ UNCHANGED vars
    PROVE  Recoverable'
<1> USE DEF publishedVars, storageVars, recoveryVars
<1>1. CASE \/ \E r \in Roots, signal \in {"none", "live"} : Analyze(r, signal)
           \/ Refresh \/ AutomaticRefresh
  <2>1. \/ UNCHANGED <<recoveryVars, phase, op>>
        \/ phase = "idle" /\ phase' = "starting" /\ UNCHANGED recoveryVars
    BY <1>1 DEF Analyze, Refresh, AutomaticRefresh, StartAnalysis, Idle
  <2>2. QED BY <2>1, RecoverableBefore, RecoverableUnchanged
<1>2. CASE \/ Abort
           \/ \E c \in ImpactCallers : GetImpact(c) \/ AnswerImpact(c)
           \/ \E r \in Roots, p \in Paths, c \in Contents : EditFile(r, p, c)
           \/ UNCHANGED vars
  <2>1. UNCHANGED <<recoveryVars, phase>> /\ (op' = op \/ Abort)
    BY <1>2 DEF Abort, GetImpact, AnswerImpact, EditFile, vars, serviceVars
  <2>2. QED BY <2>1, RecoverableUnchanged
<1>3. CASE Notification
  <2>1. ASSUME NEW r \in Roots, NEW epoch, NEW sequence, NEW changes,
               \/ EmptyNotification(r, epoch, sequence)
               \/ RepositoryFilesChanged(r, epoch, sequence, changes)
        PROVE  UNCHANGED <<recoveryVars, phase, op>>
    BY <2>1 DEF EmptyNotification, RepositoryFilesChanged
  <2>2. ASSUME NEW r \in Roots, NEW epoch \in 1 .. MaxEpoch, NEW reason,
               RepositoryWatcherInvalidated(r, epoch, reason)
        PROVE  UNCHANGED <<recoveryVars, phase, op>>
    <3>1. reason # "workspace-change" \/ rootPath = r \/ rootPath = None
      BY <2>2 DEF ChangesWorkspace
    <3>2. QED BY <2>2, <3>1 DEF RepositoryWatcherInvalidated
  <2>3. UNCHANGED <<recoveryVars, phase, op>>
    BY <1>3, <2>1, <2>2, Zenon DEF Notification
  <2>4. QED BY <2>3, RecoverableUnchanged
<1>4. QED BY <1>1, <1>2, <1>3


\* Every step that does not change the workspace keeps RecoveryInv.
LEMMA RecoveryNext ==
    RecoveryInv /\ [Next]_vars /\ [~ChangesWorkspace]_vars => RecoveryInv'
<1> SUFFICES ASSUME RecoveryInv, [Next]_vars, [~ChangesWorkspace]_vars PROVE RecoveryInv'
  OBVIOUS
<1>1. SafeInv' /\ TypeInv'
  BY SafeNext DEF RecoveryInv, SafeInv
<1>2. CASE UNCHANGED vars
  <2>1. UNCHANGED <<recoveryVars, phase, op>>
    BY <1>2 DEF vars, publishedVars, storageVars, recoveryVars
  <2>2. QED BY <1>1, <2>1, RecoverableUnchanged DEF RecoveryInv
<1>3. CASE RunAnalysis
  BY <1>1, <1>3, RecoverableAnalysing, RecoverableRestoring, RecoverableSnapshot,
     RecoverablePersisting, RecoverableSettling DEF RunAnalysis, RecoveryInv
<1>4. CASE Dispose \/ \E r \in Roots : RestartExtension(r) \/ RestartUnrestored(r)
  BY <1>1, <1>4, RecoverableRestarting DEF RecoveryInv
<1>5. CASE /\ ~ChangesWorkspace
           /\ \/ \E r \in Roots, signal \in {"none", "live"} : Analyze(r, signal)
              \/ Refresh \/ AutomaticRefresh \/ Abort \/ Notification
              \/ \E c \in ImpactCallers : GetImpact(c) \/ AnswerImpact(c)
              \/ \E r \in Roots, p \in Paths, c \in Contents : EditFile(r, p, c)
  BY <1>1, <1>5, RecoverableRequesting DEF RecoveryInv
<1>6. QED BY <1>2, <1>3, <1>4, <1>5 DEF Next, Request

\* Nothing is published or stored before the first activation.
LEMMA RecoveryInit ==
    Init => RecoveryInv
<1> SUFFICES ASSUME Init PROVE RecoveryInv
  OBVIOUS
<1>1. /\ current = None /\ snapshots = <<>> /\ phase = "idle" /\ disposed = FALSE
      /\ storageOpen = TRUE /\ versions = {} /\ latest = [r \in Roots |-> 0]
      /\ persistedLatestRecord = 0
  BY DEF Init, Activated
<1>2. StorageIsChained
  BY <1>1 DEF StorageIsChained, StoredVersions
<1>3. RestoringInv /\ HistoryInv /\ CandidateInv /\ PointerInv
  BY <1>1
     DEF RestoringInv, HistoryInv, CandidateInv, PointerInv, CandidateIsStored, PublishedHistory
<1>4. QED BY <1>1, <1>2, <1>3, SafeInit DEF RecoveryInv, Recoverable, PublishedVersion

\* The service is never moved from a repository it follows to another one.
StaysInWorkspace == [][~ChangesWorkspace]_vars

LEMMA RecoveryInvariance ==
    Spec /\ StaysInWorkspace => []RecoveryInv
BY RecoveryInit, RecoveryNext, PTL DEF Spec, StaysInWorkspace

\* On one repository nothing can move it.
LEMMA OneRepositoryStays ==
    ASSUME \A r, s \in Roots : r = s
    PROVE  Spec => StaysInWorkspace
<1>1. TypeOK => ~ChangesWorkspace
  BY DEF TypeOK, ChangesWorkspace
<1>2. QED BY <1>1, TypeCorrect, PTL DEF StaysInWorkspace

\* A crash at any await of any operation, even one that is half rolled back, loses
\* nothing that was published: recovery brings it back, or a newer version.
THEOREM PublishedSurvivesACrash ==
    Spec /\ StaysInWorkspace => []PublishedIsRecoverable
<1>1. RecoveryInv => PublishedIsRecoverable
  <2> SUFFICES ASSUME RecoveryInv, current # None
               PROVE  RecoveredVersion(current.root) >= current.version
    BY DEF PublishedIsRecoverable
  <2>1. TypeInv /\ StorageIsChained /\ CurrentIsStored /\ current \in DNA
    BY DEF RecoveryInv, Recoverable, SafeInv, Safe, TypeInv, TypeOK
  <2>2. current.root \in Roots /\ current.version \in Version
    BY <2>1 DEF DNA
  <2>3. current.version \in StoredVersions(current.root)
    BY <2>1 DEF CurrentIsStored, StoredVersions
  <2>4. current.version \in 1 .. latest[current.root] /\ latest[current.root] \in Nat
    BY <2>1, <2>2, <2>3 DEF StorageIsChained, TypeInv, TypeOK
  <2>5. QED BY <2>1, <2>2, <2>4, RecoveredIsLatest DEF Version
<1>2. QED BY <1>1, RecoveryInvariance, PTL

\* Between operations the history of the evolution engine is that of the published
\* analysis: every operation that did not publish took its snapshot back.
THEOREM HistoryIsRolledBack ==
    Spec /\ StaysInWorkspace => []HistoryEndsAtCurrent
<1>1. RecoveryInv => HistoryEndsAtCurrent
  <2> SUFFICES ASSUME RecoveryInv, Idle, ~disposed, current # None
               PROVE  /\ Len(snapshots) = current.version
                      /\ \A i \in 1 .. Len(snapshots) :
                             snapshots[i] = ChainedSnapshot(current.root, i)
    BY DEF HistoryEndsAtCurrent
  <2>1. snapshots = HistoryOf(current.root, current.version)
    BY DEF RecoveryInv, Recoverable, Follows, HistoryInv, Idle, PublishedHistory
  <2>2. current.version \in Nat
    BY DEF RecoveryInv, SafeInv, TypeInv, TypeOK, DNA, Version
  <2>3. QED BY <2>1, <2>2, Histories
<1>2. QED BY <1>1, RecoveryInvariance, PTL

\* Between operations the newest stored version and the pointer are the published
\* version, but for a candidate the storage failed to remove.
THEOREM StorageIsRolledBack ==
    Spec /\ StaysInWorkspace => []StorageMatchesCurrent
<1>1. RecoveryInv => StorageMatchesCurrent
  <2> DEFINE stored == StoredVersions(current.root)
  <2> SUFFICES ASSUME RecoveryInv, Idle, ~disposed, current # None
               PROVE  /\ latest[current.root] = Max(stored)
                      /\ \/ Max(stored) = current.version
                         \/ "storage" \in Failures /\ Max(stored) = current.version + 1
    BY DEF StorageMatchesCurrent, StoredVersions
  <2>1. /\ TypeInv /\ StorageIsChained /\ CurrentIsStored /\ current \in DNA
        /\ PointerInv /\ ~CandidateIsStored
    BY DEF RecoveryInv, Recoverable, Follows, SafeInv, Safe, TypeInv, TypeOK, CandidateIsStored,
           Idle
  <2>2. current.root \in Roots
    BY <2>1 DEF DNA
  <2>3. latest[current.root] \in Nat /\ stored = 1 .. latest[current.root]
    BY <2>1, <2>2 DEF StorageIsChained, TypeInv, TypeOK
  <2>4. current.version \in stored
    BY <2>1 DEF CurrentIsStored, StoredVersions
  <2> HIDE DEF stored
  <2>5. stored \subseteq Nat /\ stored # {} /\ \A s \in stored : s <= latest[current.root]
    BY <2>3, <2>4
  <2>6. Max(stored) \in stored /\ \A s \in stored : s <= Max(stored)
    BY <2>3, <2>5, MaxOfBounded
  <2>7. Max(stored) = latest[current.root]
    <3>1. latest[current.root] \in stored
      BY <2>3, <2>4
    <3>2. QED BY <2>3, <2>5, <2>6, <3>1
  <2>8. QED BY <2>1, <2>7 DEF PointerInv
<1>2. QED BY <1>1, RecoveryInvariance, PTL

-----------------------------------------------------------------------------
(* What a query that nothing superseded may rely on                        *)

\* A waiting query was asked of an analysis.
QueriesHaveAnalysis ==
    \A c \in ImpactCallers : impact[c].status = "waiting" => impact[c].dna # None

\* The repository Git was asked about last, and the versions that were read from
\* the history, are those of the published analysis.
ReadsPublished ==
    \A c \in ImpactCallers :
        Comparing(c, "final") /\ ~impact[c].stale =>
            /\ comparison[c].root = current.root
            /\ {comparison[c].before, comparison[c].after} \ {0} \subseteq 1 .. current.version

ComparisonInv ==
    /\ RecoveryInv
    /\ FreshQueries
    /\ ComparisonTypeOK
    /\ QueriesHaveAnalysis
    /\ ReadsPublished

\* A query that waits before and after a step of the service, and is not stale
\* after it, is the same query and was not stale before.
LEMMA UnsupersededQuery ==
    ASSUME TypeInv, [Next]_vars, NEW c \in ImpactCallers,
           impact[c].status = "waiting", impact'[c].status = "waiting", ~impact'[c].stale
    PROVE  impact'[c] = impact[c]
<1>1. impact \in [ImpactCallers -> Query]
  BY DEF TypeInv, TypeOK
<1>2. CASE SupersedeImpacts
  <2>1. impact'[c] = [impact[c] EXCEPT !.stale = impact[c].status = "waiting"]
    BY <1>2 DEF SupersedeImpacts
  <2>2. impact'[c].stale = (impact[c].status = "waiting")
    BY <1>1, <2>1 DEF Query
  <2>3. QED BY <2>2
<1>3. CASE \E d \in ImpactCallers : GetImpact(d) \/ AnswerImpact(d)
  <2>1. PICK d \in ImpactCallers : GetImpact(d) \/ AnswerImpact(d)
    BY <1>3
  <2>2. d # c
    BY <1>1, <2>1 DEF GetImpact, AnswerImpact, NoQuery
  <2>3. QED BY <1>1, <2>1, <2>2 DEF GetImpact, AnswerImpact
<1>4. QED BY <1>2, <1>3, ImpactSteps DEF NoQuery

\* Every waiting query of a service step was asked of an analysis.
LEMMA QueriesHaveAnalysisNext ==
    ASSUME TypeInv, QueriesHaveAnalysis, [Next]_vars
    PROVE  QueriesHaveAnalysis'
<1>1. impact \in [ImpactCallers -> Query]
  BY DEF TypeInv, TypeOK
<1>2. CASE SupersedeImpacts
  <2> SUFFICES ASSUME NEW c \in ImpactCallers, impact'[c].status = "waiting"
               PROVE  impact'[c].dna # None
    BY DEF QueriesHaveAnalysis
  <2>1. impact'[c] = [impact[c] EXCEPT !.stale = impact[c].status = "waiting"]
    BY <1>2 DEF SupersedeImpacts
  <2>2. impact'[c].status = impact[c].status /\ impact'[c].dna = impact[c].dna
    BY <1>1, <2>1 DEF Query
  <2>3. QED BY <2>2 DEF QueriesHaveAnalysis
<1>3. ASSUME NEW d \in ImpactCallers, GetImpact(d) \/ AnswerImpact(d)
      PROVE  QueriesHaveAnalysis'
  BY <1>1, <1>3 DEF GetImpact, AnswerImpact, NoQuery, QueriesHaveAnalysis
<1>4. QED BY <1>2, <1>3, ImpactSteps DEF NoQuery, QueriesHaveAnalysis

\* A service step keeps what is published as long as a query is not superseded.
LEMMA ComparisonService ==
    ASSUME ComparisonInv, ServiceGoesOn, [~ChangesWorkspace]_vars
    PROVE  ComparisonInv'
<1>1. TypeInv /\ Next /\ RecoveryInv /\ ImpactInv /\ QueriesHaveAnalysis /\ ComparisonTypeOK
  BY DEF ComparisonInv, ServiceGoesOn, RecoveryInv, SafeInv, ImpactInv
<1>2. RecoveryInv' /\ FreshQueries' /\ QueriesHaveAnalysis'
  BY <1>1, RecoveryNext, FreshQueriesNext, QueriesHaveAnalysisNext DEF ImpactInv
<1>3. \A c \in ImpactCallers :
         comparison'[c] = IF impact'[c].status = "waiting" THEN comparison[c] ELSE NoComparison
  BY DEF ServiceGoesOn
<1>4. ComparisonTypeOK'
  <2>1. NoComparison \in Comparison
    BY DEF NoComparison, Comparison
  <2>2. comparison' \in [ImpactCallers -> Comparison]
    BY <1>1, <2>1 DEF ServiceGoesOn, ComparisonTypeOK
  <2>3. TypeOK'
    BY <1>2 DEF RecoveryInv, SafeInv, TypeInv
  <2>4. QED BY <1>3, <2>2, <2>3 DEF ComparisonTypeOK, NoComparison
<1>5. ReadsPublished'
  <2> SUFFICES ASSUME NEW c \in ImpactCallers, Comparing(c, "final")', ~impact'[c].stale
               PROVE  /\ comparison'[c].root = current'.root
                      /\ {comparison'[c].before, comparison'[c].after} \ {0}
                             \subseteq 1 .. current'.version
    BY DEF ReadsPublished
  <2>1. impact'[c].status = "waiting" /\ comparison'[c] = comparison[c]
    BY <1>3 DEF Comparing, NoComparison
  <2>2. Comparing(c, "final") /\ impact[c].status = "waiting"
    BY <1>1, <2>1 DEF Comparing, ComparisonTypeOK
  <2>3. impact'[c] = impact[c]
    BY <1>1, <2>1, <2>2, UnsupersededQuery
  <2>4. current' = current
    BY <1>1, <1>2, <2>1, <2>2, <2>3 DEF ImpactInv, FreshQueries
  <2>5. QED BY <2>1, <2>2, <2>3, <2>4 DEF ComparisonInv, ReadsPublished
<1>6. QED BY <1>2, <1>4, <1>5 DEF ComparisonInv

\* A step of a query leaves the service alone.
LEMMA QueryLeavesService ==
    ASSUME RecoveryInv, LeaveService, impact' \in [ImpactCallers -> Query]
    PROVE  RecoveryInv'
<1> USE DEF LeaveService, watchVars, publishedVars, storageVars
<1>1. TypeInv'
  <2>1. TypeInv
    BY DEF RecoveryInv, SafeInv
  <2>2. TypeOK'
    BY <2>1 DEF TypeInv, TypeOK, AssignedLocals
  <2>3. VersionsBounded' /\ RestoredIsStored'
    BY <2>1 DEF TypeInv, VersionsBounded, RestoredIsStored
  <2>4. QED BY <2>2, <2>3 DEF TypeInv
<1>2. Safe'
  <2>1. UNCHANGED <<safetyVars, phase, op>>
    BY DEF safetyVars
  <2>2. QED BY <2>1, SafeUnchanged DEF RecoveryInv
<1>3. Recoverable'
  <2>1. UNCHANGED <<recoveryVars, phase, op>>
    BY DEF recoveryVars
  <2>2. QED BY <2>1, RecoverableUnchanged
<1>4. QED BY <1>1, <1>2, <1>3 DEF RecoveryInv, SafeInv

\* A query that has ended is neither fresh nor waiting.
LEMMA QueryEnds ==
    ASSUME ComparisonInv, LeaveService, NEW c \in ImpactCallers,
           NEW status \in {"answered", "rejected"},
           impact' = [impact EXCEPT ![c] = [NoQuery EXCEPT !.status = status]],
           comparison' = [comparison EXCEPT ![c] = NoComparison]
    PROVE  ComparisonInv'
<1>1. /\ impact \in [ImpactCallers -> Query] /\ comparison \in [ImpactCallers -> Comparison]
      /\ RecoveryInv
  BY DEF ComparisonInv, RecoveryInv, SafeInv, TypeInv, TypeOK, ComparisonTypeOK
<1>2. /\ [NoQuery EXCEPT !.status = status] \in Query
      /\ [NoQuery EXCEPT !.status = status].status = status
      /\ NoComparison \in Comparison
  BY DEF NoQuery, Query, NoComparison, Comparison
<1>3. /\ impact' \in [ImpactCallers -> Query] /\ comparison' \in [ImpactCallers -> Comparison]
      /\ impact'[c].status = status /\ comparison'[c] = NoComparison
      /\ \A d \in ImpactCallers \ {c} : impact'[d] = impact[d] /\ comparison'[d] = comparison[d]
  BY <1>1, <1>2
<1>4. RecoveryInv'
  BY <1>1, <1>3, QueryLeavesService
<1>5. TypeOK' /\ UNCHANGED <<current, phase>>
  BY <1>4 DEF RecoveryInv, SafeInv, TypeInv, LeaveService, publishedVars
<1>6. FreshQueries' /\ QueriesHaveAnalysis' /\ ReadsPublished' /\ ComparisonTypeOK'
  BY <1>3, <1>5
     DEF ComparisonInv, FreshQueries, Idle, QueriesHaveAnalysis, ReadsPublished, Comparing,
         ComparisonTypeOK, NoComparison
<1>7. QED BY <1>4, <1>6 DEF ComparisonInv

\* A fresh query waits on an idle service that publishes what it was asked of.
LEMMA FreshQuery ==
    ASSUME ComparisonInv, NEW c \in ImpactCallers, impact[c].status = "waiting",
           ~impact[c].stale
    PROVE  /\ Idle /\ impact[c].dna = current /\ current \in DNA
           /\ rootPath = current.root
           /\ snapshots = HistoryOf(current.root, current.version)
           /\ \A v \in 1 .. current.version : IntactVersion(current.root, v)
<1>1. Idle /\ impact[c].dna = current /\ current # None
  BY DEF ComparisonInv, FreshQueries, QueriesHaveAnalysis
<1>2. TypeInv /\ CurrentIsStored /\ StorageIsChained /\ current \in DNA
  BY <1>1 DEF ComparisonInv, RecoveryInv, Recoverable, SafeInv, Safe, TypeInv, TypeOK
<1>3. snapshots = HistoryOf(current.root, current.version)
  BY <1>1 DEF ComparisonInv, RecoveryInv, Recoverable, Follows, HistoryInv, Idle, PublishedHistory
<1>4. \A v \in 1 .. current.version : IntactVersion(current.root, v)
  <2>1. current.root \in Roots /\ current.version \in Nat
    BY <1>2 DEF DNA, Version
  <2>2. latest[current.root] \in Nat /\ StoredVersions(current.root) = 1 .. latest[current.root]
    BY <1>2, <2>1 DEF StorageIsChained, TypeInv, TypeOK
  <2>3. current.version \in StoredVersions(current.root)
    BY <1>1, <1>2 DEF CurrentIsStored, StoredVersions
  <2>4. \A v \in 1 .. current.version : v \in StoredVersions(current.root)
    BY <2>1, <2>2, <2>3
  <2>5. QED BY <1>2, <2>4 DEF StorageIsChained, StoredVersions, IntactVersion
<1>5. QED BY <1>1, <1>2, <1>3, <1>4 DEF CurrentIsStored

\* What Git is asked about.
LEMMA AskGitTypes ==
    ASSUME TypeOK, NEW c \in ImpactCallers, NEW fields \in Comparison, AskGit(c, fields),
           comparison \in [ImpactCallers -> Comparison]
    PROVE  /\ comparison' \in [ImpactCallers -> Comparison]
           /\ \A d \in ImpactCallers \ {c} : comparison'[d] = comparison[d]
           /\ comparison'[c].step = fields.step
           /\ comparison'[c].root = QueriedRoot
           /\ comparison'[c].before = fields.before
           /\ comparison'[c].after = fields.after
<1> DEFINE since == IF QueriedRoot = None THEN None ELSE disk[QueriedRoot]
<1>1. QueriedRoot \in Roots \cup {None}
  BY DEF QueriedRoot, TypeOK, DNA
<1>2. since \in Observation \cup {None}
  BY <1>1 DEF TypeOK
<1>3. comparison' = [comparison EXCEPT ![c] = [fields EXCEPT !.root = QueriedRoot, !.since = since]]
  BY DEF AskGit
<1> HIDE DEF since
<1> DEFINE asked == [fields EXCEPT !.root = QueriedRoot, !.since = since]
<1>4. /\ asked \in Comparison /\ asked.step = fields.step /\ asked.root = QueriedRoot
      /\ asked.before = fields.before /\ asked.after = fields.after
  BY <1>1, <1>2 DEF Comparison
<1>5. comparison' = [comparison EXCEPT ![c] = asked]
  BY <1>3
<1> HIDE DEF asked
<1>6. QED BY <1>4, <1>5

\* The query starts: a query of the service that then asks Git.
LEMMA ComparisonStarts ==
    ASSUME ComparisonInv, [~ChangesWorkspace]_vars,
           NEW c \in ImpactCallers, GetWorkingTreeImpact(c)
    PROVE  ComparisonInv'
<1> DEFINE fields == [NoComparison EXCEPT !.step = "initial"]
<1>1. /\ Next /\ GetImpact(c) /\ AskGit(c, fields)
      /\ TypeInv /\ RecoveryInv /\ ImpactInv /\ QueriesHaveAnalysis /\ ComparisonTypeOK
  BY DEF GetWorkingTreeImpact, Next, Request, ComparisonInv, RecoveryInv, SafeInv, ImpactInv
<1>2. RecoveryInv' /\ FreshQueries' /\ QueriesHaveAnalysis'
  BY <1>1, RecoveryNext, FreshQueriesNext, QueriesHaveAnalysisNext DEF ImpactInv
<1>3. fields \in Comparison /\ fields.step = "initial"
  BY DEF NoComparison, Comparison
<1> HIDE DEF fields
<1>4. /\ comparison' \in [ImpactCallers -> Comparison]
      /\ \A d \in ImpactCallers \ {c} : comparison'[d] = comparison[d]
      /\ comparison'[c].step = "initial"
  BY <1>1, <1>3, AskGitTypes DEF TypeInv, ComparisonTypeOK
<1>5. /\ impact'[c].status = "waiting" /\ current' = current
      /\ \A d \in ImpactCallers \ {c} : impact'[d] = impact[d]
  BY <1>1 DEF GetImpact, TypeInv, TypeOK, publishedVars
<1>6. ComparisonTypeOK'
  BY <1>1, <1>2, <1>4, <1>5 DEF ComparisonTypeOK, RecoveryInv, SafeInv, TypeInv
<1>7. ReadsPublished'
  BY <1>4, <1>5 DEF ComparisonInv, ReadsPublished, Comparing
<1>8. QED BY <1>2, <1>6, <1>7 DEF ComparisonInv

\* The first tree arrives, and the history is read.
LEMMA ComparisonReads ==
    ASSUME ComparisonInv, NEW c \in ImpactCallers, ReceiveInitial(c) \/ ReadHistory(c)
    PROVE  ComparisonInv'
<1>1. /\ RecoveryInv /\ TypeInv /\ FreshQueries /\ QueriesHaveAnalysis /\ ReadsPublished
      /\ ComparisonTypeOK /\ comparison \in [ImpactCallers -> Comparison]
      /\ impact \in [ImpactCallers -> Query]
  BY DEF ComparisonInv, RecoveryInv, SafeInv, ComparisonTypeOK, TypeInv, TypeOK
<1>2. /\ LeaveService /\ UNCHANGED impact /\ impact[c].status = "waiting"
      /\ UNCHANGED <<current, phase>>
  BY <1>1 DEF ReceiveInitial, ReadHistory, LeaveService, publishedVars, Comparing, ComparisonTypeOK
<1>3. RecoveryInv' /\ FreshQueries' /\ QueriesHaveAnalysis' /\ TypeOK'
  <2>1. RecoveryInv'
    BY <1>1, <1>2, QueryLeavesService
  <2>2. QED BY <1>1, <1>2, <2>1
      DEF FreshQueries, Idle, QueriesHaveAnalysis, RecoveryInv, SafeInv, TypeInv
<1>4. /\ comparison' \in [ImpactCallers -> Comparison]
      /\ \A d \in ImpactCallers \ {c} : comparison'[d] = comparison[d]
      /\ Comparing(c, "final")' /\ ~impact[c].stale =>
             /\ comparison'[c].root = current.root
             /\ {comparison'[c].before, comparison'[c].after} \ {0} \subseteq 1 .. current.version
  <2>1. CASE ReceiveInitial(c)
    <3>1. PICK tree \in Reported(c) :
             comparison' = [comparison EXCEPT ![c].step = "history", ![c].tree = tree]
      BY <2>1 DEF ReceiveInitial
    <3>2. tree \in Observation
      BY DEF Reported
    <3>3. comparison[c] \in Comparison
      BY <1>1
    <3>4. /\ [comparison[c] EXCEPT !.step = "history", !.tree = tree] \in Comparison
          /\ [comparison[c] EXCEPT !.step = "history", !.tree = tree].step = "history"
      BY <3>2, <3>3 DEF Comparison
    <3>5. comparison' = [comparison EXCEPT
              ![c] = [comparison[c] EXCEPT !.step = "history", !.tree = tree]]
      BY <1>1, <3>1
    <3>6. QED BY <1>1, <3>4, <3>5 DEF Comparing
  <2>2. CASE ReadHistory(c)
    <3>1. PICK before \in {0} \cup VersionsOf(c),
               after \in {0} \cup (VersionsOf(c) \cap {impact[c].dna.version}) :
             AskGit(c, [comparison[c] EXCEPT !.step = "final", !.before = before, !.after = after])
      BY <2>2 DEF ReadHistory
    <3> DEFINE fields == [comparison[c] EXCEPT !.step = "final", !.before = before,
                                               !.after = after]
    <3>2. VersionsOf(c) \subseteq Nat
      <4>1. snapshots \in Seq(Snapshot)
        BY <1>1 DEF TypeInv, TypeOK
      <4>2. \A i \in DOMAIN snapshots : snapshots[i] \in Snapshot
        BY <4>1
      <4>3. \A i \in DOMAIN snapshots : snapshots[i].version \in Nat
        BY <4>2 DEF Snapshot, Version
      <4>4. QED BY <4>3 DEF VersionsOf
    <3>3. before \in Nat /\ after \in Nat
      BY <3>2
    <3>4. fields \in Comparison /\ fields.before = before /\ fields.after = after
      <4>1. comparison[c] \in Comparison
        BY <1>1
      <4>2. QED BY <3>3, <4>1 DEF Comparison
    <3>5. AskGit(c, fields)
      BY <3>1
    <3> HIDE DEF fields
    <3>6. /\ comparison' \in [ImpactCallers -> Comparison]
          /\ \A d \in ImpactCallers \ {c} : comparison'[d] = comparison[d]
          /\ comparison'[c].root = QueriedRoot
          /\ comparison'[c].before = before /\ comparison'[c].after = after
      BY <1>1, <3>4, <3>5, AskGitTypes DEF TypeInv
    <3>7. ASSUME ~impact[c].stale
          PROVE  /\ QueriedRoot = current.root
                 /\ VersionsOf(c) \subseteq 1 .. current.version
      <4>1. /\ impact[c].dna = current /\ current \in DNA /\ rootPath = current.root
            /\ snapshots = HistoryOf(current.root, current.version)
        BY <1>2, <3>7, FreshQuery
      <4>2. QueriedRoot = current.root
        BY <4>1, WorkspaceAssumption DEF QueriedRoot, DNA
      <4>3. current.version \in Nat
        BY <4>1 DEF DNA, Version
      <4>4. /\ DOMAIN snapshots = 1 .. current.version
            /\ \A v \in 1 .. current.version : snapshots[v].version = v
        BY <4>1, <4>3 DEF HistoryOf, ChainedSnapshot
      <4>5. QED BY <4>2, <4>4 DEF VersionsOf
    <3>8. QED BY <3>6, <3>7
  <2>3. QED BY <2>1, <2>2
<1>5. ComparisonTypeOK'
  BY <1>1, <1>2, <1>3, <1>4 DEF ComparisonTypeOK
<1>6. ReadsPublished'
  BY <1>1, <1>2, <1>4 DEF ReadsPublished, Comparing
<1>7. QED BY <1>3, <1>5, <1>6 DEF ComparisonInv

\* Every step keeps ComparisonInv.
LEMMA ComparisonNext ==
    ComparisonInv /\ [NextWithComparisons]_allVars /\ [~ChangesWorkspace]_vars => ComparisonInv'
<1> SUFFICES ASSUME ComparisonInv, [NextWithComparisons]_allVars, [~ChangesWorkspace]_vars
             PROVE  ComparisonInv'
  OBVIOUS
<1>1. CASE ServiceGoesOn
  BY <1>1, ComparisonService
<1>2. ASSUME NEW c \in ImpactCallers, GetWorkingTreeImpact(c)
      PROVE  ComparisonInv'
  BY <1>2, ComparisonStarts
<1>3. ASSUME NEW c \in ImpactCallers, ReceiveInitial(c) \/ ReadHistory(c)
      PROVE  ComparisonInv'
  BY <1>3, ComparisonReads
<1>4. ASSUME NEW c \in ImpactCallers, AnswerWorkingTreeImpact(c) \/ WorkingTreeImpactFails(c)
      PROVE  ComparisonInv'
  BY <1>4, QueryEnds DEF AnswerWorkingTreeImpact, WorkingTreeImpactFails, Reject
<1>5. CASE UNCHANGED allVars
  <2>1. /\ UNCHANGED <<vars, impact, comparison, current, phase>>
        /\ RecoveryInv /\ impact \in [ImpactCallers -> Query]
    BY <1>5 DEF allVars, vars, publishedVars, ComparisonInv, RecoveryInv, SafeInv, TypeInv, TypeOK
  <2>2. LeaveService
    BY <2>1 DEF vars, LeaveService
  <2>3. RecoveryInv' /\ TypeOK'
    BY <2>1, <2>2, QueryLeavesService DEF RecoveryInv, SafeInv, TypeInv
  <2>4. QED BY <2>1, <2>3
      DEF ComparisonInv, FreshQueries, Idle, QueriesHaveAnalysis, ReadsPublished, Comparing,
          ComparisonTypeOK
<1>6. QED BY <1>1, <1>2, <1>3, <1>4, <1>5 DEF NextWithComparisons

\* A working-tree query is answered only from the analysis that is still
\* published, of the repository Git was asked about, and compares versions that
\* are whole in the storage, however the query, analyses and notifications
\* interleave, as long as the service is not moved to another workspace.
THEOREM WorkingTreeAnswersAreCurrent ==
    ComparisonSpec /\ StaysInWorkspace => WorkingTreeAnswerIsCurrent
<1>1. InitComparison => ComparisonInv
  BY RecoveryInit
     DEF InitComparison, Init, Activated, NoQuery, NoComparison, Comparison, ComparisonInv,
         FreshQueries, ComparisonTypeOK, QueriesHaveAnalysis, ReadsPublished, Comparing,
         RecoveryInv, SafeInv, TypeInv
<1>2. ASSUME ComparisonInv, [NextWithComparisons]_allVars, NEW c \in ImpactCallers,
             Comparing(c, "final"), impact'[c].status = "answered"
      PROVE  /\ Idle
             /\ impact[c].dna = current
             /\ comparison[c].root = current.root
             /\ \A v \in {comparison[c].before, comparison[c].after} \ {0} :
                    IntactVersion(current.root, v)
  <2>1. impact[c].status = "waiting" /\ impact \in [ImpactCallers -> Query]
    BY <1>2 DEF ComparisonInv, ComparisonTypeOK, Comparing, TypeOK
  <2>2. AnswerWorkingTreeImpact(c)
    <3>1. ~ServiceGoesOn
      BY <1>2 DEF ServiceGoesOn, Comparing
    <3>2. ~UNCHANGED allVars
      BY <1>2, <2>1 DEF allVars, vars
    <3>3. ASSUME NEW d \in ImpactCallers,
                 \/ GetWorkingTreeImpact(d) \/ ReceiveInitial(d) \/ ReadHistory(d)
                 \/ WorkingTreeImpactFails(d)
          PROVE  FALSE
      BY <1>2, <2>1, <3>3
         DEF GetWorkingTreeImpact, GetImpact, ReceiveInitial, ReadHistory,
             WorkingTreeImpactFails, Reject, NoQuery
    <3>4. PICK d \in ImpactCallers : AnswerWorkingTreeImpact(d)
      BY <1>2, <3>1, <3>2, <3>3 DEF NextWithComparisons
    <3>5. d = c
      BY <1>2, <2>1, <3>4 DEF AnswerWorkingTreeImpact, Reject
    <3>6. QED BY <3>4, <3>5
  <2>3. IsStillCurrent(c)
    BY <1>2, <2>1, <2>2 DEF AnswerWorkingTreeImpact, Reject, NoQuery
  <2>4. ~impact[c].stale
    BY <2>3 DEF IsStillCurrent
  <2>5. /\ Idle /\ impact[c].dna = current
        /\ \A v \in 1 .. current.version : IntactVersion(current.root, v)
    BY <1>2, <2>1, <2>4, FreshQuery
  <2>6. /\ comparison[c].root = current.root
        /\ {comparison[c].before, comparison[c].after} \ {0} \subseteq 1 .. current.version
    BY <1>2, <2>4 DEF ComparisonInv, ReadsPublished
  <2>7. QED BY <2>5, <2>6
<1>3. ComparisonInv /\ [NextWithComparisons]_allVars =>
         [\A c \in ImpactCallers :
             Comparing(c, "final") /\ impact'[c].status = "answered" =>
                 /\ Idle
                 /\ impact[c].dna = current
                 /\ comparison[c].root = current.root
                 /\ \A v \in {comparison[c].before, comparison[c].after} \ {0} :
                        IntactVersion(current.root, v)]_allVars
  BY <1>2
<1>4. QED BY <1>1, <1>3, ComparisonNext, PTL
    DEF ComparisonSpec, StaysInWorkspace, WorkingTreeAnswerIsCurrent

-----------------------------------------------------------------------------
(* The watcher *)

\* A flush of the current watcher is queued while one is scheduled or needed, a
\* window without a folder watches nothing, and the bounds on what the editor does
\* bound the notifications.
WatcherInv ==
    /\ WatcherTypeOK
    /\ wEpoch \in 1 .. MaxEpoch
    /\ wRoot = None => fileEvents = <<>> /\ PendingPaths = {}
    /\ IsFiniteSet(PendingPaths)
    /\ wSequence + Len(fileEvents) + Cardinality(PendingPaths) <= MaxSequence
    /\ wFlushScheduled \/ PendingPaths # {} => \E i \in 1 .. Len(wFlushes) : wFlushes[i] = wEpoch

LEMMA NothingIsPending ==
    /\ NothingPending \in [Paths -> Kinds \cup {None}]
    /\ {p \in Paths : NothingPending[p] # None} = {}
BY DEF NothingPending

LEMMA PendingIsCounted ==
    ASSUME WatcherInv
    PROVE  Cardinality(PendingPaths) \in Nat /\ (PendingPaths # {} => Cardinality(PendingPaths) > 0)
<1>1. IsFiniteSet(PendingPaths)
  BY DEF WatcherInv
<1> HIDE DEF PendingPaths
<1>2. Cardinality(PendingPaths) \in Nat /\ (Cardinality(PendingPaths) = 0 <=> PendingPaths = {})
  BY <1>1, FS_CardinalityType, FS_EmptySet
<1>3. QED BY <1>2

\* A state with nothing pending and no flush scheduled
LEMMA QuietWatcher ==
    ASSUME wRoot' \in Roots \cup {None}, wEpoch' \in 1 .. MaxEpoch, wSequence' = 0,
           wPending' = NothingPending, wFlushScheduled' = FALSE, wFlushes' \in Seq(Nat),
           fileEvents' = <<>>
    PROVE  WatcherInv'
<1>1. PendingPaths' = {} /\ wPending' \in [Paths -> Kinds \cup {None}]
  BY NothingIsPending DEF PendingPaths
<1>2. IsFiniteSet({}) /\ Cardinality({}) = 0
  BY FS_EmptySet
<1>3. WatcherTypeOK'
  <2>1. <<>> \in Seq(FileEvent)
    OBVIOUS
  <2>2. wEpoch' \in Nat
    BY WorkspaceAssumption
  <2>3. QED BY <1>1, <2>1, <2>2 DEF WatcherTypeOK
<1>4. MaxSequence \in Nat
  BY ServiceAssumption
<1>5. wSequence' + Len(fileEvents') + Cardinality(PendingPaths)' <= MaxSequence
  BY <1>1, <1>2, <1>4
<1>6. QED BY <1>1, <1>2, <1>3, <1>5 DEF WatcherInv

LEMMA WatcherInvObserves ==
    ASSUME WatcherInv, NEW kind \in Kinds, NEW p \in Paths, EditorObserves(kind, p), wRoot \in Roots,
           wSequence + Len(fileEvents) + Cardinality(PendingPaths) < MaxSequence
    PROVE  WatcherInv'
<1>1. UNCHANGED <<wRoot, wEpoch, wSequence, wPending, wFlushScheduled, wFlushes>>
      /\ fileEvents' = Append(fileEvents, [kind |-> kind, path |-> p])
  BY DEF EditorObserves
<1>2. /\ fileEvents \in Seq(FileEvent) /\ fileEvents' \in Seq(FileEvent)
      /\ Len(fileEvents') = Len(fileEvents) + 1
  BY <1>1 DEF WatcherInv, WatcherTypeOK, FileEvent
<1>3. PendingPaths' = PendingPaths
  BY <1>1 DEF PendingPaths
<1>4. wRoot # None
  BY WorkspaceAssumption
<1>5. wSequence \in Nat /\ Cardinality(PendingPaths) \in Nat /\ MaxSequence \in Nat /\ Len(fileEvents) \in Nat
  BY <1>2, PendingIsCounted, ServiceAssumption DEF WatcherInv, WatcherTypeOK
<1>6. wSequence' + Len(fileEvents') + Cardinality(PendingPaths)' <= MaxSequence
  BY <1>1, <1>2, <1>3, <1>5
<1>7. QED BY <1>1, <1>2, <1>3, <1>4, <1>6 DEF WatcherInv, WatcherTypeOK

\* What the next event of the editor makes of the pending changes.
LEMMA MergedFacts ==
    ASSUME WatcherTypeOK, fileEvents # <<>>
    PROVE  /\ Head(fileEvents) \in FileEvent
           /\ Tail(fileEvents) \in Seq(FileEvent) /\ Len(Tail(fileEvents)) = Len(fileEvents) - 1
           /\ Merged \in [Paths -> Kinds \cup {None}]
           /\ \A p \in Paths : p # Head(fileEvents).path => Merged[p] = wPending[p]
           /\ Merged[Head(fileEvents).path] =
                 MergeKinds(wPending[Head(fileEvents).path], Head(fileEvents).kind)
<1>1. /\ fileEvents \in Seq(FileEvent) /\ Head(fileEvents) \in FileEvent
      /\ Tail(fileEvents) \in Seq(FileEvent) /\ Len(Tail(fileEvents)) = Len(fileEvents) - 1
  BY DEF WatcherTypeOK
<1> DEFINE event == Head(fileEvents)
<1>2. event.path \in Paths /\ event.kind \in Kinds
  BY <1>1 DEF FileEvent
<1>3. wPending \in [Paths -> Kinds \cup {None}]
  BY DEF WatcherTypeOK
<1>4. MergeKinds(wPending[event.path], event.kind) \in Kinds \cup {None}
  BY <1>2, <1>3 DEF MergeKinds, Kinds
<1>5. Merged = [wPending EXCEPT ![event.path] = MergeKinds(@, event.kind)]
  BY DEF Merged
<1> HIDE DEF event
<1>6. QED BY <1>1, <1>2, <1>3, <1>4, <1>5 DEF event

LEMMA WatcherInvQueue ==
    ASSUME WatcherInv, QueueChange
    PROVE  WatcherInv'
<1> DEFINE path == Head(fileEvents).path
<1>1. /\ fileEvents # <<>> /\ fileEvents' = Tail(fileEvents) /\ wPending' = Merged /\ wFlushScheduled' = TRUE
      /\ wFlushes' = (IF wFlushScheduled THEN wFlushes ELSE Append(wFlushes, wEpoch))
      /\ UNCHANGED <<wRoot, wEpoch, wSequence>>
  BY DEF QueueChange
<1>2. /\ WatcherTypeOK /\ wFlushes \in Seq(Nat) /\ wEpoch \in Nat /\ wRoot # None
  BY <1>1 DEF WatcherInv, WatcherTypeOK
<1>3. /\ Head(fileEvents) \in FileEvent /\ Tail(fileEvents) \in Seq(FileEvent)
      /\ Len(fileEvents') = Len(fileEvents) - 1
      /\ wPending' \in [Paths -> Kinds \cup {None}]
      /\ \A p \in Paths : p # path => wPending'[p] = wPending[p]
  BY <1>1, <1>2, MergedFacts
<1>4. WatcherTypeOK'
  BY <1>1, <1>2, <1>3 DEF WatcherTypeOK
<1>5. \E i \in 1 .. Len(wFlushes') : wFlushes'[i] = wEpoch
  <2>1. CASE wFlushScheduled
    BY <1>1, <2>1 DEF WatcherInv
  <2>2. CASE ~wFlushScheduled
    <3>1. wFlushes' = Append(wFlushes, wEpoch)
      BY <1>1, <2>2
    <3>2. Len(wFlushes') = Len(wFlushes) + 1 /\ wFlushes'[Len(wFlushes) + 1] = wEpoch /\ Len(wFlushes) \in Nat
      BY <1>2, <3>1
    <3>3. Len(wFlushes) + 1 \in 1 .. Len(wFlushes')
      BY <3>2
    <3>4. QED BY <3>2, <3>3
  <2>3. QED BY <2>1, <2>2
<1>6. PendingPaths' \subseteq PendingPaths \cup {path}
  BY <1>3 DEF PendingPaths
<1>7. IsFiniteSet(PendingPaths') /\ Cardinality(PendingPaths') <= Cardinality(PendingPaths) + 1
  <2>1. IsFiniteSet(PendingPaths)
    BY DEF WatcherInv
  <2> DEFINE old == PendingPaths
             new == PendingPaths'
             all == old \cup {path}
  <2> HIDE DEF old, new, path
  <2>2. IsFiniteSet(all) /\ Cardinality(all) <= Cardinality(old) + 1 /\ Cardinality(all) \in Nat
    <3>1. IsFiniteSet(all) /\ Cardinality(all) = IF path \in old THEN Cardinality(old) ELSE Cardinality(old) + 1
      BY <2>1, FS_AddElement DEF old
    <3>2. Cardinality(old) \in Nat
      BY <2>1, FS_CardinalityType DEF old
    <3>3. QED BY <3>1, <3>2
  <2> HIDE DEF all
  <2>3. new \subseteq all
    BY <1>6 DEF new, all, old, path
  <2>4. IsFiniteSet(new) /\ Cardinality(new) <= Cardinality(all)
    BY <2>2, <2>3, FS_Subset
  <2>5. Cardinality(new) \in Nat /\ Cardinality(old) \in Nat
    BY <2>1, <2>4, FS_CardinalityType DEF old
  <2>6. QED BY <2>2, <2>4, <2>5 DEF new, old
<1>8. wSequence' + Len(fileEvents') + Cardinality(PendingPaths') <= MaxSequence
  <2>1. wSequence + Len(fileEvents) + Cardinality(PendingPaths) <= MaxSequence
    BY DEF WatcherInv
  <2>2. wSequence \in Nat /\ Len(fileEvents) \in Nat /\ MaxSequence \in Nat /\ Cardinality(PendingPaths) \in Nat
        /\ Cardinality(PendingPaths') \in Nat
    BY <1>2, <1>7, PendingIsCounted, FS_CardinalityType, ServiceAssumption DEF WatcherTypeOK
  <2>3. QED BY <1>1, <1>3, <1>7, <2>1, <2>2
<1>9. QED BY <1>1, <1>2, <1>4, <1>5, <1>7, <1>8 DEF WatcherInv

LEMMA WatcherInvFlush ==
    ASSUME WatcherInv, FlushChanges
    PROVE  WatcherInv'
<1>1. /\ wFlushes # <<>> /\ wFlushes' = Tail(wFlushes) /\ wFlushScheduled' = FALSE
      /\ UNCHANGED <<wRoot, wEpoch, fileEvents>>
      /\ IF FlushEmits THEN wPending' = NothingPending /\ wSequence' = wSequence + 1
                       ELSE UNCHANGED <<wPending, wSequence>>
  BY DEF FlushChanges
<1>2. /\ wFlushes \in Seq(Nat) /\ wFlushes' \in Seq(Nat)
      /\ Len(wFlushes') = Len(wFlushes) - 1
      /\ \A i \in 1 .. Len(wFlushes') : wFlushes'[i] = wFlushes[i + 1]
      /\ Head(wFlushes) = wFlushes[1]
  BY <1>1 DEF WatcherInv, WatcherTypeOK
<1>3. CASE FlushEmits
  <2>1. PendingPaths' = {} /\ wPending' \in [Paths -> Kinds \cup {None}]
    BY <1>1, <1>3, NothingIsPending DEF PendingPaths
  <2>2. IsFiniteSet({}) /\ Cardinality({}) = 0
    BY FS_EmptySet
  <2>3. Cardinality(PendingPaths) \in Nat /\ Cardinality(PendingPaths) > 0
    BY <1>3, PendingIsCounted DEF FlushEmits
  <2>4. wSequence' \in Nat /\ wSequence' + Len(fileEvents') + Cardinality(PendingPaths') <= MaxSequence
    <3>1. wSequence \in Nat /\ Len(fileEvents) \in Nat /\ MaxSequence \in Nat
          /\ wSequence + Len(fileEvents) + Cardinality(PendingPaths) <= MaxSequence
      BY ServiceAssumption DEF WatcherInv, WatcherTypeOK
    <3>2. QED BY <1>1, <1>3, <2>1, <2>2, <2>3, <3>1
  <2>5. WatcherTypeOK'
    BY <1>1, <1>2, <2>1, <2>4 DEF WatcherInv, WatcherTypeOK
  <2>6. QED BY <1>1, <2>1, <2>2, <2>4, <2>5 DEF WatcherInv
<1>4. CASE ~FlushEmits
  <2>1. PendingPaths' = PendingPaths /\ UNCHANGED <<wPending, wSequence>>
    BY <1>1, <1>4 DEF PendingPaths
  <2>2. PendingPaths # {} => \E i \in 1 .. Len(wFlushes') : wFlushes'[i] = wEpoch
    <3> SUFFICES ASSUME PendingPaths # {} PROVE \E i \in 1 .. Len(wFlushes') : wFlushes'[i] = wEpoch
      OBVIOUS
    <3>1. Head(wFlushes) # wEpoch
      BY <1>4 DEF FlushEmits
    <3>2. PICK i \in 1 .. Len(wFlushes) : wFlushes[i] = wEpoch
      BY DEF WatcherInv
    <3>3. i # 1
      BY <1>2, <3>1, <3>2
    <3>4. i - 1 \in 1 .. Len(wFlushes') /\ (i - 1) + 1 = i /\ Len(wFlushes) \in Nat
      BY <1>2, <3>2, <3>3
    <3>5. QED BY <1>2, <3>2, <3>4
  <2>3. QED BY <1>1, <1>2, <2>1, <2>2 DEF WatcherInv, WatcherTypeOK
<1>5. QED BY <1>3, <1>4

LEMMA WatcherInvNext ==
    WatcherInv /\ [WorkspaceNext]_workspaceVars => WatcherInv'
<1> SUFFICES ASSUME WatcherInv, [WorkspaceNext]_workspaceVars PROVE WatcherInv'
  OBVIOUS
<1>1. /\ wRoot \in Roots \cup {None} /\ wEpoch \in Nat /\ wSequence \in Nat /\ wFlushes \in Seq(Nat)
      /\ wEpoch \in 1 .. MaxEpoch
  BY DEF WatcherInv, WatcherTypeOK
<1>2. CASE UNCHANGED watcherVars
  BY <1>2 DEF watcherVars, WatcherInv, WatcherTypeOK, PendingPaths
<1>3. ASSUME NEW r \in Roots \cup {None}, NewWatcher(r), wEpoch < MaxEpoch PROVE WatcherInv'
  <2>1. wEpoch + 1 \in 1 .. MaxEpoch
    BY <1>1, <1>3, WorkspaceAssumption
  <2>2. QED BY <1>1, <1>3, <2>1, QuietWatcher DEF NewWatcher
<1>4. CASE WatcherStep
  <2>1. CASE Overflow
    BY <1>1, <1>3, <2>1 DEF Overflow, InvalidateForOverflow
  <2>2. QED BY <1>4, <2>1, WatcherInvQueue, WatcherInvFlush DEF WatcherStep, Queue, Flush
<1>5. CASE Deactivate
  <2>1. /\ wPending' = NothingPending /\ fileEvents' = <<>>
        /\ UNCHANGED <<wRoot, wEpoch, wSequence, wFlushScheduled, wFlushes>>
    BY <1>5 DEF Deactivate, StopWatching
  <2>2. PendingPaths' = {} /\ wPending' \in [Paths -> Kinds \cup {None}]
    BY <2>1, NothingIsPending DEF PendingPaths
  <2>3. IsFiniteSet({}) /\ Cardinality({}) = 0 /\ <<>> \in Seq(FileEvent)
    BY FS_EmptySet
  <2>4. wSequence' + Len(fileEvents') + Cardinality(PendingPaths') <= MaxSequence
    <3>1. wSequence + Len(fileEvents) + Cardinality(PendingPaths) <= MaxSequence /\ fileEvents \in Seq(FileEvent)
      BY DEF WatcherInv, WatcherTypeOK
    <3>2. Cardinality(PendingPaths) \in Nat /\ MaxSequence \in Nat /\ Len(fileEvents) \in Nat
      BY <3>1, PendingIsCounted, ServiceAssumption
    <3>3. QED BY <1>1, <2>1, <2>2, <2>3, <3>1, <3>2
  <2>5. QED BY <2>1, <2>2, <2>3, <2>4 DEF WatcherInv, WatcherTypeOK
<1>6. ASSUME NEW r \in Roots, NEW p \in Paths, NEW c \in Contents, Edit(r, p, c) PROVE WatcherInv'
  <2>1. CASE r = wRoot /\ ~disposed
    <3> DEFINE kind == ChangeKind(disk[r][p], c)
    <3>1. EditorObserves(kind, p) /\ kind \in Kinds
      BY <1>6, <2>1 DEF Edit, ChangeKind, Kinds
    <3>2. wSequence + (Len(fileEvents) + Cardinality(PendingPaths)) < MaxSequence
      BY <1>6 DEF Edit
    <3>3. Len(fileEvents) \in Nat /\ Cardinality(PendingPaths) \in Nat /\ MaxSequence \in Nat
      BY PendingIsCounted, ServiceAssumption DEF WatcherInv, WatcherTypeOK
    <3> HIDE DEF kind
    <3>4. wSequence + Len(fileEvents) + Cardinality(PendingPaths) < MaxSequence
      BY <1>1, <3>2, <3>3
    <3>5. QED BY <2>1, <3>1, <3>4, WatcherInvObserves
  <2>2. CASE ~(r = wRoot /\ ~disposed)
    BY <1>2, <1>6, <2>2 DEF Edit
  <2>3. QED BY <2>1, <2>2
<1>7. ASSUME NEW r \in Roots \cup {None}, SwitchWorkspace(r) PROVE WatcherInv'
  BY <1>1, <1>3, <1>7 DEF SwitchWorkspace, ReplaceWorkspace
<1>8. ASSUME NEW r \in Roots, RestartWindow(r) PROVE WatcherInv'
  <2>1. 1 \in 1 .. MaxEpoch /\ <<>> \in Seq(Nat)
    BY WorkspaceAssumption
  <2>2. QED BY <1>8, <2>1, QuietWatcher DEF RestartWindow
<1>9. CASE UNCHANGED workspaceVars \/ ServiceStep \/ UserRequest
  BY <1>2, <1>9 DEF workspaceVars, ServiceStep, UserRequest
<1>10. QED BY <1>4, <1>5, <1>6, <1>7, <1>8, <1>9 DEF WorkspaceNext

LEMMA WatcherInvInit == WorkspaceInit => WatcherInv
<1> SUFFICES ASSUME NEW r \in Roots, WatcherInit(r) PROVE WatcherInv
  BY DEF WorkspaceInit
<1>1. PendingPaths = {} /\ wPending \in [Paths -> Kinds \cup {None}]
  BY NothingIsPending DEF PendingPaths, WatcherInit
<1>2. IsFiniteSet({}) /\ Cardinality({}) = 0 /\ <<>> \in Seq(FileEvent) /\ <<>> \in Seq(Nat)
  BY FS_EmptySet
<1>3. MaxSequence \in Nat /\ 1 \in 1 .. MaxEpoch
  BY ServiceAssumption, WorkspaceAssumption
<1>4. WatcherTypeOK
  BY <1>1, <1>2 DEF WatcherInit, WatcherTypeOK
<1>5. wSequence + Len(fileEvents) + Cardinality(PendingPaths) <= MaxSequence
  BY <1>1, <1>2, <1>3 DEF WatcherInit
<1>6. QED BY <1>1, <1>2, <1>3, <1>4, <1>5 DEF WatcherInit, WatcherInv

\* A change the watcher holds always has a flush of its own watcher queued
\* (queueChange and flushChanges of the RepositoryWatcher), whatever folder changes
\* and overflows come in between.
THEOREM PendingChangesAreFlushed == WorkspaceSpec => []PendingIsFlushed
<1>1. WatcherInv => PendingIsFlushed
  BY DEF WatcherInv, PendingIsFlushed
<1>2. WorkspaceSpec => []WatcherInv
  BY WatcherInvInit, WatcherInvNext, PTL DEF WorkspaceSpec
<1>3. QED BY <1>1, <1>2, PTL

-----------------------------------------------------------------------------
(* The extension implements the environment the service is specified for *)

\* What the watcher tells the service is a notification of ProjectDNAService, and
\* everything else a step of it or none.
LEMMA StepsOfTheService ==
    WatcherInv /\ [WorkspaceNext]_workspaceVars => [Next]_vars
<1> SUFFICES ASSUME WatcherInv, WorkspaceNext PROVE [Next]_vars
  BY DEF workspaceVars
<1>1. /\ wRoot \in Roots \cup {None} /\ wEpoch \in 1 .. MaxEpoch /\ wSequence \in Nat /\ MaxSequence \in Nat
      /\ MaxEpoch \in Nat
      /\ fileEvents # <<>> \/ PendingPaths # {} => wRoot \in Roots
  BY ServiceAssumption, WorkspaceAssumption DEF WatcherInv, WatcherTypeOK
<1>2. ASSUME NEW r \in Roots, NEW reason \in {"overflow", "restart", "workspace-change"}, wEpoch < MaxEpoch,
             NotifyInvalidated(r, reason)
      PROVE  [Next]_vars
  <2>1. CASE UNCHANGED vars
    BY <2>1
  <2>2. CASE RepositoryWatcherInvalidated(r, wEpoch + 1, reason)
    <3>1. wEpoch + 1 \in 1 .. MaxEpoch
      BY <1>1, <1>2
    <3>2. Notification
      BY <2>2, <3>1 DEF Notification
    <3>3. QED BY <3>2 DEF Next
  <2>3. QED BY <1>2, <2>1, <2>2 DEF NotifyInvalidated
<1>3. CASE ServiceStep
  BY <1>3 DEF ServiceStep, Next
<1>4. CASE Queue
  BY <1>4 DEF Queue
<1>5. CASE Overflow
  BY <1>1, <1>2, <1>5 DEF Overflow, InvalidateForOverflow
<1>6. CASE Flush
  <2>1. CASE FlushEmits /\ RepositoryFilesChanged(wRoot, wEpoch, wSequence + 1, PendingPaths)
    <3>1. wSequence + 1 \in 1 .. MaxSequence
      <4>1. Cardinality(PendingPaths) \in Nat /\ Cardinality(PendingPaths) > 0
        BY <2>1, PendingIsCounted DEF FlushEmits
      <4>2. wSequence + Len(fileEvents) + Cardinality(PendingPaths) <= MaxSequence /\ Len(fileEvents) \in Nat
        BY DEF WatcherInv, WatcherTypeOK
      <4>3. QED BY <1>1, <4>1, <4>2
    <3>2. wRoot \in Roots /\ PendingPaths \in SUBSET Paths
      BY <1>1, <2>1 DEF FlushEmits, PendingPaths
    <3>3. Notification
      BY <1>1, <2>1, <3>1, <3>2 DEF Notification
    <3>4. QED BY <3>3 DEF Next
  <2>2. QED BY <1>6, <2>1 DEF Flush, NotifyFilesChanged
<1>7. CASE UserRequest
  <2>1. Request
    BY <1>1, <1>7 DEF UserRequest, Request
  <2>2. QED BY <2>1 DEF Next
<1>8. CASE Deactivate
  BY <1>8 DEF Deactivate, Next, Request
<1>9. ASSUME NEW r \in Roots, NEW p \in Paths, NEW c \in Contents, Edit(r, p, c) PROVE [Next]_vars
  BY <1>9 DEF Edit, Next
<1>10. ASSUME NEW r \in Roots \cup {None}, SwitchWorkspace(r) PROVE [Next]_vars
  BY <1>2, <1>10 DEF SwitchWorkspace, ReplaceWorkspace, InvalidationReason
<1>11. ASSUME NEW r \in Roots, RestartWindow(r) PROVE [Next]_vars
  BY <1>11 DEF RestartWindow, Next, Request
<1>12. QED
  BY <1>3, <1>4, <1>5, <1>6, <1>7, <1>8, <1>9, <1>10, <1>11 DEF WorkspaceNext, WatcherStep

\* The running extension uses the service only in ways ProjectDNAService allows, so
\* that all that is proved of the service holds of it: initial states are initial
\* states and steps are steps or stutter.
THEOREM ExtensionImplementsService == WorkspaceSpec => Spec
<1>1. WorkspaceInit => Init
  BY DEF WorkspaceInit
<1>2. QED BY <1>1, WatcherInvInit, WatcherInvNext, StepsOfTheService, PTL DEF WorkspaceSpec, Spec

-----------------------------------------------------------------------------
(* No change is lost.  One can be: a file that is created and deleted again *)
(* leaves the watcher nothing to report, although an analysis may have read *)
(* it in between.                                                           *)

\* The next event of the editor takes back a creation the watcher still holds.
CancelsOut ==
    /\ fileEvents # <<>>
    /\ wPending[Head(fileEvents).path] = "created"
    /\ Head(fileEvents).kind = "deleted"

NothingCancelsOut == [][Queue => ~CancelsOut]_workspaceVars

\* The change of a file is on its way to the service.
InFlight(p) ==
    \/ \E i \in 1 .. Len(fileEvents) : fileEvents[i].path = p
    \/ wPending[p] # None

\* Every file of the folder that differs from what content says has changed since.
Watched(content) == \A p \in Paths : content[p] # disk[wRoot][p] => InFlight(p)

\* The service knows no later watcher and no later batch than there are, and no
\* later change than it has counted.
FollowInv ==
    /\ watcherEpoch <= wEpoch
    /\ watcherEpoch = wEpoch => watcherSequence <= wSequence
    /\ \A p \in Paths : pendingChanges[p] <= changeGeneration

\* The phases from the call of the pipeline to publication
Observed == {"workingTreeAfter", "history", "snapshot", "persisting"}
Observing == {"orchestrating"} \cup Observed

\* Of an analysis of the folder that nothing superseded: what changed since it was
\* observed is still on its way, what it is not going to observe is covered by its
\* baseline, and the service accepts what the watcher reports.
ObservationInv ==
    ~disposed /\ ~Superseded /\ op.root = wRoot /\ phase \in Observing =>
        /\ rootPath \in {None, wRoot}
        /\ phase \in Observed => Watched(op.content)
        /\ phase = "orchestrating" =>
              /\ Watched(op.since)
              /\ op.baseline # None =>
                    ~pendingOverflow /\ \A p \in Paths : pendingChanges[p] # 0 => p \in op.changed

\* What the steps of an operation leave alone
LEMMA ServiceFrame ==
    ASSUME RunAnalysis \/ AutomaticRefresh
    PROVE  UNCHANGED <<disk, disposed, changeGeneration, watcherEpoch, watcherSequence>>
BY DEF RunAnalysis, AutomaticRefresh, StartAnalysis, BeginAnalysis, ReceiveWorkingTree, Recover, RecoverFails,
       Restore, ClearCurrent, Orchestrate, OrchestrateFails, WorkingTreeFails, SupersedeCandidate, KeepCurrent,
       AssembleCandidate, CreateSnapshot, SupersedeSnapshot, Persist, PersistFails, RollBackFailure,
       DiscardCandidate, RemoveCandidate, RemoveCandidateFails, Publish, Settle, AcknowledgeChanges,
       serviceVars, watchVars, storageVars, publishedVars

\* Pending changes are only acknowledged, and only what was pending is.
LEMMA PendingFrame ==
    ASSUME RunAnalysis \/ AutomaticRefresh
    PROVE  \/ UNCHANGED <<pendingChanges, pendingOverflow>>
           \/ (KeepCurrent \/ Publish) /\ AcknowledgeChanges
BY DEF RunAnalysis, AutomaticRefresh, StartAnalysis, BeginAnalysis, ReceiveWorkingTree, Recover, RecoverFails,
       Restore, ClearCurrent, Orchestrate, OrchestrateFails, WorkingTreeFails, SupersedeCandidate, KeepCurrent,
       AssembleCandidate, CreateSnapshot, SupersedeSnapshot, Persist, PersistFails, RollBackFailure,
       DiscardCandidate, RemoveCandidate, RemoveCandidateFails, Publish, Settle,
       serviceVars, watchVars, storageVars, publishedVars

\* The baseline and the repository that is followed change where it is assigned.
LEMMA BaselineFrame ==
    ASSUME RunAnalysis \/ AutomaticRefresh
    PROVE  UNCHANGED <<incrementalBaseline, rootPath>> \/ Restore \/ KeepCurrent \/ Publish
BY DEF RunAnalysis, AutomaticRefresh, StartAnalysis, BeginAnalysis, ReceiveWorkingTree, Recover, RecoverFails,
       Orchestrate, OrchestrateFails, WorkingTreeFails, SupersedeCandidate,
       AssembleCandidate, CreateSnapshot, SupersedeSnapshot, Persist, PersistFails, RollBackFailure,
       DiscardCandidate, RemoveCandidate, RemoveCandidateFails, Settle,
       serviceVars, watchVars, storageVars, publishedVars

\* Which steps lead to a phase in which something is being observed
LEMMA PhaseFrame ==
    ASSUME RunAnalysis \/ AutomaticRefresh, phase' \in Observing, TypeOK
    PROVE  \/ \E tree \in Observation \cup {None} : ReceiveWorkingTree(tree)
           \/ Restore \/ Orchestrate
           \/ /\ phase \in Observed /\ phase' \in Observed
              /\ op'.root = op.root /\ op'.generation = op.generation /\ op'.content = op.content
              /\ UNCHANGED rootPath
           \/ UNCHANGED <<phase, op, rootPath, pendingChanges, pendingOverflow>>
<1> USE DEF Observing, Observed
<1>1. op \in Operation
  BY DEF TypeOK
<1>2. CASE AutomaticRefresh
  BY <1>2 DEF AutomaticRefresh, StartAnalysis, watchVars, publishedVars
<1>3. CASE BeginAnalysis \/ Recover \/ RecoverFails \/ OrchestrateFails \/ WorkingTreeFails \/ SupersedeCandidate
           \/ KeepCurrent \/ SupersedeSnapshot \/ RollBackFailure \/ DiscardCandidate \/ RemoveCandidate
           \/ RemoveCandidateFails \/ Publish \/ Settle
  BY <1>3 DEF BeginAnalysis, Recover, RecoverFails, OrchestrateFails, WorkingTreeFails, SupersedeCandidate,
       KeepCurrent, SupersedeSnapshot, RollBackFailure, DiscardCandidate, RemoveCandidate,
       RemoveCandidateFails, Publish, Settle, Return
<1>4. CASE AssembleCandidate
  BY <1>1, <1>4 DEF AssembleCandidate, Unsuperseded, Return, serviceVars, publishedVars, Operation
<1>5. CASE CreateSnapshot
  BY <1>5 DEF CreateSnapshot, Return, serviceVars, publishedVars
<1>6. CASE Persist \/ PersistFails
  BY <1>1, <1>6 DEF Persist, PersistFails, serviceVars, publishedVars, Operation
<1>7. QED BY <1>2, <1>3, <1>4, <1>5, <1>6 DEF RunAnalysis

\* A notification is refused only for its repository.
LEMMA InvalidationOutcome ==
    ASSUME TypeOK, FollowInv, wEpoch \in Nat, NEW r \in Roots, NEW reason, NotifyInvalidated(r, reason)
    PROVE  /\ UNCHANGED <<disk, disposed, phase, op>>
           /\ \/ /\ changeGeneration' = changeGeneration + 1 /\ pendingOverflow' = TRUE
                 /\ pendingChanges' = NoPendingChanges
                 /\ watcherEpoch' = wEpoch + 1 /\ watcherSequence' = 0
              \/ /\ UNCHANGED vars
                 /\ disposed \/ (reason # "workspace-change" /\ rootPath \notin {None, r})
<1>1. watcherEpoch \in Nat /\ watcherEpoch <= wEpoch
  BY DEF TypeOK, FollowInv
<1>2. wEpoch + 1 >= watcherEpoch /\ wEpoch + 1 # watcherEpoch
  BY <1>1
<1>3. CASE AcceptsInvalidation(r, wEpoch + 1, reason)
  BY <1>3 DEF NotifyInvalidated, RepositoryWatcherInvalidated
<1>4. CASE ~AcceptsInvalidation(r, wEpoch + 1, reason)
  <2>1. UNCHANGED vars
    BY <1>4 DEF NotifyInvalidated
  <2>2. disposed \/ (reason # "workspace-change" /\ rootPath \notin {None, r})
    BY <1>2, <1>4 DEF AcceptsInvalidation
  <2>3. QED BY <2>1, <2>2 DEF vars
<1>5. QED BY <1>3, <1>4

LEMMA FilesChangedOutcome ==
    ASSUME TypeOK, FollowInv, wEpoch \in Nat, wSequence \in Nat, NotifyFilesChanged
    PROVE  /\ UNCHANGED <<disk, disposed, phase, op, incrementalBaseline>>
           /\ \/ /\ changeGeneration' = changeGeneration + 1
                 /\ watcherEpoch' = wEpoch /\ watcherSequence' = wSequence + 1
                 /\ pendingChanges' = [p \in Paths |-> IF p \in PendingPaths THEN changeGeneration + 1
                                                                           ELSE KnownPending(wEpoch)[p]]
                 /\ pendingOverflow \/ MissedEpoch(wEpoch) => pendingOverflow'
              \/ /\ UNCHANGED vars
                 /\ disposed \/ rootPath \notin {None, wRoot}
<1>1. /\ watcherEpoch \in Nat /\ watcherEpoch <= wEpoch /\ watcherSequence \in Nat
      /\ watcherEpoch = wEpoch => watcherSequence <= wSequence
  BY DEF TypeOK, FollowInv
<1>2. wEpoch >= watcherEpoch /\ (wEpoch = watcherEpoch => wSequence + 1 > watcherSequence)
  <2>1. wEpoch >= watcherEpoch
    BY <1>1
  <2>2. ASSUME wEpoch = watcherEpoch PROVE wSequence + 1 > watcherSequence
    <3>1. watcherSequence <= wSequence
      BY <1>1, <2>2
    <3>2. QED BY <1>1, <3>1
  <2>3. QED BY <2>1, <2>2
<1>3. CASE AcceptsFilesChanged(wRoot, wEpoch, wSequence + 1)
  <2>1. RepositoryFilesChanged(wRoot, wEpoch, wSequence + 1, PendingPaths)
    BY <1>3 DEF NotifyFilesChanged
  <2>2. QED BY <2>1 DEF RepositoryFilesChanged
<1>4. CASE ~AcceptsFilesChanged(wRoot, wEpoch, wSequence + 1)
  <2>1. UNCHANGED vars
    BY <1>4 DEF NotifyFilesChanged
  <2>2. disposed \/ rootPath \notin {None, wRoot}
    BY <1>2, <1>4 DEF AcceptsFilesChanged
  <2>3. QED BY <2>1, <2>2 DEF vars, publishedVars
<1>5. QED BY <1>3, <1>4

LEMMA FollowInit == WorkspaceInit => FollowInv
BY DEF WorkspaceInit, Init, Activated, WatcherInit, FollowInv, NoPendingChanges

LEMMA FollowNext ==
    SafeInv /\ WatcherInv /\ FollowInv /\ [WorkspaceNext]_workspaceVars => FollowInv'
<1> SUFFICES ASSUME SafeInv, WatcherInv, FollowInv, [WorkspaceNext]_workspaceVars PROVE FollowInv'
  OBVIOUS
<1>1. TypeOK /\ wEpoch \in Nat /\ wSequence \in Nat
  BY DEF SafeInv, TypeInv, WatcherInv, WatcherTypeOK
<1>2. changeGeneration \in Nat /\ pendingChanges \in [Paths -> Nat] /\ watcherEpoch \in Nat /\ watcherSequence \in Nat
      /\ op.generation \in Nat
  BY <1>1 DEF TypeOK, Operation
<1>3. CASE UNCHANGED <<watchVars, wEpoch, wSequence>>
  BY <1>3 DEF watchVars, FollowInv
<1>4. ASSUME NEW r \in Roots, NEW reason, NotifyInvalidated(r, reason), wEpoch' = wEpoch + 1, wSequence' = 0
      PROVE  FollowInv'
  <2>1. CASE UNCHANGED vars
    BY <1>1, <1>2, <1>4, <2>1 DEF vars, watchVars, FollowInv
  <2>2. CASE ~UNCHANGED vars
    <3>1. /\ changeGeneration' = changeGeneration + 1 /\ pendingChanges' = NoPendingChanges
          /\ watcherEpoch' = wEpoch + 1 /\ watcherSequence' = 0
      BY <1>1, <1>4, <2>2, InvalidationOutcome
    <3>2. \A p \in Paths : pendingChanges'[p] <= changeGeneration'
      BY <1>2, <3>1 DEF NoPendingChanges
    <3>3. watcherEpoch' <= wEpoch' /\ watcherSequence' <= wSequence'
      BY <1>1, <1>4, <3>1
    <3>4. QED BY <3>2, <3>3 DEF FollowInv
  <2>3. QED BY <2>1, <2>2
<1>5. CASE ServiceStep
  <2>1. /\ RunAnalysis \/ AutomaticRefresh
        /\ UNCHANGED <<wEpoch, wSequence>>
    BY <1>5 DEF ServiceStep, watcherVars
  <2>2. UNCHANGED <<changeGeneration, watcherEpoch, watcherSequence>>
    BY <2>1, ServiceFrame
  <2>3. \A p \in Paths : pendingChanges'[p] <= changeGeneration
    BY <1>2, <2>1, PendingFrame DEF FollowInv, AcknowledgeChanges
  <2>4. QED BY <2>1, <2>2, <2>3 DEF FollowInv
<1>6. CASE Queue
  BY <1>3, <1>6 DEF Queue, QueueChange, vars
<1>7. CASE Overflow
  <2>1. wRoot \in Roots
    BY <1>7 DEF Overflow, InvalidateForOverflow, WatcherInv, WatcherTypeOK
  <2>2. QED BY <1>4, <1>7, <2>1 DEF Overflow, InvalidateForOverflow, NewWatcher
<1>8. CASE Flush
  <2>1. CASE FlushEmits
    <3>1. NotifyFilesChanged /\ wSequence' = wSequence + 1 /\ wEpoch' = wEpoch
      BY <1>8, <2>1 DEF Flush, FlushChanges
    <3>2. CASE UNCHANGED vars
      BY <1>1, <1>2, <3>1, <3>2 DEF vars, watchVars, FollowInv
    <3>3. CASE ~UNCHANGED vars
      <4>1. /\ changeGeneration' = changeGeneration + 1
            /\ watcherEpoch' = wEpoch /\ watcherSequence' = wSequence + 1
            /\ pendingChanges' = [p \in Paths |-> IF p \in PendingPaths THEN changeGeneration + 1
                                                                      ELSE KnownPending(wEpoch)[p]]
        BY <1>1, <3>1, <3>3, FilesChangedOutcome
      <4>2. \A p \in Paths : KnownPending(wEpoch)[p] <= changeGeneration /\ KnownPending(wEpoch)[p] \in Nat
        BY <1>2 DEF KnownPending, NoPendingChanges, FollowInv
      <4>3. QED BY <1>1, <1>2, <3>1, <4>1, <4>2 DEF FollowInv
    <3>4. QED BY <3>2, <3>3
  <2>2. CASE ~FlushEmits
    BY <1>3, <1>8, <2>2 DEF Flush, FlushChanges, vars
  <2>3. QED BY <2>1, <2>2
<1>9. CASE UserRequest
  BY <1>3, <1>9 DEF UserRequest, Analyze, Refresh, Abort, StartAnalysis, serviceVars, watcherVars
<1>10. CASE Deactivate
  BY <1>1, <1>2, <1>10 DEF Deactivate, Dispose, StopWatching, FollowInv, NoPendingChanges
<1>11. ASSUME NEW r \in Roots, NEW p \in Paths, NEW c \in Contents, Edit(r, p, c) PROVE FollowInv'
  BY <1>3, <1>11 DEF Edit, EditFile, EditorObserves, watcherVars
<1>12. ASSUME NEW r \in Roots \cup {None}, SwitchWorkspace(r) PROVE FollowInv'
  <2>1. wEpoch' = wEpoch + 1 /\ wSequence' = 0
    BY <1>12 DEF SwitchWorkspace, ReplaceWorkspace, NewWatcher
  <2>2. CASE r = None
    BY <1>1, <1>2, <1>12, <2>1, <2>2 DEF SwitchWorkspace, FollowInv, vars, watchVars
  <2>3. CASE r # None
    BY <1>4, <1>12, <2>1, <2>3 DEF SwitchWorkspace
  <2>4. QED BY <2>2, <2>3
<1>13. ASSUME NEW r \in Roots, RestartWindow(r) PROVE FollowInv'
  BY <1>13 DEF RestartWindow, RestartExtension, RestartUnrestored, NewProcess, FollowInv, NoPendingChanges
<1>14. CASE UNCHANGED workspaceVars
  BY <1>3, <1>14 DEF workspaceVars, vars, watcherVars
<1>15. QED
  BY <1>5, <1>6, <1>7, <1>8, <1>9, <1>10, <1>11, <1>12, <1>13, <1>14 DEF WorkspaceNext, WatcherStep

-----------------------------------------------------------------------------
(* The steps of an analysis *)

LossInv == NoLostChange /\ ObservationInv

\* What the service publishes for a repository is what it follows.
LEMMA BaselineIsFollowed ==
    ASSUME SafeInv, incrementalBaseline # None
    PROVE  incrementalBaseline.root = rootPath /\ incrementalBaseline.root \in Roots
<1>1. /\ current # None /\ incrementalBaseline.root = current.root /\ rootPath = current.root
      /\ incrementalBaseline \in Baseline
  BY DEF SafeInv, Safe, BaselineMatchesCurrent, CurrentIsStored, TypeInv, TypeOK
<1>2. QED BY <1>1 DEF Baseline

\* A step that leaves files and watcher alone leaves what is on its way there.
LEMMA StillInFlight ==
    ASSUME UNCHANGED <<disk, watcherVars>>
    PROVE  /\ \A p : InFlight(p)' <=> InFlight(p)
           /\ wRoot' = wRoot
BY DEF watcherVars, InFlight

\* The pipeline observed the paths it was to observe, and its baseline covers the rest.
LEMMA ObservationIsWatched ==
    ASSUME SafeInv, LossInv, Orchestrate, ~disposed, ~Superseded, op.root = wRoot
    PROVE  Watched(op'.content)
<1>1. phase = "orchestrating" /\ op \in Operation
  BY DEF Orchestrate, SafeInv, TypeInv, TypeOK
<1>2. PICK seen \in Sightings, observed \in ObservedPaths :
          op' = [op EXCEPT
              !.content = [p \in Paths |-> IF p \in observed THEN seen[p] ELSE op.baseline[p]],
              !.since = disk[op.root]]
  BY DEF Orchestrate
<1>3. op'.content = [p \in Paths |-> IF p \in observed THEN seen[p] ELSE op.baseline[p]]
  BY <1>1, <1>2 DEF Operation
<1>4. /\ Watched(op.since)
      /\ op.baseline # None => ~pendingOverflow /\ \A p \in Paths : pendingChanges[p] # 0 => p \in op.changed
  BY <1>1 DEF LossInv, ObservationInv, Observing
<1> SUFFICES ASSUME NEW p \in Paths, op'.content[p] # disk[wRoot][p] PROVE InFlight(p)
  BY DEF Watched
<1>5. CASE p \in observed
  <2>1. seen[p] \in {op.since[p], disk[op.root][p]}
    BY DEF Sightings
  <2>2. QED BY <1>3, <1>4, <1>5, <2>1 DEF Watched
<1>6. CASE p \notin observed
  <2>1. op.baseline # None /\ p \notin op.changed
    BY <1>6 DEF ObservedPaths
  <2>2. incrementalBaseline = [root |-> op.root, content |-> op.baseline]
    BY <1>1, <2>1 DEF SafeInv, Safe, OperationTracksService, ComparesWithTheBaseline
  <2>3. incrementalBaseline.content[p] # disk[wRoot][p] /\ incrementalBaseline.root = wRoot
    BY <1>3, <1>6, <2>2
  <2>4. incrementalBaseline # None
    <3>1. wRoot \in Roots
      BY <1>1 DEF SafeInv, TypeInv, TypeOK, AssignedLocals
    <3>2. [root |-> op.root, content |-> op.baseline] # None
      <4>1. incrementalBaseline \in Baseline \cup {None}
        BY DEF SafeInv, TypeInv, TypeOK
      <4>2. op.baseline \in Observation
        BY <1>1, <2>1 DEF Operation
      <4>3. [root |-> op.root, content |-> op.baseline] \in Baseline
        BY <3>1, <4>2 DEF Baseline
      <4>4. QED BY <2>2, <4>3, NullAssumption
    <3>3. QED BY <2>2, <3>2
  <2>5. Unprocessed(p)
    BY <2>3, <2>4 DEF LossInv, NoLostChange
  <2>6. pendingChanges[p] = 0 /\ ~pendingOverflow
    BY <1>4, <2>1
  <2>7. QED BY <2>5, <2>6 DEF Unprocessed, InFlight
<1>7. QED BY <1>5, <1>6

LEMMA LossOfBaseline ==
    ASSUME SafeInv, LossInv, RunAnalysis \/ AutomaticRefresh, UNCHANGED watcherVars
    PROVE  NoLostChange'
<1>1. UNCHANGED <<disk, disposed, changeGeneration>>
  BY ServiceFrame
<1>2. wRoot' = wRoot /\ \A p : InFlight(p)' <=> InFlight(p)
  BY <1>1, StillInFlight
<1>3. CASE KeepCurrent \/ Publish
  <2>1. /\ incrementalBaseline' = [root |-> op.root, content |-> op.content]
        /\ phase \in Observed /\ ~Superseded
    BY <1>3 DEF KeepCurrent, Publish, Unsuperseded, Outdated, Observed
  <2> SUFFICES ASSUME ~disposed, op.root = wRoot, NEW p \in Paths, op.content[p] # disk[wRoot][p]
               PROVE  Unprocessed(p)'
    BY <1>1, <1>2, <2>1 DEF NoLostChange
  <2>2. InFlight(p)
    BY <2>1 DEF LossInv, ObservationInv, Observing, Watched
  <2>3. QED BY <1>2, <2>2 DEF Unprocessed, InFlight
<1>4. CASE Restore
  BY <1>4 DEF Restore, ClearCurrent, NoLostChange
<1>5. CASE UNCHANGED <<incrementalBaseline, rootPath>> /\ ~KeepCurrent /\ ~Publish
  <2>1. UNCHANGED <<pendingChanges, pendingOverflow>>
    BY <1>5, PendingFrame
  <2>2. \A p \in Paths : Unprocessed(p)' <=> Unprocessed(p)
    BY <1>2, <2>1 DEF Unprocessed, InFlight
  <2>3. QED BY <1>1, <1>2, <1>5, <2>2 DEF LossInv, NoLostChange
<1>6. QED BY <1>3, <1>4, <1>5, BaselineFrame

LEMMA LossOfObservation ==
    ASSUME SafeInv, FollowInv, LossInv, RunAnalysis \/ AutomaticRefresh, UNCHANGED watcherVars
    PROVE  ObservationInv'
<1> SUFFICES ASSUME ~disposed', ~Superseded', op'.root = wRoot', phase' \in Observing
             PROVE  /\ rootPath' \in {None, wRoot}
                    /\ phase' \in Observed => Watched(op'.content)
                    /\ phase' = "orchestrating" =>
                          /\ Watched(op'.since)
                          /\ op'.baseline # None =>
                               ~pendingOverflow' /\ \A p \in Paths : pendingChanges'[p] # 0 => p \in op'.changed
  <2>1. UNCHANGED disk
    BY ServiceFrame
  <2>2. wRoot' = wRoot /\ \A p : InFlight(p)' <=> InFlight(p)
    BY <2>1, StillInFlight
  <2>3. \A content : (\A p \in Paths : content[p] # disk'[wRoot'][p] => InFlight(p)') <=> Watched(content)
    BY <2>1, <2>2 DEF Watched
  <2>4. QED BY <2>2, <2>3 DEF ObservationInv, Watched
<1>1. UNCHANGED <<disk, disposed, changeGeneration, wRoot>> /\ ~disposed
  BY ServiceFrame DEF watcherVars
<1>2. TypeOK /\ op \in Operation /\ pendingChanges \in [Paths -> Nat] /\ op.generation \in Nat
  BY DEF SafeInv, TypeInv, TypeOK, Operation
<1>3. ASSUME NEW tree \in Observation \cup {None}, ReceiveWorkingTree(tree)
      PROVE  /\ phase' = "orchestrating" /\ rootPath' = wRoot /\ Watched(op'.since)
             /\ op'.baseline # None =>
                   ~pendingOverflow' /\ \A p \in Paths : pendingChanges'[p] # 0 => p \in op'.changed
  <2> DEFINE inputs == [op EXCEPT !.tree = tree, !.changed = ChangedPaths, !.baseline = PreviousBaseline]
  <2>1. /\ phase' = "orchestrating" /\ rootPath = op.root
        /\ op' = [inputs EXCEPT !.since = disk[op.root],
                                !.previous = IF current = None THEN 0 ELSE current.version]
    BY <1>3 DEF ReceiveWorkingTree, Return, Observing, Observed
  <2>2. UNCHANGED <<rootPath, pendingChanges, pendingOverflow>>
    BY <1>3 DEF ReceiveWorkingTree, serviceVars, watchVars, publishedVars
  <2>3. /\ op'.root = op.root /\ op'.generation = op.generation /\ op'.since = disk[op.root]
        /\ op'.changed = ChangedPaths /\ op'.baseline = PreviousBaseline
    BY <1>2, <2>1 DEF Operation
  <2>4. op.generation = changeGeneration
    BY <1>1, <2>3 DEF Superseded
  <2>5. \A p \in Paths : pendingChanges[p] # 0 => p \in ChangedPaths
    BY <1>2, <2>4 DEF ChangedPaths, FollowInv
  <2>6. PreviousBaseline # None => ~pendingOverflow
    BY DEF PreviousBaseline
  <2>7. rootPath' = wRoot /\ Watched(op'.since)
    BY <1>1, <2>1, <2>2, <2>3 DEF Watched
  <2>8. QED BY <2>1, <2>2, <2>3, <2>5, <2>6, <2>7
<1>4. CASE Restore
  <2>1. /\ phase = "restoring" /\ phase' = "orchestrating"
        /\ op' = [op EXCEPT !.previous = op.restored, !.since = disk[op.root]]
        /\ rootPath' \in {None, op.root}
    BY <1>4 DEF Restore, ClearCurrent
  <2>2. op'.root = op.root /\ op'.since = disk[op.root] /\ op'.baseline = op.baseline
    BY <1>2, <2>1 DEF Operation
  <2>3. op.baseline = None
    BY <2>1 DEF SafeInv, Safe, OperationTracksService, RestoresAnotherRepository
  <2>4. Watched(op'.since)
    BY <1>1, <2>2 DEF Watched
  <2>5. QED BY <1>1, <2>1, <2>2, <2>3, <2>4 DEF Observed
<1>5. CASE Orchestrate
  <2>1. /\ phase = "orchestrating" /\ phase' = "workingTreeAfter" /\ UNCHANGED rootPath
        /\ op'.root = op.root /\ op'.generation = op.generation
    BY <1>2, <1>5 DEF Orchestrate, serviceVars, publishedVars, Operation
  <2>2. ~Superseded /\ op.root = wRoot
    BY <1>1, <2>1 DEF Superseded
  <2>3. Watched(op'.content)
    BY <1>1, <1>5, <2>2, ObservationIsWatched
  <2>4. rootPath \in {None, wRoot}
    BY <1>1, <2>1, <2>2 DEF LossInv, ObservationInv, Observing
  <2>5. QED BY <2>1, <2>3, <2>4
<1>6. CASE /\ phase \in Observed /\ phase' \in Observed
           /\ op'.root = op.root /\ op'.generation = op.generation /\ op'.content = op.content
           /\ UNCHANGED rootPath
  <2>1. ~Superseded /\ op.root = wRoot
    BY <1>1, <1>6 DEF Superseded
  <2>2. rootPath \in {None, wRoot} /\ Watched(op.content)
    BY <1>1, <1>6, <2>1 DEF LossInv, ObservationInv, Observing
  <2>3. phase' # "orchestrating"
    BY <1>6 DEF Observed
  <2>4. QED BY <1>6, <2>2, <2>3
<1>7. CASE UNCHANGED <<phase, op, rootPath, pendingChanges, pendingOverflow>>
  <2>1. ~Superseded /\ op.root = wRoot /\ phase \in Observing
    BY <1>1, <1>7 DEF Superseded
  <2>2. QED BY <1>1, <1>7, <2>1 DEF LossInv, ObservationInv
<1>8. QED
  <2>1. \/ \E tree \in Observation \cup {None} : ReceiveWorkingTree(tree)
        \/ Restore \/ Orchestrate
        \/ /\ phase \in Observed /\ phase' \in Observed
           /\ op'.root = op.root /\ op'.generation = op.generation /\ op'.content = op.content
           /\ UNCHANGED rootPath
        \/ UNCHANGED <<phase, op, rootPath, pendingChanges, pendingOverflow>>
    BY <1>2, PhaseFrame
  <2>2. "orchestrating" \notin Observed
    BY DEF Observed
  <2>3. ASSUME NEW tree \in Observation \cup {None}, ReceiveWorkingTree(tree)
        PROVE  /\ rootPath' \in {None, wRoot}
               /\ phase' \in Observed => Watched(op'.content)
               /\ phase' = "orchestrating" =>
                     /\ Watched(op'.since)
                     /\ op'.baseline # None =>
                          ~pendingOverflow' /\ \A p \in Paths : pendingChanges'[p] # 0 => p \in op'.changed
    BY <1>3, <2>2, <2>3
  <2>4. QED BY <1>4, <1>5, <1>6, <1>7, <2>1, <2>3

-----------------------------------------------------------------------------
(* The steps of editor, watcher and users *)

\* A superseded analysis publishes nothing.
LEMMA SupersededIsHarmless ==
    ASSUME SafeInv, changeGeneration' = changeGeneration + 1, UNCHANGED <<phase, op>>
    PROVE  ObservationInv'
<1>1. op.generation <= changeGeneration /\ op.generation \in Nat /\ changeGeneration \in Nat
  BY DEF SafeInv, TypeInv, TypeOK, Operation, Safe, OperationTracksService, GenerationIsPast
<1>2. Superseded'
  BY <1>1 DEF Superseded
<1>3. QED BY <1>2 DEF ObservationInv

\* What else leaves the service alone has only to keep what is on its way.
LEMMA KeptInFlight ==
    ASSUME LossInv, UNCHANGED vars, UNCHANGED wRoot, \A p \in Paths : InFlight(p) => InFlight(p)'
    PROVE  LossInv'
<1>1. NoLostChange'
  <2>1. \A p \in Paths : Unprocessed(p) => Unprocessed(p)'
    BY DEF Unprocessed, InFlight, vars, watchVars
  <2>2. QED BY <2>1 DEF LossInv, NoLostChange, vars, publishedVars
<1>2. ObservationInv'
  BY DEF LossInv, ObservationInv, Watched, Superseded, vars, publishedVars, watchVars
<1>3. QED BY <1>1, <1>2 DEF LossInv

LEMMA LossOfQueue ==
    ASSUME WatcherInv, LossInv, Queue, ~CancelsOut
    PROVE  LossInv'
<1>1. /\ fileEvents # <<>> /\ fileEvents' = Tail(fileEvents) /\ wPending' = Merged /\ UNCHANGED wRoot
      /\ UNCHANGED vars
  BY DEF Queue, QueueChange
<1> DEFINE event == Head(fileEvents)
<1>2. /\ event \in FileEvent /\ fileEvents' \in Seq(FileEvent) /\ Len(fileEvents') = Len(fileEvents) - 1
      /\ \A p \in Paths : p # event.path => wPending'[p] = wPending[p]
      /\ wPending'[event.path] = MergeKinds(wPending[event.path], event.kind)
      /\ fileEvents \in Seq(FileEvent) /\ wPending \in [Paths -> Kinds \cup {None}]
  BY <1>1, MergedFacts DEF WatcherInv, WatcherTypeOK
<1>3. \A i \in 1 .. Len(fileEvents') : fileEvents'[i] = fileEvents[i + 1]
  BY <1>1, <1>2
<1>4. event = fileEvents[1]
  BY <1>1, <1>2
<1>5. wPending'[event.path] # None
  <2>1. event.kind \in Kinds /\ wPending[event.path] \in Kinds \cup {None}
    BY <1>2 DEF FileEvent
  <2>2. ~(wPending[event.path] = "created" /\ event.kind = "deleted")
    BY <1>1 DEF CancelsOut
  <2> HIDE DEF event
  <2>3. QED BY <1>2, <2>1, <2>2, KindsAssumption DEF MergeKinds, Kinds
<1> HIDE DEF event
<1>6. ASSUME NEW p \in Paths, InFlight(p) PROVE InFlight(p)'
  <2>1. CASE p = event.path
    BY <1>5, <2>1 DEF InFlight
  <2>2. CASE p # event.path /\ wPending[p] # None
    BY <1>2, <2>2 DEF InFlight
  <2>3. CASE p # event.path /\ \E i \in 1 .. Len(fileEvents) : fileEvents[i].path = p
    <3>1. PICK i \in 1 .. Len(fileEvents) : fileEvents[i].path = p
      BY <2>3
    <3>2. i # 1
      BY <1>4, <2>3, <3>1
    <3>3. i - 1 \in 1 .. Len(fileEvents') /\ (i - 1) + 1 = i
      BY <1>2, <3>1, <3>2
    <3>4. fileEvents'[i - 1].path = p
      BY <1>3, <3>1, <3>3
    <3>5. QED BY <3>3, <3>4 DEF InFlight
  <2>4. QED BY <1>6, <2>1, <2>2, <2>3 DEF InFlight
<1>7. QED BY <1>1, <1>6, KeptInFlight

\* A new watcher that tells the service of itself, or of whose folder the service
\* follows another repository
LEMMA LossOfWatcher ==
    ASSUME SafeInv, WatcherInv, FollowInv, LossInv, NEW r \in Roots, NEW reason, NotifyInvalidated(r, reason),
           wRoot' = r, reason # "workspace-change" => wRoot = r
    PROVE  LossInv'
<1>1. TypeOK /\ wEpoch \in Nat
  BY DEF SafeInv, TypeInv, WatcherInv, WatcherTypeOK
<1>2. /\ UNCHANGED <<disk, disposed, phase, op>>
      /\ \/ changeGeneration' = changeGeneration + 1 /\ pendingOverflow' = TRUE
         \/ /\ UNCHANGED vars
            /\ disposed \/ (reason # "workspace-change" /\ rootPath \notin {None, r})
  BY <1>1, InvalidationOutcome
<1>3. CASE changeGeneration' = changeGeneration + 1 /\ pendingOverflow' = TRUE
  <2>1. NoLostChange'
    BY <1>3 DEF NoLostChange, Unprocessed
  <2>2. QED BY <1>2, <1>3, <2>1, SupersededIsHarmless DEF LossInv
<1>4. CASE UNCHANGED vars /\ disposed
  BY <1>4 DEF LossInv, NoLostChange, ObservationInv, vars
<1>5. CASE UNCHANGED vars /\ ~disposed /\ wRoot = r /\ rootPath \notin {None, r}
  <2>1. NoLostChange'
    <3>1. incrementalBaseline # None => incrementalBaseline.root # r
      BY <1>5, BaselineIsFollowed
    <3>2. QED BY <1>5, <3>1 DEF NoLostChange, vars, publishedVars
  <2>2. ObservationInv'
    BY <1>5 DEF LossInv, ObservationInv, Superseded, vars, publishedVars, watchVars
  <2>3. QED BY <2>1, <2>2 DEF LossInv
<1>6. QED BY <1>2, <1>3, <1>4, <1>5

LEMMA LossOfFlush ==
    ASSUME SafeInv, WatcherInv, FollowInv, LossInv, Flush
    PROVE  LossInv'
<1>1. TypeOK /\ wEpoch \in Nat /\ wSequence \in Nat /\ changeGeneration \in Nat
  BY DEF SafeInv, TypeInv, WatcherInv, WatcherTypeOK, TypeOK
<1>2. UNCHANGED <<wRoot, fileEvents>>
  BY DEF Flush, FlushChanges
<1>3. CASE ~FlushEmits
  <2>1. UNCHANGED vars /\ UNCHANGED wPending
    BY <1>3 DEF Flush, FlushChanges
  <2>2. \A p \in Paths : InFlight(p) => InFlight(p)'
    BY <1>2, <2>1 DEF InFlight
  <2>3. QED BY <1>2, <2>1, <2>2, KeptInFlight
<1>4. CASE FlushEmits
  <2>1. NotifyFilesChanged
    BY <1>4 DEF Flush
  <2>2. /\ UNCHANGED <<disk, disposed, phase, op, incrementalBaseline>>
        /\ \/ /\ changeGeneration' = changeGeneration + 1
              /\ pendingChanges' = [p \in Paths |-> IF p \in PendingPaths THEN changeGeneration + 1
                                                                        ELSE KnownPending(wEpoch)[p]]
              /\ pendingOverflow \/ MissedEpoch(wEpoch) => pendingOverflow'
           \/ /\ UNCHANGED vars
              /\ disposed \/ rootPath \notin {None, wRoot}
    BY <1>1, <2>1, FilesChangedOutcome
  <2>3. CASE /\ changeGeneration' = changeGeneration + 1
             /\ pendingChanges' = [p \in Paths |-> IF p \in PendingPaths THEN changeGeneration + 1
                                                                       ELSE KnownPending(wEpoch)[p]]
             /\ pendingOverflow \/ MissedEpoch(wEpoch) => pendingOverflow'
    <3>1. ASSUME NEW p \in Paths, Unprocessed(p) PROVE Unprocessed(p)'
      <4>1. CASE \E i \in 1 .. Len(fileEvents) : fileEvents[i].path = p
        BY <1>2, <4>1 DEF Unprocessed
      <4>2. CASE p \in PendingPaths
        <5>1. pendingChanges'[p] = changeGeneration + 1
          BY <2>3, <4>2
        <5>2. pendingChanges'[p] # 0
          BY <1>1, <5>1
        <5>3. QED BY <5>2 DEF Unprocessed
      <4>3. CASE p \notin PendingPaths /\ pendingChanges[p] # 0 /\ ~MissedEpoch(wEpoch)
        <5>1. pendingChanges'[p] = pendingChanges[p]
          BY <2>3, <4>3 DEF KnownPending
        <5>2. QED BY <4>3, <5>1 DEF Unprocessed
      <4>4. CASE pendingOverflow \/ MissedEpoch(wEpoch)
        BY <2>3, <4>4 DEF Unprocessed
      <4>5. QED BY <3>1, <4>1, <4>2, <4>3, <4>4 DEF Unprocessed, PendingPaths
    <3>2. NoLostChange'
      BY <1>2, <2>2, <3>1 DEF LossInv, NoLostChange
    <3>3. QED BY <2>2, <2>3, <3>2, SupersededIsHarmless DEF LossInv
  <2>4. CASE UNCHANGED vars /\ (disposed \/ rootPath \notin {None, wRoot})
    <3>1. NoLostChange'
      <4>1. CASE disposed
        BY <2>4, <4>1 DEF NoLostChange, vars
      <4>2. CASE rootPath \notin {None, wRoot}
        <5>1. incrementalBaseline # None => incrementalBaseline.root # wRoot
          BY <4>2, BaselineIsFollowed
        <5>2. QED BY <1>2, <2>4, <5>1 DEF NoLostChange, vars, publishedVars
      <4>3. QED BY <2>4, <4>1, <4>2
    <3>2. ObservationInv'
      BY <1>2, <2>4 DEF LossInv, ObservationInv, Superseded, vars, publishedVars, watchVars
    <3>3. QED BY <3>1, <3>2 DEF LossInv
  <2>5. QED BY <2>2, <2>3, <2>4
<1>5. QED BY <1>3, <1>4

LEMMA LossOfEdit ==
    ASSUME SafeInv, WatcherInv, LossInv, NEW r \in Roots, NEW p \in Paths, NEW c \in Contents, Edit(r, p, c)
    PROVE  LossInv'
<1>1. /\ disk' = [disk EXCEPT ![r][p] = c]
      /\ UNCHANGED <<watchVars, publishedVars, disposed, phase, op>>
      /\ UNCHANGED <<wRoot, wPending>>
  BY DEF Edit, EditFile, EditorObserves, watcherVars
<1>2. disk \in [Roots -> Observation]
  BY DEF SafeInv, TypeInv, TypeOK
<1>3. CASE disposed
  BY <1>1, <1>3 DEF LossInv, NoLostChange, ObservationInv
<1>4. CASE ~disposed
  <2>1. ASSUME NEW q \in Paths, InFlight(q) PROVE InFlight(q)'
    <3>1. CASE wPending[q] # None
      BY <1>1, <3>1 DEF InFlight
    <3>2. CASE \E i \in 1 .. Len(fileEvents) : fileEvents[i].path = q
      <4>1. PICK i \in 1 .. Len(fileEvents) : fileEvents[i].path = q
        BY <3>2
      <4>2. fileEvents \in Seq(FileEvent)
        BY DEF WatcherInv, WatcherTypeOK
      <4>3. i \in 1 .. Len(fileEvents') /\ fileEvents'[i] = fileEvents[i]
        BY <4>1, <4>2 DEF Edit, EditorObserves, watcherVars
      <4>4. QED BY <4>1, <4>3 DEF InFlight
    <3>3. QED BY <2>1, <3>1, <3>2 DEF InFlight
  <2>2. r = wRoot => InFlight(p)'
    <3> SUFFICES ASSUME r = wRoot PROVE InFlight(p)'
      OBVIOUS
    <3> DEFINE event == [kind |-> ChangeKind(disk[r][p], c), path |-> p]
    <3>1. fileEvents' = Append(fileEvents, event) /\ fileEvents \in Seq(FileEvent)
      BY <1>4 DEF Edit, EditorObserves, WatcherInv, WatcherTypeOK
    <3>2. event.path = p
      OBVIOUS
    <3> HIDE DEF event
    <3>3. Len(fileEvents') = Len(fileEvents) + 1 /\ fileEvents'[Len(fileEvents) + 1] = event
      BY <3>1
    <3>4. Len(fileEvents) + 1 \in 1 .. Len(fileEvents')
      BY <3>1, <3>3
    <3>5. QED BY <3>2, <3>3, <3>4 DEF InFlight
  <2>3. \A q \in Paths : disk'[wRoot][q] = disk[wRoot][q] \/ (r = wRoot /\ q = p)
    BY <1>1, <1>2 DEF Observation
  <2>5. \A content : Watched(content) => \A q \in Paths : content[q] # disk'[wRoot][q] => InFlight(q)'
    BY <2>1, <2>2, <2>3 DEF Watched
  <2>6. ObservationInv'
    BY <1>1, <2>5 DEF LossInv, ObservationInv, Watched, Superseded, publishedVars, watchVars
  <2>7. \A q \in Paths : Unprocessed(q) => Unprocessed(q)'
    BY <1>1, <2>1 DEF Unprocessed, InFlight, watchVars
  <2>8. r = wRoot => Unprocessed(p)'
    BY <2>2 DEF Unprocessed, InFlight
  <2>9. NoLostChange'
    BY <1>1, <2>3, <2>7, <2>8 DEF LossInv, NoLostChange, publishedVars
  <2>10. QED BY <2>6, <2>9 DEF LossInv
<1>5. QED BY <1>3, <1>4

LEMMA LossOfSwitch ==
    ASSUME SafeInv, WatcherInv, FollowInv, LossInv, NEW r \in Roots \cup {None}, SwitchWorkspace(r)
    PROVE  LossInv'
<1>1. wRoot' = r
  BY DEF SwitchWorkspace, ReplaceWorkspace, NewWatcher
<1>2. CASE r # None
  <2>1. NotifyInvalidated(r, InvalidationReason(r)) /\ r \in Roots
    BY <1>2 DEF SwitchWorkspace
  <2>2. InvalidationReason(r) # "workspace-change" => wRoot = r
    BY DEF InvalidationReason
  <2>3. QED BY <1>1, <2>1, <2>2, LossOfWatcher
<1>3. CASE r = None
  <2>1. UNCHANGED vars /\ None \notin Roots
    BY <1>3, WorkspaceAssumption DEF SwitchWorkspace
  <2>2. NoLostChange'
    BY <1>1, <1>3, <2>1, BaselineIsFollowed DEF NoLostChange, vars, publishedVars
  <2>3. phase \in Observing => op.root \in Roots
    BY DEF SafeInv, TypeInv, TypeOK, AssignedLocals, Observing, Observed
  <2>4. ObservationInv'
    BY <1>1, <1>3, <2>1, <2>3 DEF ObservationInv, vars
  <2>5. QED BY <2>2, <2>4 DEF LossInv
<1>4. QED BY <1>2, <1>3

LEMMA LossOfRequest ==
    ASSUME SafeInv, LossInv, UserRequest
    PROVE  LossInv'
<1>1. UNCHANGED watcherVars
  BY DEF UserRequest
<1>2. op \in Operation
  BY DEF SafeInv, TypeInv, TypeOK
<1>3. /\ UNCHANGED <<disk, disposed, changeGeneration, pendingChanges, pendingOverflow, incrementalBaseline, rootPath>>
      /\ \/ phase' = "starting"
         \/ /\ UNCHANGED phase
            /\ op'.root = op.root /\ op'.generation = op.generation /\ op'.content = op.content
            /\ op'.since = op.since /\ op'.baseline = op.baseline /\ op'.changed = op.changed
  BY <1>2 DEF UserRequest, Analyze, Refresh, Abort, StartAnalysis, serviceVars, watchVars, publishedVars, Operation
<1>4. wRoot' = wRoot /\ \A p : InFlight(p)' <=> InFlight(p)
  BY <1>1, <1>3, StillInFlight
<1>5. NoLostChange'
  BY <1>3, <1>4 DEF LossInv, NoLostChange, Unprocessed, InFlight
<1>6. ObservationInv'
  <2>1. CASE phase' = "starting"
    BY <2>1 DEF ObservationInv, Observing, Observed
  <2>2. CASE phase' # "starting"
    BY <1>3, <1>4, <2>2 DEF LossInv, ObservationInv, Watched, Superseded
  <2>3. QED BY <2>1, <2>2
<1>7. QED BY <1>5, <1>6 DEF LossInv

LEMMA LossNext ==
    ASSUME SafeInv, WatcherInv, FollowInv, LossInv, [WorkspaceNext]_workspaceVars,
           [Queue => ~CancelsOut]_workspaceVars
    PROVE  LossInv'
<1>1. CASE ServiceStep
  BY <1>1, LossOfBaseline, LossOfObservation DEF ServiceStep, LossInv
<1>2. CASE Queue /\ ~UNCHANGED workspaceVars
  BY <1>2, LossOfQueue
<1>3. CASE Overflow
  <2>1. wRoot \in Roots /\ wRoot' = wRoot
    BY <1>3 DEF Overflow, InvalidateForOverflow, NewWatcher, WatcherInv, WatcherTypeOK
  <2>2. NotifyInvalidated(wRoot, "overflow")
    BY <1>3 DEF Overflow
  <2>3. QED BY <2>1, <2>2, LossOfWatcher
<1>4. CASE Flush
  BY <1>4, LossOfFlush
<1>5. CASE UserRequest
  BY <1>5, LossOfRequest
<1>6. CASE Deactivate
  BY <1>6 DEF Deactivate, Dispose, LossInv, NoLostChange, ObservationInv
<1>7. ASSUME NEW r \in Roots, NEW p \in Paths, NEW c \in Contents, Edit(r, p, c) PROVE LossInv'
  BY <1>7, LossOfEdit
<1>8. ASSUME NEW r \in Roots \cup {None}, SwitchWorkspace(r) PROVE LossInv'
  BY <1>8, LossOfSwitch
<1>9. ASSUME NEW r \in Roots, RestartWindow(r) PROVE LossInv'
  BY <1>9 DEF RestartWindow, RestartExtension, RestartUnrestored, NewProcess, LossInv, NoLostChange,
              ObservationInv, Observing, Observed
<1>10. CASE UNCHANGED workspaceVars
  <2>1. UNCHANGED vars /\ UNCHANGED watcherVars
    BY <1>10 DEF workspaceVars
  <2>2. UNCHANGED disk
    BY <2>1 DEF vars
  <2>3. QED BY <2>1, <2>2, StillInFlight, KeptInFlight
<1>11. QED
  BY <1>1, <1>2, <1>3, <1>4, <1>5, <1>6, <1>7, <1>8, <1>9, <1>10 DEF WorkspaceNext, WatcherStep

LEMMA LossInit == WorkspaceInit => LossInv
BY DEF WorkspaceInit, Init, Activated, WatcherInit, LossInv, NoLostChange, ObservationInv, Observing, Observed

\* No interleaving of edits, merged and dropped notifications, overflows, new
\* watchers, folder changes, superseded and completed analyses loses a change of a
\* file for good (notifications of the RepositoryWatcher and their handlers in
\* ProjectDNAService), provided no creation and deletion cancel each other out in
\* the watcher (mergeChangeKinds).
THEOREM NoChangeIsLost == WorkspaceSpec /\ NothingCancelsOut => []NoLostChange
<1>1. WorkspaceSpec => []WatcherInv
  BY WatcherInvInit, WatcherInvNext, PTL DEF WorkspaceSpec
<1>2. WorkspaceSpec => []SafeInv
  BY ExtensionImplementsService, SafeInvariance, PTL
<1>3. WorkspaceSpec => []FollowInv
  BY <1>1, <1>2, FollowInit, FollowNext, PTL DEF WorkspaceSpec
<1>4. WorkspaceSpec /\ NothingCancelsOut => []LossInv
  BY <1>1, <1>2, <1>3, LossInit, LossNext, PTL DEF WorkspaceSpec, NothingCancelsOut
<1>5. LossInv => NoLostChange
  BY DEF LossInv
<1>6. QED BY <1>4, <1>5, PTL

\* What the editor reports when no file is created or deleted
ModifiedOnly == \A i \in 1 .. Len(fileEvents) : fileEvents[i].kind = "modified"

LEMMA ModifiedOnlyNext ==
    ASSUME Absent \notin Contents, TypeOK, WatcherInv, ModifiedOnly, [WorkspaceNext]_workspaceVars
    PROVE  ModifiedOnly'
<1>1. fileEvents \in Seq(FileEvent)
  BY DEF WatcherInv, WatcherTypeOK
<1>2. CASE UNCHANGED fileEvents
  BY <1>2 DEF ModifiedOnly
<1>3. CASE fileEvents' = <<>>
  BY <1>3 DEF ModifiedOnly
<1>4. CASE Queue
  <2>1. fileEvents # <<>> /\ fileEvents' = Tail(fileEvents)
    BY <1>4 DEF Queue, QueueChange
  <2>2. Len(fileEvents') = Len(fileEvents) - 1 /\ \A i \in 1 .. Len(fileEvents') : fileEvents'[i] = fileEvents[i + 1]
    BY <1>1, <2>1
  <2>3. Len(fileEvents) \in Nat
    BY <1>1
  <2>4. \A i \in 1 .. Len(fileEvents') : i + 1 \in 1 .. Len(fileEvents)
    BY <2>2, <2>3
  <2>5. QED BY <2>2, <2>4 DEF ModifiedOnly
<1>5. ASSUME NEW r \in Roots, NEW p \in Paths, NEW c \in Contents, Edit(r, p, c) PROVE ModifiedOnly'
  <2>1. disk[r][p] # Absent /\ c # Absent
    BY DEF TypeOK, Observation
  <2>2. CASE ~UNCHANGED fileEvents
    <3>1. fileEvents' = Append(fileEvents, [kind |-> "modified", path |-> p])
      BY <1>5, <2>1, <2>2 DEF Edit, EditorObserves, ChangeKind, watcherVars
    <3> DEFINE event == [kind |-> "modified", path |-> p]
    <3>2. event.kind = "modified"
      OBVIOUS
    <3> HIDE DEF event
    <3>3. /\ Len(fileEvents') = Len(fileEvents) + 1 /\ fileEvents'[Len(fileEvents) + 1] = event
          /\ \A i \in 1 .. Len(fileEvents) : fileEvents'[i] = fileEvents[i]
          /\ Len(fileEvents) \in Nat
      BY <1>1, <3>1 DEF event
    <3>4. QED BY <3>2, <3>3 DEF ModifiedOnly
  <2>3. QED BY <1>2, <2>2
<1>6. QED
  BY <1>2, <1>3, <1>4, <1>5 DEF WorkspaceNext, WatcherStep, ServiceStep, UserRequest, Overflow, InvalidateForOverflow,
     NewWatcher, Flush, FlushChanges, Deactivate, StopWatching, SwitchWorkspace, ReplaceWorkspace, RestartWindow,
     workspaceVars, watcherVars

LEMMA OnlyModifications ==
    ASSUME Absent \notin Contents
    PROVE  WorkspaceSpec => NothingCancelsOut
<1>1. WorkspaceSpec => []WatcherInv
  BY WatcherInvInit, WatcherInvNext, PTL DEF WorkspaceSpec
<1>2. WorkspaceSpec => []TypeOK
  BY ExtensionImplementsService, TypeCorrect, PTL
<1>3. WorkspaceInit => ModifiedOnly
  BY DEF WorkspaceInit, WatcherInit, ModifiedOnly
<1>4. TypeOK /\ WatcherInv /\ ModifiedOnly /\ [WorkspaceNext]_workspaceVars => ModifiedOnly'
  BY ModifiedOnlyNext
<1>5. WorkspaceSpec => []ModifiedOnly
  BY <1>1, <1>2, <1>3, <1>4, PTL DEF WorkspaceSpec
<1>6. WatcherInv /\ ModifiedOnly => ~CancelsOut
  <2> SUFFICES ASSUME WatcherInv, ModifiedOnly, fileEvents # <<>> PROVE Head(fileEvents).kind # "deleted"
    BY DEF CancelsOut
  <2>1. Head(fileEvents) = fileEvents[1] /\ 1 \in 1 .. Len(fileEvents)
    BY DEF WatcherInv, WatcherTypeOK
  <2>2. QED BY <2>1 DEF ModifiedOnly
<1>7. QED BY <1>1, <1>5, <1>6, PTL DEF NothingCancelsOut

\* In particular no change is lost while files are only modified.
COROLLARY NoModificationIsLost ==
    ASSUME Absent \notin Contents
    PROVE  WorkspaceSpec => []NoLostChange
BY OnlyModifications, NoChangeIsLost, PTL
===============================================================================
