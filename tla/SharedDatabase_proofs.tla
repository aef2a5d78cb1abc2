------------------------ MODULE SharedDatabase_proofs ------------------------
(***************************************************************************)
(* Proof that no window writes over the records of another, for any number *)
(* of windows, versions and analyses and whatever database they find.      *)
(***************************************************************************)
EXTENDS SharedDatabase, TLAPS

-----------------------------------------------------------------------------
(* A batch *)

\* No row is ever taken out of the table's domain, only set to Missing.
RowsAreThere == Rows \subseteq DOMAIN store

\* A row a batch writes holds what the batch says, and another what it held.
LEMMA BatchWrites ==
    ASSUME NEW writes, ExecuteBatch(writes), RowsAreThere
    PROVE  /\ RowsAreThere'
           /\ \A row \in Rows :
                  store'[row] = IF row \in DOMAIN writes THEN writes[row] ELSE store[row]
BY DEF ExecuteBatch, RowsAreThere, Over

\* What an update of the records of versions may not do: turn one analysis into
\* another.
RecordsStay ==
    \A v \in Versions : \A row \in RowsOf(v) :
        (store[row] \in Analysis /\ store'[row] \in Analysis) => store'[row] = store[row]

\* A batch keeps the records of versions when, of those, it writes only ones that
\* are missing or that it deletes.
LEMMA HarmlessBatch ==
    ASSUME NEW writes, ExecuteBatch(writes), RowsAreThere,
           \A v \in Versions : \A row \in RowsOf(v) :
               row \in DOMAIN writes => store[row] = Missing \/ writes[row] = Missing
    PROVE  RecordsStay
<1>1. ASSUME NEW v \in Versions, NEW row \in RowsOf(v),
             store[row] \in Analysis, store'[row] \in Analysis
      PROVE  store'[row] = store[row]
  <2>1. row \in Rows
    BY <1>1 DEF Rows
  <2>2. store'[row] = IF row \in DOMAIN writes THEN writes[row] ELSE store[row]
    BY <2>1, BatchWrites
  <2>3. Missing \notin Analysis
    BY DatabaseAssumption
  <2>4. QED BY <1>1, <2>2, <2>3
<1>2. QED BY <1>1 DEF RecordsStay

-----------------------------------------------------------------------------
(* The batches of a window *)

\* cleanupVersion and quarantineVersion delete.
LEMMA RemoveVersionIsHarmless ==
    ASSUME NEW w, NEW u, RemoveVersion(w, u), RowsAreThere
    PROVE  RowsAreThere' /\ RecordsStay
<1>1. CASE ExecuteBatch(Each(RowsOf(u), Missing))
  <2> DEFINE writes == Each(RowsOf(u), Missing)
  <2>1. \A row \in DOMAIN writes : writes[row] = Missing
    BY DEF Each
  <2>2. ExecuteBatch(writes)
    BY <1>1
  <2> HIDE DEF writes
  <2>3. QED BY <2>1, <2>2, BatchWrites, HarmlessBatch
<1>2. CASE RecoveryFails(w)
  BY <1>2 DEF RecoveryFails, RowsAreThere, RecordsStay
<1>3. QED BY <1>1, <1>2 DEF RemoveVersion

\* repairPointers writes one record of a version: the manifest of a version that was
\* read without one, and only while it still has none.
LEMMA RepairPointersIsHarmless ==
    ASSUME NEW w \in Windows, RepairPointers(w), RowsAreThere
    PROVE  RowsAreThere' /\ RecordsStay
<1> DEFINE writes == [row \in RepairedRows(w) |-> Desired(w)[row]]
<1>1. ExecuteBatch(writes)
  BY DEF RepairPointers
<1>2. ASSUME NEW v \in Versions, NEW row \in RowsOf(v), row \in DOMAIN writes
      PROVE  store[row] = Missing
  <2>1. row \in RepairedRows(w)
    BY <1>2
  <2>2. row # Latest /\ row # RootIndex
    BY <1>2 DEF RowsOf, Aggregate, Snapshot, Manifest, Latest, RootIndex
  <2>3. row \in DOMAIN Desired(w)
    BY <2>1 DEF RepairedRows
  <2>4. Promotes(w) /\ row = Manifest(Candidate(w))
    BY <2>2, <2>3 DEF Desired
  <2>5. Holds(w, row) = Missing
    BY <2>4 DEF Promotes
  <2>6. store[row] = Holds(w, row)
    BY <2>1 DEF RepairPointers, Allowed, Satisfied, Evidence
  <2>7. QED BY <2>5, <2>6
<1> HIDE DEF writes
<1>3. QED BY <1>1, <1>2, BatchWrites, HarmlessBatch

\* persistAnalysis requires every record it writes to be missing.
LEMMA PersistIsHarmless ==
    ASSUME NEW w \in Windows, Persist(w), RowsAreThere
    PROVE  RowsAreThere' /\ RecordsStay
<1> DEFINE next == RowsOf(NextVersion(w))
           writes == Over(Each(next, NextAnalysis(w)),
                          Over(Each({RootIndex}, Repository), Each({Latest}, NextPointer(w))))
<1>1. ExecuteBatch(writes) /\ Satisfied(PersistPreconditions(w))
  BY DEF Persist
<1>2. ASSUME NEW v \in Versions, NEW row \in RowsOf(v), row \in DOMAIN writes
      PROVE  store[row] = Missing
  <2>1. row # Latest /\ row # RootIndex
    BY <1>2 DEF RowsOf, Aggregate, Snapshot, Manifest, Latest, RootIndex
  <2>2. row \in next
    BY <1>2, <2>1 DEF Each, Over
  <2>3. row \in DOMAIN PersistPreconditions(w) /\ PersistPreconditions(w)[row] = Missing
    BY <2>1, <2>2 DEF PersistPreconditions, Each, Over
  <2>4. QED BY <1>1, <2>3 DEF Satisfied
<1> HIDE DEF writes
<1>3. QED BY <1>1, <1>2, BatchWrites, HarmlessBatch

\* removePersistedCandidate deletes the candidate's records and sets the pointer.
LEMMA DiscardIsHarmless ==
    ASSUME NEW w \in Windows, Discard(w), RowsAreThere
    PROVE  RowsAreThere' /\ RecordsStay
<1> DEFINE writes == Over(Each(RowsOf(NextVersion(w)), Missing), Each({Latest}, win[w].latest))
<1>1. CASE ExecuteBatch(writes)
  <2>1. ASSUME NEW v \in Versions, NEW row \in RowsOf(v), row \in DOMAIN writes
        PROVE  writes[row] = Missing
    <3>1. row # Latest
      BY <2>1 DEF RowsOf, Aggregate, Snapshot, Manifest, Latest
    <3>2. QED BY <2>1, <3>1 DEF Each, Over
  <2> HIDE DEF writes
  <2>2. QED BY <1>1, <2>1, BatchWrites, HarmlessBatch
<1>2. CASE UNCHANGED store
  BY <1>2 DEF RowsAreThere, RecordsStay
<1>3. QED BY <1>1, <1>2 DEF Discard

-----------------------------------------------------------------------------
(* Every step *)

LEMMA StepIsHarmless ==
    ASSUME RowsAreThere, [Next]_vars
    PROVE  RowsAreThere' /\ RecordsStay
<1>1. CASE UNCHANGED store
  BY <1>1 DEF RowsAreThere, RecordsStay
<1>2. ASSUME NEW w \in Windows, Recovery(w)
      PROVE  RowsAreThere' /\ RecordsStay
  <2>1. CASE RemoveInvalidVersion(w) \/ RemoveCandidate(w)
    BY <2>1, RemoveVersionIsHarmless DEF RemoveInvalidVersion, RemoveCandidate
  <2>2. CASE RepairPointers(w)
    BY <2>2, RepairPointersIsHarmless
  <2>3. CASE Statement(w)
    BY <1>1, <2>3 DEF Statement, Exists, Inspect, List, Require, Load, Recheck, Calling
  <2>4. CASE \/ StartRecovery(w) \/ DiscoverVersionKeys(w) \/ ReadVersionMetadata(w)
             \/ RequiredVersionRecordsExist(w) \/ AcceptMetadata(w) \/ RejectMetadata(w)
             \/ ReadVersionValues(w) \/ SelectCandidate(w) \/ InspectCandidate(w)
             \/ RepairFails(w)
    BY <1>1, <2>4 DEF StartRecovery, DiscoverVersionKeys, ReadVersionMetadata,
       RequiredVersionRecordsExist, AcceptMetadata, RejectMetadata, ReadVersionValues,
       SelectCandidate, InspectCandidate, RepairFails, RecoveryFails
  <2>5. QED BY <1>2, <2>1, <2>2, <2>3, <2>4 DEF Recovery
<1>3. ASSUME NEW w \in Windows, Persist(w) \/ Discard(w)
      PROVE  RowsAreThere' /\ RecordsStay
  BY <1>3, PersistIsHarmless, DiscardIsHarmless
<1>4. ASSUME NEW w \in Windows, PersistFails(w) \/ Publish(w) \/ CloseWindow(w)
      PROVE  UNCHANGED store
  BY <1>4 DEF PersistFails, Publish, CloseWindow
<1>5. QED BY <1>1, <1>2, <1>3, <1>4 DEF Next, vars

\* No window writes over the records of another: whatever two recoveries and two
\* analyses interleave, the record of an analysis is only ever deleted.
THEOREM RecordsAreNotOverwritten == Spec => VersionsAreNotOverwritten
<1>1. Init => RowsAreThere
  BY DatabaseAssumption DEF Init, Database, RowsAreThere
<1>2. RowsAreThere /\ [Next]_vars => RowsAreThere' /\ RecordsStay
  BY StepIsHarmless
<1>3. Spec => [][RecordsStay]_vars
  BY <1>1, <1>2, PTL DEF Spec
<1>4. QED BY <1>3 DEF RecordsStay, VersionsAreNotOverwritten
=============================================================================
