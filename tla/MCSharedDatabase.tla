--------------------------- MODULE MCSharedDatabase ---------------------------
(***************************************************************************)
(* Two windows on one database that an earlier process left behind: empty, *)
(* or two versions written as batches or by an older release without       *)
(* manifests, whole or with one row lost, corrupted or invalid.            *)
(***************************************************************************)
EXTENDS SharedDatabase, TLC

Symmetry == Permutations(Windows)

Nothing == Each(Rows, Missing)

Written(v) == [id |-> v, parent |-> v - 1]

\* Versions 1 .. n; those up to legacy have no manifest.
Stored(n, legacy) ==
    [row \in Rows |->
        IF row = RootIndex
          THEN Repository
          ELSE IF row = Latest
            THEN [version |-> n, manifestFormat |-> legacy < n]
            ELSE IF row[2] > n \/ (row[1] = "versionManifest" /\ row[2] <= legacy)
              THEN Missing
              ELSE Written(row[2])]

Damaged(database, values) ==
    {database} \cup
    {[database EXCEPT ![row] = value] :
        row \in {r \in Rows : database[r] # Missing}, value \in values}

MCDatabases ==
    {Nothing} \cup
    Damaged(Stored(2, 0), {Missing, Invalid}) \cup
    Damaged(Stored(2, 1), {Corrupt}) \cup
    Damaged(Stored(2, 2), {Missing})
=============================================================================
