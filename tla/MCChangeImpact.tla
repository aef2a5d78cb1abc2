--------------------------- MODULE MCChangeImpact ---------------------------
(***************************************************************************)
(* Six files whose imports form a chain, a star, circles, a short and a    *)
(* long way to the same file, or nothing; trees before and after with some *)
(* files more or less, up to two files changed between them, one rename,   *)
(* one binary file and one file that is not analysed.                      *)
(***************************************************************************)
EXTENDS ChangeImpact

Chain == {<<2, 1>>, <<3, 2>>, <<4, 3>>, <<5, 4>>, <<6, 5>>}
Star == {<<f, 1>> : f \in 2..6}
Circles == {<<2, 1>>, <<3, 2>>, <<2, 3>>, <<1, 3>>, <<4, 4>>, <<5, 2>>}
TwoWays == {<<2, 1>>, <<3, 1>>, <<4, 3>>, <<5, 4>>, <<5, 2>>}

TreeOf(files, shape) == [files |-> files, edges |-> shape \cap (files \X files)]

FileSets == {1..6, {1, 2, 3, 5, 6}, {2, 3, 4, 5}}

\* The imports stay as they were, or a circle is closed or opened.
MCPairs ==
    {<<TreeOf(files[1], shape), TreeOf(files[2], shape)>> :
        files \in FileSets \X FileSets, shape \in {{}, Chain, Star, Circles, TwoWays}}
      \cup {<<TreeOf(1..6, Chain), TreeOf(1..6, Circles)>>,
            <<TreeOf(1..6, Circles), TreeOf({1, 2, 3, 5, 6}, TwoWays)>>}

Change(kind, path, text) == [kind |-> kind, previousPath |-> 0, path |-> path, text |-> text]

\* What the trees themselves tell.
Required(before, after) ==
    {Change("added", p, TRUE) : p \in after.files \ before.files}
      \cup {Change("deleted", p, TRUE) : p \in before.files \ after.files}

MCChanges(before, after) ==
    LET both == before.files \cap after.files
    IN  {Required(before, after) \cup {Change("modified", p, TRUE) : p \in modified} :
            modified \in {m \in SUBSET both : Cardinality(m) <= 2}}
        \cup {Required(before, after) \cup {Change("modified", 2, FALSE)},
              Required(before, after) \cup {Change("modified", 7, TRUE)},
              {[kind |-> "renamed", previousPath |-> 1, path |-> 4, text |-> TRUE],
               Change("modified", 3, TRUE)}}

MCComparisons ==
    {[form |-> form, before |-> pair[1], after |-> pair[2], changes |-> changes,
      metadataComplete |-> metadataComplete] :
       <<form, pair, changes, metadataComplete>> \in
         UNION {{"commit", "pull-request"} \X {pair} \X MCChanges(pair[1], pair[2])
                  \X {TRUE, pair[1] # pair[2]} : pair \in MCPairs}}
=============================================================================
