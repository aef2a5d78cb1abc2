------------------------ MODULE MCIncrementalAnalysis ------------------------
(***************************************************************************)
(* Three sources: a, and b and c in a folder.  toA is resolved to a; toB to*)
(* b or, without it, to c, as "./b" is to b.ts and then to b/index.ts; lib *)
(* is a package.                                                           *)
(***************************************************************************)
EXTENDS IncrementalAnalysis, TLC

CONSTANTS a, b, c, toA, toB, lib, package, folder, layer

MCSources == {a, b, c}
MCPackages == {package}
MCCandidates == (toA :> <<a>>) @@ (toB :> <<b, c>>) @@ (lib :> <<>>)
MCPackage == (toA :> None) @@ (toB :> None) @@ (lib :> package)
MCDirectory == (a :> None) @@ (b :> None) @@ (c :> layer)
MCLayerNames == (a :> {layer}) @@ (b :> {}) @@ (c :> {})
MCFolder == (a :> None) @@ (b :> folder) @@ (c :> folder)
MCInitially == (a :> {toB}) @@ (b :> {}) @@ (c :> Absent) @@ (GitIgnore :> Absent)
MCEdits == (a :> {{}, {toB, lib}, Broken}) @@ (b :> {Absent, {toA}})
           @@ (c :> {{}, {toA}}) @@ (GitIgnore :> {{b}})
=============================================================================
