------------------------- MODULE ChangeImpact_proofs -------------------------
(***************************************************************************)
(* Proofs about the search along the dependency graph and the answers      *)
(* composed of its results, for any files, graph, changes and bounds.      *)
(***************************************************************************)
EXTENDS ChangeImpact, FiniteSetTheorems, WellFoundedInduction, TLAPS

-----------------------------------------------------------------------------
(* Counting and recursion *)

\* Induction over a set of naturals.
LEMMA NatIsReached ==
    ASSUME NEW T, 0 \in T, \A n \in Nat : n \in T => n + 1 \in T
    PROVE  \A n \in Nat : n \in T
<1> DEFINE Rest == Nat \ T
<1> SUFFICES ASSUME Rest # {} PROVE FALSE
  OBVIOUS
<1>1. PICK n \in Rest : \A m \in Rest : ~(<<m, n>> \in OpToRel(<, Nat))
  <2>1. Rest \subseteq Nat /\ Rest # {}
    OBVIOUS
  <2> HIDE DEF Rest
  <2>2. QED BY <2>1, NatLessThanWellFounded, WFMin, Zenon
<1>2. \A m \in Rest : ~(m < n)
  BY <1>1 DEF OpToRel
<1>3. n # 0 /\ n - 1 \in Nat /\ n - 1 \in T
  BY <1>2
<1>4. QED BY <1>3

\* A nonempty set of naturals has a least element.
LEMMA LeastNatural ==
    ASSUME NEW S, S \subseteq Nat, S # {}
    PROVE  \E n \in S : \A m \in S : n <= m
<1>1. PICK n \in S : \A m \in S : ~(<<m, n>> \in OpToRel(<, Nat))
  BY NatLessThanWellFounded, WFMin, Zenon
<1>2. \A m \in S : ~(m < n)
  BY <1>1 DEF OpToRel
<1>3. QED BY <1>2

\* What a step started from s0 gives, any number of times.
LEMMA Iteration ==
    ASSUME NEW V, NEW s0 \in V, NEW step \in [V -> V]
    PROVE  \E g \in [Nat -> V] : g[0] = s0 /\ \A k \in Nat : g[k + 1] = step[g[k]]
<1> DEFINE Upto(n, h) == h[0] = s0 /\ \A k \in 0 .. n - 1 : h[k + 1] = step[h[k]]
           Reached == {n \in Nat : \E h \in [0 .. n -> V] : Upto(n, h)}
<1>1. \A n \in Nat : n \in Reached
  <2>1. 0 \in Reached
    <3> DEFINE i == [k \in 0 .. 0 |-> s0]
    <3>1. i \in [0 .. 0 -> V] /\ Upto(0, i)
      OBVIOUS
    <3> HIDE DEF i
    <3>2. QED BY <3>1
  <2>2. ASSUME NEW n \in Nat, n \in Reached PROVE n + 1 \in Reached
    <3>1. PICK h \in [0 .. n -> V] : Upto(n, h)
      BY <2>2
    <3> DEFINE i == [k \in 0 .. n + 1 |-> IF k = n + 1 THEN step[h[n]] ELSE h[k]]
    <3>2. i \in [0 .. n + 1 -> V]
      OBVIOUS
    <3>3. Upto(n + 1, i)
      BY <3>1
    <3> HIDE DEF i
    <3>4. QED BY <3>2, <3>3
  <2> HIDE DEF Reached
  <2>3. QED BY <2>1, <2>2, NatIsReached
<1>2. ASSUME NEW m \in Nat, NEW n \in Nat, NEW h, NEW i, Upto(m, h), Upto(n, i)
      PROVE  \A k \in Nat : k <= m /\ k <= n => h[k] = i[k]
  <2> DEFINE Agreed == {k \in Nat : k <= m /\ k <= n => h[k] = i[k]}
  <2>1. 0 \in Agreed
    BY <1>2
  <2>2. ASSUME NEW k \in Nat, k \in Agreed PROVE k + 1 \in Agreed
    <3> SUFFICES ASSUME k + 1 <= m, k + 1 <= n PROVE h[k + 1] = i[k + 1]
      OBVIOUS
    <3>1. h[k] = i[k]
      BY <2>2
    <3>2. h[k + 1] = step[h[k]] /\ i[k + 1] = step[i[k]]
      BY <1>2
    <3>3. QED BY <3>1, <3>2
  <2> HIDE DEF Agreed
  <2>3. \A k \in Nat : k \in Agreed
    BY <2>1, <2>2, NatIsReached
  <2>4. QED BY <2>3 DEF Agreed
<1> DEFINE Chosen(n) == CHOOSE h \in [0 .. n -> V] : Upto(n, h)
           g == [n \in Nat |-> Chosen(n)[n]]
<1>3. \A n \in Nat : Chosen(n) \in [0 .. n -> V] /\ Upto(n, Chosen(n))
  BY <1>1
<1> HIDE DEF Chosen
<1>4. g \in [Nat -> V] /\ g[0] = s0
  <2>1. ASSUME NEW n \in Nat PROVE Chosen(n)[n] \in V
    <3>1. Chosen(n) \in [0 .. n -> V] /\ n \in 0 .. n
      BY <1>3
    <3> HIDE DEF Upto
    <3>2. QED BY <3>1
  <2>2. Chosen(0)[0] = s0
    BY <1>3
  <2>3. QED BY <2>1, <2>2
<1>5. ASSUME NEW k \in Nat PROVE g[k + 1] = step[g[k]]
  <2>1. Chosen(k + 1)[k + 1] = step[Chosen(k + 1)[k]]
    BY <1>3
  <2>2. Chosen(k + 1)[k] = Chosen(k)[k]
    <3>1. /\ k + 1 \in Nat /\ k <= k + 1 /\ k <= k
          /\ Chosen(k) \in [0 .. k -> V] /\ Upto(k, Chosen(k))
          /\ Chosen(k + 1) \in [0 .. k + 1 -> V] /\ Upto(k + 1, Chosen(k + 1))
      BY <1>3
    <3> HIDE DEF Upto
    <3>2. QED BY <1>2, <3>1
  <2>3. QED BY <2>1, <2>2
<1>6. QED BY <1>4, <1>5

\* As many as the limit allows, or all of them.
LEMMA AllWithinTheLimit ==
    ASSUME NEW S \in SUBSET Nat, IsFiniteSet(S), NEW limit \in Nat
    PROVE  /\ FirstOf(S, limit) \subseteq S
           /\ Cardinality(S) <= limit => FirstOf(S, limit) = S
<1>1. ASSUME NEW f \in S, Cardinality(S) <= limit
      PROVE  Cardinality({g \in S : g < f}) < limit
  <2> DEFINE less == {g \in S : g < f}
  <2>1. less \in SUBSET S /\ f \notin less
    OBVIOUS
  <2> HIDE DEF less
  <2>2. IsFiniteSet(less) /\ Cardinality(less) <= Cardinality(S) /\ less # S
    BY <2>1, FS_Subset
  <2>3. Cardinality(less) \in Nat /\ Cardinality(S) \in Nat /\ Cardinality(less) # Cardinality(S)
    BY <2>1, <2>2, FS_Subset, FS_CardinalityType
  <2>4. Cardinality(less) < limit
    BY <1>1, <2>2, <2>3
  <2>5. QED BY <2>4 DEF less
<1>2. QED BY <1>1 DEF FirstOf

\* Where files are left out, there are as many as the limit allows.
LEMMA CutAtTheLimit ==
    ASSUME NEW S \in SUBSET Nat, IsFiniteSet(S), NEW limit \in Nat, FirstOf(S, limit) # S
    PROVE  Cardinality(FirstOf(S, limit)) >= limit
<1> DEFINE Less(f) == {g \in S : g < f}
           Out == {f \in S : ~(Cardinality(Less(f)) < limit)}
<1>1. Out # {} /\ Out \subseteq Nat
  BY DEF FirstOf
<1>2. PICK f \in Out : \A g \in Out : f <= g
  <2> HIDE DEF Out
  <2>1. QED BY <1>1, LeastNatural
<1>3. Less(f) \subseteq FirstOf(S, limit)
  <2>1. ASSUME NEW g \in Less(f) PROVE g \in S /\ Cardinality(Less(g)) < limit
    <3>1. g \in S /\ ~(f <= g)
      BY <1>2
    <3>2. g \notin Out
      BY <1>2, <3>1
    <3>3. QED BY <3>1, <3>2
  <2>2. QED BY <2>1 DEF FirstOf
<1>4. FirstOf(S, limit) \in SUBSET S
  BY DEF FirstOf
<1>5. IsFiniteSet(FirstOf(S, limit))
  BY <1>4, FS_Subset
<1>6. IsFiniteSet(Less(f)) /\ Cardinality(Less(f)) <= Cardinality(FirstOf(S, limit))
  <2> HIDE DEF Less
  <2>1. QED BY <1>3, <1>5, FS_Subset
<1>7. Cardinality(Less(f)) \in Nat /\ Cardinality(FirstOf(S, limit)) \in Nat
  <2> HIDE DEF Less
  <2>1. QED BY <1>5, <1>6, FS_CardinalityType
<1>8. ~(Cardinality(Less(f)) < limit)
  BY <1>2
<1> HIDE DEF Less
<1>9. QED BY <1>6, <1>7, <1>8

-----------------------------------------------------------------------------
(* Layers of a graph *)

\* W gives the files within each distance of those in S, along N.
Layered(W, S, N) ==
    /\ W \in [Nat -> SUBSET Files]
    /\ W[0] = S
    /\ \A k \in Nat : W[k + 1] = W[k] \cup UNION {N[f] : f \in W[k]}

AtDistance(W, f, k) == f \in W[k] /\ (k = 0 \/ f \notin W[k - 1])

LEMMA LayersExist ==
    ASSUME NEW S \in SUBSET Files, NEW N \in [Files -> SUBSET Files]
    PROVE  \E W : Layered(W, S, N)
<1> DEFINE step == [X \in SUBSET Files |-> X \cup UNION {N[f] : f \in X}]
<1>1. step \in [SUBSET Files -> SUBSET Files]
  OBVIOUS
<1>2. \A X \in SUBSET Files : step[X] = X \cup UNION {N[f] : f \in X}
  OBVIOUS
<1> HIDE DEF step
<1>3. PICK g \in [Nat -> SUBSET Files] : g[0] = S /\ \A k \in Nat : g[k + 1] = step[g[k]]
  <2> DEFINE V == SUBSET Files
  <2>1. S \in V /\ step \in [V -> V]
    BY <1>1
  <2> HIDE DEF V
  <2>2. \E g \in [Nat -> V] : g[0] = S /\ \A k \in Nat : g[k + 1] = step[g[k]]
    BY <2>1, Iteration
  <2>3. QED BY <2>2 DEF V
<1>4. \A k \in Nat : g[k + 1] = g[k] \cup UNION {N[f] : f \in g[k]}
  BY <1>2, <1>3
<1>5. QED BY <1>3, <1>4 DEF Layered

LEMMA LayersAreUnique ==
    ASSUME NEW S, NEW N, NEW V, NEW W, Layered(V, S, N), Layered(W, S, N)
    PROVE  \A k \in Nat : V[k] = W[k]
<1> DEFINE T == {k \in Nat : V[k] = W[k]}
<1>1. 0 \in T
  BY DEF Layered
<1>2. ASSUME NEW k \in Nat, k \in T PROVE k + 1 \in T
  <2>1. /\ V[k + 1] = V[k] \cup UNION {N[f] : f \in V[k]}
        /\ W[k + 1] = W[k] \cup UNION {N[f] : f \in W[k]}
    BY DEF Layered
  <2>2. V[k] = W[k]
    BY <1>2
  <2>3. V[k + 1] = W[k + 1]
    BY <2>1, <2>2, Zenon
  <2>4. QED BY <2>3
<1> HIDE DEF T
<1>3. \A k \in Nat : k \in T
  BY <1>1, <1>2, NatIsReached
<1>4. QED BY <1>3 DEF T

LEMMA LayersGrow ==
    ASSUME NEW S, NEW N, NEW W, Layered(W, S, N)
    PROVE  \A j, k \in Nat : j <= k => W[j] \subseteq W[k]
<1> SUFFICES ASSUME NEW j \in Nat PROVE \A k \in Nat : j <= k => W[j] \subseteq W[k]
  OBVIOUS
<1> DEFINE T == {k \in Nat : j <= k => W[j] \subseteq W[k]}
<1>1. 0 \in T
  OBVIOUS
<1>2. ASSUME NEW k \in Nat, k \in T PROVE k + 1 \in T
  <2>1. W[k] \subseteq W[k + 1]
    BY DEF Layered
  <2>2. k + 1 \in Nat /\ (j <= k + 1 => j = k + 1 \/ j <= k)
    OBVIOUS
  <2>3. QED BY <1>2, <2>1, <2>2
<1> HIDE DEF T
<1>3. \A k \in Nat : k \in T
  BY <1>1, <1>2, NatIsReached
<1>4. QED BY <1>3 DEF T

\* There is nothing at a distance of more files than there are.
LEMMA LayersSettle ==
    ASSUME NEW S, NEW N, NEW W, Layered(W, S, N)
    PROVE  /\ Cardinality(Files) \in Nat
           /\ \A k \in Nat : W[k] \subseteq W[Cardinality(Files)]
<1> DEFINE F == Cardinality(Files)
           Same(j) == W[j + 1] = W[j]
           Larger == {k \in Nat : (\E j \in Nat : j < k /\ Same(j)) \/ Cardinality(W[k]) >= k}
<1>1. F \in Nat
  BY FilesAssumption, FS_CardinalityType
<1>2. ASSUME NEW k \in Nat
      PROVE  IsFiniteSet(W[k]) /\ Cardinality(W[k]) \in Nat /\ Cardinality(W[k]) <= F
  <2>1. W[k] \in SUBSET Files
    BY DEF Layered
  <2>2. IsFiniteSet(W[k]) /\ Cardinality(W[k]) <= F
    BY <2>1, FilesAssumption, FS_Subset
  <2>3. QED BY <2>2, FS_CardinalityType
<1>3. 0 \in Larger
  BY <1>2
<1>4. ASSUME NEW k \in Nat, k \in Larger PROVE k + 1 \in Larger
  <2>1. CASE \E j \in Nat : j < k /\ Same(j)
    <3>1. \E j \in Nat : j < k + 1 /\ Same(j)
      <4> HIDE DEF Same
      <4>1. QED BY <2>1
    <3>2. QED BY <3>1
  <2>2. CASE Same(k)
    <3> HIDE DEF Same
    <3>1. QED BY <2>2
  <2>3. CASE Cardinality(W[k]) >= k /\ ~Same(k)
    <3>1. W[k] \in SUBSET W[k + 1] /\ W[k + 1] # W[k]
      BY <2>3 DEF Layered
    <3>2. k + 1 \in Nat
      OBVIOUS
    <3>3. IsFiniteSet(W[k + 1]) /\ Cardinality(W[k + 1]) \in Nat
      BY <1>2, <3>2
    <3>4. Cardinality(W[k]) <= Cardinality(W[k + 1]) /\ Cardinality(W[k]) # Cardinality(W[k + 1])
      BY <3>1, <3>3, FS_Subset
    <3>5. Cardinality(W[k + 1]) >= k + 1
      BY <1>2, <2>3, <3>3, <3>4
    <3>6. QED BY <3>2, <3>5
  <2>4. QED BY <1>4, <2>1, <2>2, <2>3
<1>5. \A k \in Nat : k \in Larger
  <2> HIDE DEF Larger
  <2>1. QED BY <1>3, <1>4, NatIsReached
<1>6. PICK j \in Nat : j <= F /\ Same(j)
  <2>1. F + 1 \in Nat /\ F + 1 \in Larger
    BY <1>1, <1>5
  <2>2. ~(Cardinality(W[F + 1]) >= F + 1)
    BY <1>1, <1>2, <2>1
  <2>3. PICK j \in Nat : j < F + 1 /\ Same(j)
    <3> HIDE DEF Same
    <3>1. QED BY <2>1, <2>2
  <2>4. j <= F
    BY <1>1, <2>3
  <2>5. QED BY <2>3, <2>4
<1> DEFINE T == {k \in Nat : W[k] \subseteq W[j]}
<1>7. \A k \in Nat : k \in T
  <2>1. 0 \in T
    BY LayersGrow
  <2>2. ASSUME NEW k \in Nat, k \in T PROVE k + 1 \in T
    <3>1. W[k + 1] \subseteq W[j + 1]
      BY <2>2 DEF Layered
    <3>2. QED BY <1>6, <3>1
  <2> HIDE DEF T
  <2>3. QED BY <2>1, <2>2, NatIsReached
<1>8. W[j] \subseteq W[F]
  BY <1>1, <1>6, LayersGrow
<1>9. QED BY <1>1, <1>7, <1>8

LEMMA DistanceIsUnique ==
    ASSUME NEW S, NEW N, NEW W, Layered(W, S, N), NEW f, NEW k \in Nat, AtDistance(W, f, k)
    PROVE  /\ k <= Cardinality(Files)
           /\ \A j \in Nat : f \in W[j] => k <= j
           /\ \A j \in Nat : AtDistance(W, f, j) => j = k
<1>1. ASSUME NEW j \in Nat, f \in W[j] PROVE k <= j
  <2> SUFFICES ASSUME j < k PROVE FALSE
    OBVIOUS
  <2>1. k - 1 \in Nat /\ j <= k - 1 /\ k # 0
    OBVIOUS
  <2>2. f \in W[k - 1]
    BY <1>1, <2>1, LayersGrow
  <2>3. QED BY <2>1, <2>2 DEF AtDistance
<1>2. k <= Cardinality(Files)
  <2>1. Cardinality(Files) \in Nat /\ f \in W[Cardinality(Files)]
    BY LayersSettle DEF AtDistance
  <2>2. QED BY <1>1, <2>1
<1>3. ASSUME NEW j \in Nat, AtDistance(W, f, j) PROVE j = k
  <2>1. k <= j
    BY <1>1, <1>3 DEF AtDistance
  <2> SUFFICES ASSUME k < j PROVE FALSE
    BY <2>1
  <2>2. j - 1 \in Nat /\ k <= j - 1 /\ j # 0
    OBVIOUS
  <2>3. f \in W[j - 1]
    BY <2>2, LayersGrow DEF AtDistance
  <2>4. QED BY <1>3, <2>2, <2>3 DEF AtDistance
<1>4. QED BY <1>1, <1>2, <1>3

LEMMA DistanceExists ==
    ASSUME NEW S, NEW N, NEW W, Layered(W, S, N), NEW k \in Nat, NEW f \in W[k]
    PROVE  \E j \in Nat : j <= k /\ AtDistance(W, f, j)
<1> DEFINE Found == {j \in Nat : f \in W[j]}
<1>1. PICK j \in Found : \A i \in Found : j <= i
  <2>1. Found \subseteq Nat /\ Found # {}
    OBVIOUS
  <2> HIDE DEF Found
  <2>2. QED BY <2>1, LeastNatural
<1>2. j = 0 \/ f \notin W[j - 1]
  <2> SUFFICES ASSUME j # 0, f \in W[j - 1] PROVE FALSE
    OBVIOUS
  <2>1. j - 1 \in Found
    OBVIOUS
  <2>2. QED BY <1>1, <2>1
<1>3. QED BY <1>1, <1>2 DEF AtDistance

\* A set closed along N, apart from what is as far as a bound, holds what is within it.
LEMMA ClosedHoldsLayers ==
    ASSUME NEW S, NEW N, NEW W, Layered(W, S, N), NEW V, S \subseteq V, NEW M \in Nat,
           \A f \in V : \A d \in Nat : AtDistance(W, f, d) /\ d < M => N[f] \subseteq V
    PROVE  W[M] \subseteq V
<1> DEFINE T == {k \in Nat : k <= M => W[k] \subseteq V}
<1>1. 0 \in T
  BY DEF Layered
<1>2. ASSUME NEW k \in Nat, k \in T PROVE k + 1 \in T
  <2> SUFFICES ASSUME k + 1 <= M, NEW f \in W[k + 1] PROVE f \in V
    OBVIOUS
  <2>1. W[k] \subseteq V
    BY <1>2
  <2>2. CASE f \in W[k]
    BY <2>1, <2>2
  <2>3. CASE f \notin W[k]
    <3>1. PICK g \in W[k] : f \in N[g]
      BY <2>3 DEF Layered
    <3>2. PICK d \in Nat : d <= k /\ AtDistance(W, g, d)
      BY DistanceExists
    <3>3. d < M
      BY <3>2
    <3>4. QED BY <2>1, <3>1, <3>2, <3>3
  <2>4. QED BY <2>2, <2>3
<1> HIDE DEF T
<1>3. \A k \in Nat : k \in T
  BY <1>1, <1>2, NatIsReached
<1>4. QED BY <1>3 DEF T

-----------------------------------------------------------------------------
(* The search *)

Neighborhood == [f \in Files |-> NeighborsOf(f)]

\* The searches of this system start from one file and go along its dependents.
RequestOK ==
    /\ \E s \in Files : request.startIds = <<s>>
    /\ request.direction = "dependents"
    /\ request.maxDepth \in Nat
    /\ request.maxEntities \in Nat \ {0}

LEMMA OneStart ==
    ASSUME RequestOK
    PROVE  \E s \in Files : request.startIds = <<s>> /\ Starts = {s}
BY DEF RequestOK, Starts

LEMMA SearchLayers ==
    ASSUME RequestOK
    PROVE  Layered(Within, Starts, Neighborhood)
<1>1. Starts \in SUBSET Files
  BY OneStart
<1>2. \A f \in Files : NeighborsOf(f) \in SUBSET Files /\ Neighborhood[f] = NeighborsOf(f)
  BY DEF Neighborhood, NeighborsOf, Dependents, RequestOK
<1>3. Neighborhood \in [Files -> SUBSET Files]
  BY <1>2 DEF Neighborhood
<1>4. PICK W : Layered(W, Starts, Neighborhood)
  BY <1>1, <1>3, LayersExist
<1> DEFINE Body(g) == [k \in Nat |-> IF k = 0 THEN Starts
                          ELSE g[k - 1] \cup UNION {NeighborsOf(f) : f \in g[k - 1]}]
<1>5. W = Body(W)
  <2>1. W = [k \in Nat |-> W[k]]
    BY <1>4 DEF Layered
  <2>2. ASSUME NEW k \in Nat PROVE W[k] = Body(W)[k]
    <3>1. CASE k = 0
      BY <1>4, <3>1 DEF Layered
    <3>2. CASE k # 0
      <4>1. k - 1 \in Nat /\ (k - 1) + 1 = k
        BY <3>2
      <4>2. W[k] = W[k - 1] \cup UNION {Neighborhood[f] : f \in W[k - 1]} /\ W[k - 1] \subseteq Files
        BY <1>4, <4>1 DEF Layered
      <4>3. UNION {Neighborhood[f] : f \in W[k - 1]} = UNION {NeighborsOf(f) : f \in W[k - 1]}
        BY <1>2, <4>2
      <4>4. QED BY <3>2, <4>2, <4>3
    <3>3. QED BY <3>1, <3>2
  <2>3. QED BY <2>1, <2>2
<1>6. Within = Body(Within)
  BY <1>5, Zenon DEF Within
<1> DEFINE T == {k \in Nat : Within[k] = W[k]}
<1>7. QED
  <2>1. Within = [k \in Nat |-> Within[k]]
    BY <1>6
  <2>2. ASSUME NEW k \in Nat PROVE Within[k] = Body(Within)[k] /\ W[k] = Body(W)[k]
    BY <1>5, <1>6
  <2>3. 0 \in T
    BY <2>2
  <2>4. ASSUME NEW k \in Nat, k \in T PROVE k + 1 \in T
    <3>1. k + 1 \in Nat /\ (k + 1) - 1 = k /\ k + 1 # 0 /\ Within[k] = W[k]
      BY <2>4
    <3>2. /\ Within[k + 1] = Within[k] \cup UNION {NeighborsOf(f) : f \in Within[k]}
          /\ W[k + 1] = W[k] \cup UNION {NeighborsOf(f) : f \in W[k]}
      BY <2>2, <3>1
    <3>3. Within[k + 1] = W[k + 1]
      BY <3>1, <3>2, Zenon
    <3>4. QED BY <3>1, <3>3
  <2>5. \A k \in Nat : k \in T
    <3> HIDE DEF T
    <3>1. QED BY <2>3, <2>4, NatIsReached
  <2>6. Within = W
    BY <1>4, <2>1, <2>5 DEF Layered
  <2>7. QED BY <1>4, <2>6
\* The depth of each file, 0 of those not met.
DepthOf == [f \in Files |-> Depth(f)]

TraversalTypeOK ==
    /\ RequestOK
    /\ queue \in Seq(Files) /\ Len(queue) >= 1 /\ index \in 0 .. Len(queue)
    /\ neighbors \subseteq Files \ Visited
    /\ DOMAIN nodes \subseteq Files \ Starts
    /\ Cardinality(DOMAIN nodes) <= request.maxEntities
    /\ \A f \in DOMAIN nodes : nodes[f].depth \in Nat \ {0} /\ nodes[f].predecessor \in Visited
    /\ truncations \subseteq {"max-depth", "max-entities"}
    /\ searching \in BOOLEAN

\* The queue holds the files met, the closest first and at most one further than the
\* file taken last.
QueueIsOrdered ==
    /\ \A i \in 1 .. Len(queue) : queue[i] \in Visited
    /\ \A f \in Visited : \E i \in 1 .. Len(queue) : queue[i] = f
    /\ \A i, j \in 1 .. Len(queue) : i <= j => DepthOf[queue[i]] <= DepthOf[queue[j]]
    /\ index = 0 => Len(queue) = 1 /\ neighbors = {}
    /\ index > 0 => \A i \in 1 .. Len(queue) : DepthOf[queue[i]] <= DepthOf[Current] + 1

\* Each was met at its distance, from one that is a step closer.
DepthsAreDistances ==
    \A f \in DOMAIN nodes :
      LET n == nodes[f]
      IN  /\ n.depth <= request.maxDepth
          /\ f \in Within[n.depth] /\ f \notin Within[n.depth - 1]
          /\ f \in Neighborhood[n.predecessor] /\ n.depth = DepthOf[n.predecessor] + 1

LooksFurther(depth) == depth < request.maxDepth \/ "max-depth" \notin truncations
RoomLeft == request.maxEntities - Cardinality(DOMAIN nodes)

\* Of what was taken all neighbours are met, of the file taken last those that are not
\* left to look at, unless more are left than may be added.
TakenAreClosed ==
    /\ \A i \in 1 .. index - 1 : LooksFurther(DepthOf[queue[i]]) => Neighborhood[queue[i]] \subseteq Visited
    /\ index > 0 =>
         /\ neighbors \subseteq Neighborhood[Current]
         /\ Within[DepthOf[Current]] \subseteq Visited
         /\ LooksFurther(DepthOf[Current]) /\ "max-entities" \notin truncations =>
              \/ Neighborhood[Current] \ Visited \subseteq neighbors
              \/ Cardinality(neighbors) > RoomLeft

CutsAreTold ==
    /\ "max-depth" \in truncations =>
         \E g \in Within[request.maxDepth + 1] : g \notin Within[request.maxDepth]
    /\ "max-entities" \in truncations =>
         /\ ~searching /\ index > 0 /\ DepthOf[Current] < request.maxDepth
         /\ \E g \in Within[DepthOf[Current] + 1] : g \notin Visited
    /\ searching \/ "max-entities" \in truncations \/ (index = Len(queue) /\ neighbors = {})

TraversalInv ==
    /\ TraversalTypeOK /\ QueueIsOrdered /\ DepthsAreDistances /\ TakenAreClosed /\ CutsAreTold

\* What hangs on the request alone.
LEMMA SameRequest ==
    ASSUME UNCHANGED request
    PROVE  /\ Within' = Within /\ Starts' = Starts /\ Neighborhood' = Neighborhood
           /\ RequestOK' <=> RequestOK
<1>1. Starts' = Starts
  BY DEF Starts
<1>2. Neighborhood' = Neighborhood
  BY DEF Neighborhood, NeighborsOf, Dependents, Dependencies
<1>3. Within' = Within
  BY <1>1 DEF Within, NeighborsOf, Dependents, Dependencies
<1>4. RequestOK' <=> RequestOK
  BY DEF RequestOK
<1>5. QED BY <1>1, <1>2, <1>3, <1>4

LEMMA SearchStarts ==
    ASSUME NEW r, Search(r), NEW s \in Files, r.startIds = <<s>>, r.direction = "dependents",
           r.maxDepth \in Nat, r.maxEntities \in Nat \ {0}
    PROVE  TraversalInv'
<1>1. /\ request' = r /\ queue' = <<s>> /\ index' = 0 /\ neighbors' = {}
      /\ DOMAIN nodes' = {} /\ truncations' = {} /\ searching' = TRUE
  BY DEF Search
<1>2. RequestOK'
  BY <1>1 DEF RequestOK
<1>3. Starts' = {s} /\ Visited' = {s}
  BY <1>1 DEF Starts, Visited
<1>4. DepthOf' = [f \in Files |-> 0]
  BY <1>1 DEF DepthOf, Depth
<1>5. Cardinality(DOMAIN nodes') = 0
  BY <1>1, FS_EmptySet
<1>6. TraversalTypeOK'
  BY <1>1, <1>2, <1>3, <1>5 DEF TraversalTypeOK, RequestOK
<1>7. QueueIsOrdered'
  BY <1>1, <1>3, <1>4 DEF QueueIsOrdered
<1>8. DepthsAreDistances' /\ TakenAreClosed' /\ CutsAreTold'
  BY <1>1 DEF DepthsAreDistances, TakenAreClosed, CutsAreTold
<1>9. QED BY <1>6, <1>7, <1>8 DEF TraversalInv

\* The files met are finitely many, and what is visited has a known depth.
LEMMA VisitedFacts ==
    ASSUME TraversalInv
    PROVE  /\ Starts \subseteq Files /\ Visited \subseteq Files
           /\ DepthOf \in [Files -> Nat]
           /\ \A f \in Starts : DepthOf[f] = 0
           /\ \A f \in DOMAIN nodes : DepthOf[f] = nodes[f].depth
           /\ \A f \in Visited : DepthOf[f] <= request.maxDepth /\ AtDistance(Within, f, DepthOf[f])
           /\ IsFiniteSet(DOMAIN nodes) /\ Cardinality(DOMAIN nodes) \in Nat
           /\ Layered(Within, Starts, Neighborhood)
           /\ Neighborhood \in [Files -> SUBSET Files]
<1>1. Starts \subseteq Files /\ Visited \subseteq Files
  BY OneStart DEF TraversalInv, TraversalTypeOK, Visited
<1>2. Layered(Within, Starts, Neighborhood)
  BY SearchLayers DEF TraversalInv, TraversalTypeOK
<1>3. \A f \in DOMAIN nodes : f \in Files /\ DepthOf[f] = nodes[f].depth /\ nodes[f].depth \in Nat \ {0}
  BY DEF TraversalInv, TraversalTypeOK, DepthOf, Depth
<1>4. \A f \in Files : f \notin DOMAIN nodes => DepthOf[f] = 0
  BY DEF DepthOf, Depth
<1>5. DepthOf \in [Files -> Nat]
  <2>1. \A f \in Files : DepthOf[f] \in Nat
    BY <1>3, <1>4
  <2>2. QED BY <2>1 DEF DepthOf
<1>6. \A f \in Starts : DepthOf[f] = 0
  BY <1>1, <1>4 DEF TraversalInv, TraversalTypeOK
<1>7. ASSUME NEW f \in Visited
      PROVE  DepthOf[f] <= request.maxDepth /\ AtDistance(Within, f, DepthOf[f])
  <2>1. CASE f \in Starts
    BY <2>1, <1>2, <1>6 DEF AtDistance, Layered, TraversalInv, TraversalTypeOK, RequestOK
  <2>2. CASE f \in DOMAIN nodes
    BY <2>2, <1>3 DEF AtDistance, TraversalInv, DepthsAreDistances
  <2>3. QED BY <2>1, <2>2 DEF Visited
<1>8. IsFiniteSet(DOMAIN nodes) /\ Cardinality(DOMAIN nodes) \in Nat
  <2>1. DOMAIN nodes \in SUBSET Files
    BY DEF TraversalInv, TraversalTypeOK
  <2>2. IsFiniteSet(DOMAIN nodes)
    BY <2>1, FilesAssumption, FS_Subset
  <2>3. QED BY <2>2, FS_CardinalityType
<1>9. Neighborhood \in [Files -> SUBSET Files]
  BY DEF Neighborhood, NeighborsOf, Dependents, TraversalInv, TraversalTypeOK, RequestOK
<1>10. QED BY <1>1, <1>2, <1>3, <1>5, <1>6, <1>7, <1>8, <1>9
LEMMA DequeueKeeps ==
    ASSUME TraversalInv, Dequeue
    PROVE  TraversalInv'
<1> DEFINE c == queue[index + 1]
           U == Neighborhood[c] \ Visited
<1> USE DEF TraversalInv
<1>1. /\ Within' = Within /\ Starts' = Starts /\ Neighborhood' = Neighborhood /\ RequestOK'
      /\ DepthOf' = DepthOf /\ Visited' = Visited
  <2>1. UNCHANGED <<request, nodes>>
    BY DEF Dequeue
  <2>2. UNCHANGED <<Within, Starts, Neighborhood>> /\ RequestOK'
    BY <2>1, SameRequest DEF TraversalTypeOK
  <2>3. DepthOf' = DepthOf /\ Visited' = Visited
    BY <2>1, <2>2 DEF DepthOf, Depth, Visited
  <2>4. QED BY <2>2, <2>3
<1>2. /\ searching /\ "max-entities" \notin truncations /\ neighbors = {} /\ index < Len(queue)
      /\ index \in Nat /\ index' = index + 1 /\ index + 1 \in 1 .. Len(queue)
      /\ UNCHANGED <<request, queue, nodes, truncations, searching>>
  BY DEF Dequeue, CutsAreTold, TraversalTypeOK
<1>3. /\ c \in Visited /\ c \in Files /\ U \subseteq Files /\ DepthOf[c] \in Nat
      /\ DepthOf[c] <= request.maxDepth /\ request.maxDepth \in Nat /\ Current' = c
  BY <1>2, VisitedFacts DEF QueueIsOrdered, TraversalTypeOK, RequestOK, Current
<1>4. /\ neighbors' \subseteq U
      /\ U \subseteq neighbors' \/ Cardinality(neighbors') > RoomLeft
  <2>1. U \in SUBSET Nat /\ IsFiniteSet(U)
    BY <1>3, FilesAssumption, FS_Subset
  <2>2. RoomLeft \in Nat /\ CollectLimit \in Nat /\ CollectLimit > RoomLeft
    BY VisitedFacts DEF RoomLeft, CollectLimit, TraversalTypeOK, RequestOK
  <2>3. neighbors' = FirstOf(U, CollectLimit)
    BY <1>3 DEF Dequeue, Neighborhood
  <2> HIDE DEF U
  <2>4. FirstOf(U, CollectLimit) \subseteq U
    BY <2>1, <2>2, AllWithinTheLimit
  <2>5. CASE FirstOf(U, CollectLimit) = U
    BY <2>3, <2>4, <2>5
  <2>6. CASE FirstOf(U, CollectLimit) # U
    <3>1. Cardinality(FirstOf(U, CollectLimit)) >= CollectLimit
      BY <2>1, <2>2, <2>6, CutAtTheLimit
    <3>2. FirstOf(U, CollectLimit) \in SUBSET U
      BY <2>4
    <3>3. IsFiniteSet(FirstOf(U, CollectLimit))
      BY <2>1, <3>2, FS_Subset
    <3>4. Cardinality(FirstOf(U, CollectLimit)) \in Nat
      BY <3>3, FS_CardinalityType
    <3>5. QED BY <2>2, <2>3, <2>4, <3>1, <3>4
  <2>7. QED BY <2>5, <2>6
<1>5. \A i \in 1 .. index : LooksFurther(DepthOf[queue[i]]) => Neighborhood[queue[i]] \subseteq Visited
  <2>1. ~(Cardinality(neighbors) > RoomLeft)
    BY <1>2, VisitedFacts, FS_EmptySet DEF RoomLeft, TraversalTypeOK, RequestOK
  <2>2. index > 0 /\ LooksFurther(DepthOf[queue[index]]) => Neighborhood[queue[index]] \subseteq Visited
    BY <1>2, <2>1 DEF TakenAreClosed, Current
  <2>3. \A i \in 1 .. index : i \in 1 .. index - 1 \/ (i = index /\ index > 0)
    BY <1>2
  <2>4. QED BY <2>2, <2>3 DEF TakenAreClosed
<1>6. Within[DepthOf[c]] \subseteq Visited
  <2>1. CASE index = 0
    <3>1. PICK s \in Files : Starts = {s}
      BY OneStart DEF TraversalTypeOK
    <3>2. s \in Visited /\ Len(queue) = 1
      BY <2>1, <3>1 DEF Visited, QueueIsOrdered
    <3>3. c = s
      BY <2>1, <3>2 DEF QueueIsOrdered
    <3>4. DepthOf[c] = 0 /\ Within[0] = Starts
      BY <3>1, <3>3, VisitedFacts DEF Layered
    <3>5. QED BY <3>4 DEF Visited
  <2>2. CASE index > 0
    <3> DEFINE D == DepthOf[queue[index]]
    <3>1. index \in 1 .. Len(queue) /\ D \in Nat /\ Current = queue[index]
      BY <1>2, <2>2, VisitedFacts DEF QueueIsOrdered, Current
    <3>2. D <= DepthOf[c] /\ DepthOf[c] <= D + 1 /\ Within[D] \subseteq Visited
      BY <1>2, <2>2, <3>1 DEF QueueIsOrdered, TakenAreClosed
    <3>3. CASE DepthOf[c] = D
      BY <3>2, <3>3
    <3>4. CASE DepthOf[c] = D + 1
      <4> SUFFICES ASSUME NEW f \in Within[D + 1] PROVE f \in Visited
        BY <3>4
      <4>1. CASE f \in Within[D]
        BY <3>2, <4>1
      <4>2. CASE f \notin Within[D]
        <5>1. Within[D + 1] = Within[D] \cup UNION {Neighborhood[g] : g \in Within[D]}
          BY <3>1, VisitedFacts DEF Layered
        <5>2. PICK g \in Within[D] : f \in Neighborhood[g]
          BY <4>2, <5>1
        <5>3. g \in Visited /\ DepthOf[g] \in Nat /\ AtDistance(Within, g, DepthOf[g])
          BY <3>2, VisitedFacts
        <5>4. DepthOf[g] <= D
          BY <3>1, <5>3, VisitedFacts, DistanceIsUnique
        <5>5. PICK j \in 1 .. Len(queue) : queue[j] = g
          BY <5>3 DEF QueueIsOrdered
        <5>6. j \in 1 .. index
          <6> SUFFICES ASSUME index + 1 <= j PROVE FALSE
            BY <1>2
          <6>1. DepthOf[c] <= DepthOf[g]
            BY <1>2, <5>5 DEF QueueIsOrdered
          <6>2. QED BY <3>1, <3>4, <5>3, <5>4, <6>1
        <5>7. LooksFurther(DepthOf[g])
          BY <1>3, <3>1, <3>4, <5>3, <5>4 DEF LooksFurther
        <5>8. QED BY <1>5, <5>2, <5>5, <5>6, <5>7
      <4>3. QED BY <4>1, <4>2
    <3>5. QED BY <1>3, <3>1, <3>2, <3>3, <3>4
  <2>3. QED BY <1>2, <2>1, <2>2
<1>7. TraversalTypeOK'
  BY <1>1, <1>2, <1>3, <1>4 DEF TraversalTypeOK
<1>8. QueueIsOrdered'
  <2>1. ASSUME NEW i \in 1 .. Len(queue) PROVE DepthOf[queue[i]] <= DepthOf[c] + 1
    <3>1. DepthOf[queue[i]] \in Nat
      BY VisitedFacts DEF QueueIsOrdered
    <3>2. CASE index = 0
      <4>1. Len(queue) = 1
        BY <3>2 DEF QueueIsOrdered
      <4>2. i = index + 1
        BY <3>2, <4>1
      <4>3. QED BY <3>1, <4>2
    <3>3. CASE index > 0
      <4>1. /\ index \in 1 .. Len(queue) /\ DepthOf[queue[index]] \in Nat
            /\ DepthOf[queue[i]] <= DepthOf[queue[index]] + 1
        BY <1>2, <3>3, VisitedFacts DEF QueueIsOrdered, Current
      <4>2. DepthOf[queue[index]] <= DepthOf[c]
        BY <1>2, <4>1 DEF QueueIsOrdered
      <4>3. QED BY <1>3, <3>1, <4>1, <4>2
    <3>4. QED BY <1>2, <3>2, <3>3
  <2>2. QED BY <1>1, <1>2, <1>3, <2>1 DEF QueueIsOrdered
<1>9. DepthsAreDistances'
  BY <1>1, <1>2 DEF DepthsAreDistances
<1>10. TakenAreClosed'
  <2>1. index' - 1 = index /\ RoomLeft' = RoomLeft
    BY <1>2 DEF RoomLeft
  <2>2. QED BY <1>1, <1>2, <1>3, <1>4, <1>5, <1>6, <2>1 DEF TakenAreClosed, LooksFurther
<1>11. CutsAreTold'
  BY <1>1, <1>2 DEF CutsAreTold
<1>12. QED BY <1>7, <1>8, <1>9, <1>10, <1>11

LEMMA SearchEndsKeeps ==
    ASSUME TraversalInv, SearchEnds
    PROVE  TraversalInv'
<1> USE DEF TraversalInv
<1>1. UNCHANGED <<request, queue, index, neighbors, nodes, truncations>>
      /\ searching' = FALSE /\ neighbors = {} /\ index = Len(queue)
  BY DEF SearchEnds
<1>2. UNCHANGED <<Within, Starts, Neighborhood, DepthOf, Visited, Current, RoomLeft>> /\ RequestOK'
  <2>1. UNCHANGED <<Within, Starts, Neighborhood>> /\ RequestOK'
    BY <1>1, SameRequest DEF TraversalTypeOK
  <2>2. QED BY <1>1, <2>1 DEF DepthOf, Depth, Visited, Current, RoomLeft
<1>3. TraversalTypeOK' /\ QueueIsOrdered' /\ DepthsAreDistances'
  BY <1>1, <1>2 DEF TraversalTypeOK, QueueIsOrdered, DepthsAreDistances
<1>4. TakenAreClosed'
  BY <1>1, <1>2 DEF TakenAreClosed, LooksFurther
<1>5. CutsAreTold'
  BY <1>1, <1>2 DEF CutsAreTold, TraversalTypeOK
<1>6. QED BY <1>3, <1>4, <1>5
\* The neighbour looked at next is a step further than the file taken last.
LEMMA NeighborFacts ==
    ASSUME TraversalInv, neighbors # {}
    PROVE  LET n == First(neighbors)
               d == DepthOf[Current]
           IN  /\ n \in neighbors /\ n \in Files /\ n \notin Visited
               /\ index \in 1 .. Len(queue) /\ Current \in Visited /\ Current \in Files
               /\ d = Depth(Current) /\ d \in Nat /\ d <= request.maxDepth /\ request.maxDepth \in Nat
               /\ n \in Neighborhood[Current]
               /\ n \in Within[d + 1] /\ n \notin Within[d]
<1> DEFINE n == First(neighbors)
           d == DepthOf[Current]
<1> USE DEF TraversalInv
<1>1. PICK m \in neighbors : \A k \in neighbors : m <= k
  BY FilesAssumption, LeastNatural DEF TraversalTypeOK
<1>2. n \in neighbors
  BY <1>1, Zenon DEF First
<1>3. n \in Files /\ n \notin Visited /\ index \in 1 .. Len(queue)
  BY <1>2 DEF TraversalTypeOK, QueueIsOrdered
<1>4. Current \in Visited /\ Current \in Files
  BY <1>3, VisitedFacts DEF Current, QueueIsOrdered
<1>5. d = Depth(Current) /\ d \in Nat /\ d <= request.maxDepth /\ request.maxDepth \in Nat
  BY <1>4, VisitedFacts DEF DepthOf, TraversalTypeOK, RequestOK
<1>6. n \in Neighborhood[Current] /\ Within[d] \subseteq Visited
  BY <1>2, <1>3 DEF TakenAreClosed
<1>7. Current \in Within[d] /\ Within[d + 1] = Within[d] \cup UNION {Neighborhood[f] : f \in Within[d]}
  BY <1>4, <1>5, VisitedFacts DEF AtDistance, Layered
<1>8. n \in Within[d + 1] /\ n \notin Within[d]
  BY <1>3, <1>6, <1>7
<1>9. QED BY <1>2, <1>3, <1>4, <1>5, <1>6, <1>8

LEMMA TooDeepKeeps ==
    ASSUME TraversalInv, searching, neighbors # {}, TooDeep(First(neighbors))
    PROVE  TraversalInv'
<1> DEFINE n == First(neighbors)
           d == DepthOf[Current]
<1>1. /\ n \in neighbors /\ index \in 1 .. Len(queue) /\ Current \in Visited
      /\ d = Depth(Current) /\ d \in Nat /\ d <= request.maxDepth /\ request.maxDepth \in Nat
      /\ n \in Within[d + 1] /\ n \notin Within[d]
  BY NeighborFacts
<1> HIDE DEF n
<1> USE DEF TraversalInv
<1>2. /\ UNCHANGED <<request, queue, index, nodes, searching>>
      /\ truncations' = truncations \cup {"max-depth"} /\ neighbors' = neighbors \ {n}
      /\ d = request.maxDepth
  BY <1>1 DEF TooDeep, n
<1>3. "max-entities" \notin truncations
  BY DEF CutsAreTold
<1>4. UNCHANGED <<Within, Starts, Neighborhood, DepthOf, Visited, Current, RoomLeft>> /\ RequestOK'
  <2>1. UNCHANGED <<Within, Starts, Neighborhood>> /\ RequestOK'
    BY <1>2, SameRequest DEF TraversalTypeOK
  <2>2. QED BY <1>2, <2>1 DEF DepthOf, Depth, Visited, Current, RoomLeft
<1>5. TraversalTypeOK' /\ QueueIsOrdered' /\ DepthsAreDistances'
  BY <1>1, <1>2, <1>4 DEF TraversalTypeOK, QueueIsOrdered, DepthsAreDistances
<1>6. TakenAreClosed'
  <2>1. ~LooksFurther(d)' /\ \A k : LooksFurther(k)' => LooksFurther(k)
    BY <1>1, <1>2, <1>4 DEF LooksFurther
  <2>2. QED BY <1>1, <1>2, <1>4 DEF TakenAreClosed, LooksFurther
<1>7. CutsAreTold'
  BY <1>1, <1>2, <1>3, <1>4 DEF CutsAreTold
<1>8. QED BY <1>5, <1>6, <1>7

LEMMA TooManyKeeps ==
    ASSUME TraversalInv, searching, neighbors # {}, TooMany
    PROVE  TraversalInv'
<1> DEFINE n == First(neighbors)
           d == DepthOf[Current]
<1>1. /\ n \in neighbors /\ n \notin Visited /\ index \in 1 .. Len(queue)
      /\ d = Depth(Current) /\ d \in Nat /\ request.maxDepth \in Nat /\ n \in Within[d + 1]
  BY NeighborFacts
<1> HIDE DEF n
<1> USE DEF TraversalInv
<1>2. /\ UNCHANGED <<request, queue, index, nodes>>
      /\ truncations' = truncations \cup {"max-entities"} /\ neighbors' = {} /\ searching' = FALSE
      /\ d < request.maxDepth
  BY <1>1 DEF TooMany
<1>3. UNCHANGED <<Within, Starts, Neighborhood, DepthOf, Visited, Current, RoomLeft>> /\ RequestOK'
  <2>1. UNCHANGED <<Within, Starts, Neighborhood>> /\ RequestOK'
    BY <1>2, SameRequest DEF TraversalTypeOK
  <2>2. QED BY <1>2, <2>1 DEF DepthOf, Depth, Visited, Current, RoomLeft
<1>4. TraversalTypeOK' /\ QueueIsOrdered' /\ DepthsAreDistances'
  BY <1>1, <1>2, <1>3 DEF TraversalTypeOK, QueueIsOrdered, DepthsAreDistances
<1>5. TakenAreClosed'
  BY <1>1, <1>2, <1>3 DEF TakenAreClosed, LooksFurther
<1>6. CutsAreTold'
  BY <1>1, <1>2, <1>3 DEF CutsAreTold
<1>7. QED BY <1>4, <1>5, <1>6

LEMMA MeetKeeps ==
    ASSUME TraversalInv, searching, neighbors # {}, Meet(First(neighbors))
    PROVE  TraversalInv'
<1> DEFINE n == First(neighbors)
           d == DepthOf[Current]
<1>1. /\ n \in neighbors /\ n \in Files /\ n \notin Visited
      /\ index \in 1 .. Len(queue) /\ Current \in Visited /\ Current \in Files
      /\ d = Depth(Current) /\ d \in Nat /\ request.maxDepth \in Nat
      /\ n \in Neighborhood[Current] /\ n \in Within[d + 1] /\ n \notin Within[d]
  BY NeighborFacts
<1>2. /\ UNCHANGED <<request, index, truncations, searching>>
      /\ d + 1 <= request.maxDepth
      /\ Cardinality(DOMAIN nodes) < request.maxEntities
      /\ nodes' = [f \in DOMAIN nodes \cup {n} |->
                     IF f = n THEN [depth |-> d + 1, predecessor |-> Current] ELSE nodes[f]]
      /\ queue' = Append(queue, n)
      /\ neighbors' = neighbors \ {n}
  BY <1>1 DEF Meet
<1> HIDE DEF n
<1> USE DEF TraversalInv
<1>3. /\ DOMAIN nodes' = DOMAIN nodes \cup {n} /\ n \notin DOMAIN nodes
      /\ nodes'[n] = [depth |-> d + 1, predecessor |-> Current]
      /\ \A f \in DOMAIN nodes : nodes'[f] = nodes[f]
  BY <1>1, <1>2 DEF Visited
<1>4. UNCHANGED <<Within, Starts, Neighborhood>> /\ RequestOK'
  BY <1>2, SameRequest DEF TraversalTypeOK
<1>5. Visited' = Visited \cup {n}
  BY <1>3, <1>4 DEF Visited
<1>6. /\ DepthOf' \in [Files -> Nat] /\ DepthOf'[n] = d + 1
      /\ \A f \in Files : f # n => DepthOf'[f] = DepthOf[f]
  <2>1. DepthOf' = [f \in Files |-> IF f = n THEN d + 1 ELSE DepthOf[f]]
    BY <1>1, <1>3 DEF DepthOf, Depth
  <2>2. QED BY <1>1, <2>1, VisitedFacts
<1>7. \A f \in Visited : f # n /\ DepthOf'[f] = DepthOf[f] /\ DepthOf[f] \in Nat
  BY <1>1, <1>6, VisitedFacts
<1>8. /\ queue' \in Seq(Files) /\ Len(queue') = Len(queue) + 1 /\ Len(queue) \in Nat
      /\ \A i \in 1 .. Len(queue) : queue'[i] = queue[i] /\ queue[i] \in Visited
      /\ queue'[Len(queue) + 1] = n
  BY <1>1, <1>2 DEF TraversalTypeOK, QueueIsOrdered
<1>9. Current' = Current
  BY <1>1, <1>2, <1>8 DEF Current
<1>10. /\ Cardinality(DOMAIN nodes') = Cardinality(DOMAIN nodes) + 1
       /\ Cardinality(DOMAIN nodes) \in Nat /\ request.maxEntities \in Nat
  <2>1. IsFiniteSet(DOMAIN nodes) /\ Cardinality(DOMAIN nodes) \in Nat
    BY VisitedFacts
  <2>2. Cardinality(DOMAIN nodes \cup {n}) = Cardinality(DOMAIN nodes) + 1
    BY <1>3, <2>1, FS_AddElement
  <2>3. QED BY <1>3, <2>1, <2>2 DEF TraversalTypeOK, RequestOK
<1>11. TraversalTypeOK'
  <2>1. \A f \in DOMAIN nodes' : nodes'[f].depth \in Nat \ {0} /\ nodes'[f].predecessor \in Visited'
    BY <1>1, <1>3, <1>5 DEF TraversalTypeOK
  <2>2. DOMAIN nodes' \subseteq Files \ Starts /\ neighbors' \subseteq Files \ Visited'
    BY <1>1, <1>2, <1>3, <1>5 DEF TraversalTypeOK, Visited
  <2>3. index' \in 0 .. Len(queue') /\ Len(queue') >= 1
    BY <1>1, <1>2, <1>8
  <2>4. Cardinality(DOMAIN nodes') <= request.maxEntities
    BY <1>2, <1>10
  <2>5. QED BY <1>2, <1>4, <1>8, <2>1, <2>2, <2>3, <2>4 DEF TraversalTypeOK
<1>12. QueueIsOrdered'
  <2>1. \A i \in 1 .. Len(queue') : (i \in 1 .. Len(queue) \/ i = Len(queue) + 1)
    BY <1>8
  <2>2. \A i \in 1 .. Len(queue') : queue'[i] \in Visited'
    BY <1>5, <1>8, <2>1
  <2>3. ASSUME NEW f \in Visited' PROVE \E i \in 1 .. Len(queue') : queue'[i] = f
    <3>1. CASE f = n
      BY <1>8, <3>1
    <3>2. CASE f \in Visited
      <4>1. PICK i \in 1 .. Len(queue) : queue[i] = f
        BY <3>2 DEF QueueIsOrdered
      <4>2. QED BY <1>8, <4>1
    <3>3. QED BY <1>5, <3>1, <3>2
  <2>4. \A i \in 1 .. Len(queue) :
          /\ DepthOf'[queue'[i]] = DepthOf[queue[i]] /\ DepthOf[queue[i]] \in Nat
          /\ DepthOf[queue[i]] <= d + 1
    BY <1>1, <1>7, <1>8 DEF QueueIsOrdered
  <2>5. ASSUME NEW i \in 1 .. Len(queue'), NEW j \in 1 .. Len(queue'), i <= j
        PROVE  DepthOf'[queue'[i]] <= DepthOf'[queue'[j]]
    <3>1. CASE j \in 1 .. Len(queue)
      <4>1. i \in 1 .. Len(queue)
        BY <1>8, <2>5, <3>1
      <4>2. QED BY <2>4, <2>5, <3>1, <4>1 DEF QueueIsOrdered
    <3>2. CASE j = Len(queue) + 1
      <4>1. DepthOf'[queue'[j]] = d + 1
        BY <1>6, <1>8, <3>2
      <4>2. DepthOf'[queue'[i]] <= d + 1
        BY <1>1, <1>6, <1>8, <2>1, <2>4
      <4>3. QED BY <4>1, <4>2
    <3>3. QED BY <2>1, <3>1, <3>2
  <2>6. ASSUME NEW i \in 1 .. Len(queue') PROVE DepthOf'[queue'[i]] <= DepthOf'[Current'] + 1
    <3>1. DepthOf'[Current'] = d
      BY <1>1, <1>7, <1>9
    <3>2. QED BY <1>1, <1>6, <1>8, <2>1, <2>4, <3>1
  <2>7. index' # 0
    BY <1>1, <1>2
  <2>8. QED BY <2>2, <2>3, <2>5, <2>6, <2>7 DEF QueueIsOrdered
<1>13. DepthsAreDistances'
  <2> SUFFICES ASSUME NEW f \in DOMAIN nodes'
               PROVE  LET m == nodes'[f]
                      IN  /\ m.depth <= request'.maxDepth
                          /\ f \in Within'[m.depth] /\ f \notin Within'[m.depth - 1]
                          /\ f \in Neighborhood'[m.predecessor]
                          /\ m.depth = DepthOf'[m.predecessor] + 1
    BY DEF DepthsAreDistances
  <2>1. CASE f = n
    <3>1. nodes'[f].depth = d + 1 /\ nodes'[f].predecessor = Current /\ (d + 1) - 1 = d
      BY <1>1, <1>3, <2>1
    <3>2. DepthOf'[Current] = d
      BY <1>1, <1>7
    <3>3. QED BY <1>1, <1>2, <1>4, <2>1, <3>1, <3>2
  <2>2. CASE f \in DOMAIN nodes
    <3>1. nodes'[f] = nodes[f] /\ nodes[f].predecessor \in Visited
      BY <1>3, <2>2 DEF TraversalTypeOK
    <3>2. DepthOf'[nodes[f].predecessor] = DepthOf[nodes[f].predecessor]
      BY <1>7, <3>1
    <3>3. QED BY <1>2, <1>4, <2>2, <3>1, <3>2 DEF DepthsAreDistances
  <2>3. QED BY <1>3, <2>1, <2>2
<1>14. TakenAreClosed'
  <2>1. \A k : LooksFurther(k)' <=> LooksFurther(k)
    BY <1>2 DEF LooksFurther
  <2>2. ASSUME NEW i \in 1 .. index' - 1, LooksFurther(DepthOf'[queue'[i]])
        PROVE  Neighborhood'[queue'[i]] \subseteq Visited'
    <3>1. i \in 1 .. index - 1 /\ i \in 1 .. Len(queue)
      BY <1>1, <1>2
    <3>2. queue'[i] = queue[i] /\ DepthOf'[queue'[i]] = DepthOf[queue[i]]
      BY <1>7, <1>8, <3>1
    <3>3. QED BY <1>4, <1>5, <2>2, <3>1, <3>2 DEF TakenAreClosed
  <2>3. DepthOf'[Current'] = d
    BY <1>1, <1>7, <1>9
  <2>4. neighbors' \subseteq Neighborhood'[Current'] /\ Within'[DepthOf'[Current']] \subseteq Visited'
    BY <1>1, <1>2, <1>4, <1>5, <1>9, <2>3 DEF TakenAreClosed
  <2>5. ASSUME LooksFurther(d), "max-entities" \notin truncations
        PROVE  \/ Neighborhood'[Current'] \ Visited' \subseteq neighbors'
               \/ Cardinality(neighbors') > RoomLeft'
    <3>1. CASE Neighborhood[Current] \ Visited \subseteq neighbors
      BY <1>2, <1>4, <1>5, <1>9, <3>1
    <3>2. CASE Cardinality(neighbors) > RoomLeft
      <4>1. neighbors \in SUBSET Files
        BY DEF TraversalTypeOK
      <4>2. IsFiniteSet(neighbors)
        BY <4>1, FilesAssumption, FS_Subset
      <4>3. Cardinality(neighbors) \in Nat /\ Cardinality(neighbors') = Cardinality(neighbors) - 1
        BY <1>1, <1>2, <4>2, FS_CardinalityType, FS_RemoveElement
      <4>4. RoomLeft \in Int /\ RoomLeft' = RoomLeft - 1
        BY <1>2, <1>10 DEF RoomLeft
      <4>5. QED BY <3>2, <4>3, <4>4
    <3>3. QED BY <1>1, <2>5, <3>1, <3>2 DEF TakenAreClosed
  <2>6. QED BY <1>2, <2>2, <2>3, <2>4, <2>5 DEF TakenAreClosed, LooksFurther
<1>15. CutsAreTold'
  BY <1>2, <1>4 DEF CutsAreTold
<1>16. QED BY <1>11, <1>12, <1>13, <1>14, <1>15
LEMMA TraverseKeeps ==
    ASSUME TraversalInv, Traverse
    PROVE  TraversalInv'
<1>1. CASE Dequeue
  BY <1>1, DequeueKeeps
<1>2. CASE TakeNeighbor
  BY <1>2, TooDeepKeeps, TooManyKeeps, MeetKeeps, Zenon DEF TakeNeighbor
<1>3. CASE SearchEnds
  BY <1>3, SearchEndsKeeps
<1>4. QED BY <1>1, <1>2, <1>3 DEF Traverse

\* A distance that is one is the distance.
LEMMA DistanceIs ==
    ASSUME RequestOK, NEW f, NEW k \in Nat, AtDistance(Within, f, k)
    PROVE  Distance(f) = k
<1>1. Layered(Within, Starts, Neighborhood)
  BY SearchLayers
<1>2. k \in 0 .. Cardinality(Files)
  BY <1>1, DistanceIsUnique, FilesAssumption, FS_CardinalityType
<1> DEFINE P(j) == f \in Within[j] /\ (j = 0 \/ f \notin Within[j - 1])
<1>3. P(k) /\ \A j \in 0 .. Cardinality(Files) : P(j) => j = k
  BY <1>1, DistanceIsUnique DEF AtDistance
<1>4. Distance(f) = CHOOSE j \in 0 .. Cardinality(Files) : P(j)
  BY DEF Distance
<1> HIDE DEF P
<1>5. QED BY <1>2, <1>3, <1>4

LEMMA ReturnedSearchIsExact ==
    ASSUME TraversalInv, ~searching
    PROVE  SearchIsExact
<1> DEFINE met == DOMAIN nodes
           M == request.maxDepth
           F == Cardinality(Files)
           inReach == Within[M] \ Starts
<1> USE DEF TraversalInv
<1>1. RequestOK /\ M \in Nat /\ F \in Nat /\ M + 1 \in Nat
  BY FilesAssumption, FS_CardinalityType DEF TraversalTypeOK, RequestOK
<1>2. /\ Layered(Within, Starts, Neighborhood) /\ Visited = Starts \cup met
      /\ met \cap Starts = {} /\ Visited \subseteq Files /\ DepthOf \in [Files -> Nat]
  BY VisitedFacts DEF Visited, TraversalTypeOK
<1>3. \A j, k \in Nat : j <= k => Within[j] \subseteq Within[k]
  BY <1>2, LayersGrow
<1>4. \A k \in Nat : Starts \subseteq Within[k]
  BY <1>2, <1>3 DEF Layered
<1>5. Visited \subseteq Within[M]
  <2>1. ASSUME NEW f \in Visited PROVE f \in Within[M]
    <3>1. DepthOf[f] \in Nat /\ DepthOf[f] <= M /\ f \in Within[DepthOf[f]]
      BY <1>2, VisitedFacts DEF AtDistance
    <3>2. QED BY <1>1, <1>3, <3>1
  <2>2. QED BY <2>1
<1>6. met \subseteq inReach
  BY <1>2, <1>5
<1>7. ASSUME NEW f \in met PROVE nodes[f].depth = DepthOf[f] /\ Distance(f) = DepthOf[f]
  <2>1. f \in Visited /\ DepthOf[f] \in Nat /\ nodes[f].depth = DepthOf[f]
    BY <1>2, VisitedFacts
  <2>2. AtDistance(Within, f, DepthOf[f])
    BY <2>1, VisitedFacts
  <2>3. QED BY <1>1, <2>1, <2>2, DistanceIs
\* A search that was not cut took every file it met.
<1>8. ASSUME "max-entities" \notin truncations,
             NEW f \in Visited, LooksFurther(DepthOf[f])
      PROVE  Neighborhood[f] \subseteq Visited
  <2>1. index = Len(queue) /\ neighbors = {} /\ Len(queue) >= 1 /\ Len(queue) \in Nat
    BY <1>8 DEF CutsAreTold, TraversalTypeOK
  <2>2. PICK i \in 1 .. Len(queue) : queue[i] = f
    BY DEF QueueIsOrdered
  <2>3. CASE i = index
    <3>1. ~(Cardinality(neighbors) > RoomLeft)
      BY <2>1, VisitedFacts, FS_EmptySet DEF RoomLeft, TraversalTypeOK, RequestOK
    <3>2. QED BY <1>8, <2>1, <2>2, <2>3, <3>1 DEF TakenAreClosed, Current
  <2>4. CASE i # index
    <3>1. i \in 1 .. index - 1
      BY <2>1, <2>4
    <3>2. QED BY <1>8, <2>2, <3>1 DEF TakenAreClosed
  <2>5. QED BY <2>3, <2>4
<1>9. ASSUME "max-entities" \notin truncations PROVE inReach \subseteq met
  <2>1. ASSUME NEW f \in Visited, NEW d \in Nat, AtDistance(Within, f, d), d < M
        PROVE  Neighborhood[f] \subseteq Visited
    <3>1. DepthOf[f] \in Nat /\ AtDistance(Within, f, DepthOf[f])
      BY <1>2, VisitedFacts
    <3>2. DepthOf[f] = d
      BY <1>2, <2>1, <3>1, DistanceIsUnique
    <3>3. QED BY <1>8, <1>9, <2>1, <3>2 DEF LooksFurther
  <2>2. Within[M] \subseteq Visited
    BY <1>1, <1>2, <2>1, ClosedHoldsLayers
  <2>3. QED BY <1>2, <2>2
<1>10. ASSUME "max-entities" \in truncations PROVE met # inReach
  <2>1. index > 0 /\ DepthOf[Current] < M
    BY <1>10 DEF CutsAreTold
  <2>2. PICK g \in Within[DepthOf[Current] + 1] : g \notin Visited
    BY <1>10 DEF CutsAreTold
  <2>3. index \in 1 .. Len(queue)
    BY <2>1 DEF TraversalTypeOK
  <2>4. DepthOf[Current] \in Nat /\ DepthOf[Current] + 1 \in Nat /\ DepthOf[Current] + 1 <= M
    BY <1>1, <1>2, <2>1, <2>3 DEF QueueIsOrdered, Current
  <2>5. g \in Within[M]
    BY <1>1, <1>3, <2>2, <2>4
  <2>6. QED BY <1>2, <2>2, <2>5
<1>11. "max-entities" \in truncations <=> met # inReach
  BY <1>6, <1>9, <1>10
<1>12. ASSUME NEW f \in met, NEW g \in inReach \ met
       PROVE  nodes[f].depth <= Distance(g)
  <2>1. "max-entities" \in truncations
    BY <1>9
  <2>2. index \in 1 .. Len(queue)
    BY <2>1 DEF CutsAreTold, TraversalTypeOK
  <2> DEFINE d == DepthOf[Current]
  <2>3. d \in Nat /\ Within[d] \subseteq Visited
    BY <1>2, <2>2 DEF QueueIsOrdered, Current, TakenAreClosed
  <2>4. PICK i \in 1 .. Len(queue) : queue[i] = f
    BY <1>2 DEF QueueIsOrdered
  <2>5. DepthOf[f] <= d + 1 /\ DepthOf[f] \in Nat
    BY <1>2, <2>2, <2>4 DEF QueueIsOrdered
  <2>6. PICK k \in Nat : AtDistance(Within, g, k)
    BY <1>1, <1>2, DistanceExists
  <2>7. Distance(g) = k
    BY <1>1, <2>6, DistanceIs
  <2>8. d < k
    <3> SUFFICES ASSUME k <= d PROVE FALSE
      BY <2>3
    <3>1. g \in Within[d]
      BY <1>3, <2>3, <2>6 DEF AtDistance
    <3>2. QED BY <1>2, <2>3, <3>1
  <2>9. QED BY <1>7, <2>3, <2>5, <2>7, <2>8
<1>13. ASSUME truncations = {} PROVE met = Within[F] \ Starts
  <2>1. Within[M] \subseteq Within[F]
    BY <1>1, <1>2, LayersSettle
  <2>2. \A f \in Visited : Neighborhood[f] \subseteq Visited
    BY <1>8, <1>13 DEF LooksFurther
  <2>3. Within[F] \subseteq Visited
    BY <1>1, <1>2, <2>2, ClosedHoldsLayers
  <2>4. QED BY <1>2, <1>5, <2>1, <2>3
<1>14. ASSUME met = Within[F] \ Starts PROVE truncations = {}
  <2>1. Within[M] \subseteq Within[F] /\ Within[M + 1] \subseteq Within[F]
    BY <1>1, <1>2, LayersSettle
  <2>2. "max-depth" \notin truncations
    <3> SUFFICES ASSUME "max-depth" \in truncations PROVE FALSE
      OBVIOUS
    <3>1. PICK g \in Within[M + 1] : g \notin Within[M]
      BY DEF CutsAreTold
    <3>2. g \in met
      BY <1>1, <1>4, <1>14, <2>1, <3>1
    <3>3. QED BY <1>2, <1>5, <3>1, <3>2
  <2>3. "max-entities" \notin truncations
    BY <1>2, <1>6, <1>10, <1>14, <2>1
  <2>4. QED BY <2>2, <2>3 DEF TraversalTypeOK
<1>15. QED
  BY <1>6, <1>7, <1>11, <1>12, <1>13, <1>14 DEF SearchIsExact, Reachable

-----------------------------------------------------------------------------
(* The result of a search *)

\* The search from a file of a tree, as getImpact starts it.
SearchOf(tree, p) ==
    /\ request.edges = tree.edges /\ request.startIds = <<p>>
    /\ request.direction = "dependents"
    /\ request.maxDepth = MaxDepth /\ request.maxEntities = MaxEntities

TreeTypeOK(tree) == tree.files \subseteq Files /\ tree.edges \subseteq tree.files \X tree.files

LEMMA ReachIsWithin ==
    ASSUME RequestOK, NEW tree, TreeTypeOK(tree), NEW p, SearchOf(tree, p), NEW d \in Nat
    PROVE  ReachIn(tree, p, d) = Within[d]
<1> DEFINE Body(R) == [k \in Nat |->
                         IF k = 0 THEN {p}
                         ELSE LET r == R[k - 1]
                              IN  r \cup {g \in tree.files : \E h \in r : <<g, h>> \in tree.edges}]
<1>1. Layered(Within, Starts, Neighborhood) /\ Starts = {p}
  BY SearchLayers, OneStart DEF SearchOf, Starts
<1>2. \A f \in Files : Neighborhood[f] = {g \in Files : <<g, f>> \in tree.edges}
  BY DEF Neighborhood, NeighborsOf, Dependents, RequestOK, SearchOf
<1>3. \A k \in Nat : /\ Within[k] \subseteq Files
                     /\ Within[k + 1] = Within[k] \cup {g \in tree.files : \E h \in Within[k] : <<g, h>> \in tree.edges}
  <2> TAKE k \in Nat
  <2>1. /\ Within[k] \subseteq Files
        /\ Within[k + 1] = Within[k] \cup UNION {Neighborhood[f] : f \in Within[k]}
    BY <1>1 DEF Layered
  <2>2. UNION {Neighborhood[f] : f \in Within[k]} = {g \in tree.files : \E h \in Within[k] : <<g, h>> \in tree.edges}
    <3>1. ASSUME NEW g, NEW h \in Within[k]
          PROVE  g \in Neighborhood[h] <=> g \in tree.files /\ <<g, h>> \in tree.edges
      <4>1. h \in Files
        BY <2>1
      <4>2. <<g, h>> \in tree.edges => g \in tree.files /\ g \in Files
        BY DEF TreeTypeOK
      <4>3. QED BY <1>2, <4>1, <4>2
    <3>2. QED BY <3>1
  <2>3. QED BY <2>1, <2>2
<1>4. Within = Body(Within)
  <2>1. Within = [k \in Nat |-> Within[k]]
    BY <1>1 DEF Layered
  <2>2. ASSUME NEW k \in Nat PROVE Within[k] = Body(Within)[k]
    <3>1. CASE k = 0
      BY <1>1, <3>1 DEF Layered
    <3>2. CASE k # 0
      <4>1. k - 1 \in Nat /\ (k - 1) + 1 = k
        BY <3>2
      <4>2. QED BY <1>3, <3>2, <4>1
    <3>3. QED BY <3>1, <3>2
  <2>3. QED BY <2>1, <2>2
<1> DEFINE R == CHOOSE X : X = Body(X)
<1>5. R = Body(R)
  BY <1>4, Zenon
<1>6. ReachIn(tree, p, d) = R[d]
  BY Zenon DEF ReachIn
<1> HIDE DEF R
<1> DEFINE T == {k \in Nat : R[k] = Within[k]}
<1>7. 0 \in T
  BY <1>1, <1>5 DEF Layered
<1>8. ASSUME NEW k \in Nat, k \in T PROVE k + 1 \in T
  <2>1. k + 1 \in Nat /\ (k + 1) - 1 = k /\ k + 1 # 0 /\ R[k] = Within[k]
    BY <1>8
  <2>2. R[k + 1] = Body(R)[k + 1]
    BY <1>5
  <2>3. R[k + 1] = R[k] \cup {g \in tree.files : \E h \in R[k] : <<g, h>> \in tree.edges}
    BY <2>1, <2>2
  <2>4. QED BY <1>3, <2>1, <2>3
<1> HIDE DEF T
<1>9. \A k \in Nat : k \in T
  BY <1>7, <1>8, NatIsReached
<1>10. QED BY <1>6, <1>9 DEF T
\* The recursion of buildCanonicalPath has a solution: predecessors are closer.
LEMMA PathsExist ==
    ASSUME TraversalInv, Starts = {target.path}
    PROVE  \E T : T = [g \in Visited |-> IF g = target.path THEN <<g>>
                                         ELSE Append(T[nodes[g].predecessor], g)]
<1> DEFINE p == target.path
           V == [Visited -> Seq(Files)]
           Body(X) == [g \in Visited |-> IF g = p THEN <<g>> ELSE Append(X[nodes[g].predecessor], g)]
           step == [X \in V |-> Body(X)]
           s0 == [g \in Visited |-> <<>>]
<1>1. /\ Visited \subseteq Files /\ DepthOf \in [Files -> Nat]
      /\ \A g \in Visited : g # p =>
           /\ nodes[g].predecessor \in Visited
           /\ DepthOf[g] = DepthOf[nodes[g].predecessor] + 1
  <2>1. Visited \subseteq Files /\ DepthOf \in [Files -> Nat]
    BY VisitedFacts
  <2>2. ASSUME NEW g \in Visited, g # p
        PROVE  /\ nodes[g].predecessor \in Visited
               /\ DepthOf[g] = DepthOf[nodes[g].predecessor] + 1
    <3>1. g \in DOMAIN nodes
      BY <2>2 DEF Visited
    <3>2. DepthOf[g] = nodes[g].depth
      BY <3>1, VisitedFacts
    <3>3. QED BY <3>1, <3>2 DEF TraversalInv, TraversalTypeOK, DepthsAreDistances
  <2>3. QED BY <2>1, <2>2
<1>2. s0 \in V
  <2>1. <<>> \in Seq(Files)
    OBVIOUS
  <2>2. QED BY <2>1
<1>3. ASSUME NEW X \in V PROVE Body(X) \in V
  <2>1. ASSUME NEW g \in Visited
        PROVE  (IF g = p THEN <<g>> ELSE Append(X[nodes[g].predecessor], g)) \in Seq(Files)
    BY <1>1, <2>1
  <2>2. QED BY <2>1
<1>4. step \in [V -> V] /\ \A X \in V : step[X] = Body(X)
  BY <1>3
<1> HIDE DEF step, s0
<1>5. PICK h \in [Nat -> V] : h[0] = s0 /\ \A k \in Nat : h[k + 1] = step[h[k]]
  <2> HIDE DEF V
  <2>1. step \in [V -> V]
    BY <1>4
  <2>2. QED BY <1>2, <2>1, Iteration
<1>6. \A k \in Nat : h[k] \in V /\ h[k + 1] = Body(h[k])
  <2> HIDE DEF V, Body
  <2>1. QED BY <1>4, <1>5
<1> DEFINE Settled == {k \in Nat : \A g \in Visited : DepthOf[g] < k => h[k + 1][g] = h[k][g]}
<1>7. \A k \in Nat : k \in Settled
  <2>1. 0 \in Settled
    BY <1>1
  <2>2. ASSUME NEW k \in Nat, k \in Settled PROVE k + 1 \in Settled
    <3> SUFFICES ASSUME NEW g \in Visited, DepthOf[g] < k + 1
                 PROVE  h[(k + 1) + 1][g] = h[k + 1][g]
      OBVIOUS
    <3>1. k + 1 \in Nat
      OBVIOUS
    <3>2. h[(k + 1) + 1] = Body(h[k + 1]) /\ h[k + 1] = Body(h[k])
      BY <1>6, <3>1
    <3>3. CASE g = p
      BY <3>2, <3>3
    <3>4. CASE g # p
      <4> DEFINE q == nodes[g].predecessor
      <4>1. q \in Visited /\ DepthOf[g] = DepthOf[q] + 1
        BY <1>1, <3>4
      <4> HIDE DEF q
      <4>2. DepthOf[q] \in Nat /\ DepthOf[q] < k
        <5>1. DepthOf[q] \in Nat
          BY <1>1, <4>1
        <5>2. QED BY <4>1, <5>1
      <4> USE DEF q
      <4>3. h[k + 1][q] = h[k][q]
        BY <2>2, <4>1, <4>2
      <4>4. h[(k + 1) + 1][g] = Append(h[k + 1][q], g) /\ h[k + 1][g] = Append(h[k][q], g)
        BY <3>2, <3>4
      <4>5. QED BY <4>3, <4>4
    <3>5. QED BY <3>3, <3>4
  <2> HIDE DEF Settled
  <2>3. QED BY <2>1, <2>2, NatIsReached
<1> DEFINE K == request.maxDepth + 1
<1>8. K \in Nat /\ \A g \in Visited : DepthOf[g] \in Nat /\ DepthOf[g] < K
  <2>1. request.maxDepth \in Nat
    BY DEF TraversalInv, TraversalTypeOK, RequestOK
  <2>2. \A g \in Visited : DepthOf[g] \in Nat /\ DepthOf[g] <= request.maxDepth
    BY <1>1, VisitedFacts
  <2>3. QED BY <2>1, <2>2
<1> HIDE DEF K
<1>9. K \in Settled /\ h[K] \in V /\ h[K + 1] \in V /\ h[K + 1] = Body(h[K])
  <2>1. K + 1 \in Nat
    BY <1>8
  <2> HIDE DEF V, Body, Settled
  <2>2. QED BY <1>6, <1>7, <1>8, <2>1
<1>10. \A g \in Visited : h[K + 1][g] = h[K][g]
  BY <1>8, <1>9
<1>11. h[K + 1] = h[K]
  BY <1>9, <1>10
<1>12. h[K] = Body(h[K])
  BY <1>9, <1>11
<1>13. QED BY <1>12

LEMMA CanonicalPathFacts ==
    ASSUME TraversalInv, Starts = {target.path}, NEW f \in Visited
    PROVE  LET path == CanonicalPath(f)
           IN  /\ path \in Seq(Files) /\ Len(path) = DepthOf[f] + 1
               /\ path[1] = target.path /\ path[Len(path)] = f
               /\ \A i \in 1 .. Len(path) - 1 : path[i + 1] \in Neighborhood[path[i]]
<1> DEFINE p == target.path
           Body(X) == [g \in Visited |-> IF g = p THEN <<g>> ELSE Append(X[nodes[g].predecessor], g)]
           To == CHOOSE X : X = Body(X)
<1>1. To = Body(To)
  <2>1. \E X : X = Body(X)
    BY PathsExist
  <2>2. QED BY <2>1, Zenon
<1>2. \A g \in Visited : CanonicalPath(g) = To[g]
  BY Zenon DEF CanonicalPath
<1> HIDE DEF To
<1>3. \A g \in Visited : To[g] = IF g = p THEN <<g>> ELSE Append(To[nodes[g].predecessor], g)
  BY <1>1
<1> DEFINE Good(g) == /\ To[g] \in Seq(Files) /\ Len(To[g]) = DepthOf[g] + 1
                      /\ To[g][1] = p /\ To[g][Len(To[g])] = g
                      /\ \A i \in 1 .. Len(To[g]) - 1 : To[g][i + 1] \in Neighborhood[To[g][i]]
           T == {k \in Nat : \A g \in Visited : DepthOf[g] = k => Good(g)}
<1>4. ASSUME NEW g \in Visited
      PROVE  /\ g \in Files /\ DepthOf[g] \in Nat
             /\ g = p => DepthOf[g] = 0
             /\ g # p => /\ nodes[g].predecessor \in Visited
                         /\ g \in Neighborhood[nodes[g].predecessor]
                         /\ DepthOf[g] = DepthOf[nodes[g].predecessor] + 1
  <2>1. g \in Files /\ DepthOf[g] \in Nat /\ (g = p => DepthOf[g] = 0)
    BY VisitedFacts
  <2>2. ASSUME g # p
        PROVE  /\ nodes[g].predecessor \in Visited
               /\ g \in Neighborhood[nodes[g].predecessor]
               /\ DepthOf[g] = DepthOf[nodes[g].predecessor] + 1
    <3>1. g \in DOMAIN nodes
      BY <2>2 DEF Visited
    <3>2. DepthOf[g] = nodes[g].depth
      BY <3>1, VisitedFacts
    <3>3. QED BY <3>1, <3>2 DEF TraversalInv, TraversalTypeOK, DepthsAreDistances
  <2>3. QED BY <2>1, <2>2
<1>5. ASSUME NEW g \in Visited, g = p PROVE Good(g)
  <2>1. To[g] = <<g>> /\ DepthOf[g] = 0 /\ g \in Files
    BY <1>3, <1>4, <1>5
  <2>2. QED BY <1>5, <2>1
<1>6. 0 \in T
  <2>1. ASSUME NEW g \in Visited, DepthOf[g] = 0 PROVE g = p
    <3>1. g # p => DepthOf[nodes[g].predecessor] \in Nat
      BY <1>4
    <3>2. QED BY <1>4, <2>1, <3>1
  <2>2. QED BY <1>5, <2>1
<1>7. ASSUME NEW k \in Nat, k \in T PROVE k + 1 \in T
  <2> SUFFICES ASSUME NEW g \in Visited, DepthOf[g] = k + 1 PROVE Good(g)
    OBVIOUS
  <2> DEFINE q == nodes[g].predecessor
             s == To[q]
  <2>1. g # p
    BY <1>4
  <2>2. q \in Visited /\ g \in Neighborhood[q] /\ DepthOf[q] = k /\ g \in Files
    BY <1>4, <2>1
  <2>3. Good(q)
    BY <1>7, <2>2
  <2>4. To[g] = Append(s, g)
    BY <1>3, <2>1
  <2>5. s \in Seq(Files) /\ Len(s) = k + 1 /\ s[1] = p /\ s[Len(s)] = q
        /\ \A i \in 1 .. Len(s) - 1 : s[i + 1] \in Neighborhood[s[i]]
    BY <2>2, <2>3
  <2> HIDE DEF s, q
  <2>6. /\ Append(s, g) \in Seq(Files) /\ Len(Append(s, g)) = Len(s) + 1
        /\ \A i \in 1 .. Len(s) : Append(s, g)[i] = s[i]
        /\ Append(s, g)[Len(s) + 1] = g
    BY <2>2, <2>5
  <2>7. ASSUME NEW i \in 1 .. Len(s) PROVE Append(s, g)[i + 1] \in Neighborhood[Append(s, g)[i]]
    <3>1. CASE i = Len(s)
      BY <2>2, <2>5, <2>6, <3>1
    <3>2. CASE i # Len(s)
      <4>1. i \in 1 .. Len(s) - 1 /\ i + 1 \in 1 .. Len(s)
        BY <2>5, <3>2
      <4>2. QED BY <2>5, <2>6, <4>1
    <3>3. QED BY <3>1, <3>2
  <2>8. Len(To[g]) - 1 = Len(s) /\ Len(To[g]) = DepthOf[g] + 1 /\ 1 \in 1 .. Len(s)
    BY <2>4, <2>5, <2>6
  <2>9. QED BY <2>4, <2>5, <2>6, <2>7, <2>8
<1> HIDE DEF T, Good
<1>8. \A k \in Nat : k \in T
  BY <1>6, <1>7, NatIsReached
<1>9. Good(f)
  BY <1>4, <1>8 DEF T
<1>10. QED BY <1>2, <1>9 DEF Good
\* Paths as evidence of the files reached from one of a tree.
EvidenceOK(tree, p, files, paths) ==
    /\ Cardinality(paths) = Cardinality(FirstOf(files, MaxEvidencePaths))
    /\ \A path \in paths :
         /\ path[1] = p
         /\ path[Len(path)] \in files
         /\ \A i \in 1..(Len(path) - 1) : <<path[i + 1], path[i]>> \in tree.edges
         /\ path[Len(path)] \notin ReachIn(tree, path[1], Len(path) - 2)

LEMMA ResultEvidence ==
    ASSUME TraversalInv, ~searching,
           NEW tree, TreeTypeOK(tree), SearchOf(tree, target.path)
    PROVE  EvidenceOK(tree, target.path, DOMAIN nodes,
                      {CanonicalPath(f) : f \in FirstOf(DOMAIN nodes, MaxEvidencePaths)})
<1> DEFINE p == target.path
           met == DOMAIN nodes
           S == FirstOf(met, MaxEvidencePaths)
           paths == {CanonicalPath(f) : f \in S}
<1>1. RequestOK /\ Starts = {p} /\ met \subseteq Visited /\ Visited \subseteq Files
  BY OneStart, VisitedFacts DEF TraversalInv, TraversalTypeOK, SearchOf, Starts, Visited
<1>2. S \subseteq met
  BY DEF FirstOf
<1>3. ASSUME NEW f \in S
      PROVE  LET path == CanonicalPath(f)
             IN  /\ path \in Seq(Files) /\ Len(path) = DepthOf[f] + 1
                 /\ path[1] = p /\ path[Len(path)] = f
                 /\ \A i \in 1 .. Len(path) - 1 : path[i + 1] \in Neighborhood[path[i]]
  BY <1>1, <1>2, CanonicalPathFacts
<1>4. Cardinality(paths) = Cardinality(S)
  <2> DEFINE b == [f \in S |-> CanonicalPath(f)]
  <2>1. b \in [S -> paths]
    OBVIOUS
  <2>2. \A f, g \in S : b[f] = b[g] => f = g
    BY <1>3
  <2>3. \A q \in paths : \E f \in S : b[f] = q
    OBVIOUS
  <2>4. IsFiniteSet(S)
    <3>1. IsFiniteSet(met) /\ S \in SUBSET met
      BY <1>2, VisitedFacts
    <3> HIDE DEF S
    <3>2. QED BY <3>1, FS_Subset
  <2> HIDE DEF b, paths, S
  <2>5. ExistsBijection(S, paths)
    BY <2>1, <2>2, <2>3 DEF ExistsBijection, Bijection, Injection, Surjection, IsInjective
  <2>6. QED BY <2>4, <2>5, FS_Bijection
<1>5. ASSUME NEW f \in S
      PROVE  LET path == CanonicalPath(f)
             IN  /\ path[1] = p
                 /\ path[Len(path)] \in met
                 /\ \A i \in 1..(Len(path) - 1) : <<path[i + 1], path[i]>> \in tree.edges
                 /\ path[Len(path)] \notin ReachIn(tree, path[1], Len(path) - 2)
  <2> DEFINE path == CanonicalPath(f)
  <2>1. /\ path \in Seq(Files) /\ Len(path) = DepthOf[f] + 1
        /\ path[1] = p /\ path[Len(path)] = f
        /\ \A i \in 1 .. Len(path) - 1 : path[i + 1] \in Neighborhood[path[i]]
    BY <1>3
  <2> HIDE DEF path
  <2>2. f \in met /\ DepthOf[f] = nodes[f].depth /\ nodes[f].depth \in Nat \ {0}
        /\ f \notin Within[nodes[f].depth - 1]
    BY <1>2, VisitedFacts DEF TraversalInv, TraversalTypeOK, DepthsAreDistances
  <2>3. ASSUME NEW i \in 1 .. Len(path) - 1 PROVE <<path[i + 1], path[i]>> \in tree.edges
    <3>1. i \in 1 .. Len(path) /\ path[i] \in Files
      BY <2>1
    <3>2. Neighborhood[path[i]] = {g \in Files : <<g, path[i]>> \in tree.edges}
      BY <1>1, <3>1 DEF Neighborhood, NeighborsOf, Dependents, SearchOf
    <3>3. QED BY <2>1, <3>2
  <2>4. Len(path) - 2 = nodes[f].depth - 1 /\ Len(path) - 2 \in Nat
    BY <2>1, <2>2
  <2>5. ReachIn(tree, p, Len(path) - 2) = Within[Len(path) - 2]
    BY <1>1, <2>4, ReachIsWithin
  <2>6. QED BY <2>1, <2>2, <2>3, <2>4, <2>5 DEF path
<1>6. QED BY <1>4, <1>5 DEF EvidenceOK

LEMMA ResultFiles ==
    ASSUME TraversalInv, ~searching,
           NEW tree, TreeTypeOK(tree), SearchOf(tree, target.path)
    PROVE  /\ DOMAIN nodes \subseteq DependentsIn(tree, target.path)
           /\ truncations = {} => DependentsIn(tree, target.path) \subseteq DOMAIN nodes
<1> DEFINE p == target.path
           F == Cardinality(Files)
<1>1. RequestOK /\ Starts = {p} /\ F \in Nat /\ request.maxDepth \in Nat
  BY OneStart, FilesAssumption, FS_CardinalityType
  DEF TraversalInv, TraversalTypeOK, SearchOf, Starts, RequestOK
<1>2. DependentsIn(tree, p) = Within[F] \ Starts
  BY <1>1, ReachIsWithin DEF DependentsIn
<1>3. Within[request.maxDepth] \subseteq Within[F]
  BY <1>1, SearchLayers, LayersSettle
<1>4. queue # <<>>
  BY DEF TraversalInv, TraversalTypeOK
<1>5. /\ DOMAIN nodes \subseteq Within[request.maxDepth] \ Starts
      /\ truncations = {} => DOMAIN nodes = Within[F] \ Starts
  BY <1>4, ReturnedSearchIsExact DEF SearchIsExact, Reachable
<1>6. QED BY <1>2, <1>3, <1>5

-----------------------------------------------------------------------------
(* The answer *)

LEMMA SidesFacts ==
    ASSUME NEW c \in Comparisons
    PROVE  /\ TextSides(c) \subseteq [side : {"before", "after"}, path : Nat]
           /\ IsFiniteSet(TextSides(c))
           /\ Candidates(c) \subseteq TextSides(c) /\ IsFiniteSet(Candidates(c))
           /\ NoTarget \notin TextSides(c)
<1> DEFINE D == {d \in c.changes : d.text}
           Sets == {CommitFileSides(d) : d \in D}
<1>1. ASSUME NEW d \in D
      PROVE  /\ CommitFileSides(d) \subseteq [side : {"before", "after"}, path : Nat]
             /\ IsFiniteSet(CommitFileSides(d))
  <2>1. d.path \in Nat /\ d.previousPath \in Nat
    BY ComparisonsAssumption
  <2>2. PICK x \in [side : {"before", "after"}, path : Nat], y \in [side : {"before", "after"}, path : Nat] :
          CommitFileSides(d) = {x} \/ CommitFileSides(d) = {x} \cup {y}
    <3>1. \A k \in Nat : Side("before", k) \in [side : {"before", "after"}, path : Nat]
                         /\ Side("after", k) \in [side : {"before", "after"}, path : Nat]
      BY DEF Side
    <3>2. /\ d.kind = "added" => CommitFileSides(d) = {Side("after", d.path)}
          /\ d.kind = "deleted" => CommitFileSides(d) = {Side("before", d.path)}
          /\ d.kind = "renamed" =>
               CommitFileSides(d) = {Side("before", d.previousPath)} \cup {Side("after", d.path)}
          /\ d.kind \notin {"added", "deleted", "renamed"} =>
               CommitFileSides(d) = {Side("before", d.path)} \cup {Side("after", d.path)}
      BY DEF CommitFileSides
    <3>3. QED BY <2>1, <3>1, <3>2
  <2>3. IsFiniteSet({x}) /\ IsFiniteSet({x} \cup {y})
    BY FS_Singleton, FS_AddElement
  <2>4. QED BY <2>2, <2>3
<1>2. IsFiniteSet(D)
  <2>1. D \in SUBSET c.changes /\ IsFiniteSet(c.changes)
    BY ComparisonsAssumption
  <2> HIDE DEF D
  <2>2. QED BY <2>1, FS_Subset
<1>3. IsFiniteSet(Sets)
  <2> DEFINE h == [d \in D |-> CommitFileSides(d)]
  <2>1. h \in Surjection(D, Sets)
    BY DEF Surjection
  <2> HIDE DEF h, D, Sets
  <2>2. QED BY <1>2, <2>1, FS_Surjection
<1>4. TextSides(c) = UNION Sets /\ \A T \in Sets : IsFiniteSet(T)
  BY <1>1 DEF TextSides
<1>5. IsFiniteSet(TextSides(c))
  <2> HIDE DEF Sets
  <2>1. QED BY <1>3, <1>4, FS_UNION
<1>6. TextSides(c) \subseteq [side : {"before", "after"}, path : Nat]
  BY <1>1 DEF TextSides
<1>7. NoTarget \notin TextSides(c)
  BY <1>6 DEF NoTarget
<1>8. Candidates(c) \in SUBSET TextSides(c)
  BY DEF Candidates
<1>9. IsFiniteSet(Candidates(c))
  BY <1>5, <1>8, FS_Subset
<1>10. QED BY <1>5, <1>6, <1>7, <1>8, <1>9

LEMMA AllTargets ==
    ASSUME NEW S, S \subseteq [side : {"before", "after"}, path : Nat], IsFiniteSet(S)
    PROVE  FirstTargets(S) \subseteq S /\ (Cardinality(S) <= MaxTargets => FirstTargets(S) = S)
<1>1. ASSUME NEW t \in S, Cardinality(S) <= MaxTargets
      PROVE  Cardinality({u \in S : Precedes(u, t)}) < MaxTargets
  <2> DEFINE before == {u \in S : Precedes(u, t)}
  <2>1. before \in SUBSET S /\ t \notin before
    BY DEF Precedes
  <2> HIDE DEF before
  <2>2. IsFiniteSet(before) /\ Cardinality(before) <= Cardinality(S) /\ before # S
    BY <2>1, FS_Subset
  <2>3. Cardinality(before) \in Nat /\ Cardinality(S) \in Nat /\ Cardinality(before) # Cardinality(S)
    BY <2>1, <2>2, FS_Subset, FS_CardinalityType
  <2>4. Cardinality(before) < MaxTargets
    BY <1>1, <2>2, <2>3, BoundsAssumption
  <2>5. QED BY <2>4 DEF before
<1>2. QED BY <1>1 DEF FirstTargets

LEMMA NextTargetIsOne ==
    ASSUME targets # {}, targets \subseteq [side : {"before", "after"}, path : Nat]
    PROVE  NextTarget \in targets
<1> DEFINE Numbers == {t.path : t \in targets}
           Least(t) == \A u \in targets : u = t \/ Precedes(t, u)
<1>1. PICK k \in Numbers : \A j \in Numbers : k <= j
  <2>1. Numbers # {} /\ Numbers \subseteq Nat
    OBVIOUS
  <2> HIDE DEF Numbers
  <2>2. QED BY <2>1, LeastNatural
<1>2. PICK s \in targets : s.path = k
  BY <1>1
<1>3. \A u \in targets : u.path \in Nat /\ k <= u.path /\ u.side \in {"before", "after"}
                         /\ u = [side |-> u.side, path |-> u.path]
  BY <1>1
<1>4. \E t \in targets : Least(t)
  <2>1. CASE \E t \in targets : t.path = k /\ t.side = "after"
    <3>1. PICK t \in targets : t.path = k /\ t.side = "after"
      BY <2>1
    <3>2. ASSUME NEW u \in targets PROVE u = t \/ Precedes(t, u)
      BY <1>3, <3>1 DEF Precedes
    <3>3. QED BY <3>2
  <2>2. CASE ~ \E t \in targets : t.path = k /\ t.side = "after"
    <3>1. ASSUME NEW u \in targets PROVE u = s \/ Precedes(s, u)
      BY <1>2, <1>3, <2>2 DEF Precedes
    <3>2. QED BY <3>1
  <2>3. QED BY <2>1, <2>2
<1>5. NextTarget = CHOOSE t \in targets : Least(t)
  BY DEF NextTarget
<1> HIDE DEF Least
<1>6. QED BY <1>4, <1>5

\* What a result in the answer says is so.
EntryOK(c, e) ==
    LET tree == Tree(c, e.target.side)
    IN  /\ e.target \in TextSides(c) /\ HasEntity(c, e.target)
        /\ e.files \subseteq Files
        /\ e.files \subseteq DependentsIn(tree, e.target.path)
        /\ e.complete => DependentsIn(tree, e.target.path) \subseteq e.files
        /\ EvidenceOK(tree, e.target.path, e.files, e.paths)

SearchingInv ==
    /\ (queue = <<>> /\ ~searching /\ target = NoTarget) \/ TraversalInv
    /\ target = NoTarget => ~searching
    /\ target # NoTarget =>
         /\ target \in TextSides(comparison) /\ HasEntity(comparison, target)
         /\ SearchOf(Tree(comparison, target.side), target.path)

\* Every side to search from is still a target, was searched from or is unresolved,
\* and what was left out before the searches is told.
NothingIsLeftOut ==
    /\ \A t \in FirstTargets(Candidates(comparison)) :
         \/ t \in targets \/ t = target \/ t \in unresolved
         \/ \E e \in impacts : e.target = t
    /\ OtherSides(comparison) \cup MissingAtOnce(comparison) \subseteq unresolved
    /\ ~comparison.metadataComplete => "max-changed-files" \in cuts
    /\ Cardinality(Candidates(comparison)) > MaxTargets => "max-targets" \in cuts

AnswerOK ==
    answer.given =>
      /\ targets = {} /\ target = NoTarget
      /\ answer.impacted = FirstOf(Impacted, MaxImpactedEntities)
      /\ answer.complete => IsComplete(cuts) /\ ~(Cardinality(Impacted) > MaxImpactedEntities)

ImpactInv ==
    /\ comparison \in Comparisons
    /\ targets \subseteq TextSides(comparison)
    /\ SearchingInv
    /\ NothingIsLeftOut
    /\ \A e \in impacts : EntryOK(comparison, e)
    /\ AnswerOK
LEMMA TraversalStays ==
    ASSUME TraversalInv, UNCHANGED traversalVars
    PROVE  TraversalInv'
<1> USE DEF TraversalInv
<1>1. UNCHANGED <<request, queue, index, neighbors, nodes, truncations, searching>>
  BY DEF traversalVars
<1>2. UNCHANGED <<Within, Starts, Neighborhood, DepthOf, Visited, Current, RoomLeft>> /\ RequestOK'
  <2>1. UNCHANGED <<Within, Starts, Neighborhood>> /\ RequestOK'
    BY <1>1, SameRequest DEF TraversalTypeOK
  <2>2. QED BY <1>1, <2>1 DEF DepthOf, Depth, Visited, Current, RoomLeft
<1>3. TraversalTypeOK' /\ QueueIsOrdered' /\ DepthsAreDistances'
  BY <1>1, <1>2 DEF TraversalTypeOK, QueueIsOrdered, DepthsAreDistances
<1>4. TakenAreClosed' /\ CutsAreTold'
  BY <1>1, <1>2 DEF TakenAreClosed, LooksFurther, CutsAreTold
<1>5. QED BY <1>3, <1>4

LEMMA TreeFacts ==
    ASSUME NEW c \in Comparisons, NEW side
    PROVE  TreeTypeOK(Tree(c, side))
BY ComparisonsAssumption DEF TreeTypeOK, Tree

\* The targets and what was found, when only the search goes on.
LEMMA SearchGoesOn ==
    ASSUME ImpactInv, SearchingInv',
           UNCHANGED <<comparison, targets, target, impacts, unresolved, cuts, answer>>
    PROVE  ImpactInv'
<1>1. NothingIsLeftOut'
  BY DEF ImpactInv, NothingIsLeftOut
<1>2. AnswerOK'
  BY DEF ImpactInv, AnswerOK, Impacted, IsComplete
<1>3. QED BY <1>1, <1>2 DEF ImpactInv

LEMMA ImpactStarts ==
    ASSUME ImpactInit
    PROVE  ImpactInv
<1>1. comparison \in Comparisons /\ Candidates(comparison) \subseteq TextSides(comparison)
  BY SidesFacts DEF ImpactInit
<1>2. targets = FirstTargets(Candidates(comparison)) /\ targets \subseteq TextSides(comparison)
  BY <1>1 DEF ImpactInit, FirstTargets
<1>3. SearchingInv
  BY DEF ImpactInit, NoSearch, SearchingInv
<1>4. NothingIsLeftOut
  BY <1>2 DEF ImpactInit, NothingIsLeftOut
<1>5. AnswerOK /\ \A e \in impacts : EntryOK(comparison, e)
  BY DEF ImpactInit, AnswerOK, NoAnswer
<1>6. QED BY <1>1, <1>2, <1>3, <1>4, <1>5 DEF ImpactInv

LEMMA GetImpactKeeps ==
    ASSUME ImpactInv, GetImpact
    PROVE  ImpactInv'
<1> DEFINE t == NextTarget
           tree == Tree(comparison, t.side)
           r == [edges |-> tree.edges, startIds |-> <<t.path>>, direction |-> "dependents",
                 maxDepth |-> MaxDepth, maxEntities |-> MaxEntities]
<1>1. comparison \in Comparisons /\ TextSides(comparison) \subseteq [side : {"before", "after"}, path : Nat]
      /\ targets \subseteq TextSides(comparison) /\ NoTarget \notin TextSides(comparison)
  BY SidesFacts DEF ImpactInv
<1>2. targets # {} /\ target = NoTarget /\ HasEntity(comparison, t) /\ target' = t
      /\ targets' = targets \ {t} /\ Search(r) /\ UNCHANGED <<impacts, unresolved, comparison, cuts, answer>>
  BY DEF GetImpact, Unchanged
<1>3. t \in targets /\ t \in TextSides(comparison)
  BY <1>1, <1>2, NextTargetIsOne
<1>4. TreeTypeOK(tree) /\ t.path \in Files
  BY <1>1, <1>2, TreeFacts DEF TreeTypeOK, HasEntity
<1>5. /\ r.edges = tree.edges /\ r.startIds = <<t.path>> /\ r.direction = "dependents"
      /\ r.maxDepth = MaxDepth /\ r.maxEntities = MaxEntities
  OBVIOUS
<1> HIDE DEF r, t
<1>6. TraversalInv'
  BY <1>2, <1>4, <1>5, SearchStarts, BoundsAssumption
<1>7. SearchingInv'
  <2>1. request' = r
    BY <1>2 DEF Search
  <2>2. SearchOf(Tree(comparison, target.side), target.path)'
    BY <1>2, <1>5, <2>1 DEF SearchOf
  <2>3. QED BY <1>1, <1>2, <1>3, <1>6, <2>2 DEF SearchingInv
<1>8. NothingIsLeftOut'
  <2>1. NoTarget \notin FirstTargets(Candidates(comparison))
    BY <1>1, SidesFacts DEF FirstTargets
  <2>2. QED BY <1>2, <2>1 DEF ImpactInv, NothingIsLeftOut
<1>9. AnswerOK'
  BY <1>2 DEF ImpactInv, AnswerOK
<1>10. \A e \in impacts' : EntryOK(comparison', e)
  BY <1>2 DEF ImpactInv
<1>11. QED BY <1>1, <1>2, <1>7, <1>8, <1>9, <1>10 DEF ImpactInv

LEMMA MissingEntityKeeps ==
    ASSUME ImpactInv, MissingEntity
    PROVE  ImpactInv'
<1>1. targets # {} /\ target = NoTarget /\ targets' = targets \ {NextTarget}
      /\ unresolved' = unresolved \cup {NextTarget}
      /\ UNCHANGED <<traversalVars, target, impacts, comparison, cuts, answer>>
  BY DEF MissingEntity, Unchanged
<1>2. SearchingInv'
  <2>1. UNCHANGED <<queue, searching, request>>
    BY <1>1 DEF traversalVars
  <2>2. TraversalInv => TraversalInv'
    BY <1>1, TraversalStays
  <2>3. QED BY <1>1, <2>1, <2>2 DEF ImpactInv, SearchingInv
<1>3. NothingIsLeftOut'
  BY <1>1 DEF ImpactInv, NothingIsLeftOut
<1>4. AnswerOK'
  BY <1>1 DEF ImpactInv, AnswerOK
<1>5. QED BY <1>1, <1>2, <1>3, <1>4 DEF ImpactInv

LEMMA StepKeeps ==
    ASSUME ImpactInv, Step
    PROVE  ImpactInv'
<1>1. target # NoTarget /\ Traverse
      /\ UNCHANGED <<comparison, targets, target, impacts, unresolved, cuts, answer>>
  BY DEF Step, Unchanged
<1>2. TraversalInv /\ SearchOf(Tree(comparison, target.side), target.path)
  BY <1>1 DEF ImpactInv, SearchingInv
<1>3. TraversalInv'
  BY <1>1, <1>2, TraverseKeeps
<1>4. request' = request
  BY <1>1 DEF Traverse, Dequeue, TakeNeighbor, TooDeep, TooMany, Meet, SearchEnds
<1>5. SearchingInv'
  BY <1>1, <1>3, <1>4 DEF ImpactInv, SearchingInv, SearchOf
<1>6. QED BY <1>1, <1>5, SearchGoesOn

LEMMA ImpactGotKeeps ==
    ASSUME ImpactInv, ImpactGot
    PROVE  ImpactInv'
<1> DEFINE e == [target |-> target, files |-> DOMAIN nodes,
                 paths |-> {CanonicalPath(f) : f \in FirstOf(DOMAIN nodes, MaxEvidencePaths)},
                 complete |-> truncations = {} /\ Cardinality(DOMAIN nodes) <= MaxEvidencePaths]
           tree == Tree(comparison, target.side)
<1>1. target # NoTarget /\ ~searching /\ impacts' = impacts \cup {e} /\ target' = NoTarget
      /\ UNCHANGED <<traversalVars, targets, unresolved, comparison, cuts, answer>>
  BY DEF ImpactGot, Unchanged
<1>2. /\ TraversalInv /\ target \in TextSides(comparison) /\ HasEntity(comparison, target)
      /\ SearchOf(tree, target.path) /\ TreeTypeOK(tree)
  BY <1>1, TreeFacts DEF ImpactInv, SearchingInv
<1>3. EntryOK(comparison, e)
  <2>1. DOMAIN nodes \subseteq Files
    BY <1>2 DEF TraversalInv, TraversalTypeOK
  <2>2. /\ DOMAIN nodes \subseteq DependentsIn(tree, target.path)
        /\ truncations = {} => DependentsIn(tree, target.path) \subseteq DOMAIN nodes
    BY <1>1, <1>2, ResultFiles
  <2>3. EvidenceOK(tree, target.path, e.files, e.paths)
    BY <1>1, <1>2, ResultEvidence
  <2>4. e.target = target /\ e.files = DOMAIN nodes /\ (e.complete => truncations = {})
    OBVIOUS
  <2> HIDE DEF e
  <2>5. QED BY <1>2, <2>1, <2>2, <2>3, <2>4 DEF EntryOK
<1>4. e.target = target
  OBVIOUS
<1> HIDE DEF e
<1>5. SearchingInv'
  <2>1. UNCHANGED <<queue, searching, request>>
    BY <1>1 DEF traversalVars
  <2>2. TraversalInv'
    BY <1>1, <1>2, TraversalStays
  <2>3. QED BY <1>1, <2>1, <2>2 DEF SearchingInv
<1>6. NothingIsLeftOut'
  BY <1>1, <1>4 DEF ImpactInv, NothingIsLeftOut
<1>7. AnswerOK'
  BY <1>1 DEF ImpactInv, AnswerOK
<1>8. \A x \in impacts' : EntryOK(comparison', x)
  BY <1>1, <1>3 DEF ImpactInv
<1>9. QED BY <1>1, <1>5, <1>6, <1>7, <1>8 DEF ImpactInv

LEMMA AnswerKeeps ==
    ASSUME ImpactInv, Answer
    PROVE  ImpactInv'
<1> DEFINE tooMany == {x \in {"max-impacted-entities"} : Cardinality(Impacted) > MaxImpactedEntities}
<1>1. /\ target = NoTarget /\ targets = {} /\ cuts' = cuts \cup tooMany
      /\ answer' = [complete |-> IsComplete(cuts \cup tooMany),
                    impacted |-> FirstOf(Impacted, MaxImpactedEntities), given |-> TRUE]
      /\ UNCHANGED <<traversalVars, comparison, targets, target, impacts, unresolved>>
  BY DEF Answer
<1>2. SearchingInv'
  <2>1. UNCHANGED <<queue, searching, request>>
    BY <1>1 DEF traversalVars
  <2>2. TraversalInv => TraversalInv'
    BY <1>1, TraversalStays
  <2>3. QED BY <1>1, <2>1, <2>2 DEF ImpactInv, SearchingInv
<1>3. NothingIsLeftOut'
  BY <1>1 DEF ImpactInv, NothingIsLeftOut
<1>4. AnswerOK'
  <2>1. Impacted' = Impacted
    BY <1>1 DEF Impacted
  <2>2. answer'.complete <=> IsComplete(cuts \cup tooMany)
    BY <1>1
  <2>3. IsComplete(cuts \cup tooMany) => cuts \cup tooMany = {}
    BY DEF IsComplete
  <2>4. IsComplete(cuts \cup tooMany) => ~(Cardinality(Impacted) > MaxImpactedEntities)
    BY <2>3
  <2>5. IsComplete(cuts)' <=> IsComplete(cuts \cup tooMany)
    BY <1>1 DEF IsComplete
  <2>6. answer'.impacted = FirstOf(Impacted, MaxImpactedEntities)
    BY <1>1
  <2> HIDE DEF tooMany
  <2>7. answer'.complete => IsComplete(cuts)' /\ ~(Cardinality(Impacted) > MaxImpactedEntities)
    BY <2>2, <2>4, <2>5
  <2>8. QED BY <1>1, <2>1, <2>6, <2>7 DEF AnswerOK
<1>5. QED BY <1>1, <1>2, <1>3, <1>4 DEF ImpactInv

\* A search under way or returned is what a bounded breadth-first search is, each result
\* is right, and nothing is left out of an answer without a word.
THEOREM ImpactInvHolds == ImpactSpec => []ImpactInv
<1>1. ASSUME ImpactInv, [ImpactNext]_impactVars PROVE ImpactInv'
  <2>1. CASE ImpactNext
    BY <1>1, <2>1, GetImpactKeeps, MissingEntityKeeps, StepKeeps, ImpactGotKeeps, AnswerKeeps
    DEF ImpactNext
  <2>2. CASE UNCHANGED impactVars
    <3>1. UNCHANGED <<traversalVars, comparison, targets, target, impacts, unresolved, cuts, answer>>
      BY <2>2 DEF impactVars
    <3>2. UNCHANGED <<queue, searching, request>>
      BY <3>1 DEF traversalVars
    <3>3. TraversalInv => TraversalInv'
      BY <3>1, TraversalStays
    <3>4. SearchingInv'
      BY <1>1, <3>1, <3>2, <3>3 DEF ImpactInv, SearchingInv, SearchOf
    <3>5. QED BY <1>1, <3>1, <3>4, SearchGoesOn
  <2>3. QED BY <1>1, <2>1, <2>2
<1>2. QED BY ImpactStarts, <1>1, PTL DEF ImpactSpec

-----------------------------------------------------------------------------
(* The theorems *)

\* A search that returned met what is within reach, each file at its shortest distance
\* and the closest first, and tells every cut (traverseDependencyGraph).
THEOREM SearchesAreExact == ImpactSpec => []SearchIsExact
<1>1. ImpactInv => SearchIsExact
  <2> SUFFICES ASSUME ImpactInv, ~searching, queue # <<>> PROVE SearchIsExact
    BY DEF SearchIsExact
  <2>1. TraversalInv
    BY DEF ImpactInv, SearchingInv
  <2>2. QED BY <2>1, ReturnedSearchIsExact
<1>2. QED BY <1>1, ImpactInvHolds, PTL

\* Each path given as evidence is a shortest one from the changed file to a file it
\* reaches, and there are as many as the bound allows (buildCanonicalPath).
THEOREM EvidencePathsAreShortest == ImpactSpec => []EvidenceIsShortest
<1>1. ImpactInv => EvidenceIsShortest
  BY DEF ImpactInv, EntryOK, EvidenceOK, EvidenceIsShortest
<1>2. QED BY <1>1, ImpactInvHolds, PTL

LEMMA ImpactedFacts ==
    ASSUME ImpactInv
    PROVE  /\ Impacted \in SUBSET Nat /\ IsFiniteSet(Impacted)
           /\ Cardinality(Impacted) \in Nat
<1>1. Impacted \in SUBSET Files
  BY DEF ImpactInv, EntryOK, Impacted
<1>2. IsFiniteSet(Impacted)
  BY <1>1, FilesAssumption, FS_Subset
<1>3. QED BY <1>1, <1>2, FilesAssumption, FS_CardinalityType

\* An answer that calls itself complete lists everything that depends on a changed
\* file, in the tree before and in the tree after.
THEOREM CompleteAnswersAreWhole == ImpactSpec => []CompleteAnswerIsWhole
<1>1. ImpactInv => CompleteAnswerIsWhole
  <2> SUFFICES ASSUME ImpactInv, answer.given, answer.complete
               PROVE  /\ comparison.metadataComplete
                      /\ \A change \in comparison.changes : \A t \in CommitFileSides(change) :
                           /\ \E entry \in impacts : entry.target = t
                           /\ DependentsIn(Tree(comparison, t.side), t.path) \subseteq answer.impacted
    BY DEF CompleteAnswerIsWhole
  <2>1. /\ targets = {} /\ target = NoTarget /\ answer.impacted = FirstOf(Impacted, MaxImpactedEntities)
        /\ unresolved = {} /\ cuts = {} /\ \A entry \in impacts : entry.complete
        /\ ~(Cardinality(Impacted) > MaxImpactedEntities)
    BY DEF ImpactInv, AnswerOK, IsComplete
  <2>2. comparison \in Comparisons /\ comparison.metadataComplete
    BY <2>1 DEF ImpactInv, NothingIsLeftOut
  <2>3. FirstTargets(Candidates(comparison)) = TextSides(comparison)
    <3>1. Candidates(comparison) = TextSides(comparison)
      BY <2>1, <2>2, SidesFacts DEF ImpactInv, NothingIsLeftOut, MissingAtOnce
    <3>2. Cardinality(Candidates(comparison)) \in Nat
      BY <2>2, SidesFacts, FS_CardinalityType
    <3>3. Cardinality(Candidates(comparison)) <= MaxTargets
      BY <2>1, <3>2, BoundsAssumption DEF ImpactInv, NothingIsLeftOut
    <3>4. QED BY <2>2, <3>1, <3>3, SidesFacts, AllTargets
  <2>4. answer.impacted = Impacted
    <3>1. Cardinality(Impacted) <= MaxImpactedEntities
      BY <2>1, ImpactedFacts, BoundsAssumption
    <3>2. QED BY <2>1, <3>1, ImpactedFacts, AllWithinTheLimit, BoundsAssumption
  <2>5. ASSUME NEW change \in comparison.changes, NEW t \in CommitFileSides(change)
        PROVE  /\ \E entry \in impacts : entry.target = t
               /\ DependentsIn(Tree(comparison, t.side), t.path) \subseteq answer.impacted
    <3>1. t \in TextSides(comparison)
      <4>1. change.text
        BY <2>1 DEF ImpactInv, NothingIsLeftOut, OtherSides
      <4>2. QED BY <4>1 DEF TextSides
    <3>2. PICK entry \in impacts : entry.target = t
      BY <2>1, <2>2, <2>3, <3>1, SidesFacts DEF ImpactInv, NothingIsLeftOut
    <3>3. DependentsIn(Tree(comparison, t.side), t.path) \subseteq entry.files
      BY <2>1, <3>2 DEF ImpactInv, EntryOK
    <3>4. QED BY <2>4, <3>2, <3>3 DEF Impacted
  <2>6. QED BY <2>2, <2>5
<1>2. QED BY <1>1, ImpactInvHolds, PTL

\* An answer lists nothing that no change reaches.
THEOREM AnswersAreReached == ImpactSpec => []AnswerIsReached
<1>1. ImpactInv => AnswerIsReached
  <2> SUFFICES ASSUME ImpactInv, answer.given, NEW f \in answer.impacted
               PROVE  \E t \in TextSides(comparison) :
                        HasEntity(comparison, t) /\ f \in DependentsIn(Tree(comparison, t.side), t.path)
    BY DEF AnswerIsReached
  <2>1. f \in Impacted
    BY DEF ImpactInv, AnswerOK, FirstOf
  <2>2. PICK entry \in impacts : f \in entry.files
    BY <2>1 DEF Impacted
  <2>3. EntryOK(comparison, entry)
    BY DEF ImpactInv
  <2>4. QED BY <2>2, <2>3 DEF EntryOK
<1>2. QED BY <1>1, ImpactInvHolds, PTL
=============================================================================
