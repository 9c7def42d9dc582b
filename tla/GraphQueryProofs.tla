--------------------------- MODULE GraphQueryProofs --------------------------
(***************************************************************************)
(* The searches of GraphQuery for every graph, depth and fan-out: their    *)
(* paths hold, they invent nothing, and they miss nothing.  The search     *)
(* expands depth by depth: the frontier holds CIs of the depth before, and *)
(* next those of the depth being explored.  Whatever CI is in neither has  *)
(* been expanded: what stays next to it has been found, one step away.     *)
(*                                                                         *)
(* Then, from MergeReview on: the store and the graph that is searched,    *)
(* which accepting and reversing merges keep equal.                        *)
(***************************************************************************)
EXTENDS GraphQuery, MergeReview, SequenceTheorems, FiniteSetTheorems,
        WellFoundedInduction, TLAPS

\* The members of s are in f, with the value d.
Marked(s, f, d) == \A i \in 1..Len(s) : s[i] \in DOMAIN f /\ f[s[i]] = d

SearchInv ==
  /\ walk \in Walks /\ depth \in 1..MaxDepth
  /\ graph \in Graph /\ graph.edges \subseteq ever.edges /\ ever.edges \subseteq Links
  /\ steady.edges \subseteq graph.edges /\ steady.open \subseteq graph.open
  /\ frontier \in Seq(CIs) /\ next \in Seq(CIs)
  /\ \A n \in DOMAIN distance : distance[n] \in 0..depth
  /\ at = "idle" => DOMAIN distance = {} /\ depth = 1 /\ next = <<>>
  /\ at # "idle" => source \in DOMAIN distance /\ distance[source] = 0
  /\ at = "search" => frontier # <<>>
  /\ Marked(frontier, distance, depth - 1) /\ Marked(next, distance, depth)

\* The rows of the first statement lie between what stayed and what was there since.
ReadInv ==
  /\ at # "search" => read = None
  /\ read # None =>
       /\ RowsOf(walk, steady.edges, Head(frontier)).first \subseteq read
       /\ read \subseteq RowsOf(walk, ever.edges, Head(frontier)).first

\* What Within computes, with what it computes it from.
Wider(w, E, S) == S \cup UNION {Neighbors(w, E, c) : c \in S}
IsHull(f, w, s, E, d) ==
  f = [k \in 0..d |-> IF k = 0 THEN {s} ELSE Wider(w, E, f[k - 1])]
Hull(w, s, E, d) == (CHOOSE f : IsHull(f, w, s, E, d))[d]

\* Each CI found is within its distance.
FoundInv ==
  \A n \in DOMAIN distance : n \in Hull(walk, source, ever.edges, distance[n])

\* All that stayed next to c has been found.
Expanded(c) ==
  \A n \in Neighbors(walk, steady.edges, c) :
    n \in DOMAIN distance /\ distance[n] <= distance[c] + 1

Among(s, c) == \E i \in 1..Len(s) : s[i] = c

\* Without a supernode, every CI that is not expanded is about to be, or too far away.
ExpandedInv ==
  supernodes = {} =>
    \A c \in DOMAIN distance :
      \/ Expanded(c)
      \/ at = "search" /\ (Among(frontier, c) \/ Among(next, c))
      \/ at # "search" /\ distance[c] = MaxDepth

\* The answer is what was found, but for what is gone.
ReportedInv ==
  /\ DOMAIN pred = DOMAIN distance \ {source}
  /\ reported \subseteq DOMAIN pred
  /\ at \in {"evidence", "done"} => DOMAIN pred \cap steady.open \subseteq reported

IInv == SearchInv /\ ReadInv /\ PathsHold /\ FoundInv /\ ExpandedInv /\ ReportedInv

-----------------------------------------------------------------------------
\* Every row is one in a larger graph, too.
LEMMA RowsGrow ==
  ASSUME NEW E, NEW F, E \subseteq F, NEW w \in Walks, NEW c
  PROVE  /\ RowsOf(w, E, c).first \subseteq RowsOf(w, F, c).first
         /\ RowsOf(w, E, c).second \subseteq RowsOf(w, F, c).second
<1>1. \A types : /\ Along(E, c, types) \subseteq Along(F, c, types)
                 /\ Against(E, c, types) \subseteq Against(F, c, types)
  BY DEF Along, Against
<1>2. \A types : /\ Along(Sure(E), c, types) \subseteq Along(Sure(F), c, types)
                 /\ Against(Sure(E), c, types) \subseteq Against(Sure(F), c, types)
  BY DEF Along, Against, Sure
<1>3. CASE w = "blast_radius"
  BY <1>3, <1>2 DEF RowsOf, ImpactNeighbors
<1>4. CASE w = "what_if_impact"
  BY <1>4, <1>2 DEF RowsOf, ImpactNeighborsWithType
<1>5. CASE w = "reachability"
  BY <1>5, <1>2 DEF RowsOf, ReachabilityNeighbors
<1>6. CASE w = "root_cause"
  BY <1>6, <1>1 DEF RowsOf, UpstreamNeighbors
<1> QED BY <1>3, <1>4, <1>5, <1>6 DEF Walks

LEMMA NeighborsGrow ==
  ASSUME NEW E, NEW F, E \subseteq F, NEW w \in Walks, NEW c
  PROVE  Neighbors(w, E, c) \subseteq Neighbors(w, F, c)
BY RowsGrow DEF Neighbors

LEMMA NeighborsAreCIs ==
  ASSUME NEW E \in SUBSET Links, NEW w \in Walks, NEW c
  PROVE  Neighbors(w, E, c) \subseteq CIs
<1>1. \A F, types : F \subseteq Links =>
        \A r \in Along(F, c, types) \cup Against(F, c, types) : r.ci \in CIs
  BY LinksAssumption DEF Along, Against
<1>2. Sure(E) \subseteq Links
  BY DEF Sure
<1>3. \A r \in RowsOf(w, E, c).first \cup RowsOf(w, E, c).second : r.ci \in CIs
  <2>1. CASE w = "blast_radius"
    BY <2>1, <1>1, <1>2 DEF RowsOf, ImpactNeighbors
  <2>2. CASE w = "what_if_impact"
    BY <2>2, <1>1, <1>2 DEF RowsOf, ImpactNeighborsWithType
  <2>3. CASE w = "reachability"
    BY <2>3, <1>1, <1>2 DEF RowsOf, ReachabilityNeighbors
  <2>4. CASE w = "root_cause"
    BY <2>4, <1>1 DEF RowsOf, UpstreamNeighbors
  <2> QED BY <2>1, <2>2, <2>3, <2>4 DEF Walks
<1> QED BY <1>3 DEF Neighbors

\* What the two statements read is all that stayed next to the CI, and nothing that was not
\* next to it at some time.
LEMMA SeenIsBetween ==
  ASSUME SearchInv, ReadInv, walk = "reachability" \/ read # None
  PROVE  /\ Neighbors(walk, steady.edges, Head(frontier)) \subseteq Seen
         /\ Seen \subseteq Neighbors(walk, ever.edges, Head(frontier))
<1> DEFINE c == Head(frontier)
<1>1. walk \in Walks /\ steady.edges \subseteq graph.edges /\ graph.edges \subseteq ever.edges
  BY DEF SearchInv
<1> HIDE DEF c
<1>2. /\ RowsOf(walk, steady.edges, c).second \subseteq RowsOf(walk, graph.edges, c).second
      /\ RowsOf(walk, graph.edges, c).second \subseteq RowsOf(walk, ever.edges, c).second
  BY <1>1, RowsGrow
<1>3. /\ RowsOf(walk, steady.edges, c).first \subseteq Earlier
      /\ Earlier \subseteq RowsOf(walk, ever.edges, c).first
  <2>1. CASE walk = "reachability"
    BY <2>1 DEF Earlier, RowsOf, ReachabilityNeighbors
  <2>2. CASE walk # "reachability"
    BY <2>2 DEF ReadInv, Earlier, c
  <2> QED BY <2>1, <2>2
<1>4. Now = RowsOf(walk, graph.edges, c).second
  BY DEF Now, c
<1>5. Neighbors(walk, steady.edges, c) \subseteq Seen /\ Seen \subseteq Neighbors(walk, ever.edges, c)
  BY <1>2, <1>3, <1>4 DEF Seen, Neighbors
<1> QED BY <1>5 DEF c

\* A hop goes over one of the rows that were read.
LEMMA HopsAreSeen ==
  ASSUME NEW c, NEW n, NEW h \in Hops(c, n)
  PROVE  h.ci = c /\ n \in Seen
<1>1. PICK r \in Earlier \cup Now : r.ci = n /\ h = [ci |-> c, type |-> r.type]
  BY DEF Hops
<1> QED BY <1>1 DEF Seen

LEMMA OrderIsSeq ==
  ASSUME NEW S \in SUBSET CIs, NEW order \in SetToSeqs(S)
  PROVE  order \in Seq(CIs) /\ \A i \in 1..Len(order) : order[i] \in S
<1>1. Cardinality(S) \in Nat
  BY CIsAssumption, FS_Subset, FS_CardinalityType
<1>2. order \in [1..Cardinality(S) -> S]
  BY DEF SetToSeqs
<1> DEFINE m == Cardinality(S)
<1> HIDE DEF m
<1>3. m \in Nat /\ order \in [1..m -> S]
  BY <1>1, <1>2 DEF m
<1> QED BY <1>3

-----------------------------------------------------------------------------
\* The order is one of all of them.
LEMMA OrderCovers ==
  ASSUME NEW S \in SUBSET CIs, NEW order \in SetToSeqs(S), NEW x \in S
  PROVE  \E i \in 1..Len(order) : order[i] = x
<1> DEFINE m == Cardinality(S)
<1>1. IsFiniteSet(S) /\ m \in Nat
  BY CIsAssumption, FS_Subset, FS_CardinalityType
<1>2. order \in [1..m -> S] /\ \A i, j \in 1..m : i # j => order[i] # order[j]
  BY DEF SetToSeqs
<1>3. order \in Injection(1..m, S)
  BY <1>2 DEF Injection, IsInjective
<1>4. Cardinality(1..m) = Cardinality(S)
  BY <1>1, FS_Interval
<1>5. order \in Surjection(1..m, S)
  BY <1>1, <1>3, <1>4, FS_Injection
<1> HIDE DEF m
<1> QED BY <1>1, <1>2, <1>5 DEF Surjection

\* Induction over the natural numbers, for a set of them.
LEMMA Induction ==
  ASSUME NEW S, 0 \in S, \A k \in Nat : k \in S => k + 1 \in S
  PROVE  Nat \subseteq S
<1> DEFINE T    == Nat \ S
           Less == {ss \in Nat \X Nat : ss[1] < ss[2]}
<1> SUFFICES ASSUME T # {} PROVE FALSE
  OBVIOUS
<1>1. PICK x \in T : \A y \in T : ~(<<y, x>> \in Less)
  <2>1. T \subseteq Nat
    OBVIOUS
  <2>2. IsWellFoundedOn(Less, Nat)
    BY NatLessThanWellFounded DEF OpToRel
  <2> HIDE DEF T, Less
  <2> QED BY <2>1, <2>2, WFMin
<1>2. \A y \in T : ~(y < x)
  BY <1>1
<1>3. x # 0 /\ x - 1 \in Nat /\ x - 1 < x
  OBVIOUS
<1>4. x - 1 \in S
  BY <1>2, <1>3
<1> QED BY <1>4, <1>3

-----------------------------------------------------------------------------
(* What lies within reach.                                                 *)

\* What is within n steps is within one step of what is within n - 1.
Layers(f, w, s, E, d) ==
  /\ f[0] = {s}
  /\ \A k, n \in Nat : (n = k + 1 /\ n <= d) => f[n] = Wider(w, E, f[k])

\* The function that Hull chooses exists, and its values do not depend on its domain.
LEMMA HullEquations ==
  ASSUME NEW w, NEW s, NEW E, NEW d \in Nat, NEW f, IsHull(f, w, s, E, d)
  PROVE  Layers(f, w, s, E, d)
<1>1. \A k \in 0..d : f[k] = IF k = 0 THEN {s} ELSE Wider(w, E, f[k - 1])
  BY DEF IsHull
<1>2. f[0] = {s}
  <2>1. 0 \in 0..d
    OBVIOUS
  <2> QED BY <1>1, <2>1
<1>3. ASSUME NEW k \in Nat, NEW n \in Nat, n = k + 1, n <= d
      PROVE  f[n] = Wider(w, E, f[k])
  <2>1. n \in 0..d /\ n # 0 /\ n - 1 = k
    BY <1>3
  <2> QED BY <1>1, <2>1
<1> QED BY <1>2, <1>3 DEF Layers

LEMMA HullExtends ==
  ASSUME NEW w, NEW s, NEW E, NEW d \in Nat, NEW f, IsHull(f, w, s, E, d),
         NEW e \in Nat, e = d + 1
  PROVE  \E g : IsHull(g, w, s, E, e)
<1> DEFINE g == [k \in 0..e |-> IF k = e THEN Wider(w, E, f[d]) ELSE f[k]]
<1>1. Layers(f, w, s, E, d)
  BY HullEquations
<1>2. /\ g[e] = Wider(w, E, f[d])
      /\ \A k \in 0..d : g[k] = f[k]
  OBVIOUS
<1> HIDE DEF g
<1>3. ASSUME NEW k \in 0..e
      PROVE  g[k] = IF k = 0 THEN {s} ELSE Wider(w, E, g[k - 1])
  <2>1. CASE k = 0
    <3>1. 0 \in 0..d
      OBVIOUS
    <3>2. f[0] = {s}
      BY <1>1 DEF Layers
    <3> QED BY <1>2, <2>1, <3>1, <3>2
  <2>2. CASE k = e
    <3>1. d \in 0..d /\ k - 1 = d /\ k # 0
      BY <2>2
    <3> QED BY <1>2, <2>2, <3>1
  <2>3. CASE k # 0 /\ k # e
    <3>1. PICK m : m = k - 1
      OBVIOUS
    <3>2. k \in 0..d /\ m \in 0..d /\ k \in Nat /\ m \in Nat /\ k = m + 1 /\ k <= d
      BY <2>3, <3>1
    <3>3. f[k] = Wider(w, E, f[m])
      BY <1>1, <3>2 DEF Layers
    <3>4. g[k] = f[k] /\ g[m] = f[m]
      BY <1>2, <3>2
    <3> QED BY <2>3, <3>1, <3>3, <3>4
  <2> QED BY <2>1, <2>2, <2>3
<1>4. g = [k \in 0..e |-> IF k = 0 THEN {s} ELSE Wider(w, E, g[k - 1])]
  BY <1>3 DEF g
<1>5. IsHull(g, w, s, E, e)
  BY <1>4 DEF IsHull
<1> QED BY <1>5

LEMMA HullExists ==
  ASSUME NEW w, NEW s, NEW E, NEW d \in Nat
  PROVE  \E f : IsHull(f, w, s, E, d)
<1> DEFINE S == {k \in Nat : \E f : IsHull(f, w, s, E, k)}
<1>1. 0 \in S
  <2>1. IsHull([k \in 0..0 |-> {s}], w, s, E, 0)
    BY DEF IsHull
  <2> QED BY <2>1
<1>2. ASSUME NEW k \in Nat, k \in S
      PROVE  k + 1 \in S
  <2>1. PICK e \in Nat : e = k + 1
    OBVIOUS
  <2>2. PICK f : IsHull(f, w, s, E, k)
    BY <1>2
  <2>3. \E g : IsHull(g, w, s, E, e)
    BY <2>1, <2>2, HullExtends
  <2> QED BY <2>1, <2>3
<1> HIDE DEF S
<1>3. d \in S
  BY <1>1, <1>2, Induction
<1> QED BY <1>3 DEF S

LEMMA HullUnique ==
  ASSUME NEW w, NEW s, NEW E, NEW d \in Nat, NEW e \in Nat, NEW f, NEW g,
         IsHull(f, w, s, E, d), IsHull(g, w, s, E, e)
  PROVE  \A k \in Nat : k <= d /\ k <= e => f[k] = g[k]
<1> DEFINE S == {k \in Nat : k <= d /\ k <= e => f[k] = g[k]}
<1>0. Layers(f, w, s, E, d) /\ Layers(g, w, s, E, e)
  BY HullEquations
<1>1. 0 \in S
  BY <1>0 DEF Layers
<1>2. ASSUME NEW k \in Nat, k \in S PROVE k + 1 \in S
  <2>1. PICK n \in Nat : n = k + 1
    OBVIOUS
  <2>2. ASSUME n <= d, n <= e PROVE f[n] = g[n]
    <3>1. f[k] = g[k]
      BY <1>2, <2>1, <2>2
    <3>2. f[n] = Wider(w, E, f[k]) /\ g[n] = Wider(w, E, g[k])
      BY <1>0, <2>1, <2>2 DEF Layers
    <3> QED BY <3>1, <3>2
  <2>3. n \in S
    BY <2>2
  <2> QED BY <2>1, <2>3
<1> HIDE DEF S
<1>3. Nat \subseteq S
  BY <1>1, <1>2, Induction
<1> QED BY <1>3 DEF S

\* The layer that Hull gives is one of functions that agree.
LEMMA HullLayers ==
  ASSUME NEW w, NEW s, NEW E, NEW d \in Nat
  PROVE  \E f : Layers(f, w, s, E, d) /\ IsHull(f, w, s, E, d) /\ Hull(w, s, E, d) = f[d]
<1>1. PICK f : IsHull(f, w, s, E, d) /\ Hull(w, s, E, d) = f[d]
  BY HullExists DEF Hull
<1> QED BY <1>1, HullEquations

LEMMA HullStarts ==
  ASSUME NEW w, NEW s, NEW E
  PROVE  Hull(w, s, E, 0) = {s}
<1>1. PICK f : Layers(f, w, s, E, 0) /\ Hull(w, s, E, 0) = f[0]
  BY HullLayers
<1> QED BY <1>1 DEF Layers

LEMMA HullWidens ==
  ASSUME NEW w, NEW s, NEW E, NEW d \in Nat
  PROVE  Hull(w, s, E, d + 1) = Wider(w, E, Hull(w, s, E, d))
<1>1. PICK e \in Nat : e = d + 1 /\ d <= e
  OBVIOUS
<1>2. PICK f : IsHull(f, w, s, E, d) /\ Hull(w, s, E, d) = f[d]
  BY HullLayers
<1>3. PICK g : Layers(g, w, s, E, e) /\ IsHull(g, w, s, E, e) /\ Hull(w, s, E, e) = g[e]
  BY HullLayers
<1>4. f[d] = g[d]
  BY <1>1, <1>2, <1>3, HullUnique
<1>5. g[e] = Wider(w, E, g[d])
  BY <1>1, <1>3 DEF Layers
<1> QED BY <1>1, <1>2, <1>3, <1>4, <1>5

\* In a larger graph more is within reach.
LEMMA HullGrows ==
  ASSUME NEW w \in Walks, NEW s, NEW E, NEW F, E \subseteq F, NEW d \in Nat
  PROVE  Hull(w, s, E, d) \subseteq Hull(w, s, F, d)
<1> DEFINE S == {k \in Nat : Hull(w, s, E, k) \subseteq Hull(w, s, F, k)}
<1>1. 0 \in S
  BY HullStarts
<1>2. ASSUME NEW k \in Nat, k \in S PROVE k + 1 \in S
  <2>1. \A c : Neighbors(w, E, c) \subseteq Neighbors(w, F, c)
    BY NeighborsGrow
  <2>2. \A A, B : A \subseteq B => Wider(w, E, A) \subseteq Wider(w, F, B)
    BY <2>1 DEF Wider
  <2>3. Hull(w, s, E, k) \subseteq Hull(w, s, F, k)
    BY <1>2
  <2>4. Hull(w, s, E, k + 1) \subseteq Hull(w, s, F, k + 1)
    <3>1. Hull(w, s, E, k + 1) = Wider(w, E, Hull(w, s, E, k))
      BY HullWidens
    <3>2. Hull(w, s, F, k + 1) = Wider(w, F, Hull(w, s, F, k))
      BY HullWidens
    <3>3. Wider(w, E, Hull(w, s, E, k)) \subseteq Wider(w, F, Hull(w, s, F, k))
      BY <2>2, <2>3
    <3> QED BY <3>1, <3>2, <3>3
  <2> QED BY <2>4
<1> HIDE DEF S
<1>3. d \in S
  BY <1>1, <1>2, Induction
<1> QED BY <1>3 DEF S

LEMMA WithinIsHull ==
  ASSUME NEW E, NEW d
  PROVE  Within(E, d) = Hull(walk, source, E, d)
BY DEF Within, Hull, IsHull, Wider

-----------------------------------------------------------------------------
LEMMA InitIInv == Init => IInv
<1> SUFFICES ASSUME Init PROVE IInv
  OBVIOUS
<1>1. graph \in Graph /\ ever = graph /\ steady = graph
  BY DEF Init, Graph
<1>2. DOMAIN distance = {} /\ depth = 1 /\ next = <<>> /\ frontier = <<>> /\ at = "idle"
      /\ walk \in Walks /\ DOMAIN pred = {} /\ reported = {} /\ read = None
  BY DEF Init, NoFunction, Walks
<1>3. 1 \in 1..MaxDepth
  BY BoundsAssumption
<1>4. SearchInv
  BY <1>1, <1>2, <1>3 DEF SearchInv, Marked, Graph
<1> QED BY <1>2, <1>4 DEF IInv, ReadInv, PathsHold, FoundInv, ExpandedInv, ReportedInv

\* What a step that finds nothing leaves alone.
LEMMA Still ==
  ASSUME IInv, walk' = walk, source' = source, depth' = depth, frontier' = frontier, next' = next,
         read' = read, distance' = distance, pred' = pred, supernodes' = supernodes,
         at # "idle", at' # "idle", at' = "search" <=> at = "search",
         graph' \in Graph, graph'.edges \subseteq ever'.edges,
         ever.edges \subseteq ever'.edges, ever'.edges \subseteq Links,
         steady'.edges \subseteq steady.edges \cap graph'.edges,
         steady'.open \subseteq graph'.open,
         reported' \subseteq DOMAIN pred,
         at' \in {"evidence", "done"} => DOMAIN pred \cap steady'.open \subseteq reported'
  PROVE  IInv'
<1>1. SearchInv'
  BY DEF IInv, SearchInv, Marked
<1>2. PathsHold'
  <2> SUFFICES ASSUME NEW n \in DOMAIN distance \ {source}
               PROVE  /\ n \in DOMAIN pred
                      /\ pred[n].ci \in DOMAIN distance
                      /\ distance[n] = distance[pred[n].ci] + 1
                      /\ n \in Neighbors(walk, ever'.edges, pred[n].ci)
    BY DEF PathsHold
  <2>1. /\ n \in DOMAIN pred
        /\ pred[n].ci \in DOMAIN distance
        /\ distance[n] = distance[pred[n].ci] + 1
        /\ n \in Neighbors(walk, ever.edges, pred[n].ci)
    BY DEF IInv, PathsHold
  <2>2. Neighbors(walk, ever.edges, pred[n].ci) \subseteq Neighbors(walk, ever'.edges, pred[n].ci)
    BY NeighborsGrow DEF IInv, SearchInv
  <2> QED BY <2>1, <2>2
<1>3. FoundInv'
  <2> SUFFICES ASSUME NEW n \in DOMAIN distance
               PROVE  n \in Hull(walk, source, ever'.edges, distance[n])
    BY DEF FoundInv
  <2>1. walk \in Walks /\ distance[n] \in Nat
    BY DEF IInv, SearchInv
  <2>2. Hull(walk, source, ever.edges, distance[n]) \subseteq Hull(walk, source, ever'.edges, distance[n])
    BY <2>1, HullGrows
  <2> QED BY <2>2 DEF IInv, FoundInv
<1>4. ExpandedInv'
  <2> SUFFICES ASSUME supernodes = {}, NEW c \in DOMAIN distance
               PROVE  \/ Expanded(c)'
                      \/ at = "search" /\ (Among(frontier, c) \/ Among(next, c))
                      \/ at # "search" /\ distance[c] = MaxDepth
    BY DEF ExpandedInv, Among
  <2>1. CASE Expanded(c)
    <3>1. Neighbors(walk, steady'.edges, c) \subseteq Neighbors(walk, steady.edges, c)
      BY NeighborsGrow DEF IInv, SearchInv
    <3>2. Expanded(c)'
      BY <2>1, <3>1 DEF Expanded
    <3> QED BY <3>2
  <2> QED BY <2>1 DEF IInv, ExpandedInv
<1>5. ReportedInv'
  BY DEF IInv, ReportedInv
<1>6. ReadInv'
  <2> DEFINE c == Head(frontier)
  <2>1. walk \in Walks
    BY DEF IInv, SearchInv
  <2> HIDE DEF c
  <2>2. /\ RowsOf(walk, steady'.edges, c).first \subseteq RowsOf(walk, steady.edges, c).first
        /\ RowsOf(walk, ever.edges, c).first \subseteq RowsOf(walk, ever'.edges, c).first
    BY <2>1, RowsGrow
  <2> QED BY <2>2 DEF IInv, ReadInv, c
<1> QED BY <1>1, <1>2, <1>3, <1>4, <1>5, <1>6 DEF IInv

LEMMA BecomesStep ==
  ASSUME IInv, NEW g \in Graph, Becomes(g)
  PROVE  IInv'
<1>1. at' = at /\ at # "idle" /\ walk' = walk /\ source' = source /\ depth' = depth
      /\ frontier' = frontier /\ next' = next /\ distance' = distance /\ pred' = pred
      /\ read' = read /\ supernodes' = supernodes /\ reported' = reported
  BY DEF Becomes, query, search, answer
<1>2. graph' = g /\ ever'.edges = ever.edges \cup g.edges
      /\ steady'.edges = steady.edges \cap g.edges /\ steady'.open = steady.open \cap g.open
  BY DEF Becomes, Join, Meet
<1>3. reported \subseteq DOMAIN pred
      /\ (at \in {"evidence", "done"} => DOMAIN pred \cap steady.open \subseteq reported)
  BY DEF IInv, ReportedInv
<1>4. ever'.edges \subseteq Links
  BY <1>2 DEF IInv, SearchInv, Graph
<1> QED BY <1>1, <1>2, <1>3, <1>4, Still

LEMMA AskStep ==
  ASSUME IInv, NEW w \in Walks, NEW c \in CIs, Ask(w, c)
  PROVE  IInv'
<1>1. /\ at = "idle" /\ at' = "search" /\ walk' = w /\ source' = c
      /\ frontier' = <<c>> /\ distance' = [n \in {c} |-> 0]
      /\ graph' = graph /\ steady' = steady /\ ever' = ever /\ depth' = depth /\ next' = next
      /\ read' = read /\ pred' = pred /\ reported' = reported
  BY DEF Ask, world, answer
<1>2. /\ depth = 1 /\ depth \in 1..MaxDepth /\ next = <<>>
      /\ graph \in Graph /\ graph.edges \subseteq ever.edges /\ ever.edges \subseteq Links
      /\ steady.edges \subseteq graph.edges /\ steady.open \subseteq graph.open
      /\ DOMAIN distance = {} /\ DOMAIN pred = {} /\ reported = {}
  BY <1>1 DEF IInv, SearchInv, ReportedInv
<1>3. SearchInv'
  BY <1>1, <1>2 DEF SearchInv, Marked
<1>4. PathsHold'
  BY <1>1 DEF PathsHold
<1>5. FoundInv'
  BY <1>1, HullStarts DEF FoundInv
<1>6. ExpandedInv'
  <2>1. Among(<<c>>, c)
    BY DEF Among
  <2> QED BY <2>1, <1>1 DEF ExpandedInv
<1>7. ReportedInv'
  BY <1>1, <1>2 DEF ReportedInv
<1>8. ReadInv'
  BY <1>1 DEF IInv, ReadInv
<1> QED BY <1>3, <1>4, <1>5, <1>6, <1>7, <1>8 DEF IInv

\* The rows of the first statement are rows of the graph as it is.
LEMMA ReadStep ==
  ASSUME IInv, ReadBlastRadius \/ ReadWhatIf \/ ReadNeighborhood
  PROVE  IInv'
<1>1. /\ at = "search" /\ at' = at /\ walk' = walk /\ source' = source /\ depth' = depth
      /\ frontier' = frontier /\ next' = next /\ distance' = distance /\ pred' = pred
      /\ supernodes' = supernodes /\ reported' = reported
      /\ graph' = graph /\ steady' = steady /\ ever' = ever
      /\ read' = RowsOf(walk, graph.edges, Head(frontier)).first
  BY DEF ReadBlastRadius, ReadWhatIf, ReadNeighborhood, ReadFirst, world, query, answer
<1>2. ReadInv'
  <2>1. walk \in Walks /\ steady.edges \subseteq graph.edges /\ graph.edges \subseteq ever.edges
    BY DEF IInv, SearchInv
  <2>2. /\ RowsOf(walk, steady.edges, Head(frontier)).first \subseteq read'
        /\ read' \subseteq RowsOf(walk, ever.edges, Head(frontier)).first
    BY <1>1, <2>1, RowsGrow
  <2> QED BY <1>1, <2>2 DEF ReadInv
<1>3. SearchInv'
  BY <1>1 DEF IInv, SearchInv, Marked
<1>4. PathsHold'
  BY <1>1 DEF IInv, PathsHold
<1>5. FoundInv'
  BY <1>1 DEF IInv, FoundInv
<1>6. ExpandedInv'
  BY <1>1 DEF IInv, ExpandedInv, Expanded, Among
<1>7. ReportedInv'
  BY <1>1 DEF IInv, ReportedInv
<1> QED BY <1>2, <1>3, <1>4, <1>5, <1>6, <1>7 DEF IInv

LEMMA ExploreStep ==
  ASSUME IInv, at = "search", walk = "reachability" \/ read # None,
         NEW K, K \subseteq Seen, Explore(K),
         supernodes \subseteq supernodes', supernodes' = {} => K = Seen
  PROVE  IInv'
<1> DEFINE c   == Head(frontier)
           new == K \ DOMAIN distance
<1>0. Neighbors(walk, steady.edges, c) \subseteq Seen /\ Seen \subseteq Neighbors(walk, ever.edges, c)
  BY SeenIsBetween DEF IInv
<1>1. /\ graph' = graph /\ steady' = steady /\ ever' = ever /\ walk' = walk /\ source' = source
      /\ reported' = reported /\ read' = None
  BY DEF Explore, world, query, answer
<1>2. PICK via \in [new -> UNION {Hops(c, n) : n \in new}] :
        /\ \A n \in new : via[n] \in Hops(c, n)
        /\ pred' = With(pred, via)
  BY DEF Explore, Enter
<1>3. distance' = With(distance, [n \in new |-> depth])
  BY DEF Explore, Enter
<1>4. PICK order \in SetToSeqs(new) : Proceed(Tail(frontier), next \o order)
  BY DEF Explore
<1>5. /\ MaxDepth \in Nat /\ depth \in 1..MaxDepth
      /\ frontier \in Seq(CIs) /\ next \in Seq(CIs) /\ frontier # <<>>
      /\ Marked(frontier, distance, depth - 1) /\ Marked(next, distance, depth)
      /\ walk \in Walks /\ graph \in Graph /\ graph.edges \subseteq ever.edges
      /\ ever.edges \in SUBSET Links
      /\ steady.edges \subseteq graph.edges /\ steady.open \subseteq graph.open
      /\ source \in DOMAIN distance /\ distance[source] = 0
      /\ \A n \in DOMAIN distance : distance[n] \in 0..depth
  BY BoundsAssumption DEF IInv, SearchInv, Graph
<1>6. c \in DOMAIN distance /\ distance[c] = depth - 1
  <2>1. c = frontier[1] /\ 1 \in 1..Len(frontier)
    BY <1>5
  <2> HIDE DEF c
  <2> QED BY <2>1, <1>5 DEF Marked
<1> HIDE DEF new, c
<1>7. new \in SUBSET CIs
  <2>1. Neighbors(walk, ever.edges, c) \subseteq CIs
    BY <1>5, NeighborsAreCIs
  <2> QED BY <2>1, <1>0 DEF new
<1>8. /\ DOMAIN distance' = DOMAIN distance \cup new
      /\ \A n \in new : distance'[n] = depth
      /\ \A n \in DOMAIN distance : distance'[n] = distance[n]
  <2>1. DOMAIN [n \in new |-> depth] = new /\ \A n \in new : [x \in new |-> depth][n] = depth
    OBVIOUS
  <2>2. \A n \in DOMAIN distance : n \notin new
    BY DEF new
  <2> QED BY <2>1, <2>2, <1>3 DEF With
<1>9. /\ DOMAIN pred' = DOMAIN pred \cup new
      /\ \A n \in new : pred'[n] = via[n]
      /\ \A n \in DOMAIN pred : n \notin new => pred'[n] = pred[n]
  <2>1. DOMAIN via = new
    BY <1>2
  <2> QED BY <2>1, <1>2 DEF With
<1>10. PathsHold'
  <2> SUFFICES ASSUME NEW n \in DOMAIN distance' \ {source}
               PROVE  /\ n \in DOMAIN pred'
                      /\ pred'[n].ci \in DOMAIN distance'
                      /\ distance'[n] = distance'[pred'[n].ci] + 1
                      /\ n \in Neighbors(walk, ever.edges, pred'[n].ci)
    BY <1>1 DEF PathsHold
  <2>1. CASE n \in new
    <3>1. via[n].ci = c /\ n \in Seen
      BY <1>2, <2>1, HopsAreSeen
    <3> QED BY <2>1, <3>1, <1>0, <1>5, <1>6, <1>8, <1>9
  <2>2. CASE n \notin new
    <3>1. n \in DOMAIN distance \ {source}
      BY <2>2, <1>8
    <3>2. /\ n \in DOMAIN pred
          /\ pred[n].ci \in DOMAIN distance
          /\ distance[n] = distance[pred[n].ci] + 1
          /\ n \in Neighbors(walk, ever.edges, pred[n].ci)
      BY <3>1 DEF IInv, PathsHold
    <3> QED BY <2>2, <3>1, <3>2, <1>8, <1>9
  <2> QED BY <2>1, <2>2
<1> DEFINE rest  == Tail(frontier)
           found == next \o order
<1>11. order \in Seq(CIs) /\ \A i \in 1..Len(order) : order[i] \in new
  BY <1>4, <1>7, OrderIsSeq
<1>12. rest \in Seq(CIs) /\ Marked(rest, distance', depth - 1)
  <2>1. /\ rest \in Seq(CIs) /\ Len(rest) = Len(frontier) - 1
        /\ \A i \in 1..Len(rest) : rest[i] = frontier[i + 1]
    BY <1>5, HeadTailProperties
  <2>2. \A i \in 1..Len(rest) : i + 1 \in 1..Len(frontier)
    BY <2>1, <1>5
  <2>3. ASSUME NEW i \in 1..Len(rest)
        PROVE  rest[i] \in DOMAIN distance' /\ distance'[rest[i]] = depth - 1
    <3>1. PICK j \in 1..Len(frontier) : rest[i] = frontier[j]
      BY <2>1, <2>2
    <3> QED BY <3>1, <1>5, <1>8 DEF Marked
  <2> HIDE DEF rest
  <2> QED BY <2>1, <2>3 DEF Marked
<1>13. found \in Seq(CIs) /\ Marked(found, distance', depth)
  <2>1. /\ found \in Seq(CIs) /\ Len(found) = Len(next) + Len(order)
        /\ \A i \in 1..Len(found) : found[i] = IF i <= Len(next) THEN next[i] ELSE order[i - Len(next)]
    BY <1>5, <1>11, ConcatProperties
  <2>2. ASSUME NEW i \in 1..Len(found)
        PROVE  \/ \E j \in 1..Len(next) : found[i] = next[j]
               \/ \E j \in 1..Len(order) : found[i] = order[j]
    <3>1. Len(next) \in Nat /\ Len(order) \in Nat
      BY <1>5, <1>11
    <3>2. CASE i <= Len(next)
      BY <3>1, <3>2, <2>1
    <3>3. CASE ~(i <= Len(next))
      <4>1. i - Len(next) \in 1..Len(order)
        BY <3>1, <3>3, <2>1
      <4> QED BY <4>1, <3>3, <2>1
    <3> QED BY <3>2, <3>3
  <2>3. \A j \in 1..Len(next) : next[j] \in DOMAIN distance' /\ distance'[next[j]] = depth
    BY <1>5, <1>8 DEF Marked
  <2>4. \A j \in 1..Len(order) : order[j] \in DOMAIN distance' /\ distance'[order[j]] = depth
    BY <1>8, <1>11
  <2>5. ASSUME NEW i \in 1..Len(found)
        PROVE  found[i] \in DOMAIN distance' /\ distance'[found[i]] = depth
    <3> HIDE DEF found
    <3> QED BY <2>2, <2>3, <2>4
  <2> HIDE DEF found
  <2> QED BY <2>1, <2>5 DEF Marked
<1> HIDE DEF rest, found
<1>14. Proceed(rest, found)
  BY <1>4 DEF rest, found
<1>15. at' # "idle" /\ (at' = "search" => frontier' # <<>>)
       /\ depth' \in 1..MaxDepth /\ depth <= depth'
       /\ frontier' \in Seq(CIs) /\ next' \in Seq(CIs)
       /\ Marked(frontier', distance', depth' - 1) /\ Marked(next', distance', depth')
  <2>0. at = "search"
    OBVIOUS
  <2>1. CASE rest # <<>> /\ frontier' = rest /\ next' = found /\ depth' = depth /\ at' = at
    BY <2>0, <2>1, <1>5, <1>12, <1>13
  <2>2. CASE /\ frontier' = found /\ found # <<>> /\ next' = <<>>
             /\ depth < MaxDepth /\ depth' = depth + 1 /\ at' = at
    <3>1. depth' - 1 = depth /\ depth' \in 1..MaxDepth /\ depth <= depth'
      BY <2>2, <1>5
    <3>2. Marked(frontier', distance', depth' - 1)
      BY <3>1, <2>2, <1>13
    <3> QED BY <2>0, <2>2, <3>1, <3>2, <1>13 DEF Marked
  <2>3. CASE frontier' = <<>> /\ next' = <<>> /\ at' = "resolve" /\ depth' = depth
    BY <2>3, <1>5 DEF Marked
  <2> QED BY <1>14, <2>1, <2>2, <2>3 DEF Proceed
<1>16. \A n \in DOMAIN distance' : distance'[n] \in 0..depth'
  BY <1>5, <1>8, <1>15
<1>17. source \in DOMAIN distance' /\ distance'[source] = 0
  BY <1>5, <1>8
<1>18. SearchInv'
  BY <1>1, <1>5, <1>15, <1>16, <1>17 DEF SearchInv
<1>19. FoundInv'
  <2> SUFFICES ASSUME NEW n \in DOMAIN distance'
               PROVE  n \in Hull(walk, source, ever.edges, distance'[n])
    BY <1>1 DEF FoundInv
  <2>1. CASE n \in DOMAIN distance
    BY <2>1, <1>8 DEF IInv, FoundInv
  <2>2. CASE n \in new
    <3>1. n \in Neighbors(walk, ever.edges, c)
      BY <2>2, <1>0 DEF new
    <3>2. c \in Hull(walk, source, ever.edges, depth - 1)
      BY <1>6 DEF IInv, FoundInv
    <3>3. n \in Wider(walk, ever.edges, Hull(walk, source, ever.edges, depth - 1))
      BY <3>1, <3>2 DEF Wider
    <3>4. depth - 1 \in Nat /\ (depth - 1) + 1 = depth
      BY <1>5
    <3>5. Hull(walk, source, ever.edges, (depth - 1) + 1) =
            Wider(walk, ever.edges, Hull(walk, source, ever.edges, depth - 1))
      BY <3>4, HullWidens
    <3> QED BY <2>2, <3>3, <3>4, <3>5, <1>8
  <2> QED BY <2>1, <2>2, <1>8
<1>20. ReportedInv'
  <2>1. DOMAIN pred = DOMAIN distance \ {source} /\ reported \subseteq DOMAIN pred
    BY DEF IInv, ReportedInv
  <2>2. source \notin new
    BY <1>5 DEF new
  <2>3. at' \in {"search", "resolve"}
    BY <1>14 DEF Proceed
  <2> QED BY <2>1, <2>2, <2>3, <1>1, <1>8, <1>9 DEF ReportedInv
<1>21. ExpandedInv'
  <2> SUFFICES ASSUME supernodes' = {}, NEW m \in DOMAIN distance'
               PROVE  \/ Expanded(m)'
                      \/ at' = "search" /\ (Among(frontier', m) \/ Among(next', m))
                      \/ at' # "search" /\ distance'[m] = MaxDepth
    BY DEF ExpandedInv, Among
  <2>1. ASSUME m \in DOMAIN distance, Expanded(m) PROVE Expanded(m)'
    BY <2>1, <1>1, <1>8 DEF Expanded
  <2>2. ASSUME m = c PROVE Expanded(m)'
    <3>1. \A n \in Seen : n \in DOMAIN distance \/ n \in new
      BY DEF new
    <3>2. ASSUME NEW n \in Neighbors(walk, steady.edges, c)
          PROVE  n \in DOMAIN distance' /\ distance'[n] <= distance'[m] + 1
      <4>1. distance'[m] + 1 = depth
        BY <2>2, <1>5, <1>6, <1>8
      <4>2. n \in DOMAIN distance \/ n \in new
        BY <3>1, <1>0
      <4> QED BY <4>1, <4>2, <1>5, <1>8
    <3> QED BY <2>2, <3>2, <1>1 DEF Expanded
  <2>3. m \in new => Among(found, m)
    <3> SUFFICES ASSUME m \in new PROVE Among(found, m)
      OBVIOUS
    <3>1. PICK i \in 1..Len(order) : order[i] = m
      BY <1>4, <1>7, OrderCovers
    <3>2. Len(next) + i \in 1..Len(found) /\ found[Len(next) + i] = order[i]
      BY <3>1, <1>5, <1>11, ConcatProperties DEF found
    <3> QED BY <3>1, <3>2 DEF Among
  <2>4. Among(next, m) => Among(found, m)
    <3> SUFFICES ASSUME NEW i \in 1..Len(next), next[i] = m PROVE Among(found, m)
      BY DEF Among
    <3>1. i \in 1..Len(found) /\ found[i] = next[i]
      BY <1>5, <1>11, ConcatProperties DEF found
    <3> QED BY <3>1 DEF Among
  <2>5. Among(frontier, m) => m = c \/ Among(rest, m)
    <3> SUFFICES ASSUME NEW i \in 1..Len(frontier), frontier[i] = m, i # 1
                 PROVE  Among(rest, m)
      BY <1>5 DEF Among, c
    <3>1. i - 1 \in 1..Len(rest) /\ rest[i - 1] = frontier[(i - 1) + 1] /\ (i - 1) + 1 = i
      BY <1>5, HeadTailProperties DEF rest
    <3> QED BY <3>1 DEF Among
  <2>6. Expanded(m)' \/ Among(rest, m) \/ Among(found, m)
    <3>1. CASE m \in new
      BY <3>1, <2>3
    <3>2. CASE m \in DOMAIN distance
      <4>1. supernodes = {}
        OBVIOUS
      <4>2. Expanded(m) \/ Among(frontier, m) \/ Among(next, m)
        BY <4>1, <3>2 DEF IInv, ExpandedInv
      <4>3. m = c => Expanded(m)'
        BY <2>2
      <4> QED BY <4>2, <4>3, <3>2, <2>1, <2>4, <2>5
    <3> QED BY <3>1, <3>2, <1>8
  <2>7. rest = <<>> => ~Among(rest, m)
    BY DEF Among
  <2>8. CASE rest # <<>> /\ frontier' = rest /\ next' = found /\ at' = at
    BY <2>6, <2>8
  <2>9. CASE rest = <<>> /\ frontier' = found /\ at' = at
    BY <2>6, <2>7, <2>9
  <2>10. CASE rest = <<>> /\ (found = <<>> \/ depth = MaxDepth) /\ at' = "resolve"
    <3>1. Among(found, m) => distance'[m] = depth /\ depth = MaxDepth
      BY <2>10, <1>13 DEF Among, Marked
    <3> QED BY <3>1, <2>6, <2>7, <2>10
  <2> QED BY <1>14, <2>8, <2>9, <2>10 DEF Proceed
<1>22. ReadInv'
  BY <1>1 DEF ReadInv
<1> QED BY <1>10, <1>18, <1>19, <1>20, <1>21, <1>22 DEF IInv

LEMMA ChangeStep ==
  ASSUME IInv, Observe \/ Retire \/ Disappear
  PROVE  IInv'
<1>1. graph \in Graph
  BY DEF IInv, SearchInv
<1>2. CASE Observe
  <2>1. PICK e \in Links : Becomes([graph EXCEPT !.edges = @ \cup {e}])
    BY <1>2 DEF Observe
  <2>2. [graph EXCEPT !.edges = @ \cup {e}] \in Graph
    BY <1>1 DEF Graph
  <2> QED BY <2>1, <2>2, BecomesStep
<1>3. CASE Retire
  <2>1. PICK e \in graph.edges : Becomes([graph EXCEPT !.edges = @ \ {e}])
    BY <1>3 DEF Retire
  <2>2. [graph EXCEPT !.edges = @ \ {e}] \in Graph
    BY <1>1 DEF Graph
  <2> QED BY <2>1, <2>2, BecomesStep
<1>4. CASE Disappear
  <2>1. PICK c \in graph.open :
          Becomes([edges |-> {e \in graph.edges : c \notin {e.from, e.to}},
                   open |-> graph.open \ {c}])
    BY <1>4 DEF Disappear
  <2>2. [edges |-> {e \in graph.edges : c \notin {e.from, e.to}}, open |-> graph.open \ {c}] \in Graph
    BY <1>1 DEF Graph
  <2> QED BY <2>1, <2>2, BecomesStep
<1> QED BY <1>2, <1>3, <1>4

LEMMA ExpandStep ==
  ASSUME IInv, ExpandBlastRadius \/ ExpandWhatIf \/ ExpandReachability \/ ExpandNeighborhood
  PROVE  IInv'
<1>1. /\ at = "search" /\ (walk = "reachability" \/ read # None)
      /\ ExploreCut \/ (Explore(Seen) /\ UNCHANGED supernodes)
  BY DEF ExpandBlastRadius, ExpandWhatIf, ExpandReachability, ExpandNeighborhood, Expand
<1>2. PICK K \in SUBSET Seen :
        Explore(K) /\ supernodes \subseteq supernodes' /\ (supernodes' = {} => K = Seen)
  <2>1. CASE Explore(Seen) /\ UNCHANGED supernodes
    BY <2>1
  <2>2. CASE /\ \E K \in kSubset(MaxFanout, Seen) : Explore(K)
             /\ \E cut : supernodes' = supernodes \cup {cut}
    <3>1. kSubset(MaxFanout, Seen) \subseteq SUBSET Seen
      BY DEF kSubset
    <3> QED BY <3>1, <2>2
  <2> QED BY <1>1, <2>1, <2>2 DEF ExploreCut
<1> QED BY <1>1, <1>2, ExploreStep

\* What is left is done with what was found.
LEMMA AnswerStep ==
  ASSUME IInv,
         \/ ResolveBlastRadius \/ ResolveWhatIf \/ ResolveReachability \/ ResolveNeighborhood
         \/ ReadProvenance \/ ReadEvidence \/ Correlate
  PROVE  IInv'
<1>1. /\ walk' = walk /\ source' = source /\ depth' = depth /\ frontier' = frontier
      /\ next' = next /\ distance' = distance /\ pred' = pred /\ supernodes' = supernodes
      /\ read' = read /\ graph' = graph /\ steady' = steady /\ ever' = ever
      /\ at' \in {"done", "evidence"} /\ at \in {"resolve", "evidence"}
      /\ \/ reported' = DOMAIN pred \cap graph.open
         \/ at = "evidence" /\ reported' = reported
  BY DEF ResolveBlastRadius, ResolveWhatIf, ResolveReachability, ResolveNeighborhood, Resolve,
         ReadProvenance, ReadEvidence, Correlate, world, query, search, answer
<1>2. graph \in Graph /\ graph.edges \subseteq ever.edges /\ ever.edges \subseteq Links
      /\ steady.edges \subseteq graph.edges /\ steady.open \subseteq graph.open
  BY DEF IInv, SearchInv
<1>3. reported' \subseteq DOMAIN pred /\ DOMAIN pred \cap steady.open \subseteq reported'
  BY <1>1, <1>2 DEF IInv, ReportedInv
<1> QED BY <1>1, <1>2, <1>3, Still

LEMMA Step == IInv /\ [Next]_vars => IInv'
<1> SUFFICES ASSUME IInv, [Next]_vars PROVE IInv'
  OBVIOUS
<1>1. CASE Observe \/ Retire \/ Disappear
  BY <1>1, ChangeStep
<1>2. CASE \E c \in CIs : AskBlastRadius(c) \/ AskReachability(c) \/ AskRootCause(c) \/ AskWhatIf(c)
  BY <1>2, AskStep DEF AskBlastRadius, AskReachability, AskRootCause, AskWhatIf, Walks
<1>3. CASE ExpandBlastRadius \/ ExpandWhatIf \/ ExpandReachability \/ ExpandNeighborhood
  BY <1>3, ExpandStep
<1>4. CASE \/ ResolveBlastRadius \/ ResolveWhatIf \/ ResolveReachability \/ ResolveNeighborhood
           \/ ReadProvenance \/ ReadEvidence \/ Correlate
  BY <1>4, AnswerStep
<1>5. CASE UNCHANGED vars
  <2> USE <1>5 DEF vars, world, query, search, answer, IInv
  <2>1. SearchInv'
    BY DEF SearchInv, Marked
  <2>2. PathsHold'
    BY DEF PathsHold
  <2>3. FoundInv'
    BY DEF FoundInv
  <2>4. ExpandedInv'
    BY DEF ExpandedInv, Expanded, Among
  <2>5. ReportedInv'
    BY DEF ReportedInv
  <2>6. ReadInv'
    BY DEF ReadInv
  <2> QED BY <2>1, <2>2, <2>3, <2>4, <2>5, <2>6
<1>6. CASE ReadBlastRadius \/ ReadWhatIf \/ ReadNeighborhood
  BY <1>6, ReadStep
<1> QED BY <1>1, <1>2, <1>3, <1>4, <1>5, <1>6 DEF Next

-----------------------------------------------------------------------------
\* In a graph of any size that changes between any two statements of a query, whatever its
\* depth and fan-out, the path back from a CI that was found leads to the source, over edges
\* that were there while the query ran (predecessor in reachability.py and whatif.py).
THEOREM PathsHoldCorrect == Spec => []PathsHold
<1>1. IInv => PathsHold
  BY DEF IInv
<1> QED BY <1>1, InitIInv, Step, PTL DEF Spec

\* What a search reports was within reach, by as many hops as it says, of edges that were there
\* while it ran: however the graph changes between two statements, it invents nothing
\* (blast_radius.py, whatif.py, reachability.py, rca.py).
THEOREM NothingInventedCorrect == Spec => []NothingInvented
<1>1. IInv => NothingInvented
  <2> SUFFICES ASSUME IInv, NEW n \in reported
               PROVE  n \in Within(ever.edges, distance[n])
    BY DEF NothingInvented
  <2>1. n \in DOMAIN distance
    BY DEF IInv, ReportedInv
  <2>2. n \in Hull(walk, source, ever.edges, distance[n])
    BY <2>1 DEF IInv, FoundInv
  <2> QED BY <2>2, WithinIsHull
<1> QED BY <1>1, InitIInv, Step, PTL DEF Spec

\* A search that cut no supernode is complete: whatever stayed within reach while it ran has
\* been found by its end, no farther away than it is.
LEMMA SearchIsComplete ==
  ASSUME IInv, at \notin {"idle", "search"}, supernodes = {}
  PROVE  \A d \in 0..MaxDepth : \A n \in Hull(walk, source, steady.edges, d) :
           n \in DOMAIN distance /\ distance[n] <= d
<1> DEFINE H(d) == Hull(walk, source, steady.edges, d)
           Covered(d) == \A n \in H(d) : n \in DOMAIN distance /\ distance[n] <= d
           S == {d \in Nat : d <= MaxDepth => Covered(d)}
<1>1. /\ source \in DOMAIN distance /\ distance[source] = 0
      /\ \A n \in DOMAIN distance : distance[n] \in Nat
      /\ MaxDepth \in Nat
  BY BoundsAssumption DEF IInv, SearchInv
<1>2. H(0) = {source} /\ \A d \in Nat : H(d + 1) = Wider(walk, steady.edges, H(d))
  BY HullStarts, HullWidens
<1> HIDE DEF H
<1>3. 0 \in S
  BY <1>1, <1>2
<1>4. ASSUME NEW d \in Nat, d \in S PROVE d + 1 \in S
  <2> SUFFICES ASSUME d + 1 <= MaxDepth, NEW n \in H(d + 1)
               PROVE  n \in DOMAIN distance /\ distance[n] <= d + 1
    OBVIOUS
  <2>1. d < MaxDepth /\ Covered(d)
    BY <1>1, <1>4
  <2>2. n \in Wider(walk, steady.edges, H(d))
    BY <1>2
  <2>3. CASE n \in H(d)
    BY <2>1, <2>3, <1>1
  <2>4. CASE n \notin H(d)
    <3>1. PICK c \in H(d) : n \in Neighbors(walk, steady.edges, c)
      BY <2>2, <2>4 DEF Wider
    <3>2. c \in DOMAIN distance /\ distance[c] <= d /\ distance[c] \in Nat
      BY <3>1, <2>1, <1>1
    <3>3. Expanded(c)
      BY <3>2, <2>1, <1>1 DEF IInv, ExpandedInv
    <3>4. n \in DOMAIN distance /\ distance[n] <= distance[c] + 1
      BY <3>1, <3>3 DEF Expanded
    <3> QED BY <3>2, <3>4, <1>1
  <2> QED BY <2>3, <2>4
<1> HIDE DEF S
<1>5. Nat \subseteq S
  BY <1>3, <1>4, Induction
<1>6. ASSUME NEW d \in 0..MaxDepth PROVE Covered(d)
  BY <1>5, <1>1 DEF S
<1> QED BY <1>6 DEF H

\* Whatever is within reach all the time that a search runs, and current, is in its answer, at
\* that distance or less, unless the answer names a supernode: neither the visited set, nor the
\* depth bound, nor the order of the frontier loses any of it.
THEOREM NothingMissedCorrect == Spec => []NothingMissed
<1>1. IInv => NothingMissed
  <2> SUFFICES ASSUME IInv, at = "done", supernodes = {}, NEW d \in 1..MaxDepth,
                      NEW n \in Within(steady.edges, d) \ {source}, n \in steady.open
               PROVE  n \in reported /\ distance[n] <= d
    BY DEF NothingMissed
  <2>1. n \in Hull(walk, source, steady.edges, d)
    BY WithinIsHull
  <2>2. d \in 0..MaxDepth
    BY BoundsAssumption
  <2>3. n \in DOMAIN distance /\ distance[n] <= d
    BY <2>1, <2>2, SearchIsComplete
  <2> QED BY <2>3 DEF IInv, ReportedInv
<1> QED BY <1>1, InitIInv, Step, PTL DEF Spec

-----------------------------------------------------------------------------
(* MergeReview.                                                            *)

\* Rows are found by what the tables' unique constraints name, and an open CI is
\* bound under its own external id, by a source that observes it.
RowsInv ==
  /\ \A r, q \in cis : (r.id = q.id \/ r.ext = q.ext) => r = q
  /\ \A k, l \in keys : (k.source = l.source /\ k.native = l.native) => k = l
  /\ \A a, b \in aliases : a.alias = b.alias => a = b
  /\ \A r \in cis : \E k \in keys : k.id = r.id /\ k.native = r.ext
  /\ \A k \in keys : k.source # Generation

\* Two edges never have the same ends.
EdgesInv == \A e, f \in edges : (e.from = f.from /\ e.to = f.to) => e = f

\* Merges are numbered, and what they name is bound.
MergesInv ==
  /\ IsFiniteSet(merges)
  /\ \A m \in merges : m.no <= Cardinality(merges)
  /\ \A m, o \in merges : m.no = o.no => m = o
  /\ \A m \in merges : \E k \in keys : k.source = m.source /\ k.native = m.native

\* No row names an id that is still to be handed out.
KnownInv ==
  /\ \A x \in cis \cup keys \cup aliases : x.id < nextId
  /\ \A e \in edges : e.from < nextId /\ e.to < nextId
  /\ \A m \in merges : m.into < nextId
  /\ \A p \in Reviewers :
       job[p].kind = "accept" => job[p].into < nextId /\ job[p].gone < nextId

\* The two CIs of a review differ, an id never changes its external id, and the
\* name chosen for the merge is bound.
JobInv ==
  \A p \in Reviewers :
    /\ job[p].kind = "accept" =>
         /\ job[p].into # job[p].gone
         /\ \A r \in cis : r.id = job[p].gone => r.ext = job[p].ext
         /\ \E k \in keys : k.source = job[p].source /\ k.native = job[p].native
    /\ job[p].kind = "unmerge" => job[p].merge \in merges

\* An accepted candidate has its merge, and no other has one.
Of(q) == {m \in merges : m.via = q}
CandInv ==
  \A q \in Pairs : IF cand[q] = "accepted" THEN \E m \in Of(q) : Of(q) = {m}
                   ELSE Of(q) = {}

\* Without overlap, the two CIs of a review are still those that it read.
AloneInv ==
  ~overlapped =>
    /\ \A p, u \in Reviewers : (job[p] # NoJob /\ job[u] # NoJob) => p = u
    /\ \A p \in Reviewers : job[p].kind = "accept" =>
         /\ Open(job[p].into)
         /\ [id |-> job[p].gone, ext |-> job[p].ext] \in cis

\* The keys and the aliases after what the merge m names is bound to i.
NameMoved(K, m, i) == {IF k.source = m.source /\ k.native = m.native
                       THEN [k EXCEPT !.id = i] ELSE k : k \in K}
AliasesMoved(A, m, i) == {IF a.source = m.source THEN [a EXCEPT !.id = Turn(@, m.into, i)]
                          ELSE a : a \in A}

\* To unmerge m now would give back what was noted before it was accepted.
GivesBack(m) ==
  LET C == cis \cup {[id |-> nextId, ext |-> m.native]}
  IN /\ \A r \in cis : r.ext # m.native
     /\ Named(NameMoved(keys, m, nextId), C) = before.keys
     /\ Named(AliasesMoved(aliases, m, nextId), C) = before.aliases
UndoInv ==
  before # NoUndo =>
    before.merge # 0 /\ \A m \in merges : m.no = before.merge => GivesBack(m)

LEMMA SomeIds == Ids \subseteq Nat /\ \A i \in Nat : i \in Ids <=> i < MaxId
BY ReviewBoundsAssumption DEF Ids

LEMMA SourcesOfModel ==
  /\ Generation \in Sources /\ Sources \subseteq Nat /\ Natives \subseteq Nat
  /\ \A n \in Natives : SourceOf[n] \in Sources
BY NativesAssumption DEF Sources

LEMMA NoEmptyPair == {} \notin Pairs
BY FS_EmptySet DEF Pairs

LEMMA JobFields ==
  ASSUME NEW j \in Job \cup {NoJob}
  PROVE  /\ j.kind \in {"accept", "unmerge", "none"}
         /\ j.kind = "none" <=> j = NoJob
         /\ j.kind = "accept" =>
              /\ j.pair \in Pairs /\ j.into \in Ids /\ j.gone \in Ids
              /\ j.ext \in Natives /\ j.source \in Sources /\ j.native \in Natives
         /\ j.kind = "unmerge" => j.merge \in Merge
BY DEF Job, NoJob

LEMMA OpenRow ==
  ASSUME NEW i, Open(i)
  PROVE  \E r \in cis : r.id = i /\ r.ext = ExtOf(i)
BY DEF Open, ExtOf

LEMMA Smallest ==
  ASSUME NEW S \in SUBSET Nat, S # {}
  PROVE  \E n \in S : \A m \in S : n <= m
<1>1. IsWellFoundedOn(OpToRel(<, Nat), Nat)
  BY NatLessThanWellFounded
<1>2. PICK n \in S : \A m \in S : ~(<<m, n>> \in OpToRel(<, Nat))
  BY <1>1, WFMin
<1>3. ASSUME NEW m \in S PROVE n <= m
  <2>1. n \in Nat /\ m \in Nat /\ <<m, n>> \notin {x \in Nat \X Nat : x[1] < x[2]}
    BY <1>2 DEF OpToRel
  <2>2. ~(m < n)
    BY <2>1
  <2> QED
    BY <2>1, <2>2
<1> QED
  BY <1>3

\* An open CI has a smallest key, by which its merge is named: the synthetic one
\* is for CIs that no source observes.
LEMMA ReversalIs ==
  ASSUME ReviewTypeOK, RowsInv, NEW i, Open(i)
  PROVE  Reversal(i) \in keys /\ Reversal(i).id = i
<1> DEFINE mine == {k \in keys : k.id = i}
<1>1. mine # {}
  <2>1. PICK r \in cis : r.id = i
    BY DEF Open
  <2> QED
    BY <2>1 DEF RowsInv
<1>2. Reversal(i) \in mine
  <2>1. \A k \in mine : k.source \in Nat /\ k.native \in Nat
    BY SourcesOfModel DEF ReviewTypeOK, Key
  <2> DEFINE S == {k.source : k \in mine}
  <2>2. PICK s \in S : \A x \in S : s <= x
    <3>1. S \in SUBSET Nat /\ S # {}
      BY <1>1, <2>1
    <3> HIDE DEF S
    <3> QED
      BY <3>1, Smallest
  <2> DEFINE N == {k.native : k \in {x \in mine : x.source = s}}
  <2>3. PICK n \in N : \A x \in N : n <= x
    <3>1. N \in SUBSET Nat /\ N # {}
      BY <2>1
    <3> HIDE DEF N
    <3> QED
      BY <3>1, Smallest
  <2> DEFINE Least(k) == \A x \in mine : \/ k.source < x.source
                                         \/ k.source = x.source /\ k.native <= x.native
  <2>4. PICK k \in mine : k.source = s /\ k.native = n
    OBVIOUS
  <2>5. Least(k)
    <3> SUFFICES ASSUME NEW x \in mine
                 PROVE  k.source < x.source \/ (k.source = x.source /\ k.native <= x.native)
      OBVIOUS
    <3>1. s <= x.source
      BY <2>2
    <3>2. x.source = s => n <= x.native
      BY <2>3
    <3> QED
      BY <2>1, <2>4, <3>1, <3>2
  <2>6. Reversal(i) = CHOOSE c \in mine : Least(c)
    BY <1>1 DEF Reversal
  <2> HIDE DEF Least
  <2>7. Reversal(i) \in mine
    BY <2>4, <2>5, <2>6
  <2> QED
    BY <2>7
<1> QED
  BY <1>2

-----------------------------------------------------------------------------
(* What the steps do.                                                      *)

\* The row of i is there already or is new.
Opens(i, e) ==
  /\ i \in Ids /\ e \in Natives
  /\ cis' = cis \cup {[id |-> i, ext |-> e]}
  /\ \/ [id |-> i, ext |-> e] \in cis /\ nextId' = nextId
     \/ i = nextId /\ nextId' = nextId + 1 /\ \A x \in cis : x.ext # e

LEMMA PutOpens ==
  ASSUME ReviewTypeOK, RowsInv, KnownInv, NEW i, NEW e \in Natives, i < MaxId,
         \/ [id |-> i, ext |-> e] \in cis
         \/ i = nextId /\ \A x \in cis : x.ext # e,
         cis' = Put([id |-> i, ext |-> e]),
         nextId' = IF i = nextId THEN nextId + 1 ELSE nextId
  PROVE  Opens(i, e)
<1> DEFINE r == [id |-> i, ext |-> e]
<1>1. /\ r.id = i /\ r.ext = e /\ nextId \in Nat
      /\ \A x \in cis : x.id < nextId /\ x.id \in Nat
  <2>1. nextId \in Nat
    BY ReviewBoundsAssumption DEF ReviewTypeOK
  <2>2. \A x \in cis : x.id \in Ids /\ x.id < nextId
    BY DEF ReviewTypeOK, CI, KnownInv
  <2> QED
    BY <2>1, <2>2, SomeIds
<1>2. cis' = {x \in cis : x.id # i} \cup {r}
  BY <1>1 DEF Put
<1> HIDE DEF r
<1>3. i \in Ids
  BY <1>1, SomeIds DEF r
<1>4. CASE r \in cis
  <2>1. \A x \in cis : x.id = i => x = r
    BY <1>1, <1>4 DEF RowsInv
  <2>2. cis' = cis \cup {r}
    BY <1>2, <2>1
  <2>3. nextId' = nextId
    BY <1>1, <1>4
  <2> QED
    BY <1>3, <1>4, <2>2, <2>3 DEF Opens, r
<1>5. CASE i = nextId /\ \A x \in cis : x.ext # e
  <2>1. cis' = cis \cup {r}
    BY <1>1, <1>2, <1>5
  <2> QED
    BY <1>3, <1>5, <2>1 DEF Opens, r
<1> QED
  BY <1>4, <1>5 DEF r

LEMMA DiscoverDoes ==
  ASSUME ReviewTypeOK, RowsInv, KnownInv, NEW n \in Natives, Discover(n)
  PROVE  \E i, e :
    /\ Opens(i, e)
    /\ e # n => /\ \A x \in cis : x.ext # n
                /\ \E r \in cis : r.id = i /\ r.ext = e
    /\ keys' = PutKey(keys, [source |-> SourceOf[n], native |-> n, id |-> i])
    /\ aliases' = {a \in aliases : a.alias # AliasOf[n]}
                  \cup {[alias |-> AliasOf[n], id |-> i, source |-> SourceOf[n]]}
    /\ \/ merges' = merges
       \/ /\ Cardinality(merges) < MaxMerges
          /\ merges' = merges \cup {[no |-> Cardinality(merges) + 1, into |-> i,
                                     source |-> SourceOf[n], native |-> n, via |-> {}]}
    /\ vertices' = vertices \cup {i} /\ links' = links
<1> DEFINE s     == SourceOf[n]
           own   == {r.id : r \in {x \in cis : x.ext = n}}
           other == {a.id : a \in {x \in aliases : x.alias = AliasOf[n] /\ x.source # s}}
           fused == IF own = {} THEN {i \in other : Open(i)} ELSE {}
           i     == IF own \cup fused = {} THEN nextId
                    ELSE CHOOSE x \in own \cup fused : TRUE
           e     == IF fused = {} THEN n ELSE ExtOf(i)
           M(j)  == [no |-> Cardinality(merges) + 1, into |-> j, source |-> s,
                     native |-> n, via |-> {}]
<1>1. /\ i < MaxId
      /\ fused # {} => Cardinality(merges) < MaxMerges
      /\ cis' = Put([id |-> i, ext |-> e])
      /\ keys' = PutKey(keys, [source |-> s, native |-> n, id |-> i])
      /\ aliases' = {a \in aliases : a.alias # AliasOf[n]}
                    \cup {[alias |-> AliasOf[n], id |-> i, source |-> s]}
      /\ merges' = merges \cup {M(j) : j \in fused}
      /\ nextId' = IF i = nextId THEN nextId + 1 ELSE nextId
      /\ Project({i}, {}, {}, {})
  BY DEF Discover
<1>2. fused = {} /\ own # {} => i \in own
  OBVIOUS
<1>3. fused # {} => own = {} /\ i \in fused /\ Open(i)
  OBVIOUS
<1>4. \A j \in fused : j = i
  <2> SUFFICES ASSUME NEW j \in fused PROVE j = i
    OBVIOUS
  <2>1. j \in other /\ i \in other
    BY <1>3
  <2>2. PICK a \in aliases : a.id = j /\ a.alias = AliasOf[n]
    BY <2>1
  <2>3. PICK b \in aliases : b.id = i /\ b.alias = AliasOf[n]
    BY <2>1
  <2> QED
    BY <2>2, <2>3 DEF RowsInv
<1>5. e \in Natives /\ \/ [id |-> i, ext |-> e] \in cis
                       \/ i = nextId /\ \A x \in cis : x.ext # e
  <2>1. CASE fused # {}
    <3>1. PICK r \in cis : r.id = i /\ r.ext = ExtOf(i)
      BY <1>3, <2>1, OpenRow
    <3>2. r = [id |-> i, ext |-> e] /\ e \in Natives
      BY <2>1, <3>1 DEF ReviewTypeOK, CI
    <3> QED
      BY <3>2
  <2>2. CASE fused = {} /\ own # {}
    <3>1. PICK r \in cis : r.id = i /\ r.ext = n
      BY <1>2, <2>2
    <3>2. r = [id |-> i, ext |-> e]
      BY <2>2, <3>1 DEF ReviewTypeOK, CI
    <3> QED
      BY <2>2, <3>2
  <2>3. CASE fused = {} /\ own = {}
    <3>1. i = nextId /\ e = n
      BY <2>3
    <3>2. \A x \in cis : x.ext # n
      BY <2>3
    <3> HIDE DEF own, fused, i, e
    <3> QED
      BY <3>1, <3>2
  <2> QED
    BY <2>1, <2>2, <2>3
<1>6. Opens(i, e)
  <2> HIDE DEF i, e, own, other, fused
  <2> QED
    BY <1>1, <1>5, PutOpens
<1>7. e # n => /\ \A r \in cis : r.ext # n
               /\ \E r \in cis : r.id = i /\ r.ext = e
  <2>1. ASSUME e # n PROVE fused # {}
    BY <2>1
  <2>2. fused # {} => \A r \in cis : r.ext # n
    BY <1>3
  <2>3. fused # {} => \E r \in cis : r.id = i /\ r.ext = ExtOf(i)
    BY <1>3, OpenRow
  <2>4. fused # {} => e = ExtOf(i)
    OBVIOUS
  <2> HIDE DEF fused, i, e
  <2> QED
    BY <2>1, <2>2, <2>3, <2>4
<1>8. vertices' = vertices \cup {i} /\ links' = links
  <2> HIDE DEF i
  <2>1. Project({i}, {}, {}, {})
    BY <1>1
  <2> QED
    BY <2>1 DEF Project
<1>9. \/ merges' = merges
      \/ Cardinality(merges) < MaxMerges /\ merges' = merges \cup {M(i)}
  <2>1. CASE fused = {}
    <3>1. {M(j) : j \in fused} = {}
      BY <2>1
    <3> QED
      BY <1>1, <3>1
  <2>2. CASE fused # {}
    <3>1. fused = {i}
      BY <1>3, <1>4, <2>2
    <3> HIDE DEF i, fused
    <3>2. {M(j) : j \in fused} = {M(i)}
      BY <3>1
    <3> QED
      BY <1>1, <2>2, <3>2
  <2> QED
    BY <2>1, <2>2
<1>10. SUFFICES \E x, y :
    /\ Opens(x, y)
    /\ y # n => /\ \A r \in cis : r.ext # n
                /\ \E r \in cis : r.id = x /\ r.ext = y
    /\ keys' = PutKey(keys, [source |-> s, native |-> n, id |-> x])
    /\ aliases' = {a \in aliases : a.alias # AliasOf[n]}
                  \cup {[alias |-> AliasOf[n], id |-> x, source |-> s]}
    /\ \/ merges' = merges
       \/ Cardinality(merges) < MaxMerges /\ merges' = merges \cup {M(x)}
    /\ vertices' = vertices \cup {x} /\ links' = links
  OBVIOUS
<1> HIDE DEF i, e, own, other, fused, M
<1> QED
  BY <1>1, <1>6, <1>7, <1>8, <1>9

LEMMA ReopenedIs ==
  ASSUME NEW E, NEW U, NEW x
  PROVE  x \in Reopened(E, U) <=>
           \/ x \in U
           \/ x \in E /\ \A e \in U : ~(x.from = e.from /\ x.to = e.to)
<1> DEFINE P == UNION {Parallel(E, e) : e \in U}
<1>1. x \in P <=> \E e \in U : x \in Parallel(E, e)
  OBVIOUS
<1>2. Reopened(E, U) = (E \ P) \cup U
  BY DEF Reopened
<1> HIDE DEF P
<1> QED
  BY <1>1, <1>2 DEF Parallel

\* What project does, one vertex and one link at a time.
LEMMA ProjectDoes ==
  ASSUME NEW in, NEW up, NEW down, NEW out, Project(in, up, down, out)
  PROVE  /\ vertices' = (vertices \cup in) \ out
         /\ \A x : x \in links' <=>
              /\ \/ x \in links
                 \/ /\ \E e \in up : x = <<e.from, e.to>>
                    /\ x[1] \in vertices \cup in /\ x[2] \in vertices \cup in
              /\ \A e \in down : x # <<e.from, e.to>>
              /\ x[1] \notin out /\ x[2] \notin out
<1> DEFINE there   == vertices \cup in
           Ends(E) == {<<e.from, e.to>> : e \in E}
<1>1. /\ vertices' = there \ out
      /\ links' = {x \in (links \cup {x \in Ends(up) : {x[1], x[2]} \subseteq there}) \ Ends(down) :
                     {x[1], x[2]} \cap out = {}}
  BY DEF Project
<1>2. \A x : /\ x \in Ends(up) <=> \E e \in up : x = <<e.from, e.to>>
             /\ x \in Ends(down) <=> \E e \in down : x = <<e.from, e.to>>
  OBVIOUS
<1> HIDE DEF Ends, there
<1>3. \A x : x \in links' <=>
        /\ x \in links \/ (x \in Ends(up) /\ x[1] \in there /\ x[2] \in there)
        /\ x \notin Ends(down) /\ x[1] \notin out /\ x[2] \notin out
  BY <1>1
<1> QED
  BY <1>1, <1>2, <1>3 DEF there

\* The rows a merge or an unmerge moves from i to j.
MovedAll(D, i, j) == {Moved(e, i, j) : e \in D}

LEMMA MovedIs ==
  ASSUME NEW e \in Edge, NEW i, NEW j \in Ids
  PROVE  /\ Moved(e, i, j) \in Edge
         /\ Moved(e, i, j).from = Turn(e.from, i, j)
         /\ Moved(e, i, j).to = Turn(e.to, i, j)
<1>1. PICK f, t : f = Turn(e.from, i, j) /\ t = Turn(e.to, i, j)
  OBVIOUS
<1>2. f \in Ids /\ t \in Ids
  BY <1>1 DEF Turn, Edge
<1>3. Moved(e, i, j) = [e EXCEPT !.from = f, !.to = t]
  BY <1>1 DEF Moved
<1> QED
  BY <1>1, <1>2, <1>3 DEF Edge

LEMMA MovedEdges ==
  ASSUME NEW D \in SUBSET Edge, NEW i, NEW j \in Ids
  PROVE  /\ MovedAll(D, i, j) \subseteq Edge
         /\ \A f \in MovedAll(D, i, j) : \E e \in D :
              /\ f = Moved(e, i, j)
              /\ f.from = Turn(e.from, i, j) /\ f.to = Turn(e.to, i, j)
BY MovedIs DEF MovedAll

LEMMA UpsertedIs ==
  ASSUME NEW E, NEW U \in Upserted(E)
  PROVE  /\ U \subseteq E
         /\ \A e, f \in U : (e.from = f.from /\ e.to = f.to) => e = f
<1>1. U \subseteq E /\ \A e \in E : \E f \in E : Parallel(U, e) = {f}
  BY DEF Upserted
<1>2. ASSUME NEW e \in U, NEW f \in U, e.from = f.from, e.to = f.to
      PROVE  e = f
  <2>1. PICK g \in E : Parallel(U, e) = {g}
    BY <1>1
  <2>2. e \in Parallel(U, e) /\ f \in Parallel(U, e)
    BY <1>2 DEF Parallel
  <2> QED
    BY <2>1, <2>2
<1> QED
  BY <1>1, <1>2

LEMMA RepointedIs ==
  ASSUME NEW k \in Key \cup Alias, NEW i, NEW j \in Ids
  PROVE  LET l == [k EXCEPT !.id = Turn(@, i, j)]
         IN /\ k \in Key => l \in Key
            /\ k \in Alias => l \in Alias
            /\ l.id = Turn(k.id, i, j) /\ l.source = k.source
            /\ k \in Key => l.native = k.native
            /\ k \in Alias => l.alias = k.alias
<1>1. PICK n : n = Turn(k.id, i, j)
  OBVIOUS
<1>2. n \in Ids
  BY <1>1 DEF Turn, Key, Alias
<1>3. [k EXCEPT !.id = Turn(@, i, j)] = [k EXCEPT !.id = n]
  BY <1>1
<1>4. k \in Key => [k EXCEPT !.id = n] \in Key /\ [k EXCEPT !.id = n].native = k.native
                   /\ [k EXCEPT !.id = n].id = n /\ [k EXCEPT !.id = n].source = k.source
  BY <1>2 DEF Key
<1>5. k \in Alias => [k EXCEPT !.id = n] \in Alias /\ [k EXCEPT !.id = n].alias = k.alias
                     /\ [k EXCEPT !.id = n].id = n /\ [k EXCEPT !.id = n].source = k.source
  BY <1>2 DEF Alias
<1> QED
  BY <1>1, <1>3, <1>4, <1>5

LEMMA RepointedTypes ==
  ASSUME NEW i, NEW j \in Ids
  PROVE  /\ \A K \in SUBSET Key : Repointed(K, i, j) \subseteq Key
         /\ \A K \in SUBSET Alias : Repointed(K, i, j) \subseteq Alias
BY RepointedIs DEF Repointed

LEMMA PutKeyTypes ==
  ASSUME NEW K \in SUBSET Key, NEW k \in Key
  PROVE  /\ PutKey(K, k) \subseteq Key
         /\ \A l : l \in PutKey(K, k) <=>
              \/ l = k
              \/ l \in K /\ ~(l.source = k.source /\ l.native = k.native)
BY DEF PutKey

\* What unmerge writes, with the ids and edges that it is about.
Unmerges(m, i, down, up) ==
  /\ Opens(i, m.native) /\ i # m.into
  /\ down = {e \in edges : e.declared /\ m.into \in {e.from, e.to} /\ ProvenanceMatches(e, m)}
  /\ up \in Upserted(MovedAll(down, m.into, i))
  /\ keys' = {IF k.source = m.source /\ k.native = m.native
              THEN [k EXCEPT !.id = i] ELSE k : k \in keys}
  /\ aliases' = SplitAliases(m, i)
  /\ edges' = Reopened(edges \ down, up)
  /\ unmerges' = unmerges \cup {[merge |-> m.no, restored |-> i]}
  /\ Project({i}, up, down, {})
  /\ UNCHANGED <<cand, merges, connected, reviews, overlapped>>
  /\ before' = NoUndo

LEMMA UnmergeDoes ==
  ASSUME ReviewTypeOK, RowsInv, KnownInv, JobInv, NEW p \in Reviewers, Unmerge(p)
  PROVE  /\ job[p].kind = "unmerge" /\ job[p].merge \in merges /\ Done(p)
         /\ \E i, down, up : Unmerges(job[p].merge, i, down, up)
<1> DEFINE m    == job[p].merge
           own  == {r.id : r \in {x \in cis : x.ext = m.native}}
           i    == IF own = {} THEN nextId ELSE CHOOSE x \in own : TRUE
           down == {e \in edges : /\ e.declared /\ m.into \in {e.from, e.to}
                                  /\ ProvenanceMatches(e, m)}
<1>1. job[p].kind = "unmerge" /\ m \in merges /\ m \in Merge /\ Done(p)
  BY DEF Unmerge, JobInv, ReviewTypeOK
<1>2. /\ i < MaxId /\ i # m.into
      /\ cis' = Put([id |-> i, ext |-> m.native])
      /\ nextId' = IF i = nextId THEN nextId + 1 ELSE nextId
  BY DEF Unmerge
<1>3. \/ [id |-> i, ext |-> m.native] \in cis
      \/ i = nextId /\ \A x \in cis : x.ext # m.native
  <2>1. CASE own = {}
    <3>1. i = nextId
      BY <2>1
    <3>2. \A x \in cis : x.ext # m.native
      BY <2>1
    <3> HIDE DEF own, i
    <3> QED
      BY <3>1, <3>2
  <2>2. CASE own # {}
    <3>1. i \in own
      BY <2>2
    <3>2. PICK r \in cis : r.id = i /\ r.ext = m.native
      BY <3>1
    <3>3. r = [id |-> i, ext |-> m.native]
      BY <3>2 DEF ReviewTypeOK, CI
    <3> QED
      BY <3>3
  <2> QED
    BY <2>1, <2>2
<1>4. m.native \in Natives
  BY <1>1 DEF Merge
<1>5. /\ keys' = {IF k.source = m.source /\ k.native = m.native
                  THEN [k EXCEPT !.id = i] ELSE k : k \in keys}
      /\ aliases' = SplitAliases(m, i)
      /\ unmerges' = unmerges \cup {[merge |-> m.no, restored |-> i]}
      /\ UNCHANGED <<cand, merges, connected, reviews, overlapped>>
      /\ before' = NoUndo
      /\ \E up \in Upserted({Moved(e, m.into, i) : e \in down}) :
           edges' = Reopened(edges \ down, up) /\ Project({i}, up, down, {})
  BY DEF Unmerge
<1> HIDE DEF m, i, own, down
<1>6. Opens(i, m.native)
  BY <1>2, <1>3, <1>4, PutOpens
<1>7. PICK up \in Upserted(MovedAll(down, m.into, i)) :
        edges' = Reopened(edges \ down, up) /\ Project({i}, up, down, {})
  BY <1>5 DEF MovedAll
<1>8. Unmerges(m, i, down, up)
  BY <1>2, <1>5, <1>6, <1>7 DEF Unmerges, down
<1> QED
  BY <1>1, <1>8 DEF m

\* What accept_candidate writes.
Accepts(j, down) ==
  /\ down = {e \in edges : /\ e.declared /\ j.gone \in {e.from, e.to}
                           /\ {e.from, e.to} # {j.gone, j.into}}
  /\ keys' = Repointed(IF j.source = Generation
                       THEN PutKey(keys, [source |-> Generation, native |-> j.native,
                                          id |-> j.gone])
                       ELSE keys, j.gone, j.into)
  /\ aliases' = Repointed(aliases, j.gone, j.into)
  /\ edges' = Reopened(edges \ down, MovedAll(down, j.gone, j.into))
  /\ cis' = {r \in cis : r.ext # j.ext}
  /\ merges' = merges \cup {[no |-> Cardinality(merges) + 1, into |-> j.into,
                             source |-> j.source, native |-> j.native, via |-> j.pair]}
  /\ cand' = [cand EXCEPT ![j.pair] = "accepted"]
  /\ Project({j.into}, MovedAll(down, j.gone, j.into), down, {j.gone})
  /\ before' = IF ~overlapped /\ Separate(j)
               THEN [merge |-> Cardinality(merges) + 1, keys |-> Named(keys, cis),
                     aliases |-> Named(aliases, cis)]
               ELSE NoUndo
  /\ UNCHANGED <<unmerges, counts, overlapped>>

LEMMA AcceptDoes ==
  ASSUME ReviewTypeOK, NEW p \in Reviewers, Accept(p)
  PROVE  /\ job[p].kind = "accept" /\ cand[job[p].pair] = "pending" /\ Done(p)
         /\ Cardinality(merges) < MaxMerges
         /\ job[p].pair \in Pairs /\ job[p].into \in Ids /\ job[p].gone \in Ids
         /\ job[p].ext \in Natives /\ job[p].source \in Sources /\ job[p].native \in Natives
         /\ \E down : Accepts(job[p], down)
<1>1. /\ job[p].kind = "accept" /\ cand[job[p].pair] = "pending" /\ Done(p)
      /\ Cardinality(merges) < MaxMerges
  BY DEF Accept, StillPending
<1>2. /\ job[p].pair \in Pairs /\ job[p].into \in Ids /\ job[p].gone \in Ids
      /\ job[p].ext \in Natives /\ job[p].source \in Sources /\ job[p].native \in Natives
  BY <1>1, JobFields DEF ReviewTypeOK
<1>3. \E down : Accepts(job[p], down)
  BY DEF Accept, Accepts, MovedAll
<1> QED
  BY <1>1, <1>2, <1>3

-----------------------------------------------------------------------------
(* Types.                                                                  *)

LEMMA LinksTyped ==
  ASSUME ReviewTypeOK, NEW in \in SUBSET Ids, NEW up \in SUBSET Edge, NEW down, NEW out,
         Project(in, up, down, out)
  PROVE  vertices' \subseteq Ids /\ links' \subseteq Ids \X Ids
<1>1. /\ vertices' = (vertices \cup in) \ out
      /\ \A x : x \in links' => x \in links \/ \E e \in up : x = <<e.from, e.to>>
  BY ProjectDoes
<1> QED
  BY <1>1 DEF ReviewTypeOK, Edge

LEMMA OpensTyped ==
  ASSUME ReviewTypeOK, NEW i, NEW e, Opens(i, e)
  PROVE  cis' \subseteq CI /\ nextId' \in 0..MaxId
<1>1. /\ i \in Nat /\ i < MaxId /\ MaxId \in Nat /\ nextId \in 0..MaxId
  BY SomeIds, ReviewBoundsAssumption DEF Opens, ReviewTypeOK
<1> QED
  BY <1>1 DEF Opens, ReviewTypeOK, CI

LEMMA NewMerge ==
  ASSUME MergesInv, Cardinality(merges) < MaxMerges, NEW i \in Ids, NEW s \in Sources,
         NEW n \in Natives, NEW q \in Pairs \cup {{}}
  PROVE  [no |-> Cardinality(merges) + 1, into |-> i, source |-> s, native |-> n,
          via |-> q] \in Merge
<1>1. Cardinality(merges) \in Nat
  BY FS_CardinalityType DEF MergesInv
<1>2. Cardinality(merges) + 1 \in 1..MaxMerges
  BY <1>1, ReviewBoundsAssumption
<1> QED
  BY <1>2 DEF Merge

LEMMA DiscoverTyped ==
  ASSUME ReviewTypeOK, RowsInv, MergesInv, KnownInv, NEW n \in Natives, Discover(n)
  PROVE  ReviewTypeOK'
<1> DEFINE M(i) == [no |-> Cardinality(merges) + 1, into |-> i, source |-> SourceOf[n],
                    native |-> n, via |-> {}]
<1>1. PICK i, e :
        /\ Opens(i, e)
        /\ keys' = PutKey(keys, [source |-> SourceOf[n], native |-> n, id |-> i])
        /\ aliases' = {a \in aliases : a.alias # AliasOf[n]}
                      \cup {[alias |-> AliasOf[n], id |-> i, source |-> SourceOf[n]]}
        /\ \/ merges' = merges
           \/ Cardinality(merges) < MaxMerges /\ merges' = merges \cup {M(i)}
        /\ vertices' = vertices \cup {i} /\ links' = links
  BY DiscoverDoes
<1>2. i \in Ids /\ SourceOf[n] \in Sources
  BY <1>1, SourcesOfModel DEF Opens
<1>3. cis' \subseteq CI /\ nextId' \in 0..MaxId
  BY <1>1, OpensTyped
<1>4. keys' \subseteq Key
  <2>1. [source |-> SourceOf[n], native |-> n, id |-> i] \in Key
    BY <1>2 DEF Key
  <2> QED
    BY <1>1, <2>1, PutKeyTypes DEF ReviewTypeOK
<1>5. aliases' \subseteq Alias
  BY <1>1, <1>2 DEF ReviewTypeOK, Alias
<1>6. merges' \subseteq Merge
  <2>1. Cardinality(merges) < MaxMerges => M(i) \in Merge
    BY <1>2, NewMerge
  <2> HIDE DEF M
  <2> QED
    BY <1>1, <2>1 DEF ReviewTypeOK
<1>7. vertices' \subseteq Ids /\ links' \subseteq Ids \X Ids
  BY <1>1, <1>2 DEF ReviewTypeOK
<1>8. UNCHANGED <<edges, cand, unmerges, job, connected, reviews, overlapped>>
  BY DEF Discover
<1> QED
  BY <1>3, <1>4, <1>5, <1>6, <1>7, <1>8 DEF ReviewTypeOK

\* The edge that is observed, and its link, whatever its evidence.
LEMMA ConnectDoes ==
  ASSUME NEW i \in Ids, NEW j \in Ids, NEW d \in BOOLEAN, NEW s \in Linkers, Connect(i, j, d, s)
  PROVE  /\ \E e \in Edge : e.from = i /\ e.to = j /\ edges' = edges \cup {e}
         /\ vertices' = vertices
         /\ \A x : x \in links' <=> x \in links \/ (x = <<i, j>> /\ i \in vertices /\ j \in vertices)
<1>1. PICK cites \in SUBSET Natives :
        LET e == [from |-> i, to |-> j, declared |-> d, by |-> {s}, cites |-> cites]
        IN edges' = edges \cup {e} /\ Project({}, {e}, {}, {})
  BY DEF Connect
<1> DEFINE e == [from |-> i, to |-> j, declared |-> d, by |-> {s}, cites |-> cites]
<1>2. e \in Edge /\ e.from = i /\ e.to = j
  <2>1. s \in Sources
    BY NativesAssumption DEF Sources
  <2> QED
    BY <2>1 DEF Edge
<1>3. edges' = edges \cup {e} /\ Project({}, {e}, {}, {})
  BY <1>1
<1> HIDE DEF e
<1>4. /\ vertices' = (vertices \cup {}) \ {}
      /\ \A x : x \in links' <=>
           /\ \/ x \in links
              \/ /\ \E f \in {e} : x = <<f.from, f.to>>
                 /\ x[1] \in vertices \cup {} /\ x[2] \in vertices \cup {}
           /\ \A f \in {} : x # <<f.from, f.to>>
           /\ x[1] \notin {} /\ x[2] \notin {}
  BY <1>3, ProjectDoes
<1> QED
  BY <1>2, <1>3, <1>4

LEMMA ConnectTyped ==
  ASSUME ReviewTypeOK, NEW r \in cis, NEW q \in cis, NEW s \in Linkers, NEW d \in BOOLEAN,
         Connect(r.id, q.id, d, s)
  PROVE  ReviewTypeOK'
<1>0. r.id \in Ids /\ q.id \in Ids
  BY DEF ReviewTypeOK, CI
<1>1. PICK e \in Edge : edges' = edges \cup {e}
  BY <1>0, ConnectDoes
<1>2. /\ connected < MaxEdges /\ connected' = connected + 1
      /\ UNCHANGED <<cis, keys, aliases, cand, merges, unmerges, job, nextId, reviews,
                     overlapped>>
  BY DEF Connect
<1>3. vertices' \subseteq Ids /\ links' \subseteq Ids \X Ids
  <2>1. /\ vertices' = vertices
        /\ \A x : x \in links' => x \in links \/ x = <<r.id, q.id>>
    BY <1>0, ConnectDoes
  <2> QED
    BY <1>0, <2>1 DEF ReviewTypeOK
<1>4. connected' \in 0..MaxEdges
  BY <1>2, ReviewBoundsAssumption DEF ReviewTypeOK
<1> QED
  BY <1>1, <1>2, <1>3, <1>4 DEF ReviewTypeOK

LEMMA CandTyped ==
  ASSUME ReviewTypeOK, NEW q \in Pairs, Generate(q) \/ Dismiss(q)
  PROVE  ReviewTypeOK'
BY DEF Generate, Dismiss, counts, ReviewTypeOK

LEMMA StartTyped ==
  ASSUME ReviewTypeOK, NEW p \in Reviewers, NEW j \in Job, Start(p, j)
  PROVE  ReviewTypeOK'
<1>1. /\ reviews < MaxReviews /\ reviews' = reviews + 1
      /\ job' = [job EXCEPT ![p] = j]
      /\ overlapped' = (overlapped \/ \E u \in Reviewers : job[u] # NoJob)
      /\ UNCHANGED <<cis, keys, aliases, edges, vertices, links, cand, merges, unmerges,
                     nextId, connected>>
  BY DEF Start, tables
<1>2. reviews' \in 0..MaxReviews
  BY <1>1, ReviewBoundsAssumption DEF ReviewTypeOK
<1>3. job' \in [Reviewers -> Job \cup {NoJob}]
  BY <1>1 DEF ReviewTypeOK
<1>4. overlapped' \in BOOLEAN
  BY <1>1 DEF ReviewTypeOK
<1> QED
  BY <1>1, <1>2, <1>3, <1>4 DEF ReviewTypeOK

\* What a reviewer decides on.
LEMMA StartAcceptDoes ==
  ASSUME ReviewTypeOK, RowsInv, NEW p \in Reviewers, NEW q \in Pairs, StartAccept(p, q)
  PROVE  \E j \in Job :
           /\ Start(p, j) /\ j.kind = "accept" /\ j.pair = q /\ j.into # j.gone
           /\ Open(j.into) /\ [id |-> j.gone, ext |-> j.ext] \in cis
           /\ \E k \in keys : k.source = j.source /\ k.native = j.native
<1>1. PICK i \in q, g \in q :
        /\ ExtOf(i) < ExtOf(g) /\ Open(i) /\ Open(g)
        /\ Start(p, [kind |-> "accept", pair |-> q, into |-> i, gone |-> g,
                     ext |-> ExtOf(g), source |-> Reversal(g).source,
                     native |-> Reversal(g).native])
  BY DEF StartAccept
<1>2. i \in Ids /\ g \in Ids
  BY DEF Pairs
<1>3. i # g
  <2>1. ExtOf(g) \in Natives
    BY <1>1, OpenRow DEF ReviewTypeOK, CI
  <2>2. ExtOf(g) \in Nat
    BY <2>1, SourcesOfModel
  <2> QED
    BY <1>1, <2>2
<1>4. ExtOf(g) \in Natives /\ [id |-> g, ext |-> ExtOf(g)] \in cis
  <2>1. PICK r \in cis : r.id = g /\ r.ext = ExtOf(g)
    BY <1>1, OpenRow
  <2>2. r \in CI
    BY DEF ReviewTypeOK
  <2>3. r = [id |-> g, ext |-> ExtOf(g)] /\ r.ext \in Natives
    BY <2>1, <2>2 DEF CI
  <2> QED
    BY <2>1, <2>3
<1>5. /\ Reversal(g).source \in Sources /\ Reversal(g).native \in Natives
      /\ \E k \in keys : k.source = Reversal(g).source /\ k.native = Reversal(g).native
  <2>1. Reversal(g) \in keys
    BY <1>1, ReversalIs
  <2> QED
    BY <2>1 DEF ReviewTypeOK, Key
<1>6. PICK x, s, n : x = ExtOf(g) /\ s = Reversal(g).source /\ n = Reversal(g).native
  OBVIOUS
<1> DEFINE j == [kind |-> "accept", pair |-> q, into |-> i, gone |-> g,
                 ext |-> x, source |-> s, native |-> n]
<1>7. /\ j \in Job /\ j.kind = "accept" /\ j.pair = q /\ j.into = i /\ j.gone = g
      /\ j.ext = x /\ j.source = s /\ j.native = n
  BY <1>2, <1>4, <1>5, <1>6 DEF Job
<1>8. Start(p, j)
  BY <1>1, <1>6
<1> HIDE DEF j
<1> QED
  BY <1>1, <1>3, <1>4, <1>5, <1>6, <1>7, <1>8

LEMMA StartUnmergeDoes ==
  ASSUME ReviewTypeOK, NEW p \in Reviewers, NEW m \in merges, StartUnmerge(p, m)
  PROVE  \E j \in Job : Start(p, j) /\ j.kind = "unmerge" /\ j.merge = m
<1> DEFINE j == [kind |-> "unmerge", merge |-> m]
<1>1. j \in Job /\ j.kind = "unmerge" /\ j.merge = m
  BY DEF ReviewTypeOK, Job
<1> QED
  BY <1>1 DEF StartUnmerge

LEMMA DoneIs ==
  ASSUME ReviewTypeOK, NEW p \in Reviewers, Done(p)
  PROVE  /\ job' \in [Reviewers -> Job \cup {NoJob}]
         /\ \A u \in Reviewers : job'[u] = IF u = p THEN NoJob ELSE job[u]
BY DEF Done, ReviewTypeOK

LEMMA AcceptTyped ==
  ASSUME ReviewTypeOK, MergesInv, NEW p \in Reviewers, Accept(p)
  PROVE  ReviewTypeOK'
<1>1. PICK j : j = job[p]
  OBVIOUS
<1>2. /\ Cardinality(merges) < MaxMerges
      /\ j.pair \in Pairs /\ j.into \in Ids /\ j.gone \in Ids
      /\ j.ext \in Natives /\ j.source \in Sources /\ j.native \in Natives
      /\ job' \in [Reviewers -> Job \cup {NoJob}]
  BY <1>1, AcceptDoes, DoneIs
<1>3. PICK down : Accepts(j, down)
  BY <1>1, AcceptDoes
<1> DEFINE up == MovedAll(down, j.gone, j.into)
<1>4. down \subseteq Edge /\ up \subseteq Edge
  BY <1>2, <1>3, MovedEdges DEF Accepts, ReviewTypeOK
<1>5. keys' \subseteq Key /\ aliases' \subseteq Alias
  <2> DEFINE g     == [source |-> Generation, native |-> j.native, id |-> j.gone]
             bound == IF j.source = Generation THEN PutKey(keys, g) ELSE keys
  <2>1. g \in Key
    BY <1>2, SourcesOfModel DEF Key
  <2>2. bound \subseteq Key
    BY <2>1, PutKeyTypes DEF ReviewTypeOK
  <2>3. keys' = Repointed(bound, j.gone, j.into)
    BY <1>3 DEF Accepts
  <2>4. aliases' = Repointed(aliases, j.gone, j.into) /\ aliases \subseteq Alias
    BY <1>3 DEF Accepts, ReviewTypeOK
  <2> HIDE DEF bound
  <2> QED
    BY <1>2, <2>2, <2>3, <2>4, RepointedTypes
<1>6. edges' \subseteq Edge
  <2>1. edges' = Reopened(edges \ down, up)
    BY <1>3 DEF Accepts
  <2> HIDE DEF up
  <2> QED
    BY <1>4, <2>1, ReopenedIs DEF ReviewTypeOK
<1>7. merges' \subseteq Merge
  <2>1. [no |-> Cardinality(merges) + 1, into |-> j.into, source |-> j.source,
         native |-> j.native, via |-> j.pair] \in Merge
    BY <1>2, NewMerge
  <2> QED
    BY <1>3, <2>1 DEF Accepts, ReviewTypeOK
<1>8. vertices' \subseteq Ids /\ links' \subseteq Ids \X Ids
  <2>1. Project({j.into}, up, down, {j.gone}) /\ {j.into} \in SUBSET Ids
    BY <1>2, <1>3 DEF Accepts
  <2> HIDE DEF up
  <2> QED
    BY <1>4, <2>1, LinksTyped
<1>9. cis' \subseteq CI /\ cand' \in [Pairs -> {"none", "pending", "accepted", "dismissed"}]
  BY <1>3 DEF Accepts, ReviewTypeOK
<1>10. UNCHANGED <<unmerges, nextId, connected, reviews, overlapped>>
  BY <1>3 DEF Accepts, counts
<1> QED
  BY <1>2, <1>5, <1>6, <1>7, <1>8, <1>9, <1>10 DEF ReviewTypeOK

LEMMA UnmergeTyped ==
  ASSUME ReviewTypeOK, RowsInv, KnownInv, JobInv, NEW p \in Reviewers, Unmerge(p)
  PROVE  ReviewTypeOK'
<1>1. PICK m : m = job[p].merge
  OBVIOUS
<1>2. m \in merges /\ m \in Merge /\ job' \in [Reviewers -> Job \cup {NoJob}]
  BY <1>1, UnmergeDoes, DoneIs DEF ReviewTypeOK
<1>3. PICK i, down, up : Unmerges(m, i, down, up)
  BY <1>1, UnmergeDoes
<1>4. i \in Ids /\ m.no \in 1..MaxMerges
  BY <1>2, <1>3 DEF Unmerges, Opens, Merge
<1>5. down \subseteq Edge /\ up \subseteq Edge
  BY <1>3, <1>4, UpsertedIs, MovedEdges DEF Unmerges, ReviewTypeOK
<1>6. cis' \subseteq CI /\ nextId' \in 0..MaxId
  BY <1>3, OpensTyped DEF Unmerges
<1>7. keys' \subseteq Key
  <2>1. \A k \in Key : [k EXCEPT !.id = i] \in Key
    BY <1>4 DEF Key
  <2> QED
    BY <1>3, <2>1 DEF Unmerges, ReviewTypeOK
<1>8. aliases' \subseteq Alias
  <2>1. \A a \in Alias : [a EXCEPT !.id = Turn(@, m.into, i)] \in Alias
    BY <1>4, RepointedIs
  <2> QED
    BY <1>3, <2>1 DEF Unmerges, SplitAliases, ReviewTypeOK
<1>9. edges' \subseteq Edge
  <2>1. edges' = Reopened(edges \ down, up)
    BY <1>3 DEF Unmerges
  <2> QED
    BY <1>5, <2>1, ReopenedIs DEF ReviewTypeOK
<1>10. vertices' \subseteq Ids /\ links' \subseteq Ids \X Ids
  <2>1. Project({i}, up, down, {}) /\ {i} \in SUBSET Ids
    BY <1>3, <1>4 DEF Unmerges
  <2> QED
    BY <1>5, <2>1, LinksTyped
<1>11. unmerges' \subseteq [merge: 1..MaxMerges, restored: Ids]
  BY <1>3, <1>4 DEF Unmerges, ReviewTypeOK
<1>12. UNCHANGED <<cand, merges, connected, reviews, overlapped>>
  BY <1>3 DEF Unmerges
<1> QED
  BY <1>2, <1>6, <1>7, <1>8, <1>9, <1>10, <1>11, <1>12 DEF ReviewTypeOK

-----------------------------------------------------------------------------
(* Rows.                                                                   *)

\* An id is opened: the rows stay unique, and all ids are below the next one.
LEMMA OpensRows ==
  ASSUME ReviewTypeOK, RowsInv, KnownInv, NEW i, NEW e, Opens(i, e)
  PROVE  /\ \A r, q \in cis' : (r.id = q.id \/ r.ext = q.ext) => r = q
         /\ \A r \in cis' : r.id < nextId'
         /\ i < nextId' /\ nextId <= nextId' /\ nextId \in Nat /\ nextId' \in Nat
<1> DEFINE n == [id |-> i, ext |-> e]
<1>1. /\ n.id = i /\ n.ext = e /\ nextId \in Nat
      /\ \A x \in cis : x.id < nextId /\ x.id \in Nat
      /\ \A r, q \in cis : (r.id = q.id \/ r.ext = q.ext) => r = q
  <2>1. nextId \in Nat
    BY ReviewBoundsAssumption DEF ReviewTypeOK
  <2>2. \A x \in cis : x.id \in Ids /\ x.id < nextId
    BY DEF ReviewTypeOK, CI, KnownInv
  <2> QED
    BY <2>1, <2>2, SomeIds DEF RowsInv
<1>2. /\ cis' = cis \cup {n}
      /\ \/ n \in cis /\ nextId' = nextId
         \/ i = nextId /\ nextId' = nextId + 1 /\ \A x \in cis : x.ext # e
  BY DEF Opens
<1> HIDE DEF n
<1>3. CASE n \in cis /\ nextId' = nextId
  <2>1. cis' = cis
    BY <1>2, <1>3
  <2> QED
    BY <1>1, <1>3, <2>1
<1>4. CASE i = nextId /\ nextId' = nextId + 1 /\ \A x \in cis : x.ext # e
  <2>1. \A r \in cis' : r \in cis \/ r = n
    BY <1>2
  <2> QED
    BY <1>1, <1>4, <2>1
<1> QED
  BY <1>2, <1>3, <1>4

\* What a source named is named for good, and merges are kept.
NamesStay ==
  /\ \A l \in keys : \E o \in keys' : o.source = l.source /\ o.native = l.native
  /\ merges \subseteq merges'

LEMMA MergesGrow ==
  ASSUME ReviewTypeOK, MergesInv, NamesStay, NEW m, merges' = merges \cup {m},
         m.no = Cardinality(merges) + 1,
         \E o \in keys' : o.source = m.source /\ o.native = m.native
  PROVE  MergesInv'
<1>1. /\ Cardinality(merges) \in Nat /\ IsFiniteSet(merges)
      /\ \A x \in merges : x.no <= Cardinality(merges) /\ x.no \in Nat
  BY FS_CardinalityType DEF MergesInv, ReviewTypeOK, Merge
<1>2. m \notin merges
  BY <1>1
<1>3. IsFiniteSet(merges') /\ Cardinality(merges') = Cardinality(merges) + 1
  BY <1>1, <1>2, FS_AddElement
<1>4. \A x \in merges' : x.no <= Cardinality(merges')
  BY <1>1, <1>3
<1>5. \A x, y \in merges' : x.no = y.no => x = y
  <2>1. \A x \in merges : x.no # m.no
    BY <1>1
  <2> QED
    BY <2>1 DEF MergesInv
<1>6. \A x \in merges' : \E o \in keys' : o.source = x.source /\ o.native = x.native
  BY DEF MergesInv, NamesStay
<1> QED
  BY <1>3, <1>4, <1>5, <1>6 DEF MergesInv

LEMMA DiscoverRows ==
  ASSUME ReviewTypeOK, RowsInv, MergesInv, KnownInv, NEW n \in Natives, Discover(n)
  PROVE  RowsInv' /\ MergesInv' /\ KnownInv' /\ NamesStay
<1> DEFINE M(i) == [no |-> Cardinality(merges) + 1, into |-> i, source |-> SourceOf[n],
                    native |-> n, via |-> {}]
<1>1. PICK i, e :
        /\ Opens(i, e)
        /\ e # n => /\ \A x \in cis : x.ext # n
                    /\ \E r \in cis : r.id = i /\ r.ext = e
        /\ keys' = PutKey(keys, [source |-> SourceOf[n], native |-> n, id |-> i])
        /\ aliases' = {a \in aliases : a.alias # AliasOf[n]}
                      \cup {[alias |-> AliasOf[n], id |-> i, source |-> SourceOf[n]]}
        /\ merges' = merges \/ merges' = merges \cup {M(i)}
        /\ merges \subseteq merges'
  BY DiscoverDoes
<1>2. UNCHANGED <<edges, job>>
  BY DEF Discover
<1>3. /\ \A r, q \in cis' : (r.id = q.id \/ r.ext = q.ext) => r = q
      /\ \A r \in cis' : r.id < nextId'
      /\ i < nextId' /\ nextId <= nextId' /\ nextId \in Nat /\ nextId' \in Nat
  BY <1>1, OpensRows
<1> DEFINE new == [source |-> SourceOf[n], native |-> n, id |-> i]
<1>4. /\ new \in keys' /\ new.source = SourceOf[n] /\ new.native = n /\ new.id = i
      /\ \A l \in keys' : l = new \/ (l \in keys /\ ~(l.source = SourceOf[n] /\ l.native = n))
      /\ \A l \in keys : l \in keys' \/ (l.source = SourceOf[n] /\ l.native = n)
  <2>1. new \in Key
    BY <1>1, SourcesOfModel DEF Key, Opens
  <2>2. keys' = PutKey(keys, new) /\ keys \in SUBSET Key
    BY <1>1 DEF ReviewTypeOK
  <2>3. new.source = SourceOf[n] /\ new.native = n /\ new.id = i
    OBVIOUS
  <2> HIDE DEF new
  <2>4. \A l : l \in keys' <=> \/ l = new
                               \/ l \in keys /\ ~(l.source = new.source /\ l.native = new.native)
    BY <2>2 DEF PutKey
  <2> QED
    BY <2>3, <2>4
<1> HIDE DEF new
<1>5. \A a \in aliases' : a.id = i \/ a \in aliases
  BY <1>1
<1>6. RowsInv'
  <2>1. \A l, o \in keys' : (l.source = o.source /\ l.native = o.native) => l = o
    BY <1>4 DEF RowsInv
  <2>2. \A a, b \in aliases' : a.alias = b.alias => a = b
    BY <1>1 DEF RowsInv
  <2>3. ASSUME NEW r \in cis' PROVE \E l \in keys' : l.id = r.id /\ l.native = r.ext
    <3>1. CASE r.ext = n
      <4>1. [id |-> i, ext |-> e] \in cis' /\ e = n
        <5>1. r \in cis => e = n
          BY <1>1, <3>1
        <5>2. r \notin cis => r = [id |-> i, ext |-> e]
          BY <1>1 DEF Opens
        <5> QED
          BY <1>1, <3>1, <5>1, <5>2 DEF Opens
      <4>2. r.id = i
        BY <1>3, <3>1, <4>1
      <4> QED
        BY <1>4, <3>1, <4>2
    <3>2. CASE r.ext # n
      <4>1. \E q \in cis : q.id = r.id /\ q.ext = r.ext
        BY <1>1, <3>2 DEF Opens
      <4>2. PICK l \in keys : l.id = r.id /\ l.native = r.ext
        BY <4>1 DEF RowsInv
      <4> QED
        BY <1>4, <3>2, <4>2
    <3> QED
      BY <3>1, <3>2
  <2>4. \A l \in keys' : l.source # Generation
    BY <1>4, NativesAssumption DEF RowsInv
  <2> QED
    BY <1>3, <2>1, <2>2, <2>3, <2>4 DEF RowsInv
<1>7. MergesInv'
  <2>1. NamesStay
    BY <1>1, <1>4 DEF NamesStay
  <2>2. CASE merges' = merges
    BY <2>1, <2>2 DEF MergesInv, NamesStay
  <2>3. CASE merges' = merges \cup {M(i)}
    <3>1. /\ M(i).no = Cardinality(merges) + 1
          /\ \E o \in keys' : o.source = M(i).source /\ o.native = M(i).native
      BY <1>4
    <3> HIDE DEF M
    <3> QED
      BY <2>1, <2>3, <3>1, MergesGrow
  <2> QED
    BY <1>1, <2>2, <2>3
<1>8. KnownInv'
  <2>0. \A x \in Ids : x < nextId => x < nextId'
    BY <1>3, SomeIds
  <2>1. \A x \in keys' \cup aliases' : x.id < nextId'
    <3>1. \A x \in keys' \cup aliases' : x.id = i \/ x \in keys \cup aliases
      BY <1>4, <1>5
    <3>2. \A x \in keys \cup aliases : x.id \in Ids /\ x.id < nextId
      BY DEF KnownInv, ReviewTypeOK, Key, Alias
    <3> QED
      BY <1>3, <2>0, <3>1, <3>2
  <2>2. \A f \in edges : f.from < nextId' /\ f.to < nextId'
    <3>1. \A f \in edges : /\ f.from \in Ids /\ f.from < nextId
                           /\ f.to \in Ids /\ f.to < nextId
      BY DEF KnownInv, ReviewTypeOK, Edge
    <3> QED
      BY <1>3, <2>0, <3>1
  <2>3. \A m \in merges' : m.into < nextId'
    <3>1. \A m \in merges : m.into \in Ids /\ m.into < nextId
      BY DEF KnownInv, ReviewTypeOK, Merge
    <3>2. \A m \in merges' : m \in merges \/ m.into = i
      BY <1>1
    <3> QED
      BY <1>3, <2>0, <3>1, <3>2
  <2>4. \A p \in Reviewers :
          job[p].kind = "accept" => job[p].into < nextId' /\ job[p].gone < nextId'
    <3>1. \A p \in Reviewers : job[p].kind = "accept" =>
            /\ job[p].into \in Ids /\ job[p].into < nextId
            /\ job[p].gone \in Ids /\ job[p].gone < nextId
      BY JobFields DEF KnownInv, ReviewTypeOK
    <3> QED
      BY <1>3, <2>0, <3>1
  <2> QED
    BY <1>2, <1>3, <2>1, <2>2, <2>3, <2>4 DEF KnownInv
<1> QED
  BY <1>1, <1>4, <1>6, <1>7, <1>8 DEF NamesStay

\* Discovery, or a step of a reviewer, that leaves the rows as they are.
LEMMA SameRows ==
  ASSUME RowsInv, MergesInv, UNCHANGED <<cis, keys, aliases, merges>>
  PROVE  RowsInv' /\ MergesInv' /\ NamesStay
<1>1. RowsInv'
  BY DEF RowsInv
<1>2. MergesInv'
  BY DEF MergesInv
<1> QED
  BY <1>1, <1>2 DEF NamesStay

\* Whoever goes on, goes on with what was decided.
LEMMA JobsGoOn ==
  ASSUME ReviewTypeOK, JobInv, KnownInv, NamesStay,
         \A u \in Reviewers : job'[u] = job[u] \/ job'[u] = NoJob,
         \A r \in cis' : r \in cis \/ r.id = nextId
  PROVE  JobInv'
<1> SUFFICES ASSUME NEW u \in Reviewers
             PROVE  /\ job'[u].kind = "accept" =>
                         /\ job'[u].into # job'[u].gone
                         /\ \A r \in cis' : r.id = job'[u].gone => r.ext = job'[u].ext
                         /\ \E k \in keys' : /\ k.source = job'[u].source
                                             /\ k.native = job'[u].native
                    /\ job'[u].kind = "unmerge" => job'[u].merge \in merges'
  BY DEF JobInv
<1>1. CASE job'[u] = NoJob
  BY <1>1 DEF NoJob
<1>2. CASE job'[u] = job[u]
  <2>1. job[u].kind = "accept" => job[u].gone # nextId
    <3>1. job[u].kind = "accept" => job[u].gone \in Ids /\ job[u].gone < nextId
      BY JobFields DEF ReviewTypeOK, KnownInv
    <3>2. \A i \in Ids : i < nextId => i # nextId
      BY SomeIds
    <3> QED
      BY <3>1, <3>2
  <2> QED
    BY <1>2, <2>1 DEF JobInv, NamesStay
<1> QED
  BY <1>1, <1>2

LEMMA AcceptKeys ==
  ASSUME ReviewTypeOK, RowsInv, JobInv, NEW p \in Reviewers, Accept(p)
  PROVE  keys' = Repointed(keys, job[p].gone, job[p].into)
<1>1. job[p].kind = "accept" /\ \E down : Accepts(job[p], down)
  BY AcceptDoes
<1>2. job[p].source # Generation
  BY <1>1 DEF JobInv, RowsInv
<1> QED
  BY <1>1, <1>2 DEF Accepts

\* What repointing leaves of each row.
LEMMA RepointedKeys ==
  ASSUME NEW K \in SUBSET Key, NEW i, NEW j \in Ids
  PROVE  /\ \A l \in Repointed(K, i, j) : \E k \in K :
              /\ l = [k EXCEPT !.id = Turn(@, i, j)] /\ l.id = Turn(k.id, i, j)
              /\ l.source = k.source /\ l.native = k.native
         /\ \A k \in K : \E l \in Repointed(K, i, j) :
              /\ l.id = Turn(k.id, i, j) /\ l.source = k.source /\ l.native = k.native
<1>1. ASSUME NEW k \in K
      PROVE  LET l == [k EXCEPT !.id = Turn(@, i, j)]
             IN l.id = Turn(k.id, i, j) /\ l.source = k.source /\ l.native = k.native
  BY RepointedIs
<1> QED
  BY <1>1 DEF Repointed

LEMMA RepointedAliases ==
  ASSUME NEW K \in SUBSET Alias, NEW i, NEW j \in Ids
  PROVE  \A l \in Repointed(K, i, j) : \E k \in K :
           /\ l = [k EXCEPT !.id = Turn(@, i, j)] /\ l.id = Turn(k.id, i, j)
           /\ l.source = k.source /\ l.alias = k.alias
<1>1. ASSUME NEW k \in K
      PROVE  LET l == [k EXCEPT !.id = Turn(@, i, j)]
             IN l.id = Turn(k.id, i, j) /\ l.source = k.source /\ l.alias = k.alias
  BY RepointedIs
<1> QED
  BY <1>1 DEF Repointed

LEMMA AcceptRows ==
  ASSUME ReviewTypeOK, RowsInv, MergesInv, KnownInv, JobInv, NEW p \in Reviewers, Accept(p)
  PROVE  RowsInv' /\ MergesInv' /\ KnownInv' /\ NamesStay
<1>1. PICK j : j = job[p]
  OBVIOUS
<1>2. /\ j.kind = "accept" /\ j.into \in Ids /\ j.gone \in Ids /\ Done(p)
      /\ j.source \in Sources /\ j.native \in Natives
  BY <1>1, AcceptDoes
<1>3. PICK down : Accepts(j, down)
  BY <1>1, AcceptDoes
<1>4. /\ \A r \in cis : r.id = j.gone => r.ext = j.ext
      /\ \E k \in keys : k.source = j.source /\ k.native = j.native
  BY <1>1, <1>2 DEF JobInv
<1>5. /\ \A l \in keys' : \E k \in keys : /\ l = [k EXCEPT !.id = Turn(@, j.gone, j.into)]
                                          /\ l.id = Turn(k.id, j.gone, j.into)
                                          /\ l.source = k.source /\ l.native = k.native
      /\ \A k \in keys : \E l \in keys' : /\ l.id = Turn(k.id, j.gone, j.into)
                                          /\ l.source = k.source /\ l.native = k.native
  <2>1. keys' = Repointed(keys, j.gone, j.into) /\ keys \in SUBSET Key
    BY <1>1, AcceptKeys DEF ReviewTypeOK
  <2> QED
    BY <1>2, <2>1, RepointedKeys
<1>6. \A a \in aliases' : \E b \in aliases :
        /\ a = [b EXCEPT !.id = Turn(@, j.gone, j.into)]
        /\ a.id = Turn(b.id, j.gone, j.into) /\ a.alias = b.alias
  <2>1. aliases' = Repointed(aliases, j.gone, j.into) /\ aliases \in SUBSET Alias
    BY <1>3 DEF Accepts, ReviewTypeOK
  <2>2. \A a \in Repointed(aliases, j.gone, j.into) : \E b \in aliases :
          /\ a = [b EXCEPT !.id = Turn(@, j.gone, j.into)]
          /\ a.id = Turn(b.id, j.gone, j.into)
          /\ a.source = b.source /\ a.alias = b.alias
    BY <1>2, <2>1, RepointedAliases
  <2> QED
    BY <2>1, <2>2
<1>7. cis' = {r \in cis : r.ext # j.ext}
  BY <1>3 DEF Accepts
<1>8. RowsInv'
  <2>1. \A r, q \in cis' : (r.id = q.id \/ r.ext = q.ext) => r = q
    BY <1>7 DEF RowsInv
  <2>2. \A k, l \in keys' : (k.source = l.source /\ k.native = l.native) => k = l
    BY <1>5 DEF RowsInv
  <2>3. \A a, b \in aliases' : a.alias = b.alias => a = b
    BY <1>6 DEF RowsInv
  <2>4. ASSUME NEW r \in cis' PROVE \E l \in keys' : l.id = r.id /\ l.native = r.ext
    <3>1. r \in cis /\ r.id # j.gone
      BY <1>4, <1>7
    <3>2. PICK k \in keys : k.id = r.id /\ k.native = r.ext
      BY <3>1 DEF RowsInv
    <3> QED
      BY <1>5, <3>1, <3>2 DEF Turn
  <2>5. \A k \in keys' : k.source # Generation
    BY <1>5 DEF RowsInv
  <2> QED
    BY <2>1, <2>2, <2>3, <2>4, <2>5 DEF RowsInv
<1>9. merges \subseteq merges'
  BY <1>3 DEF Accepts
<1>10. NamesStay
  BY <1>5, <1>9 DEF NamesStay
<1>11. MergesInv'
  <2> DEFINE m == [no |-> Cardinality(merges) + 1, into |-> j.into,
                   source |-> j.source, native |-> j.native, via |-> j.pair]
  <2>1. merges' = merges \cup {m} /\ m.no = Cardinality(merges) + 1
    BY <1>3 DEF Accepts
  <2>2. \E o \in keys' : o.source = m.source /\ o.native = m.native
    BY <1>4, <1>5
  <2> HIDE DEF m
  <2> QED
    BY <1>10, <2>1, <2>2, MergesGrow
<1>12. KnownInv'
  <2>1. nextId' = nextId
    BY <1>3 DEF Accepts, counts
  <2>2. j.into < nextId
    BY <1>1, <1>2 DEF KnownInv
  <2>3. \A x \in keys' \cup aliases' : x.id < nextId
    BY <1>5, <1>6, <2>2 DEF KnownInv, Turn
  <2>4. \A f \in edges' : f.from < nextId /\ f.to < nextId
    <3> DEFINE up == MovedAll(down, j.gone, j.into)
    <3>1. \A f \in edges' : f \in up \/ f \in edges
      <4>1. edges' = Reopened(edges \ down, up)
        BY <1>3 DEF Accepts
      <4> HIDE DEF up
      <4> QED
        BY <4>1, ReopenedIs
    <3>2. down \subseteq edges /\ down \in SUBSET Edge
      BY <1>3 DEF Accepts, ReviewTypeOK
    <3>3. \A f \in up : f.from < nextId /\ f.to < nextId
      BY <1>2, <2>2, <3>2, MovedEdges DEF KnownInv, Turn
    <3> QED
      BY <3>1, <3>3 DEF KnownInv
  <2>5. \A m \in merges' : m.into < nextId
    BY <1>3, <2>2 DEF Accepts, KnownInv
  <2>6. \A u \in Reviewers :
          job'[u].kind = "accept" => job'[u].into < nextId /\ job'[u].gone < nextId
    BY <1>2, DoneIs DEF KnownInv, NoJob
  <2> QED
    BY <1>7, <2>1, <2>3, <2>4, <2>5, <2>6 DEF KnownInv
<1> QED
  BY <1>8, <1>10, <1>11, <1>12

LEMMA UnmergedKeys ==
  ASSUME NEW K \in SUBSET Key, NEW m, NEW i \in Ids
  PROVE  /\ \A l \in NameMoved(K, m, i) : \E k \in K :
              /\ l = IF k.source = m.source /\ k.native = m.native
                     THEN [k EXCEPT !.id = i] ELSE k
              /\ l.id = i \/ l.id = k.id
              /\ l.source = k.source /\ l.native = k.native
         /\ \A k \in K : \E l \in NameMoved(K, m, i) :
              /\ l.id = IF k.source = m.source /\ k.native = m.native THEN i ELSE k.id
              /\ l.source = k.source /\ l.native = k.native
<1>1. ASSUME NEW k \in K
      PROVE  LET l == [k EXCEPT !.id = i]
             IN l.id = i /\ l.source = k.source /\ l.native = k.native
  BY DEF Key
<1> QED
  BY <1>1 DEF NameMoved

LEMMA UnmergedAliases ==
  ASSUME ReviewTypeOK, NEW m, NEW i \in Ids
  PROVE  \A a \in SplitAliases(m, i) : \E b \in aliases :
           /\ a = IF b.source = m.source THEN [b EXCEPT !.id = Turn(@, m.into, i)] ELSE b
           /\ a.alias = b.alias /\ (a.id = i \/ a.id = b.id)
<1>1. ASSUME NEW b \in aliases
      PROVE  LET a == [b EXCEPT !.id = Turn(@, m.into, i)]
             IN a.alias = b.alias /\ (a.id = i \/ a.id = b.id)
  BY RepointedIs DEF ReviewTypeOK, Turn
<1> QED
  BY <1>1 DEF SplitAliases

LEMMA UnmergeRows ==
  ASSUME ReviewTypeOK, RowsInv, MergesInv, KnownInv, JobInv, NEW p \in Reviewers, Unmerge(p)
  PROVE  RowsInv' /\ MergesInv' /\ KnownInv' /\ NamesStay
<1>1. PICK m, i, down, up : /\ m \in merges /\ Done(p) /\ Unmerges(m, i, down, up)
                            /\ m = job[p].merge
  BY UnmergeDoes
<1>2. /\ i \in Ids /\ m.native \in Natives /\ m.into \in Ids
      /\ cis' = cis \cup {[id |-> i, ext |-> m.native]}
  BY <1>1 DEF Unmerges, Opens, ReviewTypeOK, Merge
<1>3. /\ \A r, q \in cis' : (r.id = q.id \/ r.ext = q.ext) => r = q
      /\ \A r \in cis' : r.id < nextId'
      /\ i < nextId' /\ nextId <= nextId' /\ nextId \in Nat /\ nextId' \in Nat
  BY <1>1, OpensRows DEF Unmerges
<1>4. /\ \A l \in keys' : \E k \in keys :
           /\ l = IF k.source = m.source /\ k.native = m.native
                  THEN [k EXCEPT !.id = i] ELSE k
           /\ l.id = i \/ l.id = k.id
           /\ l.source = k.source /\ l.native = k.native
      /\ \A k \in keys : \E l \in keys' :
           /\ l.id = IF k.source = m.source /\ k.native = m.native THEN i ELSE k.id
           /\ l.source = k.source /\ l.native = k.native
  <2>1. keys' = NameMoved(keys, m, i) /\ keys \in SUBSET Key
    BY <1>1 DEF Unmerges, NameMoved, ReviewTypeOK
  <2> QED
    BY <1>2, <2>1, UnmergedKeys
<1>5. \A a \in aliases' : \E b \in aliases :
        /\ a = IF b.source = m.source THEN [b EXCEPT !.id = Turn(@, m.into, i)] ELSE b
        /\ a.alias = b.alias /\ (a.id = i \/ a.id = b.id)
  <2>1. aliases' = SplitAliases(m, i)
    BY <1>1 DEF Unmerges
  <2> QED
    BY <1>2, <2>1, UnmergedAliases
<1>6. RowsInv'
  <2>1. \A k, l \in keys' : (k.source = l.source /\ k.native = l.native) => k = l
    BY <1>4 DEF RowsInv
  <2>2. \A a, b \in aliases' : a.alias = b.alias => a = b
    BY <1>5 DEF RowsInv
  <2>3. ASSUME NEW r \in cis' PROVE \E l \in keys' : l.id = r.id /\ l.native = r.ext
    <3>1. CASE r.ext = m.native
      <4>1. r.id = i
        <5> DEFINE n == [id |-> i, ext |-> m.native]
        <5>1. n \in cis' /\ n.id = i /\ n.ext = m.native
          BY <1>2
        <5> HIDE DEF n
        <5> QED
          BY <1>3, <3>1, <5>1
      <4>2. \E k \in keys : k.source = m.source /\ k.native = m.native
        BY <1>1 DEF MergesInv
      <4> QED
        BY <1>4, <3>1, <4>1, <4>2
    <3>2. CASE r.ext # m.native
      <4>1. r \in cis
        BY <1>2, <3>2
      <4>2. PICK k \in keys : k.id = r.id /\ k.native = r.ext
        BY <4>1 DEF RowsInv
      <4> QED
        BY <1>4, <3>2, <4>2
    <3> QED
      BY <3>1, <3>2
  <2>4. \A k \in keys' : k.source # Generation
    BY <1>4 DEF RowsInv
  <2> QED
    BY <1>3, <2>1, <2>2, <2>3, <2>4 DEF RowsInv
<1>7. NamesStay /\ merges' = merges
  BY <1>1, <1>4 DEF NamesStay, Unmerges
<1>8. MergesInv'
  BY <1>7 DEF MergesInv, NamesStay
<1>9. KnownInv'
  <2>0. \A x \in Ids : x < nextId => x < nextId'
    BY <1>3, SomeIds
  <2>1. \A x \in keys' \cup aliases' : x.id < nextId'
    <3>1. \A x \in keys \cup aliases : x.id \in Ids /\ x.id < nextId
      BY DEF KnownInv, ReviewTypeOK, Key, Alias
    <3> QED
      BY <1>3, <1>4, <1>5, <2>0, <3>1
  <2>2. \A f \in edges' : f.from < nextId' /\ f.to < nextId'
    <3>0. /\ down \subseteq edges /\ down \in SUBSET Edge
          /\ up \subseteq MovedAll(down, m.into, i)
      BY <1>1, UpsertedIs DEF Unmerges, ReviewTypeOK
    <3>1. \A f \in edges : /\ f.from \in Ids /\ f.from < nextId
                           /\ f.to \in Ids /\ f.to < nextId
      BY DEF KnownInv, ReviewTypeOK, Edge
    <3>2. \A f \in edges' : f \in up \/ f \in edges
      <4>1. edges' = Reopened(edges \ down, up)
        BY <1>1 DEF Unmerges
      <4> QED
        BY <4>1, ReopenedIs
    <3>3. \A f \in up : f.from < nextId' /\ f.to < nextId'
      <4>1. \A f \in up : \E e \in down : /\ f.from = Turn(e.from, m.into, i)
                                          /\ f.to = Turn(e.to, m.into, i)
        BY <1>2, <3>0, MovedEdges
      <4> QED
        BY <1>3, <2>0, <3>0, <3>1, <4>1 DEF Turn
    <3> QED
      BY <2>0, <3>1, <3>2, <3>3
  <2>3. \A o \in merges' : o.into < nextId'
    <3>1. \A o \in merges : o.into \in Ids /\ o.into < nextId
      BY DEF KnownInv, ReviewTypeOK, Merge
    <3> QED
      BY <1>7, <2>0, <3>1
  <2>4. \A u \in Reviewers :
          job'[u].kind = "accept" => job'[u].into < nextId' /\ job'[u].gone < nextId'
    <3>1. \A u \in Reviewers : job[u].kind = "accept" =>
            /\ job[u].into \in Ids /\ job[u].into < nextId
            /\ job[u].gone \in Ids /\ job[u].gone < nextId
      BY JobFields DEF KnownInv, ReviewTypeOK
    <3>2. \A u \in Reviewers : job'[u] = job[u] \/ job'[u].kind # "accept"
      BY <1>1, DoneIs DEF NoJob
    <3> QED
      BY <2>0, <3>1, <3>2
  <2> QED
    BY <1>3, <2>1, <2>2, <2>3, <2>4 DEF KnownInv
<1> QED
  BY <1>6, <1>7, <1>8, <1>9

\* Connecting, reviewing and starting leave the rows of the CIs alone.
LEMMA ConnectRows ==
  ASSUME ReviewTypeOK, KnownInv, NEW r \in cis, NEW q \in cis, NEW s \in Linkers, NEW d \in BOOLEAN,
         Connect(r.id, q.id, d, s)
  PROVE  KnownInv' /\ UNCHANGED <<cis, keys, aliases, merges, job, nextId>>
<1>1. UNCHANGED <<cis, keys, aliases, merges, job, nextId>>
  BY DEF Connect
<1>2. r.id \in Ids /\ q.id \in Ids
  BY DEF ReviewTypeOK, CI
<1>3. PICK e \in Edge : e.from = r.id /\ e.to = q.id /\ edges' = edges \cup {e}
  BY <1>2, ConnectDoes
<1> QED
  BY <1>1, <1>3 DEF KnownInv

LEMMA StartRows ==
  ASSUME ReviewTypeOK, KnownInv, JobInv, NEW p \in Reviewers, NEW j \in Job, Start(p, j),
         j.kind = "accept" =>
           /\ j.into # j.gone /\ Open(j.into) /\ [id |-> j.gone, ext |-> j.ext] \in cis
           /\ \A r \in cis : r.id = j.gone => r.ext = j.ext
           /\ \E k \in keys : k.source = j.source /\ k.native = j.native,
         j.kind = "unmerge" => j.merge \in merges
  PROVE  KnownInv' /\ JobInv' /\ UNCHANGED <<cis, keys, aliases, merges, nextId>>
<1>1. /\ \A u \in Reviewers : job'[u] = IF u = p THEN j ELSE job[u]
      /\ UNCHANGED <<cis, keys, aliases, edges, merges, nextId>>
  BY DEF Start, tables, ReviewTypeOK
<1>2. j.kind = "accept" => j.into < nextId /\ j.gone < nextId
  <2>1. [id |-> j.gone, ext |-> j.ext].id = j.gone
    OBVIOUS
  <2> QED
    BY <2>1 DEF KnownInv, Open
<1>3. KnownInv'
  <2>1. \A u \in Reviewers :
          job'[u].kind = "accept" => job'[u].into < nextId /\ job'[u].gone < nextId
    BY <1>1, <1>2 DEF KnownInv
  <2> QED
    BY <1>1, <2>1 DEF KnownInv
<1>4. JobInv'
  BY <1>1 DEF JobInv
<1> QED
  BY <1>1, <1>3, <1>4

LEMMA RollbackRows ==
  ASSUME ReviewTypeOK, KnownInv, NEW p \in Reviewers, Rollback(p)
  PROVE  /\ KnownInv' /\ UNCHANGED <<cis, keys, aliases, merges, nextId>>
         /\ \A u \in Reviewers : job'[u] = job[u] \/ job'[u] = NoJob
<1>1. /\ \A u \in Reviewers : job'[u] = IF u = p THEN NoJob ELSE job[u]
      /\ UNCHANGED <<cis, keys, aliases, edges, merges, nextId>>
  BY DoneIs DEF Rollback, tables, counts
<1>2. \A u \in Reviewers :
        job'[u].kind = "accept" => job'[u].into < nextId /\ job'[u].gone < nextId
  BY <1>1 DEF KnownInv, NoJob
<1> QED
  BY <1>1, <1>2 DEF KnownInv

-----------------------------------------------------------------------------
(* Edges and candidates.                                                   *)

LEMMA ReopenedUnique ==
  ASSUME NEW E, NEW U,
         \A e, f \in E : (e.from = f.from /\ e.to = f.to) => e = f,
         \A e, f \in U : (e.from = f.from /\ e.to = f.to) => e = f
  PROVE  \A e, f \in Reopened(E, U) : (e.from = f.from /\ e.to = f.to) => e = f
BY ReopenedIs

LEMMA AcceptEdges ==
  ASSUME ReviewTypeOK, EdgesInv, JobInv, NEW p \in Reviewers, Accept(p)
  PROVE  EdgesInv'
<1>1. PICK j, down : /\ j.into \in Ids /\ j.gone \in Ids /\ j.into # j.gone
                     /\ Accepts(j, down)
  <2>1. job[p].into # job[p].gone
    BY AcceptDoes DEF JobInv
  <2> QED
    BY <2>1, AcceptDoes
<1>2. /\ down \in SUBSET edges /\ down \in SUBSET Edge
      /\ edges' = Reopened(edges \ down, MovedAll(down, j.gone, j.into))
      /\ \A e \in down : /\ e.from = j.gone \/ e.to = j.gone
                         /\ ~(e.from = j.gone /\ e.to = j.into)
                         /\ ~(e.from = j.into /\ e.to = j.gone)
  BY <1>1 DEF Accepts, ReviewTypeOK
<1>3. ASSUME NEW f \in MovedAll(down, j.gone, j.into), NEW g \in MovedAll(down, j.gone, j.into),
             f.from = g.from, f.to = g.to
      PROVE  f = g
  <2>1. PICK e \in down : /\ f = Moved(e, j.gone, j.into)
                          /\ f.from = Turn(e.from, j.gone, j.into)
                          /\ f.to = Turn(e.to, j.gone, j.into)
    BY <1>1, <1>2, <1>3, MovedEdges
  <2>2. PICK h \in down : /\ g = Moved(h, j.gone, j.into)
                          /\ g.from = Turn(h.from, j.gone, j.into)
                          /\ g.to = Turn(h.to, j.gone, j.into)
    BY <1>1, <1>2, <1>3, MovedEdges
  <2>3. e.from = h.from /\ e.to = h.to
    BY <1>1, <1>2, <1>3, <2>1, <2>2 DEF Turn
  <2> QED
    BY <1>2, <2>1, <2>2, <2>3 DEF EdgesInv
<1> QED
  BY <1>2, <1>3, ReopenedUnique DEF EdgesInv

\* However moved edges come to lie, no two of them stay upon each other.
LEMMA UnmergeEdges ==
  ASSUME ReviewTypeOK, RowsInv, EdgesInv, KnownInv, JobInv, NEW p \in Reviewers, Unmerge(p)
  PROVE  EdgesInv'
<1>1. PICK m, i, down, up : m \in merges /\ Unmerges(m, i, down, up)
  BY UnmergeDoes
<1>2. edges' = Reopened(edges \ down, up) /\ up \in Upserted(MovedAll(down, m.into, i))
  BY <1>1 DEF Unmerges
<1>3. \A e, f \in up : (e.from = f.from /\ e.to = f.to) => e = f
  BY <1>2, UpsertedIs
<1> QED
  BY <1>2, <1>3, ReopenedUnique DEF EdgesInv

LEMMA ConnectEdges ==
  ASSUME EdgesInv, NEW i \in Ids, NEW j \in Ids, NEW s \in Linkers, NEW d \in BOOLEAN,
         Connect(i, j, d, s)
  PROVE  EdgesInv'
<1>1. ~\E f \in edges : f.from = i /\ f.to = j
  BY DEF Connect
<1>2. PICK e \in Edge : e.from = i /\ e.to = j /\ edges' = edges \cup {e}
  BY ConnectDoes
<1> QED
  BY <1>1, <1>2 DEF EdgesInv

\* A candidate that is accepted was pending, and its merge is the only one.
LEMMA AcceptCand ==
  ASSUME ReviewTypeOK, CandInv, NEW p \in Reviewers, Accept(p)
  PROVE  CandInv'
<1>1. PICK j, down : /\ j.pair \in Pairs /\ cand[j.pair] = "pending"
                     /\ Accepts(j, down)
  BY AcceptDoes
<1> DEFINE m == [no |-> Cardinality(merges) + 1, into |-> j.into,
                 source |-> j.source, native |-> j.native, via |-> j.pair]
<1>2. merges' = merges \cup {m} /\ m.via = j.pair
  BY <1>1 DEF Accepts
<1> HIDE DEF m
<1>3. \A q \in Pairs : cand'[q] = IF q = j.pair THEN "accepted" ELSE cand[q]
  BY <1>1 DEF Accepts, ReviewTypeOK
<1>4. ASSUME NEW q \in Pairs
      PROVE  Of(q)' = IF q = j.pair THEN Of(q) \cup {m} ELSE Of(q)
  BY <1>2 DEF Of
<1>5. Of(j.pair) = {}
  BY <1>1 DEF CandInv
<1>6. Of(j.pair)' = {m} /\ m \in Of(j.pair)'
  BY <1>1, <1>4, <1>5
<1>7. ASSUME NEW q \in Pairs
      PROVE  IF cand'[q] = "accepted" THEN \E x \in Of(q)' : Of(q)' = {x} ELSE Of(q)' = {}
  <2>1. CASE q = j.pair
    BY <1>3, <1>6, <2>1
  <2>2. CASE q # j.pair
    BY <1>3, <1>4, <2>2 DEF CandInv
  <2> QED
    BY <2>1, <2>2
<1> QED
  BY <1>7 DEF CandInv

LEMMA DiscoverCand ==
  ASSUME ReviewTypeOK, RowsInv, KnownInv, CandInv, NEW n \in Natives, Discover(n)
  PROVE  CandInv'
<1>1. cand' = cand
  BY DEF Discover
<1>2. \A q \in Pairs : Of(q)' = Of(q)
  <2>1. \E m : m.via = {} /\ (merges' = merges \/ merges' = merges \cup {m})
    <3>1. \A i : [no |-> Cardinality(merges) + 1, into |-> i, source |-> SourceOf[n],
                  native |-> n, via |-> {}].via = {}
      OBVIOUS
    <3> QED
      BY <3>1, DiscoverDoes
  <2> QED
    BY <2>1, NoEmptyPair DEF Of
<1> QED
  BY <1>1, <1>2 DEF CandInv

LEMMA CandidateCand ==
  ASSUME ReviewTypeOK, CandInv, NEW q \in Pairs, Generate(q) \/ Dismiss(q)
  PROVE  CandInv'
<1>1. /\ merges' = merges /\ cand[q] # "accepted"
      /\ \E s : s # "accepted" /\ cand' = [cand EXCEPT ![q] = s]
  <2>1. "pending" # "accepted" /\ "dismissed" # "accepted" /\ "none" # "accepted"
    OBVIOUS
  <2> QED
    BY <2>1 DEF Generate, Dismiss
<1>2. \A x \in Pairs : Of(x)' = Of(x) /\ (cand'[x] = "accepted" <=> cand[x] = "accepted")
  BY <1>1 DEF ReviewTypeOK, Of
<1> QED
  BY <1>2 DEF CandInv

-----------------------------------------------------------------------------
(* Graph and bindings, while reviews do not overlap.                       *)

\* Without overlap, a review that ends leaves none.
LEMMA DoneAlone ==
  ASSUME ReviewTypeOK, AloneInv, NEW p \in Reviewers, job[p] # NoJob, Done(p),
         overlapped' = overlapped
  PROVE  AloneInv'
<1>1. ~overlapped => \A u \in Reviewers : job'[u] = NoJob
  BY DoneIs DEF AloneInv
<1> QED
  BY <1>1 DEF AloneInv, NoJob

LEMMA StartAlone ==
  ASSUME ReviewTypeOK, AloneInv, NEW p \in Reviewers, NEW j \in Job, Start(p, j),
         j.kind = "accept" => Open(j.into) /\ [id |-> j.gone, ext |-> j.ext] \in cis
  PROVE  AloneInv'
<1>1. /\ \A u \in Reviewers : job'[u] = IF u = p THEN j ELSE job[u]
      /\ ~overlapped' => ~overlapped /\ \A u \in Reviewers : job[u] = NoJob
      /\ cis' = cis
  BY DEF Start, tables, ReviewTypeOK
<1> QED
  BY <1>1 DEF AloneInv, Open, NoJob

LEMMA OpensAlone ==
  ASSUME AloneInv, cis \subseteq cis', UNCHANGED <<job, overlapped>>
  PROVE  AloneInv'
<1>1. \A i : Open(i) => Open(i)'
  BY DEF Open
<1> QED
  BY <1>1 DEF AloneInv

\* What the graph and the bindings say of the store, unless reviews overlapped.
Shown ==
  /\ \A i : i \in vertices <=> Open(i)
  /\ \A x : x \in links <=> \E e \in edges : /\ x = <<e.from, e.to>>
                                             /\ Open(e.from) /\ Open(e.to)
Bound == \A k \in keys \cup aliases : Open(k.id)

LEMMA ShownIs == GraphShowsStore <=> (~overlapped => Shown)
<1>1. \A i : i \in {r.id : r \in cis} <=> Open(i)
  BY DEF Open
<1>2. vertices = {r.id : r \in cis} <=> \A i : i \in vertices <=> Open(i)
  BY <1>1
<1>3. \A x : x \in {<<e.from, e.to>> : e \in {y \in edges : Open(y.from) /\ Open(y.to)}}
               <=> \E e \in edges : /\ x = <<e.from, e.to>>
                                    /\ Open(e.from) /\ Open(e.to)
  OBVIOUS
<1>4. links = {<<e.from, e.to>> : e \in {y \in edges : Open(y.from) /\ Open(y.to)}}
        <=> \A x : x \in links <=> \E e \in edges : /\ x = <<e.from, e.to>>
                                                    /\ Open(e.from) /\ Open(e.to)
  BY <1>3
<1> QED
  BY <1>2, <1>4 DEF GraphShowsStore, Shown

\* Who is open after an id was opened: an id that rows know, or this one.
LEMMA OpensOpen ==
  ASSUME ReviewTypeOK, KnownInv, NEW i, NEW e, Opens(i, e)
  PROVE  /\ \A x : Open(x)' <=> (Open(x) \/ x = i)
         /\ \A x \in Ids : (x < nextId /\ Open(x)') => (Open(x) \/ Open(i))
         /\ ~Open(i) => \A x \in Ids : (x < nextId /\ Open(x)') => Open(x)
         /\ cis \subseteq cis'
<1> DEFINE n == [id |-> i, ext |-> e]
<1>1. /\ n.id = i /\ cis' = cis \cup {n}
      /\ n \in cis \/ i = nextId
  BY DEF Opens
<1> HIDE DEF n
<1>2. \A x : Open(x)' <=> (Open(x) \/ x = i)
  BY <1>1 DEF Open
<1>3. ~Open(i) => i = nextId
  BY <1>1 DEF Open
<1>4. \A x \in Ids : x < nextId => x # nextId
  BY SomeIds
<1> QED
  BY <1>1, <1>2, <1>3, <1>4

LEMMA DiscoverShown ==
  ASSUME ReviewTypeOK, RowsInv, KnownInv, Shown, Bound, NEW n \in Natives, Discover(n)
  PROVE  Shown' /\ Bound'
<1>1. PICK i, e :
        /\ Opens(i, e)
        /\ keys' = PutKey(keys, [source |-> SourceOf[n], native |-> n, id |-> i])
        /\ aliases' = {a \in aliases : a.alias # AliasOf[n]}
                      \cup {[alias |-> AliasOf[n], id |-> i, source |-> SourceOf[n]]}
        /\ vertices' = vertices \cup {i} /\ links' = links
  BY DiscoverDoes
<1>2. edges' = edges
  BY DEF Discover
<1>3. /\ \A x : Open(x)' <=> (Open(x) \/ x = i)
      /\ ~Open(i) => \A x \in Ids : (x < nextId /\ Open(x)') => Open(x)
  BY <1>1, OpensOpen
<1>4. \A f \in edges : /\ f.from \in Ids /\ f.from < nextId
                       /\ f.to \in Ids /\ f.to < nextId
  BY DEF KnownInv, ReviewTypeOK, Edge
<1>5. \A f \in edges : (Open(f.from)' /\ Open(f.to)') <=> (Open(f.from) /\ Open(f.to))
  BY <1>3, <1>4
<1>6. Shown'
  BY <1>1, <1>2, <1>3, <1>5 DEF Shown
<1>7. \A k \in keys' \cup aliases' : k.id = i \/ k \in keys \cup aliases
  BY <1>1 DEF PutKey
<1> QED
  BY <1>3, <1>6, <1>7 DEF Bound

LEMMA ConnectShown ==
  ASSUME ReviewTypeOK, Shown, Bound, NEW r \in cis, NEW q \in cis,
         NEW s \in Linkers, NEW d \in BOOLEAN, Connect(r.id, q.id, d, s)
  PROVE  Shown' /\ Bound'
<1>0. r.id \in Ids /\ q.id \in Ids
  BY DEF ReviewTypeOK, CI
<1>1. UNCHANGED <<cis, keys, aliases>>
  BY DEF Connect
<1>2. PICK e \in Edge : e.from = r.id /\ e.to = q.id /\ edges' = edges \cup {e}
  BY <1>0, ConnectDoes
<1>3. /\ Open(r.id) /\ Open(q.id)
      /\ \A i : Open(i)' <=> Open(i)
  BY <1>1 DEF Open
<1>4. /\ vertices' = vertices
      /\ \A x : x \in links' <=> x \in links \/ x = <<e.from, e.to>>
  <2>1. r.id \in vertices /\ q.id \in vertices
    BY <1>3 DEF Shown
  <2> QED
    BY <1>0, <1>2, <2>1, ConnectDoes
<1>5. Shown'
  BY <1>1, <1>2, <1>3, <1>4 DEF Shown
<1> QED
  BY <1>1, <1>3, <1>5 DEF Bound

\* The merged CI is the only one that an accept closes.
LEMMA AcceptOpen ==
  ASSUME RowsInv, NEW j, [id |-> j.gone, ext |-> j.ext] \in cis,
         cis' = {r \in cis : r.ext # j.ext}
  PROVE  /\ \A x : Open(x)' <=> (Open(x) /\ x # j.gone)
         /\ \A r \in cis : r \in cis' \/ (r.id = j.gone /\ r.ext = j.ext)
<1> DEFINE g == [id |-> j.gone, ext |-> j.ext]
<1>1. g \in cis /\ g.id = j.gone /\ g.ext = j.ext
  OBVIOUS
<1> HIDE DEF g
<1>2. \A r \in cis : (r.id = j.gone \/ r.ext = j.ext) => r = g
  BY <1>1 DEF RowsInv
<1>3. \A r \in cis : r \in cis' <=> r.id # j.gone
  BY <1>1, <1>2
<1> QED
  BY <1>1, <1>2, <1>3 DEF Open

LEMMA AcceptShown ==
  ASSUME ReviewTypeOK, RowsInv, JobInv, AloneInv, ~overlapped, Shown, Bound,
         NEW p \in Reviewers, Accept(p)
  PROVE  Shown' /\ Bound'
<1>1. PICK j, down :
        /\ j.into \in Ids /\ j.gone \in Ids /\ j.into # j.gone /\ Open(j.into)
        /\ [id |-> j.gone, ext |-> j.ext] \in cis
        /\ Accepts(j, down)
        /\ keys' = Repointed(keys, j.gone, j.into)
  <2>1. job[p].into # job[p].gone /\ Open(job[p].into)
        /\ [id |-> job[p].gone, ext |-> job[p].ext] \in cis
    BY AcceptDoes DEF JobInv, AloneInv
  <2> QED
    BY <2>1, AcceptDoes, AcceptKeys
<1>2. \A x : Open(x)' <=> (Open(x) /\ x # j.gone)
  BY <1>1, AcceptOpen DEF Accepts
<1> DEFINE up == MovedAll(down, j.gone, j.into)
<1>3. /\ edges' = Reopened(edges \ down, up)
      /\ Project({j.into}, up, down, {j.gone})
      /\ \A e \in down : e \in edges /\ (e.from = j.gone \/ e.to = j.gone)
  BY <1>1 DEF Accepts
<1> HIDE DEF up
<1>4. /\ \A e : e \in edges' <=>
           \/ e \in up
           \/ e \in edges \ down /\ \A f \in up : ~(e.from = f.from /\ e.to = f.to)
  BY <1>3, ReopenedIs
<1>5. /\ vertices' = (vertices \cup {j.into}) \ {j.gone}
      /\ \A x : x \in links' <=>
           /\ \/ x \in links
              \/ /\ \E e \in up : x = <<e.from, e.to>>
                 /\ x[1] \in vertices \cup {j.into} /\ x[2] \in vertices \cup {j.into}
           /\ \A e \in down : x # <<e.from, e.to>>
           /\ x[1] \notin {j.gone} /\ x[2] \notin {j.gone}
  BY <1>3, ProjectDoes
<1>6. \A i : i \in vertices' <=> Open(i)'
  BY <1>1, <1>2, <1>5 DEF Shown
<1>7. ASSUME NEW x, x \in links'
      PROVE  \E e \in edges' : /\ x = <<e.from, e.to>>
                               /\ Open(e.from)' /\ Open(e.to)'
  <2>1. CASE x \in links
    <3>1. PICK e \in edges : x = <<e.from, e.to>> /\ Open(e.from) /\ Open(e.to)
      BY <2>1 DEF Shown
    <3>2. e.from # j.gone /\ e.to # j.gone
      BY <1>5, <1>7, <3>1
    <3>3. e \notin down /\ Open(e.from)' /\ Open(e.to)'
      BY <1>2, <1>3, <3>1, <3>2
    <3>4. \E f \in edges' : f.from = e.from /\ f.to = e.to
      BY <1>4, <3>3
    <3> QED
      BY <3>1, <3>3, <3>4
  <2>2. CASE x \notin links
    <3>1. PICK e \in up : x = <<e.from, e.to>>
      BY <1>5, <1>7, <2>2
    <3>2. /\ e.from \in vertices \cup {j.into} /\ e.to \in vertices \cup {j.into}
          /\ e.from # j.gone /\ e.to # j.gone
      BY <1>5, <1>7, <2>2, <3>1
    <3>3. Open(e.from)' /\ Open(e.to)' /\ e \in edges'
      BY <1>1, <1>2, <1>4, <3>2 DEF Shown
    <3> QED
      BY <3>1, <3>3
  <2> QED
    BY <2>1, <2>2
<1>8. ASSUME NEW e \in edges', Open(e.from)', Open(e.to)'
      PROVE  <<e.from, e.to>> \in links'
  <2> DEFINE x == <<e.from, e.to>>
  <2>1. x[1] = e.from /\ x[2] = e.to
    OBVIOUS
  <2>2. Open(e.from) /\ Open(e.to) /\ e.from # j.gone /\ e.to # j.gone
    BY <1>2, <1>8
  <2>3. \A f \in down : x # <<f.from, f.to>>
    BY <1>3, <2>2
  <2>4. e \in up => e.from \in vertices /\ e.to \in vertices
    BY <2>2 DEF Shown
  <2>5. e \notin up => x \in links
    BY <1>4, <2>2 DEF Shown
  <2> QED
    BY <1>5, <2>1, <2>2, <2>3, <2>4, <2>5
<1>9. Shown'
  BY <1>6, <1>7, <1>8 DEF Shown
<1>10. \A k \in keys' : \E l \in keys : k.id = Turn(l.id, j.gone, j.into)
  BY <1>1, RepointedKeys DEF ReviewTypeOK
<1>11. \A a \in aliases' : \E b \in aliases : a.id = Turn(b.id, j.gone, j.into)
  <2>1. aliases' = Repointed(aliases, j.gone, j.into)
    BY <1>1 DEF Accepts
  <2>2. \A a \in Repointed(aliases, j.gone, j.into) :
          \E b \in aliases : a.id = Turn(b.id, j.gone, j.into)
    BY <1>1, RepointedAliases DEF ReviewTypeOK
  <2> QED
    BY <2>1, <2>2
<1>12. Bound'
  BY <1>1, <1>2, <1>10, <1>11 DEF Bound, Turn
<1> QED
  BY <1>9, <1>12

LEMMA UnmergeShown ==
  ASSUME ReviewTypeOK, RowsInv, EdgesInv, KnownInv, JobInv, Shown, Bound,
         NEW p \in Reviewers, Unmerge(p)
  PROVE  Shown' /\ Bound'
<1>1. PICK m, i, down, up : m \in merges /\ Unmerges(m, i, down, up)
  BY UnmergeDoes
<1>2. /\ Opens(i, m.native) /\ i # m.into /\ i \in Ids /\ m.into \in Ids
  BY <1>1 DEF Unmerges, Opens, ReviewTypeOK, Merge
<1>3. /\ \A x : Open(x)' <=> (Open(x) \/ x = i)
      /\ ~Open(i) => \A x \in Ids : (x < nextId /\ Open(x)') => Open(x)
  BY <1>2, OpensOpen
<1>4. /\ edges' = Reopened(edges \ down, up)
      /\ Project({i}, up, down, {})
      /\ down \in SUBSET Edge /\ down \subseteq edges
      /\ \A e \in down : e.from = m.into \/ e.to = m.into
      /\ up \subseteq MovedAll(down, m.into, i)
  BY <1>1, UpsertedIs DEF Unmerges, ReviewTypeOK
<1>5. \A f \in up : f.from # m.into /\ f.to # m.into
  BY <1>2, <1>4, MovedEdges DEF Turn
<1>6. \A e : e \in edges' <=>
        \/ e \in up
        \/ e \in edges \ down /\ \A f \in up : ~(e.from = f.from /\ e.to = f.to)
  BY <1>4, ReopenedIs
<1>7. /\ vertices' = (vertices \cup {i}) \ {}
      /\ \A x : x \in links' <=>
           /\ \/ x \in links
              \/ /\ \E e \in up : x = <<e.from, e.to>>
                 /\ x[1] \in vertices \cup {i} /\ x[2] \in vertices \cup {i}
           /\ \A e \in down : x # <<e.from, e.to>>
           /\ x[1] \notin {} /\ x[2] \notin {}
  BY <1>4, ProjectDoes
<1>8. \A x : x \in vertices' <=> Open(x)'
  BY <1>3, <1>7 DEF Shown
<1>9. ASSUME NEW x, x \in links'
      PROVE  \E e \in edges' : /\ x = <<e.from, e.to>>
                               /\ Open(e.from)' /\ Open(e.to)'
  <2>1. CASE x \in links
    <3>1. PICK e \in edges : x = <<e.from, e.to>> /\ Open(e.from) /\ Open(e.to)
      BY <2>1 DEF Shown
    <3>2. e \notin down
      BY <1>7, <1>9, <3>1
    <3>3. \E f \in edges' : f.from = e.from /\ f.to = e.to
      BY <1>6, <3>2
    <3> QED
      BY <1>3, <3>1, <3>3
  <2>2. CASE x \notin links
    <3>1. PICK e \in up : x = <<e.from, e.to>>
      BY <1>7, <1>9, <2>2
    <3>2. e.from \in vertices \cup {i} /\ e.to \in vertices \cup {i}
      BY <1>7, <1>9, <2>2, <3>1
    <3>3. Open(e.from)' /\ Open(e.to)' /\ e \in edges'
      BY <1>3, <1>6, <3>2 DEF Shown
    <3> QED
      BY <3>1, <3>3
  <2> QED
    BY <2>1, <2>2
<1>10. ASSUME NEW e \in edges', Open(e.from)', Open(e.to)'
       PROVE  <<e.from, e.to>> \in links'
  <2> DEFINE x == <<e.from, e.to>>
  <2>1. x[1] = e.from /\ x[2] = e.to
    OBVIOUS
  <2>2. CASE e \in up
    <3>1. \A f \in down : x # <<f.from, f.to>>
      BY <1>4, <1>5, <2>2
    <3>2. e.from \in vertices \cup {i} /\ e.to \in vertices \cup {i}
      BY <1>3, <1>10 DEF Shown
    <3> QED
      BY <1>7, <2>1, <2>2, <3>1, <3>2
  <2>3. CASE e \notin up
    <3>1. e \in edges /\ e \notin down
      BY <1>6, <2>3
    <3>2. \A f \in down : x # <<f.from, f.to>>
      BY <1>4, <3>1 DEF EdgesInv
    <3>3. /\ e.from \in Ids /\ e.from < nextId /\ e.to \in Ids /\ e.to < nextId
      BY <3>1 DEF KnownInv, ReviewTypeOK, Edge
    <3>4. Open(e.from) /\ Open(e.to)
      BY <1>3, <1>10, <3>3
    <3>5. x \in links
      BY <3>1, <3>4 DEF Shown
    <3> QED
      BY <1>7, <3>2, <3>5
  <2> QED
    BY <2>2, <2>3
<1>11. Shown'
  BY <1>8, <1>9, <1>10 DEF Shown
<1>12. \A k \in keys' : \E l \in keys : k.id = i \/ k.id = l.id
  <2>1. keys' = NameMoved(keys, m, i) /\ keys \in SUBSET Key
    BY <1>1 DEF Unmerges, NameMoved, ReviewTypeOK
  <2>2. ASSUME NEW k \in keys'
        PROVE  \E l \in keys : k.id = i \/ k.id = l.id
    <3>1. PICK l \in keys : k = IF l.source = m.source /\ l.native = m.native
                                THEN [l EXCEPT !.id = i] ELSE l
      BY <2>1 DEF NameMoved
    <3>2. l \in Key /\ [l EXCEPT !.id = i].id = i
      BY <2>1 DEF Key
    <3> QED
      BY <3>1, <3>2
  <2> QED
    BY <2>2
<1>13. \A a \in aliases' : \E b \in aliases : a.id = i \/ a.id = b.id
  BY <1>1, <1>2, UnmergedAliases DEF Unmerges
<1>14. Bound'
  BY <1>3, <1>12, <1>13 DEF Bound
<1> QED
  BY <1>11, <1>14

-----------------------------------------------------------------------------
(* What unmerging gives back.                                              *)

LEMMA NamedIs ==
  ASSUME NEW K, NEW C, NEW x
  PROVE  x \in Named(K, C) <=> \E k \in K, r \in C :
           k.id = r.id /\ x = <<[k EXCEPT !.id = 0], r.ext>>
<1>1. ASSUME NEW k \in K, NEW r \in C, k.id = r.id, x = <<[k EXCEPT !.id = 0], r.ext>>
      PROVE  x \in Named(K, C)
  <2> DEFINE y == <<k, r>>
  <2>1. y \in K \X C /\ y[1] = k /\ y[2] = r
    OBVIOUS
  <2> HIDE DEF y
  <2>2. x = <<[y[1] EXCEPT !.id = 0], y[2].ext>> /\ y[1].id = y[2].id
    BY <1>1, <2>1
  <2> QED
    BY <2>1, <2>2 DEF Named
<1>2. ASSUME x \in Named(K, C)
      PROVE  \E k \in K, r \in C : k.id = r.id /\ x = <<[k EXCEPT !.id = 0], r.ext>>
  <2>1. PICK y \in K \X C : y[1].id = y[2].id /\ x = <<[y[1] EXCEPT !.id = 0], y[2].ext>>
    BY <1>2 DEF Named
  <2> QED
    BY <2>1
<1> QED
  BY <1>1, <1>2

\* The rows of one id go to another, and so does its name.
Renamed(C, g, n) == {r \in C : r.ext # g.ext} \cup {[id |-> n, ext |-> g.ext]}

LEMMA RenamedIs ==
  ASSUME NEW K \in SUBSET (Key \cup Alias), NEW C \in SUBSET CI,
         NEW g \in CI, g \in C, NEW n,
         \A r, q \in C : (r.id = q.id \/ r.ext = q.ext) => r = q,
         \A r \in C : r.id # n, \A k \in K : k.id # n
  PROVE  Named(Repointed(K, g.id, n), Renamed(C, g, n)) = Named(K, C)
<1> DEFINE h  == [id |-> n, ext |-> g.ext]
           C2 == Renamed(C, g, n)
           K2 == Repointed(K, g.id, n)
<1>1. ASSUME NEW k \in K
      PROVE  LET l == [k EXCEPT !.id = Turn(@, g.id, n)]
             IN /\ l \in K2 /\ l.id = Turn(k.id, g.id, n)
                /\ [l EXCEPT !.id = 0] = [k EXCEPT !.id = 0]
  <2>1. CASE k \in Key
    BY <2>1 DEF Repointed, Key
  <2>2. CASE k \in Alias
    BY <2>2 DEF Repointed, Alias
  <2> QED
    BY <2>1, <2>2
<1>2. \A k \in K : \E l \in K2 : /\ l.id = Turn(k.id, g.id, n)
                                 /\ [l EXCEPT !.id = 0] = [k EXCEPT !.id = 0]
  BY <1>1
<1>3. \A l \in K2 : \E k \in K : /\ l.id = Turn(k.id, g.id, n)
                                 /\ [l EXCEPT !.id = 0] = [k EXCEPT !.id = 0]
  <2> SUFFICES ASSUME NEW l \in K2
               PROVE  \E k \in K : /\ l.id = Turn(k.id, g.id, n)
                                   /\ [l EXCEPT !.id = 0] = [k EXCEPT !.id = 0]
    OBVIOUS
  <2>1. PICK k \in K : l = [k EXCEPT !.id = Turn(@, g.id, n)]
    BY DEF Repointed
  <2> HIDE DEF K2
  <2> QED
    BY <1>1, <2>1
<1>4. h.id = n /\ h.ext = g.ext /\ h \in C2
  BY DEF Renamed
<1>5. \A r : r \in C2 <=> (r = h \/ (r \in C /\ r.id # g.id))
  <2>1. \A r \in C : r.ext # g.ext <=> r.id # g.id
    OBVIOUS
  <2> QED
    BY <2>1 DEF Renamed
<1> HIDE DEF h, C2, K2
<1>6. ASSUME NEW x, x \in Named(K, C)
      PROVE  x \in Named(K2, C2)
  <2>1. PICK k \in K, r \in C : k.id = r.id /\ x = <<[k EXCEPT !.id = 0], r.ext>>
    BY <1>6, NamedIs
  <2>2. PICK l \in K2 : /\ l.id = Turn(k.id, g.id, n)
                        /\ [l EXCEPT !.id = 0] = [k EXCEPT !.id = 0]
    BY <1>2
  <2>3. CASE r.id = g.id
    <3>1. r = g /\ l.id = h.id /\ x = <<[l EXCEPT !.id = 0], h.ext>>
      BY <1>4, <2>1, <2>2, <2>3 DEF Turn
    <3> QED
      BY <1>4, <3>1, NamedIs
  <2>4. CASE r.id # g.id
    <3>1. r \in C2 /\ l.id = r.id /\ x = <<[l EXCEPT !.id = 0], r.ext>>
      BY <1>5, <2>1, <2>2, <2>4 DEF Turn
    <3> QED
      BY <3>1, NamedIs
  <2> QED
    BY <2>3, <2>4
<1>7. ASSUME NEW x, x \in Named(K2, C2)
      PROVE  x \in Named(K, C)
  <2>1. PICK l \in K2, r \in C2 : l.id = r.id /\ x = <<[l EXCEPT !.id = 0], r.ext>>
    BY <1>7, NamedIs
  <2>2. PICK k \in K : /\ l.id = Turn(k.id, g.id, n)
                       /\ [l EXCEPT !.id = 0] = [k EXCEPT !.id = 0]
    BY <1>3
  <2>3. CASE r = h
    <3>1. k.id = g.id /\ x = <<[k EXCEPT !.id = 0], g.ext>>
      BY <1>4, <2>1, <2>2, <2>3 DEF Turn
    <3> QED
      BY <3>1, NamedIs
  <2>4. CASE r # h
    <3>1. r \in C /\ r.id # g.id
      BY <1>5, <2>4
    <3>2. k.id = r.id /\ x = <<[k EXCEPT !.id = 0], r.ext>>
      BY <2>1, <2>2, <3>1 DEF Turn
    <3> QED
      BY <3>1, <3>2, NamedIs
  <2> QED
    BY <2>3, <2>4
<1>8. Named(K2, C2) = Named(K, C)
  <2>1. \A x : x \in Named(K2, C2) <=> x \in Named(K, C)
    BY <1>6, <1>7
  <2> QED
    BY <2>1
<1> QED
  BY <1>8 DEF K2, C2

\* The names of the merged CI, found by the merge's own name among what the
\* canonical CI has since, are the names that it had.
LEMMA SplitAgain ==
  ASSUME ReviewTypeOK, RowsInv, NEW j, Separate(j),
         j.into \in Ids, j.gone \in Ids, j.into # j.gone, NEW n,
         NEW m, m.source = j.source, m.native = j.native, m.into = j.into
  PROVE  /\ NameMoved(Repointed(keys, j.gone, j.into), m, n) = Repointed(keys, j.gone, n)
         /\ AliasesMoved(Repointed(aliases, j.gone, j.into), m, n)
              = Repointed(aliases, j.gone, n)
<1> DEFINE Via(k)   == [k EXCEPT !.id = Turn(@, j.gone, j.into)]
           To(k)    == [k EXCEPT !.id = Turn(@, j.gone, n)]
           Back(k)  == IF k.source = m.source /\ k.native = m.native
                       THEN [k EXCEPT !.id = n] ELSE k
           BackA(a) == IF a.source = m.source THEN [a EXCEPT !.id = Turn(@, m.into, n)]
                       ELSE a
<1>1. \A k \in keys : k.id = j.gone <=> (k.source = j.source /\ k.native = j.native)
  <2>1. \A x : x \in {<<k.source, k.native>> : k \in {y \in keys : y.id = j.gone}}
               <=> x = <<j.source, j.native>>
    BY DEF Separate
  <2>2. \A k \in keys : k.id = j.gone => <<k.source, k.native>> = <<j.source, j.native>>
    BY <2>1
  <2>3. \E k \in keys : k.id = j.gone /\ <<k.source, k.native>> = <<j.source, j.native>>
    BY <2>1
  <2> QED
    BY <2>2, <2>3 DEF RowsInv
<1>2. ASSUME NEW k \in keys
      PROVE  Back(Via(k)) = To(k)
  <2>1. k \in Key
    BY DEF ReviewTypeOK
  <2>2. CASE k.id = j.gone
    <3>1. Via(k) = [k EXCEPT !.id = j.into] /\ To(k) = [k EXCEPT !.id = n]
      BY <2>2 DEF Turn
    <3>2. Via(k).source = m.source /\ Via(k).native = m.native
      BY <1>1, <2>1, <2>2, <3>1 DEF Key
    <3>3. Back(Via(k)) = [Via(k) EXCEPT !.id = n]
      BY <3>2
    <3> HIDE DEF Back
    <3> QED
      BY <2>1, <3>1, <3>3 DEF Key
  <2>3. CASE k.id # j.gone
    <3>1. Via(k) = k /\ To(k) = k
      BY <2>1, <2>3 DEF Turn, Key
    <3> HIDE DEF Via, To
    <3> QED
      BY <1>1, <2>3, <3>1
  <2> QED
    BY <2>2, <2>3
<1>3. ASSUME NEW a \in aliases
      PROVE  BackA(Via(a)) = To(a)
  <2>1. a \in Alias /\ (a.id = j.gone => a.source = j.source)
        /\ (a.id = j.into => a.source # j.source)
    BY DEF ReviewTypeOK, Separate
  <2>2. CASE a.id = j.gone
    <3>1. Via(a) = [a EXCEPT !.id = j.into] /\ To(a) = [a EXCEPT !.id = n]
      BY <2>2 DEF Turn
    <3>2. Via(a).source = m.source /\ Via(a).id = m.into
      BY <2>1, <2>2, <3>1 DEF Alias
    <3>3. BackA(Via(a)) = [Via(a) EXCEPT !.id = n]
      BY <3>2 DEF Turn
    <3> HIDE DEF BackA
    <3> QED
      BY <2>1, <3>1, <3>3 DEF Alias
  <2>3. CASE a.id # j.gone
    <3>1. Via(a) = a /\ To(a) = a
      BY <2>1, <2>3 DEF Turn, Alias
    <3>2. a.source = m.source => [a EXCEPT !.id = Turn(@, m.into, n)] = a
      BY <2>1 DEF Turn, Alias
    <3>3. BackA(a) = a
      BY <3>2
    <3> HIDE DEF Via, To, BackA
    <3> QED
      BY <3>1, <3>3
  <2> QED
    BY <2>2, <2>3
<1>4. NameMoved(Repointed(keys, j.gone, j.into), m, n) = {Back(Via(k)) : k \in keys}
  BY DEF NameMoved, Repointed
<1>5. AliasesMoved(Repointed(aliases, j.gone, j.into), m, n) = {BackA(Via(a)) : a \in aliases}
  BY DEF AliasesMoved, Repointed
<1>6. /\ {To(k) : k \in keys} = Repointed(keys, j.gone, n)
      /\ {To(a) : a \in aliases} = Repointed(aliases, j.gone, n)
  BY DEF Repointed
<1> HIDE DEF Via, To, Back, BackA
<1>7. {Back(Via(k)) : k \in keys} = {To(k) : k \in keys}
  BY <1>2
<1>8. {BackA(Via(a)) : a \in aliases} = {To(a) : a \in aliases}
  BY <1>3
<1> QED
  BY <1>4, <1>5, <1>6, <1>7, <1>8

LEMMA AcceptUndo ==
  ASSUME ReviewTypeOK, RowsInv, MergesInv, KnownInv, JobInv, AloneInv,
         NEW p \in Reviewers, Accept(p)
  PROVE  UndoInv'
<1>1. PICK j, down :
        /\ j = job[p] /\ j.kind = "accept" /\ j.into \in Ids /\ j.gone \in Ids
        /\ j.ext \in Natives /\ j.into # j.gone
        /\ Accepts(j, down) /\ keys' = Repointed(keys, j.gone, j.into)
  <2>1. job[p].into # job[p].gone
    BY AcceptDoes DEF JobInv
  <2> QED
    BY <2>1, AcceptDoes, AcceptKeys
<1>2. CASE ~(~overlapped /\ Separate(j))
  BY <1>1, <1>2 DEF Accepts, UndoInv
<1>3. CASE ~overlapped /\ Separate(j)
  <2>1. PICK no, g, m, n :
          /\ no = Cardinality(merges) + 1 /\ n = nextId
          /\ g = [id |-> j.gone, ext |-> j.ext]
          /\ m = [no |-> no, into |-> j.into, source |-> j.source,
                  native |-> j.native, via |-> j.pair]
    OBVIOUS
  <2>2. /\ before'.merge = no /\ before'.keys = Named(keys, cis)
        /\ before'.aliases = Named(aliases, cis)
        /\ aliases' = Repointed(aliases, j.gone, j.into)
        /\ cis' = {r \in cis : r.ext # j.ext} /\ nextId' = n
        /\ merges' = merges \cup {m}
    BY <1>1, <1>3, <2>1 DEF Accepts, counts
  <2>3. g \in cis /\ g \in CI /\ g.id = j.gone /\ g.ext = j.ext
    BY <1>1, <1>3, <2>1 DEF AloneInv, ReviewTypeOK
  <2>4. m.no = no /\ m.into = j.into /\ m.source = j.source /\ m.native = j.native
    BY <2>1
  <2>5. no # 0 /\ \A x \in merges' : x.no = no => x = m
    <3>1. /\ Cardinality(merges) \in Nat
          /\ \A x \in merges : x.no <= Cardinality(merges) /\ x.no \in Nat
      BY FS_CardinalityType DEF MergesInv, ReviewTypeOK, Merge
    <3> QED
      BY <2>1, <2>2, <3>1
  <2>6. j.native = j.ext
    <3>1. PICK k \in keys : k.id = j.gone /\ k.native = j.ext
      BY <2>3 DEF RowsInv
    <3>2. <<k.source, k.native>> \in {<<l.source, l.native>> : l \in {y \in keys : y.id = j.gone}}
      BY <3>1
    <3>3. <<k.source, k.native>> = <<j.source, j.native>>
      BY <1>3, <3>2 DEF Separate
    <3> QED
      BY <3>1, <3>3
  <2>7. /\ \A r \in cis : r.id \in Ids /\ r.id < nextId
        /\ \A k \in keys : k.id \in Ids /\ k.id < nextId
        /\ \A a \in aliases : a.id \in Ids /\ a.id < nextId
    BY DEF KnownInv, ReviewTypeOK, CI, Key, Alias
  <2>8. \A x \in Ids : x < nextId => x # nextId
    BY SomeIds
  <2>9. /\ \A r \in cis : r.id # n
        /\ \A k \in keys : k.id # n
        /\ \A a \in aliases : a.id # n
    BY <2>1, <2>7, <2>8
  <2>10. /\ Named(Repointed(keys, g.id, n), Renamed(cis, g, n)) = Named(keys, cis)
         /\ Named(Repointed(aliases, g.id, n), Renamed(cis, g, n)) = Named(aliases, cis)
    <3>1. /\ keys \in SUBSET (Key \cup Alias) /\ aliases \in SUBSET (Key \cup Alias)
          /\ cis \in SUBSET CI
          /\ \A r, q \in cis : (r.id = q.id \/ r.ext = q.ext) => r = q
      BY DEF ReviewTypeOK, RowsInv
    <3> QED
      BY <2>3, <2>9, <3>1, RenamedIs
  <2>11. Renamed(cis, g, n) = cis' \cup {[id |-> nextId', ext |-> m.native]}
    BY <2>2, <2>3, <2>4, <2>6 DEF Renamed
  <2>12. /\ NameMoved(Repointed(keys, j.gone, j.into), m, n) = Repointed(keys, j.gone, n)
         /\ AliasesMoved(Repointed(aliases, j.gone, j.into), m, n)
              = Repointed(aliases, j.gone, n)
    BY <1>1, <1>3, <2>4, SplitAgain
  <2>13. /\ NameMoved(keys', m, nextId') = Repointed(keys, g.id, n)
         /\ AliasesMoved(aliases', m, nextId') = Repointed(aliases, g.id, n)
    BY <1>1, <2>2, <2>3, <2>12
  <2>14. \A r \in cis' : r.ext # m.native
    BY <2>2, <2>4, <2>6
  <2>15. GivesBack(m)'
    BY <2>2, <2>10, <2>11, <2>13, <2>14 DEF GivesBack
  <2> QED
    BY <2>2, <2>5, <2>15 DEF UndoInv
<1> QED
  BY <1>2, <1>3

\* What a reviewer starts or rolls back changes nothing that was noted.
LEMMA SameUndo ==
  ASSUME UndoInv, UNCHANGED <<cis, keys, aliases, merges, nextId, before>>
  PROVE  UndoInv'
<1>1. \A m : GivesBack(m)' = GivesBack(m)
  BY DEF GivesBack
<1> QED
  BY <1>1 DEF UndoInv

-----------------------------------------------------------------------------
(* The invariant.                                                          *)

ReviewInv ==
  /\ ReviewTypeOK /\ RowsInv /\ EdgesInv /\ MergesInv /\ KnownInv /\ JobInv
  /\ CandInv /\ AloneInv /\ UndoInv
  /\ ~overlapped => Shown /\ Bound

LEMMA InitReviewInv == ReviewInit => ReviewInv
<1> SUFFICES ASSUME ReviewInit PROVE ReviewInv
  OBVIOUS
<1> USE DEF ReviewInit
<1>1. ReviewTypeOK
  <2>1. nextId \in 0..MaxId /\ connected \in 0..MaxEdges /\ reviews \in 0..MaxReviews
    BY ReviewBoundsAssumption
  <2>2. /\ cand \in [Pairs -> {"none", "pending", "accepted", "dismissed"}]
        /\ job \in [Reviewers -> Job \cup {NoJob}]
    OBVIOUS
  <2>3. /\ cis \subseteq CI /\ keys \subseteq Key /\ aliases \subseteq Alias
        /\ edges \subseteq Edge /\ vertices \subseteq Ids /\ links \subseteq Ids \X Ids
        /\ merges \subseteq Merge
        /\ unmerges \subseteq [merge: 1..MaxMerges, restored: Ids] /\ overlapped \in BOOLEAN
    OBVIOUS
  <2> QED
    BY <2>1, <2>2, <2>3 DEF ReviewTypeOK
<1>2. RowsInv /\ EdgesInv
  BY DEF RowsInv, EdgesInv
<1>3. MergesInv
  BY FS_EmptySet DEF MergesInv
<1>4. KnownInv /\ JobInv /\ AloneInv /\ UndoInv
  BY DEF KnownInv, JobInv, AloneInv, UndoInv, NoJob
<1>5. CandInv
  <2>1. \A q \in Pairs : cand[q] # "accepted" /\ Of(q) = {}
    BY DEF Of
  <2> QED
    BY <2>1 DEF CandInv
<1>6. Shown /\ Bound
  BY DEF Shown, Bound, Open
<1> QED
  BY <1>1, <1>2, <1>3, <1>4, <1>5, <1>6 DEF ReviewInv

LEMMA OpensNext ==
  ASSUME NEW i, NEW e, Opens(i, e)
  PROVE  cis \subseteq cis' /\ \A r \in cis' : r \in cis \/ r.id = nextId
BY DEF Opens

LEMMA DiscoverReviewInv ==
  ASSUME ReviewInv, NEW n \in Natives, Discover(n)
  PROVE  ReviewInv'
<1> USE DEF ReviewInv
<1>1. ReviewTypeOK' /\ RowsInv' /\ MergesInv' /\ KnownInv' /\ NamesStay
  BY DiscoverTyped, DiscoverRows
<1>2. /\ UNCHANGED <<edges, job, overlapped>> /\ before' = NoUndo
      /\ \A u \in Reviewers : job'[u] = job[u]
  BY DEF Discover
<1>3. cis \subseteq cis' /\ \A r \in cis' : r \in cis \/ r.id = nextId
  BY DiscoverDoes, OpensNext
<1>4. JobInv'
  BY <1>1, <1>2, <1>3, JobsGoOn
<1>5. EdgesInv' /\ UndoInv'
  BY <1>2 DEF EdgesInv, UndoInv
<1>6. CandInv' /\ AloneInv'
  BY <1>2, <1>3, DiscoverCand, OpensAlone
<1>7. ~overlapped' => Shown' /\ Bound'
  BY <1>2, DiscoverShown
<1> QED
  BY <1>1, <1>4, <1>5, <1>6, <1>7

LEMMA ConnectReviewInv ==
  ASSUME ReviewInv, NEW r \in cis, NEW q \in cis, NEW s \in Linkers, NEW d \in BOOLEAN,
         Connect(r.id, q.id, d, s)
  PROVE  ReviewInv'
<1> USE DEF ReviewInv
<1>1. /\ UNCHANGED <<cis, keys, aliases, merges, job, nextId, cand, overlapped>>
      /\ before' = NoUndo
  BY DEF Connect
<1>2. ReviewTypeOK' /\ EdgesInv' /\ KnownInv'
  <2>1. r.id \in Ids /\ q.id \in Ids
    BY DEF ReviewTypeOK, CI
  <2>2. EdgesInv'
    BY <2>1, ConnectEdges
  <2> QED
    BY <2>2, ConnectTyped, ConnectRows
<1>3. RowsInv' /\ MergesInv' /\ NamesStay
  BY <1>1, SameRows
<1>4. JobInv' /\ UndoInv' /\ AloneInv'
  BY <1>1, OpensAlone DEF JobInv, UndoInv
<1>5. CandInv'
  BY <1>1 DEF CandInv, Of
<1>6. ~overlapped' => Shown' /\ Bound'
  BY <1>1, ConnectShown
<1> QED
  BY <1>2, <1>3, <1>4, <1>5, <1>6

LEMMA CandidateReviewInv ==
  ASSUME ReviewInv, NEW q \in Pairs, Generate(q) \/ Dismiss(q)
  PROVE  ReviewInv'
<1> USE DEF ReviewInv
<1>1. /\ UNCHANGED <<cis, keys, aliases, edges, vertices, links, merges, job, nextId,
                     overlapped>>
      /\ before' = NoUndo
  BY DEF Generate, Dismiss, counts
<1>2. ReviewTypeOK' /\ CandInv'
  BY CandTyped, CandidateCand
<1>3. RowsInv' /\ MergesInv'
  BY <1>1, SameRows
<1>4. JobInv' /\ UndoInv' /\ AloneInv' /\ EdgesInv'
  BY <1>1, OpensAlone DEF JobInv, UndoInv, EdgesInv
<1>5. KnownInv'
  BY <1>1 DEF KnownInv
<1>6. ~overlapped' => Shown' /\ Bound'
  BY <1>1 DEF Shown, Bound, Open
<1> QED
  BY <1>2, <1>3, <1>4, <1>5, <1>6

LEMMA StartReviewInv ==
  ASSUME ReviewInv, NEW p \in Reviewers, NEW j \in Job, Start(p, j),
         j.kind = "accept" =>
           /\ j.into # j.gone /\ Open(j.into) /\ [id |-> j.gone, ext |-> j.ext] \in cis
           /\ \E k \in keys : k.source = j.source /\ k.native = j.native,
         j.kind = "unmerge" => j.merge \in merges
  PROVE  ReviewInv'
<1> USE DEF ReviewInv
<1>1. /\ UNCHANGED <<cis, keys, aliases, edges, vertices, links, cand, merges, nextId, before>>
      /\ ~overlapped' => ~overlapped
  BY DEF Start, tables, ReviewTypeOK
<1>2. j.kind = "accept" => \A r \in cis : r.id = j.gone => r.ext = j.ext
  <2> SUFFICES ASSUME j.kind = "accept", NEW r \in cis, r.id = j.gone PROVE r.ext = j.ext
    OBVIOUS
  <2>1. PICK g \in cis : g.id = j.gone /\ g.ext = j.ext
    <3>1. [id |-> j.gone, ext |-> j.ext] \in cis
      OBVIOUS
    <3> QED
      BY <3>1
  <2> QED
    BY <2>1 DEF RowsInv
<1>3. ReviewTypeOK' /\ KnownInv' /\ JobInv' /\ AloneInv'
  BY <1>2, StartTyped, StartRows, StartAlone
<1>4. RowsInv' /\ MergesInv' /\ UndoInv'
  BY <1>1, SameRows, SameUndo
<1>5. EdgesInv' /\ CandInv'
  BY <1>1 DEF EdgesInv, CandInv, Of
<1>6. ~overlapped' => Shown' /\ Bound'
  BY <1>1 DEF Shown, Bound, Open
<1> QED
  BY <1>3, <1>4, <1>5, <1>6

LEMMA RollbackReviewInv ==
  ASSUME ReviewInv, NEW p \in Reviewers, Rollback(p)
  PROVE  ReviewInv'
<1> USE DEF ReviewInv
<1>1. /\ UNCHANGED <<cis, keys, aliases, edges, vertices, links, cand, merges, unmerges,
                     nextId, connected, reviews, overlapped, before>>
      /\ job[p] # NoJob /\ Done(p)
  BY DEF Rollback, tables, counts
<1>2. ReviewTypeOK'
  BY <1>1, DoneIs DEF ReviewTypeOK
<1>3. KnownInv' /\ AloneInv'
  BY <1>1, RollbackRows, DoneAlone
<1>4. RowsInv' /\ MergesInv' /\ UndoInv' /\ NamesStay
  BY <1>1, SameRows, SameUndo
<1>5. JobInv'
  BY <1>1, <1>4, RollbackRows, JobsGoOn
<1>6. EdgesInv' /\ CandInv'
  BY <1>1 DEF EdgesInv, CandInv, Of
<1>7. ~overlapped' => Shown' /\ Bound'
  BY <1>1 DEF Shown, Bound, Open
<1> QED
  BY <1>2, <1>3, <1>4, <1>5, <1>6, <1>7

LEMMA AcceptReviewInv ==
  ASSUME ReviewInv, NEW p \in Reviewers, Accept(p)
  PROVE  ReviewInv'
<1> USE DEF ReviewInv
<1>1. ReviewTypeOK' /\ RowsInv' /\ MergesInv' /\ KnownInv' /\ NamesStay
  BY AcceptTyped, AcceptRows
<1>2. EdgesInv' /\ CandInv' /\ UndoInv'
  BY AcceptEdges, AcceptCand, AcceptUndo
<1>3. Done(p) /\ job[p] # NoJob /\ overlapped' = overlapped
  <2>1. overlapped' = overlapped
    BY AcceptDoes DEF Accepts
  <2> QED
    BY <2>1, AcceptDoes DEF NoJob
<1>4. AloneInv'
  BY <1>3, DoneAlone
<1>5. JobInv'
  <2>1. \A u \in Reviewers : job'[u] = job[u] \/ job'[u] = NoJob
    BY <1>3, DoneIs
  <2>2. \A r \in cis' : r \in cis
    BY AcceptDoes DEF Accepts
  <2> QED
    BY <1>1, <2>1, <2>2, JobsGoOn
<1>6. ~overlapped' => Shown' /\ Bound'
  BY <1>3, AcceptShown
<1> QED
  BY <1>1, <1>2, <1>4, <1>5, <1>6

LEMMA UnmergeReviewInv ==
  ASSUME ReviewInv, NEW p \in Reviewers, Unmerge(p)
  PROVE  ReviewInv'
<1> USE DEF ReviewInv
<1>1. ReviewTypeOK' /\ RowsInv' /\ MergesInv' /\ KnownInv' /\ NamesStay
  BY UnmergeTyped, UnmergeRows
<1>2. EdgesInv'
  BY UnmergeEdges
<1>3. /\ Done(p) /\ job[p] # NoJob
      /\ UNCHANGED <<overlapped, cand, merges>> /\ before' = NoUndo
  <2>1. UNCHANGED <<overlapped, cand, merges>> /\ before' = NoUndo
    BY UnmergeDoes DEF Unmerges
  <2> QED
    BY <2>1, UnmergeDoes DEF NoJob
<1>4. AloneInv' /\ CandInv' /\ UndoInv'
  BY <1>3, DoneAlone DEF CandInv, Of, UndoInv
<1>5. JobInv'
  <2>1. \A u \in Reviewers : job'[u] = job[u] \/ job'[u] = NoJob
    BY <1>3, DoneIs
  <2>2. \A r \in cis' : r \in cis \/ r.id = nextId
    BY UnmergeDoes, OpensNext DEF Unmerges
  <2> QED
    BY <1>1, <2>1, <2>2, JobsGoOn
<1>6. ~overlapped' => Shown' /\ Bound'
  BY <1>3, UnmergeShown
<1> QED
  BY <1>1, <1>2, <1>4, <1>5, <1>6

LEMMA ReviewStep == ReviewInv /\ [ReviewNext]_reviewVars => ReviewInv'
<1> SUFFICES ASSUME ReviewInv, [ReviewNext]_reviewVars PROVE ReviewInv'
  OBVIOUS
<1>1. CASE \E n \in Natives : Discover(n)
  BY <1>1, DiscoverReviewInv
<1>2. CASE \E r, q \in cis, s \in Linkers, d \in BOOLEAN : Connect(r.id, q.id, d, s)
  BY <1>2, ConnectReviewInv
<1>3. CASE \E q \in Pairs : Generate(q) \/ Dismiss(q)
  BY <1>3, CandidateReviewInv
<1>4. ASSUME NEW p \in Reviewers, NEW q \in Pairs, StartAccept(p, q)
      PROVE  ReviewInv'
  <2>1. PICK j \in Job :
          /\ Start(p, j) /\ j.kind = "accept" /\ j.into # j.gone
          /\ Open(j.into) /\ [id |-> j.gone, ext |-> j.ext] \in cis
          /\ \E k \in keys : k.source = j.source /\ k.native = j.native
    BY <1>4, StartAcceptDoes DEF ReviewInv
  <2> QED
    BY <2>1, StartReviewInv
<1>5. ASSUME NEW p \in Reviewers, NEW m \in merges, StartUnmerge(p, m)
      PROVE  ReviewInv'
  <2>1. PICK j \in Job : Start(p, j) /\ j.kind = "unmerge" /\ j.merge = m
    BY <1>5, StartUnmergeDoes DEF ReviewInv
  <2> QED
    BY <2>1, StartReviewInv
<1>6. CASE \E p \in Reviewers : Accept(p)
  BY <1>6, AcceptReviewInv
<1>7. CASE \E p \in Reviewers : Unmerge(p)
  BY <1>7, UnmergeReviewInv
<1>8. CASE \E p \in Reviewers : Rollback(p)
  BY <1>8, RollbackReviewInv
<1>9. CASE UNCHANGED reviewVars
  <2>1. UNCHANGED <<cis, keys, aliases, edges, vertices, links, cand, merges, unmerges,
                    job, nextId, connected, reviews, overlapped, before>>
    BY <1>9 DEF reviewVars, tables, counts
  <2>2. RowsInv' /\ MergesInv' /\ UndoInv'
    BY <2>1, SameRows, SameUndo DEF ReviewInv
  <2>3. ReviewTypeOK' /\ EdgesInv' /\ KnownInv' /\ JobInv' /\ CandInv' /\ AloneInv'
    BY <2>1 DEF ReviewInv, ReviewTypeOK, EdgesInv, KnownInv, JobInv, CandInv, Of, AloneInv, Open
  <2>4. ~overlapped' => Shown' /\ Bound'
    BY <2>1 DEF ReviewInv, Shown, Bound, Open
  <2> QED
    BY <2>2, <2>3, <2>4 DEF ReviewInv
<1> QED
  BY <1>1, <1>2, <1>3, <1>4, <1>5, <1>6, <1>7, <1>8, <1>9 DEF ReviewNext

LEMMA ReviewInvariant == ReviewSpec => []ReviewInv
BY InitReviewInv, ReviewStep, PTL DEF ReviewSpec

\* Every row, candidate, merge and review of the model is of its type.
THEOREM ReviewTypeCorrect == ReviewSpec => []ReviewTypeOK
<1>1. ReviewInv => ReviewTypeOK
  BY DEF ReviewInv
<1> QED
  BY <1>1, ReviewInvariant, PTL

\* An accepted candidate was merged exactly once and any other never.
THEOREM AcceptedOnceCorrect == ReviewSpec => []AcceptedOnce
<1>1. ReviewInv => AcceptedOnce
  <2> SUFFICES ASSUME CandInv, NEW q \in Pairs
               PROVE  Cardinality({m \in merges : m.via = q})
                        = IF cand[q] = "accepted" THEN 1 ELSE 0
    BY DEF ReviewInv, AcceptedOnce
  <2>1. Of(q) = {m \in merges : m.via = q}
    BY DEF Of
  <2>2. \A m : Cardinality({m}) = 1
    BY FS_Singleton
  <2> QED
    BY <2>1, <2>2, FS_EmptySet DEF CandInv
<1> QED
  BY <1>1, ReviewInvariant, PTL

\* Merging and splitting, and the discovery in between, leave the graph what the
\* store says, unless reviews overlapped.
THEOREM GraphShowsStoreCorrect == ReviewSpec => []GraphShowsStore
<1>1. ReviewInv => GraphShowsStore
  BY ShownIs DEF ReviewInv
<1> QED
  BY <1>1, ReviewInvariant, PTL

\* Unless reviews overlapped, every name is bound to an open CI.
THEOREM BindingsLiveCorrect == ReviewSpec => []BindingsLive
<1>1. ReviewInv => BindingsLive
  BY DEF ReviewInv, BindingsLive, Bound
<1> QED
  BY <1>1, ReviewInvariant, PTL

\* An unmerge right after the accept of two CIs that were told apart by their
\* source gives every name back to the CI that had it.
THEOREM UndoRestoresCorrect == ReviewSpec => UndoRestores
<1> DEFINE Restores(p) ==
      (/\ job[p].kind = "unmerge" /\ unmerges' # unmerges
       /\ job'[p] = NoJob /\ before.merge = job[p].merge.no)
      => Named(keys', cis') = before.keys /\ Named(aliases', cis') = before.aliases
<1>1. ReviewInv /\ [ReviewNext]_reviewVars => [\A p \in Reviewers : Restores(p)]_reviewVars
  <2> SUFFICES ASSUME ReviewInv, [ReviewNext]_reviewVars, NEW p \in Reviewers,
                      job[p].kind = "unmerge", unmerges' # unmerges, job'[p] = NoJob,
                      before.merge = job[p].merge.no
               PROVE  /\ Named(keys', cis') = before.keys
                      /\ Named(aliases', cis') = before.aliases
    OBVIOUS
  <2>1. PICK u \in Reviewers : Unmerge(u)
    BY DEF ReviewNext, Discover, Connect, Generate, Dismiss, StartAccept, StartUnmerge,
           Start, Accept, Rollback, tables, reviewVars
  <2>2. /\ job[u].kind = "unmerge" /\ job[u].merge \in merges /\ Done(u)
        /\ \E i, down, up : Unmerges(job[u].merge, i, down, up)
    BY <2>1, UnmergeDoes DEF ReviewInv
  <2>3. u = p
    <3>1. job'[p] # job[p]
      BY DEF NoJob
    <3> QED
      BY <2>2, <3>1, DoneIs DEF ReviewInv
  <2>4. PICK m, i, down, up : m = job[p].merge /\ m \in merges /\ Unmerges(m, i, down, up)
    BY <2>2, <2>3
  <2>5. before # NoUndo
    <3>1. m.no # 0
      BY <2>4 DEF ReviewInv, ReviewTypeOK, Merge
    <3> QED
      BY <2>4, <3>1 DEF NoUndo
  <2>6. GivesBack(m)
    BY <2>4, <2>5 DEF ReviewInv, UndoInv
  <2>7. i = nextId /\ cis' = cis \cup {[id |-> nextId, ext |-> m.native]}
    <3>1. [id |-> i, ext |-> m.native] \notin cis
      BY <2>6 DEF GivesBack
    <3> QED
      BY <2>4, <3>1 DEF Unmerges, Opens
  <2>8. keys' = NameMoved(keys, m, nextId) /\ aliases' = AliasesMoved(aliases, m, nextId)
    BY <2>4, <2>7 DEF Unmerges, NameMoved, AliasesMoved, SplitAliases
  <2> QED
    BY <2>6, <2>7, <2>8 DEF GivesBack
<1> QED
  BY <1>1, ReviewInvariant, PTL DEF ReviewSpec, UndoRestores

==============================================================================
