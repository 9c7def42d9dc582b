------------------------------ MODULE GraphQuery -----------------------------
(***************************************************************************)
(* The graph queries of services/query: blast radius, what-if impact,      *)
(* reachability and root cause, all of them a breadth-first search from    *)
(* one CI with a bound on its depth.                                       *)
(*                                                                         *)
(* A query asks the database for the neighbours of one CI at a time, under *)
(* READ COMMITTED: reconciliation may commit between any two of its        *)
(* statements, and no answer need describe the graph of any one moment.    *)
(* `steady' and `ever' hold what stayed, and what was there at some time,  *)
(* since the query began: an answer can be judged against those.           *)
(***************************************************************************)
EXTENDS Integers, Sequences, FiniteSetsExt, SequencesExt

CONSTANTS
  CIs,
  Links,        \* edges there may be: [type, from, to, key, loss]
  Queries,      \* what is asked, of Walks
  None,
  MaxDepth, MaxFanout, MaxLoss,    \* max_depth, max_fanout, min_confidence
  Feed,         \* bound: events of the change feed: [subjects, late]
  MaxChanges    \* bound: changes of the graph

OUTGOING_IMPACT == {"CONTAINS"}
INCOMING_IMPACT == {"DEPENDS_ON", "RUNS_ON", "ROUTES_TO", "EXPOSES"}
REACHABILITY_EDGE_TYPES == {"CONNECTS_TO", "ROUTES_TO", "HAS_ACCESS_TO", "EXPOSES"}

Types == OUTGOING_IMPACT \cup INCOMING_IMPACT \cup REACHABILITY_EDGE_TYPES
Walks == {"blast_radius", "what_if_impact", "reachability", "root_cause"}

\* An edge of confidence 1/2^loss: along a path confidences multiply and losses add.
ASSUME CIsAssumption == IsFiniteSet(CIs)
ASSUME LinksAssumption ==
  \A e \in Links : e.from \in CIs /\ e.to \in CIs /\ e.type \in Types /\ e.loss \in Nat
ASSUME QueriesAssumption == Queries \subseteq Walks /\ None \notin CIs
ASSUME FeedAssumption == \A v \in Feed : v.subjects \subseteq CIs /\ v.late \in BOOLEAN
ASSUME BoundsAssumption ==
  /\ MaxDepth \in Nat \ {0} /\ MaxFanout \in Nat /\ MaxLoss \in Nat /\ MaxChanges \in Nat

VARIABLES
  changes,
  graph,         \* [edges, open]: the current edges and CIs
  steady, ever,  \* history: what of them stayed, and was, since the query began
  at, walk, source,
  depth,         \* the depth being explored
  frontier,      \* CIs of the depth before, still to be expanded
  read,          \* rows that the first statement returned for Head(frontier); None: not yet
  next,          \* next_frontier
  distance,      \* visited: of the CIs found so far, the depth
  pred,          \* predecessor: of each but the source, the [ci, type] it was found by;
                 \* history for blast_radius and root_cause, which keep none
  supernodes,    \* truncated_supernodes
  reported,      \* the CIs of the answer
  loss,          \* what-if: of each hop, by the CI it leads to, its edge's loss
  causes         \* root cause: candidates, as [event, distance]

world  == <<changes, graph, steady, ever>>
query  == <<walk, source>>
search == <<depth, frontier, read, next, distance, pred, supernodes>>
answer == <<reported, loss, causes>>
vars == <<world, at, query, search, answer>>

Graph == [edges: SUBSET Links, open: SUBSET CIs]

TypeOK ==
  /\ changes \in 0..MaxChanges
  /\ graph \in Graph /\ steady \in Graph /\ ever \in Graph
  /\ at \in {"idle", "search", "resolve", "evidence", "done"}
  /\ walk \in Walks
  /\ source \in CIs \cup {None}
  /\ depth \in 1..MaxDepth
  /\ frontier \in Seq(CIs) /\ next \in Seq(CIs)
  /\ read \in (SUBSET [ci: CIs, type: Types]) \cup {None}
  /\ \E V \in SUBSET CIs : distance \in [V -> 0..MaxDepth]
  /\ \E V \in SUBSET CIs : pred \in [V -> [ci: CIs, type: Types]]
  /\ supernodes \subseteq [ci: CIs, degree: Nat, depth: 0..MaxDepth]
  /\ reported \subseteq CIs
  /\ \E V \in SUBSET CIs : loss \in [V -> Nat]
  /\ causes \subseteq [event: Feed, distance: 0..MaxDepth]

NoFunction == [c \in {} |-> 0]

Init ==
  /\ changes = 0
  /\ \E E \in SUBSET Links : graph = [edges |-> E, open |-> CIs]
  /\ steady = graph /\ ever = graph
  /\ at = "idle" /\ walk = "blast_radius" /\ source = None
  /\ depth = 1 /\ frontier = <<>> /\ read = None /\ next = <<>>
  /\ distance = NoFunction /\ pred = NoFunction /\ supernodes = {}
  /\ reported = {} /\ loss = NoFunction /\ causes = {}

-----------------------------------------------------------------------------
Meet(g, h) == [edges |-> g.edges \cap h.edges, open |-> g.open \cap h.open]
Join(g, h) == [edges |-> g.edges \cup h.edges, open |-> g.open \cup h.open]

\* A reconciliation commits while the query runs.
Becomes(g) ==
  /\ at \notin {"idle", "done"} /\ changes < MaxChanges
  /\ changes' = changes + 1
  /\ graph' = g /\ steady' = Meet(steady, g) /\ ever' = Join(ever, g)
  /\ UNCHANGED <<at, query, search, answer>>

Observe == \E e \in Links \ graph.edges :
             e.from \in graph.open /\ e.to \in graph.open
             /\ Becomes([graph EXCEPT !.edges = @ \cup {e}])
Retire  == \E e \in graph.edges : Becomes([graph EXCEPT !.edges = @ \ {e}])

\* A CI disappears, and with it what it was an end of.
Disappear ==
  \E c \in graph.open :
    Becomes([edges |-> {e \in graph.edges : c \notin {e.from, e.to}}, open |-> graph.open \ {c}])

-----------------------------------------------------------------------------
\* The rows that lead from a CI along edges of some types, and back along them.
Along(E, c, types) ==
  {[ci |-> e.to, type |-> e.type] : e \in {x \in E : x.from = c /\ x.type \in types}}
Against(E, c, types) ==
  {[ci |-> e.from, type |-> e.type] : e \in {x \in E : x.to = c /\ x.type \in types}}

Sure(E) == {e \in E : e.loss <= MaxLoss}

\* _impact_neighbors, _impact_neighbors_with_type, _upstream_neighbors, whose one caller
\* asks for no confidence, and _reachability_neighbors: what their statements return over
\* edges E.  There are two of them, but for _reachability_neighbors.
ImpactNeighbors(E, c) ==
  [first |-> Along(Sure(E), c, OUTGOING_IMPACT), second |-> Against(Sure(E), c, INCOMING_IMPACT)]
ImpactNeighborsWithType(E, c) ==
  [first |-> Along(Sure(E), c, OUTGOING_IMPACT), second |-> Against(Sure(E), c, INCOMING_IMPACT)]
UpstreamNeighbors(E, c) ==
  [first |-> Against(E, c, OUTGOING_IMPACT), second |-> Along(E, c, INCOMING_IMPACT)]
ReachabilityNeighbors(E, c) ==
  [first |-> {}, second |-> Against(Sure(E), c, REACHABILITY_EDGE_TYPES)]

RowsOf(w, E, c) ==
  CASE w = "blast_radius"   -> ImpactNeighbors(E, c)
    [] w = "what_if_impact" -> ImpactNeighborsWithType(E, c)
    [] w = "reachability"   -> ReachabilityNeighbors(E, c)
    [] w = "root_cause"     -> UpstreamNeighbors(E, c)

Neighbors(w, E, c) == {r.ci : r \in RowsOf(w, E, c).first \cup RowsOf(w, E, c).second}

\* The neighbours of Head(frontier) that a query has read: what its first statement has
\* returned, and what its second one returns now.
Earlier == IF walk = "reachability" THEN {} ELSE read
Now     == RowsOf(walk, graph.edges, Head(frontier)).second
Seen    == {r.ci : r \in Earlier \cup Now}

\* Of the rows of one neighbour the first is kept.
Hops(c, n) ==
  LET early == {r \in Earlier : r.ci = n}
      late  == {r \in Now : r.ci = n}
  IN {[ci |-> c, type |-> r.type] : r \in IF early # {} THEN early ELSE late}

Ask(w, c) ==
  /\ at = "idle" /\ w \in Queries /\ c \in graph.open
  /\ at' = "search"
  /\ walk' = w /\ source' = c
  /\ frontier' = <<c>>
  /\ distance' = [n \in {c} |-> 0]
  /\ UNCHANGED <<world, depth, read, next, pred, supernodes, answer>>

\* The endpoints, each of which answers 404 for a CI that is not current.
AskBlastRadius(c)  == Ask("blast_radius", c)
AskReachability(c) == Ask("reachability", c)
AskRootCause(c)    == Ask("root_cause", c)
AskWhatIf(c)       == Ask("what_if_impact", c)

\* Mutant: range(1, max_depth).
ProceedShort(rest, found) ==
  \/ /\ rest # <<>>
     /\ frontier' = rest /\ next' = found
     /\ UNCHANGED <<depth, at>>
  \/ /\ rest = <<>> /\ found # <<>> /\ depth < MaxDepth - 1
     /\ frontier' = found /\ next' = <<>> /\ depth' = depth + 1
     /\ UNCHANGED at
  \/ /\ rest = <<>> /\ (found = <<>> \/ depth >= MaxDepth - 1)
     /\ frontier' = <<>> /\ next' = <<>>
     /\ at' = "resolve"
     /\ UNCHANGED depth

\* The loop's end: the next CI, the next depth, or no more.
Proceed(rest, found) ==
  \/ /\ rest # <<>>
     /\ frontier' = rest /\ next' = found
     /\ UNCHANGED <<depth, at>>
  \/ /\ rest = <<>> /\ found # <<>> /\ depth < MaxDepth
     /\ frontier' = found /\ next' = <<>> /\ depth' = depth + 1
     /\ UNCHANGED at
  \/ /\ rest = <<>> /\ (found = <<>> \/ depth = MaxDepth)
     /\ frontier' = <<>> /\ next' = <<>>
     /\ at' = "resolve"
     /\ UNCHANGED depth

\* What f says, and what the entries of g do.
With(f, g) == [n \in DOMAIN f \cup DOMAIN g |-> IF n \in DOMAIN g THEN g[n] ELSE f[n]]

\* Mutant: a CI found again is entered again in predecessor.
EnterAgain(c, K) ==
  /\ \E via \in [K -> UNION {Hops(c, n) : n \in K}] :
       /\ \A n \in K : via[n] \in Hops(c, n)
       /\ pred' = With(pred, via)
  /\ distance' = With(distance, [n \in K \ DOMAIN distance |-> depth])

\* Mutant: the depth of the CI expanded.
EnterEarly(c, K) ==
  LET new == K \ DOMAIN distance
  IN /\ \E via \in [new -> UNION {Hops(c, n) : n \in new}] :
          /\ \A n \in new : via[n] \in Hops(c, n)
          /\ pred' = With(pred, via)
     /\ distance' = With(distance, [n \in new |-> distance[c]])

\* What is found is entered, but for what was visited before.
Enter(c, K) ==
  LET new == K \ DOMAIN distance
  IN /\ \E via \in [new -> UNION {Hops(c, n) : n \in new}] :
          /\ \A n \in new : via[n] \in Hops(c, n)
          /\ pred' = With(pred, via)
     /\ distance' = With(distance, [n \in new |-> depth])

\* The first of two statements for a CI of the frontier.
ReadFirst(w) ==
  /\ at = "search" /\ walk = w /\ read = None
  /\ read' = RowsOf(w, graph.edges, Head(frontier)).first
  /\ UNCHANGED <<world, at, query, depth, frontier, next, distance, pred, supernodes, answer>>

ReadBlastRadius  == ReadFirst("blast_radius")
ReadWhatIf       == ReadFirst("what_if_impact")
ReadNeighborhood == ReadFirst("root_cause")

\* One CI of the frontier: its neighbours K, in some order.
Explore(K) ==
  /\ Enter(Head(frontier), K)
  /\ \E order \in SetToSeqs(K \ DOMAIN distance) :
       Proceed(Tail(frontier), next \o order)
  /\ read' = None
  /\ UNCHANGED <<world, query, answer>>

\* Of more than max_fanout neighbours the first so many, and the CI is a supernode.
ExploreCut ==
  LET early == {r.ci : r \in Earlier}
  IN IF Cardinality(Seen) > MaxFanout
     THEN /\ \E K \in kSubset(MaxFanout, Seen) :
               (K \subseteq early \/ early \subseteq K) /\ Explore(K)
          /\ supernodes' = supernodes \cup {[ci |-> Head(frontier), degree |-> Cardinality(Seen),
                                            depth |-> distance[Head(frontier)]]}
     ELSE Explore(Seen) /\ UNCHANGED supernodes

Expand(w) == at = "search" /\ walk = w /\ read # None

ExpandBlastRadius  == Expand("blast_radius") /\ ExploreCut
ExpandWhatIf       == Expand("what_if_impact") /\ ExploreCut
ExpandReachability == at = "search" /\ walk = "reachability" /\ ExploreCut

\* _build_neighborhood knows no supernodes.
ExpandNeighborhood == Expand("root_cause") /\ Explore(Seen) /\ UNCHANGED supernodes

\* SELECT ... FROM cis: of what was discovered, the CIs that are current by now.
Resolve(w, then) ==
  /\ at = "resolve" /\ walk = w
  /\ reported' = DOMAIN pred \cap graph.open
  /\ at' = then
  /\ UNCHANGED <<world, query, search, loss, causes>>

ResolveBlastRadius  == Resolve("blast_radius", "done")
ResolveWhatIf       == Resolve("what_if_impact", IF reported' = {} THEN "done" ELSE "evidence")
ResolveReachability == Resolve("reachability", IF reported' = {} THEN "done" ELSE "evidence")
ResolveNeighborhood == Resolve("root_cause", "evidence")

\* The CIs on the path by which n was found.
PathTo(n) ==
  LET back[k \in 0..distance[n]] == IF k = 0 THEN n ELSE pred[back[k - 1]].ci
  IN {back[k] : k \in 0..distance[n] - 1}

\* what_if_impact's provenance of the hop that led to n: of the edges from the one it was
\* found by, to n; of several keys, the last row's; 1.0 if there is none.
Losses(n) ==
  LET rows == {e \in graph.edges : e.type = pred[n].type /\ e.from = pred[n].ci /\ e.to = n}
  IN IF rows = {} THEN {0} ELSE {e.loss : e \in rows}

\* The batch query for the hops.
ReadProvenance ==
  /\ at = "evidence" /\ walk = "what_if_impact"
  /\ at' = "done"
  /\ LET hops == UNION {PathTo(n) : n \in reported}
     IN \E f \in [hops -> UNION {Losses(n) : n \in hops}] :
          (\A n \in hops : f[n] \in Losses(n)) /\ loss' = f
  /\ UNCHANGED <<world, query, search, reported, causes>>

\* What it reads, the edges' evidence, is not modelled.
ReadEvidence ==
  /\ at = "evidence" /\ walk = "reachability"
  /\ at' = "done"
  /\ UNCHANGED <<world, query, search, answer>>

\* root_cause: of the change feed, the events before the incident about a CI of the
\* neighbourhood or an edge that ends in it, at the distance of the nearest.
Near(v) == v.subjects \cap (reported \cup {source})
Correlate ==
  /\ at = "evidence" /\ walk = "root_cause"
  /\ at' = "done"
  /\ \E V \in SUBSET Feed :
       causes' = {[event |-> v, distance |-> Min({distance[c] : c \in Near(v)})] :
                    v \in {v \in V : ~v.late /\ Near(v) # {}}}
  /\ UNCHANGED <<world, query, search, reported, loss>>

Next ==
  \/ Observe \/ Retire \/ Disappear
  \/ \E c \in CIs : AskBlastRadius(c) \/ AskReachability(c) \/ AskRootCause(c) \/ AskWhatIf(c)
  \/ ReadBlastRadius \/ ReadWhatIf \/ ReadNeighborhood
  \/ ExpandBlastRadius \/ ExpandWhatIf \/ ExpandReachability \/ ExpandNeighborhood
  \/ ResolveBlastRadius \/ ResolveWhatIf \/ ResolveReachability \/ ResolveNeighborhood
  \/ ReadProvenance \/ ReadEvidence \/ Correlate

Spec == Init /\ [][Next]_vars

-----------------------------------------------------------------------------
\* The CIs within d steps of the source, over edges E: what a search is to find.
Within(E, d) ==
  LET f[k \in 0..d] == IF k = 0 THEN {source}
                       ELSE f[k - 1] \cup UNION {Neighbors(walk, E, c) : c \in f[k - 1]}
  IN f[d]

\* What stayed within reach for as long as the query ran, and stayed current, is in its
\* answer, no farther away than it was; unless a supernode is reported, whose
\* neighbours were cut (the searches of blast_radius.py, whatif.py, reachability.py and rca.py).
NothingMissed ==
  at = "done" /\ supernodes = {} =>
    \A d \in 1..MaxDepth : \A n \in Within(steady.edges, d) \ {source} :
      n \in steady.open => n \in reported /\ distance[n] <= d

\* What is in the answer was within reach by that many edges, if not all of them at one
\* time.
NothingInvented ==
  at = "done" => \A n \in reported : n \in Within(ever.edges, distance[n])

\* The path that is reported for a CI leads to the source, by as many hops as its distance
\* and without a circle, over edges that were there, whatever commits meanwhile: the walk
\* back over predecessor in reachability.py and whatif.py ends.
PathsHold ==
  \A n \in DOMAIN distance \ {source} :
    /\ n \in DOMAIN pred
    /\ pred[n].ci \in DOMAIN distance
    /\ distance[n] = distance[pred[n].ci] + 1
    /\ n \in Neighbors(walk, ever.edges, pred[n].ci)

\* whatif.py: "base_path_confidence = product(hop.confidence for hop in evidence_path)",
\* a hop's confidence being "the edge's own confidence".  Of a graph that nobody changes,
\* each hop has the confidence of an edge between its two ends.
HopsHaveTheirEdges ==
  at = "done" /\ walk = "what_if_impact" /\ steady = ever =>
    \A n \in DOMAIN loss :
      \E e \in graph.edges :
        e.type = pred[n].type /\ {e.from, e.to} = {pred[n].ci, n} /\ e.loss = loss[n]

=============================================================================
