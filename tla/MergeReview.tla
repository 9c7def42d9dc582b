----------------------------- MODULE MergeReview -----------------------------
(***************************************************************************)
(* Review of merges: accepting and dismissing merge candidates             *)
(* (candidates.py), reversing merges (unmerge.py), by reviewers who work   *)
(* at the same time, and the observations of discovery in between          *)
(* (reconcile.py), which make merges of their own.                         *)
(*                                                                         *)
(* A reviewer's transaction reads what it decides on and then writes.  Its *)
(* writes are one step, the COMMIT: they find the rows as they are by      *)
(* then, for an UPDATE that meets a row locked by another transaction      *)
(* waits for it.  All CIs have one type, and full runs, which retire CIs,  *)
(* are left to Reconcile.                                                  *)
(***************************************************************************)
EXTENDS Integers, FiniteSets

CONSTANTS
  Reviewers,
  Natives,     \* external ids, ordered like the strings
  SourceOf,    \* SourceOf[n]: the source that observes n
  AliasOf,     \* AliasOf[n]: the alias key it gives
  Linkers,     \* the sources whose connectors emit edges
  Generation,  \* GENERATION_SOURCE
  MaxId,       \* bound: ids handed out to CIs
  MaxCands,    \* bound: rows of ci_merge_candidates
  MaxMerges,   \* bound: rows of ci_merges
  MaxEdges,    \* bound: edges observed
  MaxCites,    \* bound: external ids in the wording of an edge's evidence
  MaxReviews   \* bound: reviewers' transactions

ASSUME NativesAssumption ==
  /\ Natives \subseteq Nat /\ SourceOf \in [Natives -> Nat]
  /\ Linkers \subseteq {SourceOf[n] : n \in Natives}
  /\ Generation \in Nat \ {SourceOf[n] : n \in Natives}
ASSUME ReviewBoundsAssumption ==
  {MaxId, MaxCands, MaxMerges, MaxEdges, MaxCites, MaxReviews} \subseteq Nat

Ids     == 0..(MaxId - 1)
Sources == {SourceOf[n] : n \in Natives} \cup {Generation}
Pairs   == {q \in SUBSET Ids : Cardinality(q) = 2}     \* (ci_id_a, ci_id_b)

CI    == [id: Ids, ext: Natives]
Key   == [source: Sources, native: Natives, id: Ids]                \* source_keys
Alias == [alias: {AliasOf[n] : n \in Natives}, id: Ids, source: Sources]
Edge  == [from: Ids, to: Ids, declared: BOOLEAN,
          by: SUBSET Sources, cites: SUBSET Natives]      \* its evidence: source, detail
Merge == [no: 1..MaxMerges, into: Ids, source: Sources, native: Natives,
          via: Pairs \cup {{}}]                     \* {}: by an alias key
Job   == [kind: {"accept"}, pair: Pairs, into: Ids, gone: Ids, ext: Natives,
          source: Sources, native: Natives]
         \cup [kind: {"unmerge"}, merge: Merge]
NoJob == [kind |-> "none"]

VARIABLES
  cis, keys, aliases, edges,   \* the open rows
  vertices, links,             \* the graph; links are pairs of ids
  cand,                        \* cand[q]: status of the candidate q, or "none"
  merges, unmerges,            \* ci_merges, ci_unmerges
  job,                         \* job[p]: what p's transaction has decided on
  nextId, connected, reviews,
  overlapped,                  \* history: two reviews open at the same time
  before                       \* history: bindings before the last accept

tables     == <<cis, keys, aliases, edges, vertices, links, cand, merges, unmerges>>
counts     == <<nextId, connected, reviews>>
reviewVars == <<tables, job, counts, overlapped, before>>

NoUndo == [merge |-> 0, keys |-> {}, aliases |-> {}]

ReviewTypeOK ==
  /\ cis \subseteq CI /\ keys \subseteq Key /\ aliases \subseteq Alias
  /\ edges \subseteq Edge
  /\ vertices \subseteq Ids /\ links \subseteq Ids \X Ids
  /\ cand \in [Pairs -> {"none", "pending", "accepted", "dismissed"}]
  /\ merges \subseteq Merge
  /\ unmerges \subseteq [merge: 1..MaxMerges, restored: Ids]
  /\ job \in [Reviewers -> Job \cup {NoJob}]
  /\ nextId \in 0..MaxId /\ connected \in 0..MaxEdges /\ reviews \in 0..MaxReviews
  /\ overlapped \in BOOLEAN

ReviewInit ==
  /\ cis = {} /\ keys = {} /\ aliases = {} /\ edges = {} /\ vertices = {}
  /\ links = {} /\ merges = {} /\ unmerges = {}
  /\ cand = [q \in Pairs |-> "none"]
  /\ job = [p \in Reviewers |-> NoJob]
  /\ nextId = 0 /\ connected = 0 /\ reviews = 0
  /\ overlapped = FALSE /\ before = NoUndo

-----------------------------------------------------------------------------
Open(i)      == \E r \in cis : r.id = i
SourcesOf(i) == {k.source : k \in {x \in keys : x.id = i}}
ExtOf(i)     == (CHOOSE r \in cis : r.id = i).ext
Put(r)       == {x \in cis : x.id # r.id} \cup {r}
PutKey(K, k) == {x \in K : <<x.source, x.native>> # <<k.source, k.native>>} \cup {k}

\* Mutated Project: a closed CI only loses its edges.
ProjectKeepsClosed(in, up, down, out) ==
  LET there == vertices \cup in
      Ends(E) == {<<e.from, e.to>> : e \in E}
      linked == (links \cup {x \in Ends(up) : {x[1], x[2]} \subseteq there}) \ Ends(down)
  IN /\ vertices' = there
     /\ links' = {x \in linked : {x[1], x[2]} \cap out = {}}

\* project: the CIs in, the edges up among vertices, the others down, the CI out.
Project(in, up, down, out) ==
  LET there == vertices \cup in
      Ends(E) == {<<e.from, e.to>> : e \in E}
      linked == (links \cup {x \in Ends(up) : {x[1], x[2]} \subseteq there}) \ Ends(down)
  IN /\ vertices' = there \ out
     /\ links' = {x \in linked : {x[1], x[2]} \cap out = {}}

-----------------------------------------------------------------------------
(* Discovery.                                                              *)

\* reconcile, step 1, for the identity n: as in Reconcile, with the ci_merges row.
Discover(n) ==
  LET s     == SourceOf[n]
      own   == {r.id : r \in {x \in cis : x.ext = n}}
      other == {a.id : a \in {x \in aliases : x.alias = AliasOf[n] /\ x.source # s}}
      fused == IF own = {} THEN {i \in other : Open(i)} ELSE {}
      i     == IF own \cup fused = {} THEN nextId
               ELSE CHOOSE x \in own \cup fused : TRUE
      ext   == IF fused = {} THEN n ELSE ExtOf(i)
  IN /\ i < MaxId
     /\ fused # {} => Cardinality(merges) < MaxMerges
     /\ cis' = Put([id |-> i, ext |-> ext])
     /\ keys' = PutKey(keys, [source |-> s, native |-> n, id |-> i])
     /\ aliases' = {a \in aliases : a.alias # AliasOf[n]}
                   \cup {[alias |-> AliasOf[n], id |-> i, source |-> s]}
     /\ merges' = merges \cup {[no |-> Cardinality(merges) + 1, into |-> j, source |-> s,
                                native |-> n, via |-> {}] : j \in fused}
     /\ nextId' = IF i = nextId THEN nextId + 1 ELSE nextId
     /\ Project({i}, {}, {}, {})
     /\ before' = NoUndo
     /\ UNCHANGED <<edges, cand, unmerges, job, connected, reviews, overlapped>>

\* An edge between open CIs is observed, by a source that knows one of them, with
\* evidence in whose wording some external ids occur.
Connect(i, j, declared, s) ==
  /\ connected < MaxEdges /\ i # j
  /\ s \in SourcesOf(i) \cup SourcesOf(j)
  /\ ~\E e \in edges : e.from = i /\ e.to = j
  /\ \E cites \in {C \in SUBSET Natives : Cardinality(C) <= MaxCites} :
       LET e == [from |-> i, to |-> j, declared |-> declared, by |-> {s}, cites |-> cites]
       IN edges' = edges \cup {e} /\ Project({}, {e}, {}, {})
  /\ connected' = connected + 1
  /\ before' = NoUndo
  /\ UNCHANGED <<cis, keys, aliases, cand, merges, unmerges, job, nextId, reviews,
                 overlapped>>

-----------------------------------------------------------------------------
(* Candidates.                                                             *)

\* generate_candidates for one pair, whose score decides whether it qualifies;
\* a row that exists is refreshed or left alone.
Generate(q) ==
  /\ cand[q] = "none" /\ Cardinality({x \in Pairs : cand[x] # "none"}) < MaxCands
  /\ \A i \in q : Open(i)
  /\ \A i, j \in q : i # j => SourcesOf(i) \ SourcesOf(j) # {}
  /\ cand' = [cand EXCEPT ![q] = "pending"]
  /\ before' = NoUndo
  /\ UNCHANGED <<cis, keys, aliases, edges, vertices, links, merges, unmerges, job,
                 counts, overlapped>>

\* dismiss_candidate: a guarded UPDATE.
Dismiss(q) ==
  /\ cand[q] = "pending"
  /\ cand' = [cand EXCEPT ![q] = "dismissed"]
  /\ before' = NoUndo
  /\ UNCHANGED <<cis, keys, aliases, edges, vertices, links, merges, unmerges, job,
                 counts, overlapped>>

Start(p, j) ==
  /\ job[p] = NoJob /\ reviews < MaxReviews
  /\ job' = [job EXCEPT ![p] = j]
  /\ reviews' = reviews + 1
  /\ overlapped' = (overlapped \/ \E u \in Reviewers : job[u] # NoJob)
  /\ UNCHANGED <<tables, nextId, connected, before>>

\* Mutated Reversal: the id of the CI for its native id.
ReversalById(i) ==
  LET mine == {k \in keys : k.id = i}
  IN IF mine = {} THEN [source |-> Generation, native |-> i, id |-> i]
     ELSE [(CHOOSE k \in mine : \A x \in mine : k.source <= x.source) EXCEPT !.native = i]

\* The name under which unmerge will find what is merged: the smallest key of
\* the CI, or a synthetic one.
Reversal(i) ==
  LET mine == {k \in keys : k.id = i}
  IN IF mine = {} THEN [source |-> Generation, native |-> ExtOf(i), id |-> i]
     ELSE CHOOSE k \in mine : \A x \in mine :
            k.source < x.source \/ (k.source = x.source /\ k.native <= x.native)

\* accept_candidate, steps 1 to 4: the smaller external_id survives.
StartAccept(p, q) ==
  /\ cand[q] = "pending" /\ \A i \in q : Open(i)
  /\ \E i \in q, g \in q :
       /\ ExtOf(i) < ExtOf(g)
       /\ Reversal(g).native # ExtOf(i)
       /\ Start(p, [kind |-> "accept", pair |-> q, into |-> i, gone |-> g,
                    ext |-> ExtOf(g), source |-> Reversal(g).source,
                    native |-> Reversal(g).native])

\* Mutated StillPending: the UPDATE of the candidate has no guard.
StillPendingUnchecked(p) == job[p].kind = "accept"

\* UPDATE ci_merge_candidates ... WHERE status = 'pending', the lost race.
StillPending(p) == job[p].kind = "accept" /\ cand[job[p].pair] = "pending"

Turn(x, i, j) == IF x = i THEN j ELSE x

\* Mutated Repointed: the two ids swapped.
RepointedBack(K, i, j) == {[k EXCEPT !.id = Turn(@, j, i)] : k \in K}

\* UPDATE source_keys (ci_alias_keys) SET ci_id = j WHERE ci_id = i.
Repointed(K, i, j) == {[k EXCEPT !.id = Turn(@, i, j)] : k \in K}
Moved(e, i, j) == [e EXCEPT !.from = Turn(@, i, j), !.to = Turn(@, i, j)]
Parallel(E, e) == {x \in E : x.from = e.from /\ x.to = e.to}
Reopened(E, up) == (E \ UNION {Parallel(E, e) : e \in up}) \cup up

Done(p) == job' = [job EXCEPT ![p] = NoJob]

\* What the bindings and the aliases say, in names instead of ids.
Named(K, C) == {<<[x[1] EXCEPT !.id = 0], x[2].ext>> :
                  x \in {y \in K \X C : y[1].id = y[2].id}}

\* The two CIs of j are told apart by the source of the merged one: what that
\* one has is one native id and the aliases of this source, the other has none.
Separate(j) ==
  /\ {<<k.source, k.native>> : k \in {x \in keys : x.id = j.gone}}
       = {<<j.source, j.native>>}
  /\ \A a \in aliases : /\ a.id = j.gone => a.source = j.source
                        /\ a.id = j.into => a.source # j.source

\* accept_candidate, steps 5 to 10: everything bound to the merged CI and its
\* declared edges go to the canonical one, except an edge between the two.
Accept(p) ==
  /\ StillPending(p)
  /\ Cardinality(merges) < MaxMerges
  /\ LET j     == job[p]
         bound == IF j.source = Generation
                  THEN PutKey(keys, [source |-> Generation, native |-> j.native, id |-> j.gone])
                  ELSE keys
         down  == {e \in edges : /\ e.declared /\ j.gone \in {e.from, e.to}
                                 /\ {e.from, e.to} # {j.gone, j.into}}
         up    == {Moved(e, j.gone, j.into) : e \in down}
         no    == Cardinality(merges) + 1
     IN /\ keys' = Repointed(bound, j.gone, j.into)
        /\ aliases' = Repointed(aliases, j.gone, j.into)
        /\ edges' = Reopened(edges \ down, up)
        /\ cis' = {r \in cis : r.ext # j.ext}
        /\ merges' = merges \cup {[no |-> no, into |-> j.into, source |-> j.source,
                                   native |-> j.native, via |-> j.pair]}
        /\ cand' = [cand EXCEPT ![j.pair] = "accepted"]
        /\ Project({j.into}, up, down, {j.gone})
        /\ before' = IF ~overlapped /\ Separate(j)
                     THEN [merge |-> no, keys |-> Named(keys, cis),
                           aliases |-> Named(aliases, cis)]
                     ELSE NoUndo
  /\ Done(p)
  /\ UNCHANGED <<unmerges, counts, overlapped>>

\* unmerge, steps 1 to 3.
StartUnmerge(p, m) ==
  /\ ~\E u \in unmerges : u.merge = m.no
  /\ Open(m.into)
  /\ Start(p, [kind |-> "unmerge", merge |-> m])

\* Mutated SplitAliases: of every source.
SplitAliasesAll(m, i) == {[a EXCEPT !.id = Turn(@, m.into, i)] : a \in aliases}

\* UPDATE ci_alias_keys SET ci_id = i WHERE ci_id = .. AND source = ..
SplitAliases(m, i) ==
  {IF a.source = m.source THEN [a EXCEPT !.id = Turn(@, m.into, i)] ELSE a : a \in aliases}

\* _provenance_matches: by the source of what is split off, or by its external_id.
ProvenanceMatches(e, m) == m.source \in e.by \/ m.native \in e.cites

\* Of edges with the same ends one upsert replaces the other.
Upserted(E) == {U \in SUBSET E : \A e \in E : \E f \in E : Parallel(U, e) = {f}}

\* unmerge, steps 4 to 9.  The CI split off is upserted by its external_id,
\* without name and attributes.
Unmerge(p) ==
  /\ job[p].kind = "unmerge"
  /\ LET m    == job[p].merge
         own  == {r.id : r \in {x \in cis : x.ext = m.native}}
         i    == IF own = {} THEN nextId ELSE CHOOSE x \in own : TRUE
         down == {e \in edges : /\ e.declared /\ m.into \in {e.from, e.to}
                                /\ ProvenanceMatches(e, m)}
     IN /\ i < MaxId /\ i # m.into
        /\ cis' = Put([id |-> i, ext |-> m.native])
        /\ keys' = {IF k.source = m.source /\ k.native = m.native
                    THEN [k EXCEPT !.id = i] ELSE k : k \in keys}
        /\ aliases' = SplitAliases(m, i)
        /\ \E up \in Upserted({Moved(e, m.into, i) : e \in down}) :
             edges' = Reopened(edges \ down, up) /\ Project({i}, up, down, {})
        /\ unmerges' = unmerges \cup {[merge |-> m.no, restored |-> i]}
        /\ nextId' = IF i = nextId THEN nextId + 1 ELSE nextId
  /\ before' = NoUndo
  /\ Done(p)
  /\ UNCHANGED <<cand, merges, connected, reviews, overlapped>>

\* Any exception, among them the lost race for the candidate, a deadlock, or an
\* INSERT that meets another transaction's row.
Rollback(p) ==
  /\ job[p] # NoJob
  /\ Done(p)
  /\ UNCHANGED <<tables, counts, overlapped, before>>

ReviewNext ==
  \/ \E n \in Natives : Discover(n)
  \/ \E r, q \in cis, s \in Linkers, d \in BOOLEAN : Connect(r.id, q.id, d, s)
  \/ \E q \in Pairs : Generate(q) \/ Dismiss(q)
  \/ \E p \in Reviewers : \/ \E q \in Pairs : StartAccept(p, q)
                          \/ \E m \in merges : StartUnmerge(p, m)
                          \/ Accept(p) \/ Unmerge(p) \/ Rollback(p)

ReviewSpec == ReviewInit /\ [][ReviewNext]_reviewVars

-----------------------------------------------------------------------------
(* Properties.                                                             *)

\* However many reviewers race for a candidate, it is merged once if it is
\* accepted and never if it is dismissed.
AcceptedOnce ==
  \A q \in Pairs : Cardinality({m \in merges : m.via = q})
                     = IF cand[q] = "accepted" THEN 1 ELSE 0

\* As long as reviews do not overlap, the graph shows the open CIs and the open
\* edges between them after any merging and splitting.
GraphShowsStore ==
  ~overlapped =>
    /\ vertices = {r.id : r \in cis}
    /\ links = {<<e.from, e.to>> : e \in {x \in edges : Open(x.from) /\ Open(x.to)}}

\* As long as reviews do not overlap, what a source names leads to an open CI.
BindingsLive ==
  ~overlapped => \A k \in keys \cup aliases : Open(k.id)

\* "The resulting merge is reversible via unmerge()": an unmerge right after the
\* accept gives every native id and alias back to the CI of the same name, if
\* all the merged one had was one native id and aliases of one source, which had
\* given the other CI none (Separate).
UndoRestores ==
  [][\A p \in Reviewers :
       (/\ job[p].kind = "unmerge" /\ unmerges' # unmerges
        /\ job'[p] = NoJob /\ before.merge = job[p].merge.no)
       => Named(keys', cis') = before.keys /\ Named(aliases', cis') = before.aliases]_reviewVars

=============================================================================
