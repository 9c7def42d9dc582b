------------------------------ MODULE Reconcile ------------------------------
(***************************************************************************)
(* Reconciliation: how discovery runs and deltas of several sources become *)
(* one inventory and one graph (reconcile.py, projection.py).  A run of    *)
(* `reconcile` is authoritative for its scope and closes what it no longer *)
(* observes; `apply_delta` only changes what it names.  Both happen in one *)
(* transaction, modelled one event at a time on the working copy `db`,     *)
(* which becomes `saved` at COMMIT and is thrown away by any exception.    *)
(*                                                                         *)
(* Transactions of a tenant follow each other here; BitemporalStore is     *)
(* about their overlapping, and about the closed versions, which are left  *)
(* out: `cis` and `edges` are the open rows.                               *)
(***************************************************************************)
EXTENDS Integers, FiniteSets

CONSTANTS
  Sources,      \* connector types: each has at most one run at a time
  Keys,         \* provider identities, [type |-> ..., native |-> ...]
  Aliases,      \* cross-source join keys
  Values,       \* what _ci_changed compares
  Relations,    \* what a connector can observe or a delta remove:
                \*   [type |-> ..., from |-> identity, to |-> identity]
  EdgeKeys,     \* edge_key, which tells parallel edges of one type apart
  DefaultKey,   \* edge_key's default, the empty string
  CiTypes,      \* connector.ci_types and edge_types: the scope that a
  EdgeTypes,    \*   source's full run is authoritative for
  MaxId,        \* bound: ids handed out to CIs
  MaxBatches,   \* bound: transactions
  MaxEvents     \* bound: events of one batch

ASSUME ScopeAssumption ==
  /\ CiTypes \in [Sources -> SUBSET {k.type : k \in Keys}]
  /\ EdgeTypes \in [Sources -> SUBSET {x.type : x \in Relations}]
  /\ \A x \in Relations : x.from \in Keys /\ x.to \in Keys
ASSUME EdgeKeyAssumption == DefaultKey \in EdgeKeys
ASSUME BoundsAssumption == MaxId \in Nat /\ MaxBatches \in Nat /\ MaxEvents \in Nat

None  == -1                       \* _resolve found nothing
Ids   == 0..(MaxId - 1)
Types == {k.type : k \in Keys}
Edge  == [type: {x.type : x \in Relations}, from: Ids, to: Ids, key: EdgeKeys]

\* The tables of one tenant, and the AGE graph derived from them.
DB == [cis:      SUBSET [id: Ids, key: Keys, val: Values],
       edges:    SUBSET Edge,
       bound:    SUBSET [source: Sources, native: {k.native : k \in Keys}, id: Ids],
       aliases:  SUBSET [alias: Aliases, id: Ids, type: Types, source: Sources],
       vertices: SUBSET Ids,
       links:    SUBSET Edge]

\* What a batch is doing.  `now` holds the ids with a version starting at the
\* transaction's own now(), the other sets are the local variables of the code.
Tx == [kind: {"reconcile", "delta"}, source: Sources, phase: 1..5,
       events: 0..MaxEvents, byKey: SUBSET [key: Keys, id: Ids],
       seen: SUBSET Keys, now: SUBSET Ids, edgeNow: SUBSET Edge,
       cis: SUBSET Ids, closed: SUBSET Ids,
       edges: SUBSET Edge, edgesClosed: SUBSET Edge]

VARIABLES
  db,       \* the tables as the running transaction sees them
  saved,    \* the committed tables
  tx,       \* the running transaction
  nextId,   \* the next fresh uuid
  batches,  \* the transactions begun
  mixedUp,  \* history: where RemoveEdge met parallel edges
  savedMixedUp   \* history: where it did so in committed transactions

history == <<mixedUp, savedMixedUp>>
vars == <<db, saved, tx, nextId, batches, history>>

EmptyDB == [cis |-> {}, edges |-> {}, bound |-> {}, aliases |-> {},
            vertices |-> {}, links |-> {}]

Started(kind, s) ==
  [kind |-> kind, source |-> s, phase |-> 1, events |-> 0, byKey |-> {},
   seen |-> {}, now |-> {}, edgeNow |-> {}, cis |-> {}, closed |-> {},
   edges |-> {}, edgesClosed |-> {}]
NoTx == Started("none", "none")

TypeOK == /\ db \in DB /\ saved \in DB /\ tx \in Tx \cup {NoTx}
          /\ nextId \in 0..MaxId /\ batches \in 0..MaxBatches
          /\ mixedUp \in SUBSET (Ids \X Ids) /\ savedMixedUp \subseteq mixedUp

Init == /\ db = EmptyDB /\ saved = EmptyDB /\ tx = NoTx
        /\ nextId = 0 /\ batches = 0
        /\ mixedUp = {} /\ savedMixedUp = {}

-----------------------------------------------------------------------------
(* The phases of a batch, in the order of the code.                        *)

Upserting   == 1      \* step 1 of reconcile, step 5 of apply_delta
Linking     == 2      \* step 3,              step 6
RemovingCIs == 3      \*                      step 7
Cutting     == 4      \*                      step 8
Projecting  == 5      \* step 5,              step 10

\* The batch is in phase p after this event; a delta may skip phases.
InPhase(p) == /\ tx # NoTx /\ tx.events < MaxEvents
              /\ \/ tx.phase = p
                 \/ tx.kind = "delta" /\ tx.phase < p
Advance(p, t) == [t EXCEPT !.phase = p, !.events = @ + 1]

\* An exception: the transaction is rolled back.
RollBack == /\ db' = saved /\ tx' = NoTx /\ mixedUp' = savedMixedUp
            /\ UNCHANGED <<saved, nextId, batches, savedMixedUp>>

OpenId(i) == \E r \in db.cis : r.id = i

-----------------------------------------------------------------------------
Begin(s, kind) ==
  /\ tx = NoTx /\ batches < MaxBatches
  /\ batches' = batches + 1
  /\ tx' = Started(kind, s)
  /\ UNCHANGED <<db, saved, nextId, history>>

\* _resolve_canonical_ci: the CI to merge a new identity into, if the aliases
\* name exactly one CI of the type that another source registered.
Canonical(k, al) ==
  LET ids == {a.id : a \in {b \in db.aliases :
               b.alias \in al /\ b.type = k.type /\ b.source # tx.source}}
  IN IF Cardinality(ids) = 1
     THEN {r \in db.cis : r.id \in ids /\ r.key.type = k.type} ELSE {}

Current(k) == {r \in db.cis : r.key = k}

\* Mutated StoredAs: a merge keeps the external_id the source named.
StoredAsNamed(k, al) ==
  LET match == IF Current(k) # {} THEN Current(k) ELSE Canonical(k, al)
  IN IF match = {} THEN {[key |-> k, id |-> nextId]}
                   ELSE {[key |-> k, id |-> r.id] : r \in match}

\* The identity and the id an observation of k is stored under: its own, the
\* canonical CI's, or a new id.
StoredAs(k, al) ==
  LET match == IF Current(k) # {} THEN Current(k) ELSE Canonical(k, al)
  IN IF match = {} THEN {[key |-> k, id |-> nextId]}
                   ELSE {[key |-> r.key, id |-> r.id] : r \in match}

\* Mutated Bind: ON CONFLICT DO NOTHING.
BindOnce(rows, k, i) ==
  IF \E b \in rows : b.source = tx.source /\ b.native = k.native THEN rows
  ELSE rows \cup {[source |-> tx.source, native |-> k.native, id |-> i]}

\* _bind_source_key and _register_alias_keys: both overwrite on conflict.
Bind(rows, k, i) ==
  {b \in rows : ~(b.source = tx.source /\ b.native = k.native)}
  \cup {[source |-> tx.source, native |-> k.native, id |-> i]}
Register(rows, k, al, i) ==
  {a \in rows : a.alias \notin al}
  \cup {[alias |-> a, id |-> i, type |-> k.type, source |-> tx.source] : a \in al}

\* Mutated Observed: a merged observation marks only its own identity as seen.
ObservedAsNamed(k, c) ==
  Advance(Upserting,
    [tx EXCEPT !.byKey = {b \in @ : b.key \notin {k, c.key}} \cup
                         {[key |-> k, id |-> c.id], [key |-> c.key, id |-> c.id]},
               !.seen = @ \cup {k}, !.cis = @ \cup {c.id}])

\* The bookkeeping of an observation of k that was stored as c.
Observed(k, c) ==
  Advance(Upserting,
    [tx EXCEPT !.byKey = {b \in @ : b.key \notin {k, c.key}} \cup
                         {[key |-> k, id |-> c.id], [key |-> c.key, id |-> c.id]},
               !.seen = @ \cup {c.key}, !.cis = @ \cup {c.id}])

\* Steps 1 and 5 for one event.  A CI that already got a version in this
\* transaction cannot get another: (id, valid_from) is the primary key.
ObserveCI(k, v, al) ==
  /\ InPhase(Upserting)
  /\ \E c \in StoredAs(k, al) :
     LET row     == [id |-> c.id, key |-> c.key, val |-> v]
         changed == row \notin db.cis
     IN /\ c.id < MaxId
        /\ IF changed /\ c.id \in tx.now
           THEN RollBack
           ELSE /\ db' = [db EXCEPT !.cis = (@ \ Current(c.key)) \cup {row},
                                    !.bound = Bind(@, k, c.id),
                                    !.aliases = Register(@, k, al, c.id)]
                /\ tx' = [Observed(k, c) EXCEPT
                            !.now = IF changed THEN @ \cup {c.id} ELSE @]
                /\ nextId' = IF c.id = nextId THEN nextId + 1 ELSE nextId
                /\ UNCHANGED <<saved, batches, history>>

\* reconcile, step 2: what the source owns in its scope and did not observe.
Absent == {r \in db.cis : /\ r.key.type \in CiTypes[tx.source]
                          /\ r.key \notin tx.seen
                          /\ \E b \in db.bound : b.source = tx.source /\ b.id = r.id}
CloseAbsentCIs ==
  /\ tx.kind = "reconcile" /\ tx.phase = Upserting
  /\ db' = [db EXCEPT !.cis = @ \ Absent]
  /\ tx' = [tx EXCEPT !.phase = Linking, !.closed = {r.id : r \in Absent}]
  /\ UNCHANGED <<saved, nextId, batches, history>>

\* Mutated Resolve: a bound id is taken without looking whether it is current.
ResolveBound(k) ==
  LET cached == {b.id : b \in {c \in tx.byKey : c.key = k}}
      own    == {r.id : r \in Current(k)}
      other  == {b.id : b \in {c \in db.bound : c.native = k.native}}
  IN IF cached # {} THEN cached
     ELSE IF own # {} THEN own
     ELSE IF other # {} THEN other
     ELSE {None}

\* _resolve: the batch's own cache, the open CI of that identity, then any
\* source_keys row with that native id (fetchone: no type, no order).
Resolve(k) ==
  LET cached == {b.id : b \in {c \in tx.byKey : c.key = k}}
      own    == {r.id : r \in Current(k)}
      other  == {b.id : b \in {c \in db.bound : c.native = k.native}}
  IN IF cached # {} THEN cached
     ELSE IF own # {} THEN own
     ELSE IF other # {} THEN {IF OpenId(i) THEN i ELSE None : i \in other}
     ELSE {None}

\* Mutated ObserveEdge: the endpoints are not checked.
ObserveEdgeUnchecked(x, key) ==
  /\ InPhase(Linking)
  /\ \E f \in Resolve(x.from), t \in Resolve(x.to) :
     LET e == [type |-> x.type, from |-> f, to |-> t, key |-> key]
     IN /\ db' = [db EXCEPT !.edges = @ \cup {e}]
        /\ tx' = Advance(Linking, [tx EXCEPT !.edges = @ \cup {e}])
  /\ UNCHANGED <<saved, nextId, batches, history>>

\* Steps 3 and 6 for one event; evidence and confidence, which decide whether
\* an existing edge gets a new version, are abstracted to a choice.
ObserveEdge(x, key) ==
  /\ InPhase(Linking)
  /\ \E f \in Resolve(x.from), t \in Resolve(x.to) :
     LET e == [type |-> x.type, from |-> f, to |-> t, key |-> key]
         Stored == Advance(Linking, [tx EXCEPT !.edges = @ \cup {e}])
     IN IF None \in {f, t}
        THEN /\ tx.kind = "delta"      \* a reconcile run skips the edge
             /\ RollBack
        ELSE \/ /\ e \in db.edges
                /\ tx' = Stored
                /\ UNCHANGED <<db, saved, nextId, batches, history>>
             \/ /\ e \in db.edges => e \notin tx.edgeNow
                /\ db' = [db EXCEPT !.edges = @ \cup {e}]
                /\ tx' = [Stored EXCEPT !.edgeNow = @ \cup {e}]
                /\ UNCHANGED <<saved, nextId, batches, history>>
             \/ /\ e \in db.edges /\ e \in tx.edgeNow
                /\ RollBack

\* reconcile, step 4: every edge of the scope, whoever wrote it.
CloseAbsentEdges ==
  /\ tx.kind = "reconcile" /\ tx.phase = Linking
  /\ LET stale == {e \in db.edges : e.type \in EdgeTypes[tx.source]} \ tx.edges
     IN /\ db' = [db EXCEPT !.edges = @ \ stale]
        /\ tx' = [tx EXCEPT !.phase = Projecting, !.edgesClosed = stale]
  /\ UNCHANGED <<saved, nextId, batches, history>>

\* apply_delta, step 7.
RemoveCI(k) ==
  /\ tx.kind = "delta" /\ InPhase(RemovingCIs)
  /\ LET gone == Current(k)
     IN /\ db' = [db EXCEPT !.cis = @ \ gone]
        /\ tx' = Advance(RemovingCIs,
                   [tx EXCEPT !.closed = @ \cup {r.id : r \in gone}])
  /\ UNCHANGED <<saved, nextId, batches, history>>

\* apply_delta, step 8: the edge closed is the one with the default key, the
\* edge reported to the projection is the first one between the endpoints.
RemoveEdge(x) ==
  /\ tx.kind = "delta" /\ InPhase(Cutting)
  /\ \E f \in Resolve(x.from), t \in Resolve(x.to) :
     LET between == {e \in db.edges : e.type = x.type /\ e.from = f /\ e.to = t}
         e == [type |-> x.type, from |-> f, to |-> t, key |-> DefaultKey]
     IN IF e \in between
        THEN \E m \in between :
             /\ db' = [db EXCEPT !.edges = @ \ {e}]
             /\ tx' = Advance(Cutting, [tx EXCEPT !.edgesClosed = @ \cup {m}])
             /\ mixedUp' = IF m = e THEN mixedUp ELSE mixedUp \cup {<<f, t>>}
        ELSE /\ tx' = Advance(Cutting, tx)
             /\ UNCHANGED <<db, mixedUp>>
  /\ UNCHANGED <<saved, nextId, batches, savedMixedUp>>

-----------------------------------------------------------------------------
(* Projection to the graph.                                                *)

\* Mutated Projected: closed edges are removed before the current ones are merged.
ProjectedLate(d) ==
  LET there   == d.vertices \cup tx.cis
      linked  == (d.links \ tx.edgesClosed)
                 \cup {e \in tx.edges : e.from \in there /\ e.to \in there}
  IN [d EXCEPT !.vertices = there \ tx.closed,
               !.links = {e \in linked :
                            e.from \notin tx.closed /\ e.to \notin tx.closed}]

\* project: vertices, then edges between vertices that exist, then the closed
\* edges are removed, then the closed CIs with every edge at them.
Projected(d) ==
  LET there   == d.vertices \cup tx.cis
      linked  == d.links \cup {e \in tx.edges : e.from \in there /\ e.to \in there}
  IN [d EXCEPT !.vertices = there \ tx.closed,
               !.links = {e \in linked \ tx.edgesClosed :
                            e.from \notin tx.closed /\ e.to \notin tx.closed}]

ProjectAndCommit ==
  /\ \/ tx.kind = "delta"
     \/ tx.kind = "reconcile" /\ tx.phase = Projecting
  /\ db' = Projected(db)
  /\ saved' = Projected(db)
  /\ tx' = NoTx
  /\ savedMixedUp' = mixedUp
  /\ UNCHANGED <<nextId, batches, mixedUp>>

\* The provider data is refused, the connection is lost, a constraint fails.
Fail == tx # NoTx /\ RollBack

Next ==
  \/ \E s \in Sources, kind \in {"reconcile", "delta"} : Begin(s, kind)
  \/ \E k \in Keys, v \in Values, al \in SUBSET Aliases : ObserveCI(k, v, al)
  \/ CloseAbsentCIs
  \/ \E x \in Relations, key \in EdgeKeys : ObserveEdge(x, key)
  \/ CloseAbsentEdges
  \/ \E k \in Keys : RemoveCI(k)
  \/ \E x \in Relations : RemoveEdge(x)
  \/ ProjectAndCommit
  \/ Fail

Spec == Init /\ [][Next]_vars

-----------------------------------------------------------------------------
(* Properties.                                                             *)

\* "The graph reflects only current state": after every transaction its
\* vertices are the open CIs and its edges are the open edges whose two ends
\* are open.  Pairs where a committed delta's removal met parallel edges are
\* excepted.
GraphMirrorsStore ==
  LET Apart(es) == {e \in es : <<e.from, e.to>> \notin savedMixedUp}
      ids == {r.id : r \in saved.cis}
  IN /\ saved.vertices = ids
     /\ Apart(saved.links)
          = Apart({e \in saved.edges : e.from \in ids /\ e.to \in ids})

\* A merge never gives a CI a second identity or an identity a second CI.
IdentityIsOneToOne ==
  \A r, q \in saved.cis : (r.id = q.id \/ r.key = q.key) => r = q

\* What a reconcile run observed is open when it commits, under the id it was
\* stored with, even if it was merged into another source's CI.
ObservedIsOpen ==
  tx.kind = "reconcile" => \A b \in tx.byKey : OpenId(b.id)

\* A reconcile run asserts no edge to a CI that is not there.
NoPhantomEdge ==
  tx.kind = "reconcile" => \A e \in tx.edges : OpenId(e.from) /\ OpenId(e.to)

\* An open CI is owned by some source, whose later runs can retire it; unless
\* two types share its native id, which source_keys cannot tell apart.
OpenIsOwned ==
  \A r \in saved.cis :
    \/ \E b \in saved.bound : b.id = r.id
    \/ \E k \in Keys \ {r.key} : k.native = r.key.native

\* "A re-discovery is a no-op at the CI level": a source that observes an
\* identity again, with an alias it gave before, gets the CI that an earlier
\* batch stored it in, as long as that CI is open.
RediscoveryFindsCI ==
  [][nextId' # nextId =>
       \A r \in db'.cis \ db.cis, b \in saved.bound, a \in saved.aliases :
         (/\ b.source = tx.source /\ b.native = r.key.native
          /\ a.source = tx.source /\ a.id = b.id /\ a.type = r.key.type
          /\ \E n \in db'.aliases : n.alias = a.alias /\ n.id = r.id)
         => ~OpenId(b.id)]_vars

=============================================================================
