--------------------------- MODULE ReconcileProofs ---------------------------
(***************************************************************************)
(* The safety of Reconcile, for any number of sources, identities, aliases *)
(* and batches.                                                            *)
(*                                                                         *)
(* The properties are about what is saved and graph and tables only agree  *)
(* at COMMIT, so the invariant says what a batch half done will lead to:   *)
(* Agrees(db, tx, mixedUp), that projecting now would leave the graph that *)
(* the tables describe.  Each step of a batch changes both sides of it,    *)
(* and has a lemma about tables and transactions of its own (ObservedAgrees*)
(* and so on), which the lemma about the action applies.                   *)
(*                                                                         *)
(* The last sections descend to one edge of such a batch, EdgeLifecycle:   *)
(* its confidence however transactions interleave (EdgeInv), its count and *)
(* its sweeps as long as they do not (SerialInv).                          *)
(***************************************************************************)
EXTENDS Reconcile, EdgeLifecycle, FiniteSetTheorems, TLAPS

IdsOf(d) == {r.id : r \in d.cis}

-----------------------------------------------------------------------------
(* Types.                                                                  *)

LEMMA NoTxIsNone == NoTx \notin Tx /\ NoTx.kind = "none" /\ NoTx.phase = 1
  BY DEF NoTx, Started, Tx

LEMMA StartedIsTx ==
  ASSUME NEW s \in Sources, NEW mode \in {"reconcile", "delta"}
  PROVE  Started(mode, s) \in Tx
  BY BoundsAssumption DEF Started, Tx

LEMMA AdvanceFields ==
  ASSUME NEW t \in Tx, NEW p \in 1..5, t.events < MaxEvents
  PROVE  /\ Advance(p, t) \in Tx
         /\ Advance(p, t).phase = p
         /\ Advance(p, t).kind = t.kind /\ Advance(p, t).source = t.source
         /\ Advance(p, t).byKey = t.byKey /\ Advance(p, t).seen = t.seen
         /\ Advance(p, t).now = t.now /\ Advance(p, t).edgeNow = t.edgeNow
         /\ Advance(p, t).cis = t.cis /\ Advance(p, t).closed = t.closed
         /\ Advance(p, t).edges = t.edges /\ Advance(p, t).edgesClosed = t.edgesClosed
<1> DEFINE n == t.events + 1
<1>1. n \in 0..MaxEvents
  BY BoundsAssumption DEF Tx
<1>2. Advance(p, t) = [t EXCEPT !.phase = p, !.events = n]
  BY DEF Advance
<1> HIDE DEF n
<1> QED BY <1>1, <1>2 DEF Tx

Noted(k, c) == {b \in tx.byKey : b.key \notin {k, c.key}} \cup
               {[key |-> k, id |-> c.id], [key |-> c.key, id |-> c.id]}

LEMMA ObservedFields ==
  ASSUME NEW k \in Keys, NEW c \in [key: Keys, id: Ids], tx \in Tx, tx.events < MaxEvents,
         NEW N \in SUBSET Ids
  PROVE  LET t == [Observed(k, c) EXCEPT !.now = N]
         IN /\ Observed(k, c).now = tx.now
            /\ t \in Tx /\ t.phase = Upserting
            /\ t.kind = tx.kind /\ t.source = tx.source
            /\ t.byKey = Noted(k, c) /\ t.seen = tx.seen \cup {c.key}
            /\ t.now = N /\ t.edgeNow = tx.edgeNow
            /\ t.cis = tx.cis \cup {c.id} /\ t.closed = tx.closed
            /\ t.edges = tx.edges /\ t.edgesClosed = tx.edgesClosed
<1> DEFINE u == [tx EXCEPT !.byKey = Noted(k, c), !.seen = @ \cup {c.key}, !.cis = @ \cup {c.id}]
<1>1. Noted(k, c) \in SUBSET [key: Keys, id: Ids]
  BY DEF Noted, Tx
<1>2. /\ u \in Tx /\ u.events = tx.events
      /\ u.kind = tx.kind /\ u.source = tx.source
      /\ u.byKey = Noted(k, c) /\ u.seen = tx.seen \cup {c.key}
      /\ u.now = tx.now /\ u.edgeNow = tx.edgeNow
      /\ u.cis = tx.cis \cup {c.id} /\ u.closed = tx.closed
      /\ u.edges = tx.edges /\ u.edgesClosed = tx.edgesClosed
  BY <1>1 DEF Tx
<1>3. Observed(k, c) = Advance(Upserting, u)
  BY DEF Observed, Noted
<1> HIDE DEF u
<1> DEFINE v == Observed(k, c)
<1>4. /\ v \in Tx /\ v.phase = Upserting
      /\ v.kind = tx.kind /\ v.source = tx.source
      /\ v.byKey = Noted(k, c) /\ v.seen = tx.seen \cup {c.key}
      /\ v.now = tx.now /\ v.edgeNow = tx.edgeNow
      /\ v.cis = tx.cis \cup {c.id} /\ v.closed = tx.closed
      /\ v.edges = tx.edges /\ v.edgesClosed = tx.edgesClosed
  BY <1>2, <1>3, AdvanceFields DEF Upserting
<1> HIDE DEF v
<1> DEFINE t == [v EXCEPT !.now = N]
<1>5. /\ t \in Tx /\ t.phase = v.phase /\ t.kind = v.kind /\ t.source = v.source
      /\ t.byKey = v.byKey /\ t.seen = v.seen /\ t.now = N /\ t.edgeNow = v.edgeNow
      /\ t.cis = v.cis /\ t.closed = v.closed
      /\ t.edges = v.edges /\ t.edgesClosed = v.edgesClosed
  BY <1>4 DEF Tx
<1>6. t = [Observed(k, c) EXCEPT !.now = N]
  BY DEF v
<1> HIDE DEF t
<1> QED BY <1>4, <1>5, <1>6 DEF v


\* What an EXCEPT on the tables leaves alone.
LEMMA ClosedDB ==
  ASSUME NEW d \in DB, NEW C \in SUBSET [id: Ids, key: Keys, val: Values]
  PROVE  LET n == [d EXCEPT !.cis = C]
         IN n \in DB /\ n.cis = C /\ n.edges = d.edges
            /\ n.vertices = d.vertices /\ n.links = d.links /\ n.bound = d.bound
  BY DEF DB

LEMMA EdgesDB ==
  ASSUME NEW d \in DB, NEW E \in SUBSET Edge
  PROVE  LET n == [d EXCEPT !.edges = E]
         IN n \in DB /\ n.cis = d.cis /\ n.edges = E
            /\ n.vertices = d.vertices /\ n.links = d.links /\ n.bound = d.bound
  BY DEF DB

\* What an EXCEPT on the transaction leaves alone.
LEMMA ClosedTx ==
  ASSUME NEW t \in Tx, NEW I \in SUBSET Ids
  PROVE  LET n == [t EXCEPT !.closed = I]
         IN n \in Tx /\ n.kind = t.kind /\ n.phase = t.phase /\ n.events = t.events
            /\ n.byKey = t.byKey /\ n.seen = t.seen /\ n.cis = t.cis /\ n.closed = I
            /\ n.edges = t.edges /\ n.edgesClosed = t.edgesClosed
  BY DEF Tx

LEMMA ClosedPhaseTx ==
  ASSUME NEW t \in Tx, NEW I \in SUBSET Ids
  PROVE  LET n == [t EXCEPT !.phase = Linking, !.closed = I]
         IN n \in Tx /\ n.kind = t.kind /\ n.phase = Linking
            /\ n.byKey = t.byKey /\ n.seen = t.seen /\ n.cis = t.cis /\ n.closed = I
            /\ n.edges = t.edges /\ n.edgesClosed = t.edgesClosed
<1>1. Linking \in 1..5
  BY DEF Linking
<1> QED BY <1>1 DEF Tx

LEMMA EdgesTx ==
  ASSUME NEW t \in Tx, NEW E \in SUBSET Edge
  PROVE  LET n == [t EXCEPT !.edges = E]
         IN n \in Tx /\ n.kind = t.kind /\ n.phase = t.phase /\ n.events = t.events
            /\ n.byKey = t.byKey /\ n.seen = t.seen /\ n.cis = t.cis
            /\ n.closed = t.closed /\ n.edges = E
            /\ n.edgesClosed = t.edgesClosed /\ n.edgeNow = t.edgeNow
  BY DEF Tx

LEMMA EdgeNowTx ==
  ASSUME NEW t \in Tx, NEW E \in SUBSET Edge
  PROVE  LET n == [t EXCEPT !.edgeNow = E]
         IN n \in Tx /\ n.kind = t.kind /\ n.phase = t.phase
            /\ n.byKey = t.byKey /\ n.seen = t.seen /\ n.cis = t.cis
            /\ n.closed = t.closed /\ n.edges = t.edges
            /\ n.edgesClosed = t.edgesClosed
  BY DEF Tx

LEMMA EdgesClosedTx ==
  ASSUME NEW t \in Tx, NEW E \in SUBSET Edge
  PROVE  LET n == [t EXCEPT !.edgesClosed = E]
         IN n \in Tx /\ n.kind = t.kind /\ n.phase = t.phase /\ n.events = t.events
            /\ n.byKey = t.byKey /\ n.seen = t.seen /\ n.cis = t.cis
            /\ n.closed = t.closed /\ n.edges = t.edges /\ n.edgesClosed = E
  BY DEF Tx

LEMMA EdgesPhaseTx ==
  ASSUME NEW t \in Tx, NEW E \in SUBSET Edge
  PROVE  LET n == [t EXCEPT !.phase = Projecting, !.edgesClosed = E]
         IN n \in Tx /\ n.kind = t.kind /\ n.phase = Projecting
            /\ n.byKey = t.byKey /\ n.seen = t.seen /\ n.cis = t.cis
            /\ n.closed = t.closed /\ n.edges = t.edges /\ n.edgesClosed = E
<1>1. Projecting \in 1..5
  BY DEF Projecting
<1> QED BY <1>1 DEF Tx

-----------------------------------------------------------------------------
(* What the tables, d, and a transaction, t, are to each other; n is the   *)
(* next id, m the pairs where a removal met parallel edges.                *)

OneToOne(d) == \A r, q \in d.cis : (r.id = q.id \/ r.key = q.key) => r = q

Known(d, n) == /\ \A r \in d.cis : r.id < n
               /\ \A e \in d.edges : e.from < n /\ e.to < n

Shown(d) == {e \in d.edges : e.from \in IdsOf(d) /\ e.to \in IdsOf(d)}

\* The links that `project' would leave.
Drawn(d, t) ==
  LET there == d.vertices \cup t.cis
  IN {e \in (d.links \cup {e \in t.edges : e.from \in there /\ e.to \in there}) \ t.edgesClosed :
        e.from \notin t.closed /\ e.to \notin t.closed}

Agrees(d, t, m) ==
  /\ (d.vertices \cup t.cis) \ t.closed = IdsOf(d)
  /\ \A e \in Edge : <<e.from, e.to>> \notin m => (e \in Drawn(d, t) <=> e \in Shown(d))

Mirrors(d, m) ==
  /\ d.vertices = IdsOf(d)
  /\ \A e \in Edge : <<e.from, e.to>> \notin m => (e \in d.links <=> e \in Shown(d))

\* A CI is observed: a new one, or one that is there under that identity and id.
Observes(d, e, t, u, n, n2, ci) ==
  /\ \/ ci.id = n /\ (\A r \in d.cis : r.key # ci.key) /\ n2 = n + 1
     \/ (\E r \in d.cis : r.id = ci.id /\ r.key = ci.key) /\ n2 = n
  /\ e.cis = (d.cis \ {r \in d.cis : r.key = ci.key}) \cup {ci}
  /\ e.edges = d.edges /\ e.vertices = d.vertices /\ e.links = d.links
  /\ u.cis = t.cis \cup {ci.id} /\ t.closed = {} /\ u.closed = t.closed
  /\ t.edges = {} /\ u.edges = t.edges /\ u.edgesClosed = t.edgesClosed

LEMMA ObservedAgrees ==
  ASSUME NEW d \in DB, NEW e \in DB, NEW t, NEW u, NEW m, NEW n \in Nat, NEW ci, NEW n2 \in Nat,
         OneToOne(d), Known(d, n), Agrees(d, t, m), Observes(d, e, t, u, n, n2, ci)
  PROVE  OneToOne(e) /\ Known(e, n2) /\ Agrees(e, u, m)
<1> USE DEF Observes
<1>1. \A r \in d.cis : r.id \in Nat /\ r.id < n
  BY DEF DB, Known, Ids
<1>2. \A x \in d.edges : x.from \in Nat /\ x.to \in Nat /\ x.from < n /\ x.to < n
  BY DEF DB, Known, Ids, Edge
<1>3. OneToOne(e)
  BY <1>1 DEF OneToOne
<1>4. Known(e, n2)
  BY <1>1, <1>2 DEF Known
<1>5. IdsOf(e) = IdsOf(d) \cup {ci.id}
  BY DEF IdsOf, OneToOne
<1>6. ci.id \in IdsOf(d) \/ ci.id = n
  BY DEF IdsOf
<1>7. Shown(e) = Shown(d)
  BY <1>2, <1>5, <1>6 DEF Shown
<1>8. Drawn(e, u) = Drawn(d, t)
  BY DEF Drawn
<1> QED BY <1>3, <1>4, <1>5, <1>7, <1>8 DEF Agrees

\* The CIs of A are closed.
Closes(d, e, t, u, A) ==
  /\ e.cis = d.cis \ A
  /\ e.edges = d.edges /\ e.vertices = d.vertices /\ e.links = d.links
  /\ u.cis = t.cis /\ u.closed = t.closed \cup {r.id : r \in A}
  /\ u.edges = t.edges /\ u.edgesClosed = t.edgesClosed

LEMMA ClosedAgrees ==
  ASSUME NEW d \in DB, NEW e \in DB, NEW t, NEW u, NEW m, NEW n, NEW A \in SUBSET d.cis,
         OneToOne(d), Known(d, n), Agrees(d, t, m), Closes(d, e, t, u, A)
  PROVE  OneToOne(e) /\ Known(e, n) /\ Agrees(e, u, m)
<1> USE DEF Closes
<1>1. OneToOne(e) /\ Known(e, n)
  BY DEF OneToOne, Known
<1>2. IdsOf(e) = IdsOf(d) \ {r.id : r \in A}
  BY DEF IdsOf, OneToOne
<1>3. \A x : x \in Shown(e) <=> /\ x \in Shown(d)
                                /\ x.from \notin {r.id : r \in A} /\ x.to \notin {r.id : r \in A}
  BY <1>2 DEF Shown
<1>4. \A x : x \in Drawn(e, u) <=> /\ x \in Drawn(d, t)
                                   /\ x.from \notin {r.id : r \in A} /\ x.to \notin {r.id : r \in A}
  BY DEF Drawn
<1> QED BY <1>1, <1>2, <1>3, <1>4 DEF Agrees

\* The edge x is observed.
Relates(d, e, t, u, x) ==
  /\ e.edges = d.edges \cup {x}
  /\ e.cis = d.cis /\ e.vertices = d.vertices /\ e.links = d.links
  /\ u.cis = t.cis /\ u.closed = t.closed /\ u.edges = t.edges \cup {x}
  /\ t.edgesClosed = {} /\ u.edgesClosed = t.edgesClosed

LEMMA LinkedAgrees ==
  ASSUME NEW d \in DB, NEW e \in DB, NEW t, NEW u, NEW m, NEW n, NEW x \in Edge,
         OneToOne(d), Known(d, n), Agrees(d, t, m),
         x.from < n, x.to < n, Relates(d, e, t, u, x)
  PROVE  OneToOne(e) /\ Known(e, n) /\ Agrees(e, u, m)
<1> USE DEF Relates
<1>1. OneToOne(e) /\ Known(e, n)
  BY DEF OneToOne, Known
<1>2. IdsOf(e) = IdsOf(d)
  BY DEF IdsOf
<1>3. \A y : y # x => (y \in Drawn(e, u) <=> y \in Drawn(d, t)) /\ (y \in Shown(e) <=> y \in Shown(d))
  BY <1>2 DEF Drawn, Shown
<1>4. x \in Shown(e) <=> x.from \in IdsOf(d) /\ x.to \in IdsOf(d)
  BY <1>2 DEF Shown
<1>5. x.from \in IdsOf(d) /\ x.to \in IdsOf(d) => x \in Drawn(e, u)
  BY DEF Drawn, Agrees
<1>6. x \in Drawn(e, u) => \/ x \in Drawn(d, t)
                           \/ x.from \in IdsOf(d) /\ x.to \in IdsOf(d)
  BY DEF Drawn, Agrees
<1>7. x \in Shown(d) => x.from \in IdsOf(d) /\ x.to \in IdsOf(d)
  BY DEF Shown
<1>8. SUFFICES ASSUME NEW y \in Edge, <<y.from, y.to>> \notin m
               PROVE  y \in Drawn(e, u) <=> y \in Shown(e)
  BY <1>1, <1>2 DEF Agrees
<1>9. y \in Drawn(d, t) <=> y \in Shown(d)
  BY <1>8 DEF Agrees
<1> QED BY <1>3, <1>4, <1>5, <1>6, <1>7, <1>9

\* Edges are closed: those of S, where the projection is told those of R.
Cuts(d, e, t, u, m, w, S, R) ==
  /\ e.edges = d.edges \ S
  /\ e.cis = d.cis /\ e.vertices = d.vertices /\ e.links = d.links
  /\ u.cis = t.cis /\ u.closed = t.closed /\ u.edges = t.edges
  /\ u.edgesClosed = t.edgesClosed \cup R
  /\ m \subseteq w
  /\ S = R \/ \A x \in S \cup R : <<x.from, x.to>> \in w

LEMMA CutAgrees ==
  ASSUME NEW d \in DB, NEW e \in DB, NEW t, NEW u, NEW m, NEW w, NEW n, NEW S, NEW R,
         OneToOne(d), Known(d, n), Agrees(d, t, m), Cuts(d, e, t, u, m, w, S, R)
  PROVE  OneToOne(e) /\ Known(e, n) /\ Agrees(e, u, w)
<1> USE DEF Cuts
<1>1. OneToOne(e) /\ Known(e, n)
  BY DEF OneToOne, Known
<1>2. IdsOf(e) = IdsOf(d)
  BY DEF IdsOf
<1>3. \A y : /\ y \in Drawn(e, u) <=> y \in Drawn(d, t) /\ y \notin R
             /\ y \in Shown(e) <=> y \in Shown(d) /\ y \notin S
  BY <1>2 DEF Drawn, Shown
<1> QED BY <1>1, <1>2, <1>3 DEF Agrees

\* project.
LEMMA ProjectedMirrors ==
  ASSUME NEW d \in DB, NEW e \in DB, NEW t, NEW m, NEW n,
         OneToOne(d), Known(d, n), Agrees(d, t, m),
         e.cis = d.cis, e.edges = d.edges,
         e.vertices = (d.vertices \cup t.cis) \ t.closed, e.links = Drawn(d, t)
  PROVE  OneToOne(e) /\ Known(e, n) /\ Mirrors(e, m)
<1>1. OneToOne(e) /\ Known(e, n)
  BY DEF OneToOne, Known
<1>2. IdsOf(e) = IdsOf(d) /\ Shown(e) = Shown(d)
  BY DEF IdsOf, Shown
<1> QED BY <1>1, <1>2 DEF Agrees, Mirrors

\* A transaction that has done nothing.
LEMMA MirrorsAgrees ==
  ASSUME NEW d, NEW t, NEW m, Mirrors(d, m),
         t.cis = {}, t.closed = {}, t.edges = {}, t.edgesClosed = {}
  PROVE  Agrees(d, t, m)
<1>1. \A e : e \in Drawn(d, t) <=> e \in d.links
  BY DEF Drawn
<1> QED BY <1>1 DEF Mirrors, Agrees

-----------------------------------------------------------------------------
(* The invariant.                                                          *)

\* An identity's own binding leads to its CI.
Owned(d) ==
  \A r \in d.cis :
    \/ \E b \in d.bound : b.id = r.id /\ b.native = r.key.native
    \/ \E k \in Keys \ {r.key} : k.native = r.key.native

PhaseInv ==
  /\ tx = NoTx => db = saved /\ mixedUp = savedMixedUp
  /\ tx.phase = Upserting => tx.edges = {} /\ tx.closed = {}
  /\ tx.phase \in {Upserting, Linking} => tx.edgesClosed = {}
  /\ \A b \in tx.byKey : b.id < nextId

\* What a run has observed is open, and marked so that it stays open.
RunInv ==
  tx.kind = "reconcile" =>
    /\ \A b \in tx.byKey : \E r \in db.cis : r.id = b.id /\ r.key \in tx.seen
    /\ \A e \in tx.edges : e.from \in IdsOf(db) /\ e.to \in IdsOf(db)

DbInv    == OneToOne(db) /\ Known(db, nextId) /\ Owned(db) /\ Agrees(db, tx, mixedUp)
SavedInv == OneToOne(saved) /\ Known(saved, nextId) /\ Owned(saved)
            /\ Mirrors(saved, savedMixedUp)

IInv == TypeOK /\ PhaseInv /\ RunInv /\ DbInv /\ SavedInv

LEMMA InitIInv == Init => IInv
<1> SUFFICES ASSUME Init PROVE IInv
  OBVIOUS
<1> USE DEF Init
<1>1. EmptyDB \in DB
  BY DEF EmptyDB, DB
<1>2. TypeOK
  BY <1>1, BoundsAssumption DEF TypeOK
<1>3. NoTx.phase = Upserting /\ NoTx.edges = {} /\ NoTx.closed = {} /\ NoTx.edgesClosed = {}
      /\ NoTx.byKey = {} /\ NoTx.kind = "none" /\ NoTx.cis = {}
  BY DEF NoTx, Started, Upserting
<1>4. PhaseInv /\ RunInv
  BY <1>3 DEF PhaseInv, RunInv
<1>5. /\ OneToOne(EmptyDB) /\ Known(EmptyDB, 0) /\ Owned(EmptyDB) /\ Mirrors(EmptyDB, {})
  BY DEF EmptyDB, OneToOne, Known, Owned, Mirrors, IdsOf, Shown
<1>6. Agrees(EmptyDB, NoTx, {})
  BY <1>3, <1>5, MirrorsAgrees
<1> QED BY <1>2, <1>4, <1>5, <1>6 DEF IInv, DbInv, SavedInv

\* A transaction that is rolled back leaves what was saved.
LEMMA RollBackStep ==
  ASSUME IInv, RollBack
  PROVE  IInv'
<1>1. /\ db' = saved /\ tx' = NoTx
      /\ saved' = saved /\ nextId' = nextId /\ batches' = batches
      /\ mixedUp' = savedMixedUp /\ savedMixedUp' = savedMixedUp
  BY DEF RollBack
<1>2. TypeOK'
  BY <1>1 DEF IInv, TypeOK
<1>3. NoTx.phase = Upserting /\ NoTx.edges = {} /\ NoTx.closed = {} /\ NoTx.edgesClosed = {}
      /\ NoTx.byKey = {} /\ NoTx.kind = "none" /\ NoTx.cis = {}
  BY DEF NoTx, Started, Upserting
<1>4. PhaseInv' /\ RunInv'
  BY <1>1, <1>3 DEF PhaseInv, RunInv
<1>5. SavedInv'
  BY <1>1 DEF IInv, SavedInv, OneToOne, Known, Owned, Mirrors, IdsOf, Shown
<1>6. Agrees(saved, NoTx, savedMixedUp)
  BY <1>3, MirrorsAgrees DEF IInv, SavedInv
<1>7. DbInv'
  BY <1>1, <1>6 DEF IInv, SavedInv, DbInv
<1> QED BY <1>2, <1>4, <1>5, <1>7 DEF IInv

\* What was saved is not touched by the rest of a transaction.
LEMMA SavedKept ==
  ASSUME IInv, saved' = saved, nextId' \in {nextId, nextId + 1}, savedMixedUp' = savedMixedUp
  PROVE  SavedInv'
<1>1. \A i \in Ids : i < nextId => i < nextId'
  BY BoundsAssumption DEF IInv, TypeOK, Ids
<1>2. /\ \A r \in saved.cis : r.id \in Ids
      /\ \A e \in saved.edges : e.from \in Ids /\ e.to \in Ids
  BY DEF IInv, TypeOK, DB, Edge
<1>3. Known(saved, nextId')
  BY <1>1, <1>2 DEF IInv, SavedInv, Known
<1> QED BY <1>3 DEF IInv, SavedInv

-----------------------------------------------------------------------------
(* The steps.                                                              *)

LEMMA BeginStep ==
  ASSUME IInv, NEW s \in Sources, NEW mode \in {"reconcile", "delta"}, Begin(s, mode)
  PROVE  IInv'
<1> DEFINE t == Started(mode, s)
<1>1. /\ db' = db /\ saved' = saved /\ nextId' = nextId
      /\ mixedUp' = mixedUp /\ savedMixedUp' = savedMixedUp
      /\ tx' = t /\ tx = NoTx /\ batches' = batches + 1 /\ batches < MaxBatches
  BY DEF Begin, history
<1>2. t \in Tx
  BY StartedIsTx
<1>3. TypeOK'
  BY <1>1, <1>2, BoundsAssumption DEF IInv, TypeOK
<1>4. t.phase = Upserting /\ t.edges = {} /\ t.closed = {} /\ t.edgesClosed = {}
      /\ t.byKey = {} /\ t.cis = {}
  BY DEF Started, Upserting
<1>5. t # NoTx
  BY <1>2, NoTxIsNone
<1>6. Mirrors(db, mixedUp) /\ db = saved
  BY <1>1 DEF IInv, PhaseInv, SavedInv
<1>7. Agrees(db, t, mixedUp)
  BY <1>4, <1>6, MirrorsAgrees
<1> HIDE DEF t
<1>8. PhaseInv' /\ RunInv'
  BY <1>1, <1>4, <1>5 DEF PhaseInv, RunInv
<1>9. DbInv'
  BY <1>1, <1>7 DEF IInv, DbInv
<1>10. SavedInv'
  BY <1>1, SavedKept
<1> QED BY <1>3, <1>8, <1>9, <1>10 DEF IInv

\* What an observation is stored as.
LEMMA StoredAsIs ==
  ASSUME IInv, NEW k \in Keys, NEW al \in SUBSET Aliases, NEW c \in StoredAs(k, al), c.id < MaxId
  PROVE  /\ c \in [key: Keys, id: Ids]
         /\ \/ c.id = nextId /\ c.key = k /\ \A r \in db.cis : r.key # k
            \/ \E r \in db.cis : r.id = c.id /\ r.key = c.key
<1> DEFINE match == IF Current(k) # {} THEN Current(k) ELSE Canonical(k, al)
<1>1. match \subseteq db.cis /\ (match = {} => \A r \in db.cis : r.key # k)
  BY DEF Current, Canonical
<1>2. db.cis \subseteq [id: Ids, key: Keys, val: Values] /\ nextId \in Nat
  BY BoundsAssumption DEF IInv, TypeOK, DB
<1>3. CASE match = {}
  <2>1. c = [key |-> k, id |-> nextId]
    BY <1>3 DEF StoredAs
  <2> QED BY <2>1, <1>1, <1>2, <1>3, BoundsAssumption DEF Ids
<1>4. CASE match # {}
  <2>1. PICK r \in match : c = [key |-> r.key, id |-> r.id]
    BY <1>4 DEF StoredAs
  <2> HIDE DEF match
  <2> QED BY <2>1, <1>1, <1>2
<1> QED BY <1>3, <1>4

LEMMA ObserveCIStep ==
  ASSUME IInv, NEW k \in Keys, NEW v \in Values, NEW al \in SUBSET Aliases, ObserveCI(k, v, al)
  PROVE  IInv'
<1>1. tx \in Tx /\ tx.events < MaxEvents /\ tx.phase = Upserting /\ tx # NoTx
  BY DEF IInv, TypeOK, ObserveCI, InPhase, Upserting, Tx
<1>2. PICK c \in StoredAs(k, al) :
        LET ci      == [id |-> c.id, key |-> c.key, val |-> v]
            changed == ci \notin db.cis
        IN /\ c.id < MaxId
           /\ IF changed /\ c.id \in tx.now
              THEN RollBack
              ELSE /\ db' = [db EXCEPT !.cis = (@ \ Current(c.key)) \cup {ci},
                                       !.bound = Bind(@, k, c.id),
                                       !.aliases = Register(@, k, al, c.id)]
                   /\ tx' = [Observed(k, c) EXCEPT
                               !.now = IF changed THEN @ \cup {c.id} ELSE @]
                   /\ nextId' = IF c.id = nextId THEN nextId + 1 ELSE nextId
                   /\ UNCHANGED <<saved, batches, history>>
  BY DEF ObserveCI
<1> DEFINE ci      == [id |-> c.id, key |-> c.key, val |-> v]
           changed == ci \notin db.cis
           C == (db.cis \ Current(c.key)) \cup {ci}
           B == Bind(db.bound, k, c.id)
           A == Register(db.aliases, k, al, c.id)
           N == IF changed THEN Observed(k, c).now \cup {c.id} ELSE Observed(k, c).now
<1>3. CASE changed /\ c.id \in tx.now
  BY <1>2, <1>3, RollBackStep
<1>4. CASE ~(changed /\ c.id \in tx.now)
  <2>1. /\ db' = [db EXCEPT !.cis = C, !.bound = B, !.aliases = A]
        /\ tx' = [Observed(k, c) EXCEPT !.now = N]
        /\ nextId' = IF c.id = nextId THEN nextId + 1 ELSE nextId
        /\ saved' = saved /\ batches' = batches
        /\ mixedUp' = mixedUp /\ savedMixedUp' = savedMixedUp
    BY <1>2, <1>4 DEF history
  <2>2. /\ c \in [key: Keys, id: Ids]
        /\ \/ c.id = nextId /\ c.key = k /\ \A r \in db.cis : r.key # k
           \/ \E r \in db.cis : r.id = c.id /\ r.key = c.key
    BY <1>2, StoredAsIs
  <2>3. db \in DB /\ nextId \in Nat /\ nextId <= MaxId
    BY BoundsAssumption DEF IInv, TypeOK
  <2>4. ci.id = c.id /\ ci.key = c.key /\ ci \in [id: Ids, key: Keys, val: Values]
    BY <2>2
  <2>5. C \in SUBSET [id: Ids, key: Keys, val: Values]
    BY <2>3, <2>4 DEF DB
  <2>6. B \in SUBSET [source: Sources, native: {x.native : x \in Keys}, id: Ids]
    BY <1>1, <2>2, <2>3 DEF DB, Bind, Tx
  <2>7. A \in SUBSET [alias: Aliases, id: Ids, type: Types, source: Sources]
    BY <1>1, <2>2, <2>3 DEF DB, Register, Tx, Types
  <2>8. Observed(k, c).now = tx.now
    BY <1>1, <2>2, ObservedFields
  <2>9. N \in SUBSET Ids
    BY <1>1, <2>2, <2>8 DEF Tx
  <2> HIDE DEF C, B, A, N, ci
  <2>10. /\ db' \in DB /\ db'.cis = C /\ db'.edges = db.edges
         /\ db'.vertices = db.vertices /\ db'.links = db.links /\ db'.bound = B
    <3> DEFINE n == [db EXCEPT !.cis = C, !.bound = B, !.aliases = A]
    <3>1. /\ n \in DB /\ n.cis = C /\ n.edges = db.edges
          /\ n.vertices = db.vertices /\ n.links = db.links /\ n.bound = B
      BY <2>3, <2>5, <2>6, <2>7 DEF DB
    <3> HIDE DEF n
    <3>2. db' = n
      BY <2>1 DEF n
    <3> QED BY <3>1, <3>2
  <2>11. /\ tx' \in Tx /\ tx'.phase = Upserting /\ tx'.kind = tx.kind
         /\ tx'.byKey = Noted(k, c) /\ tx'.seen = tx.seen \cup {c.key}
         /\ tx'.cis = tx.cis \cup {c.id} /\ tx'.closed = tx.closed
         /\ tx'.edges = tx.edges /\ tx'.edgesClosed = tx.edgesClosed
    BY <1>1, <2>1, <2>2, <2>9, ObservedFields
  <2>12. nextId' \in 0..MaxId /\ nextId' \in {nextId, nextId + 1}
    BY <1>2, <2>1, <2>3, BoundsAssumption
  <2>13. TypeOK'
    BY <2>1, <2>10, <2>11, <2>12 DEF IInv, TypeOK
  <2>14. /\ tx.edges = {} /\ tx.closed = {} /\ tx.edgesClosed = {}
         /\ OneToOne(db) /\ Known(db, nextId) /\ Owned(db) /\ Agrees(db, tx, mixedUp)
         /\ \A b \in tx.byKey : b.id \in Ids /\ b.id < nextId
    BY <1>1 DEF IInv, PhaseInv, DbInv, Upserting, Linking, Tx
  <2>15. C = (db.cis \ {r \in db.cis : r.key = ci.key}) \cup {ci}
    BY <2>4 DEF C, Current
  <2>16. c.id < nextId'
    BY <2>1, <2>2, <2>3, <2>14 DEF Known, Ids
  <2>17. \/ ci.id = nextId /\ (\A r \in db.cis : r.key # ci.key) /\ nextId' = nextId + 1
         \/ (\E r \in db.cis : r.id = ci.id /\ r.key = ci.key) /\ nextId' = nextId
    BY <2>1, <2>2, <2>3, <2>4, <2>14 DEF Known, DB, Ids
  <2>18. OneToOne(db') /\ Known(db', nextId') /\ Agrees(db', tx', mixedUp)
    <3>1. Observes(db, db', tx, tx', nextId, nextId', ci)
      BY <2>4, <2>10, <2>11, <2>14, <2>15, <2>17 DEF Observes
    <3>2. nextId \in Nat /\ nextId' \in Nat
      BY <2>3, <2>12
    <3> QED BY <3>1, <3>2, <2>3, <2>10, <2>14, ObservedAgrees
  <2>19. PhaseInv'
    <3>1. tx' # NoTx
      BY <2>11, NoTxIsNone
    <3>2. \A b \in Noted(k, c) : b.id < nextId'
      BY <2>3, <2>12, <2>14, <2>16 DEF Noted, Ids
    <3> QED BY <3>1, <3>2, <2>11, <2>14 DEF PhaseInv
  <2>20. ci \in C /\ (\A r \in db.cis : r \in C \/ r.key = ci.key)
    BY <2>15
  <2>21. \A r \in db.cis : r.key = ci.key => r.id = ci.id
    BY <2>14, <2>17 DEF OneToOne
  <2>22. RunInv'
    <3> SUFFICES ASSUME tx.kind = "reconcile"
                 PROVE  \A b \in Noted(k, c) : \E r \in C : r.id = b.id /\ r.key \in tx.seen \cup {c.key}
      BY <2>10, <2>11, <2>14 DEF RunInv
    <3> TAKE b \in Noted(k, c)
    <3>1. CASE b.id = c.id
      BY <3>1, <2>4, <2>20
    <3>2. CASE b \in tx.byKey
      <4>1. PICK r \in db.cis : r.id = b.id /\ r.key \in tx.seen
        BY <3>2 DEF IInv, RunInv
      <4> QED BY <4>1, <2>4, <2>20, <2>21
    <3> QED BY <3>1, <3>2 DEF Noted
  <2>23. Owned(db')
    <3> SUFFICES ASSUME NEW r \in C
                 PROVE  \/ \E b \in B : b.id = r.id /\ b.native = r.key.native
                        \/ \E x \in Keys \ {r.key} : x.native = r.key.native
      BY <2>10 DEF Owned
    <3>1. [source |-> tx.source, native |-> k.native, id |-> c.id] \in B
      BY DEF B, Bind
    <3>2. \A b \in db.bound : b \in B \/ b.native = k.native
      BY DEF B, Bind
    <3>3. CASE \E q \in db.cis : q.id = r.id /\ q.key = r.key
      <4>1. PICK q \in db.cis : q.id = r.id /\ q.key = r.key
        BY <3>3
      <4>2. CASE k = r.key
        <5>1. Current(k) # {}
          BY <4>1, <4>2 DEF Current
        <5>2. c.key = k
          BY <1>2, <5>1 DEF StoredAs, Current
        <5>3. r.id = c.id
          BY <4>1, <4>2, <5>2, <2>4, <2>21
        <5> QED BY <5>3, <4>2, <3>1
      <4>3. CASE k # r.key /\ k.native = r.key.native
        BY <4>3
      <4>4. CASE k.native # r.key.native
        BY <4>1, <4>4, <3>2, <2>14 DEF Owned
      <4> QED BY <4>2, <4>3, <4>4
    <3>4. CASE r = ci /\ ~\E q \in db.cis : q.id = r.id /\ q.key = r.key
      BY <3>1, <3>4, <2>2, <2>4
    <3> QED BY <3>3, <3>4, <2>15
  <2>24. SavedInv'
    BY <2>1, <2>12, SavedKept
  <2> QED BY <2>1, <2>13, <2>18, <2>19, <2>22, <2>23, <2>24 DEF IInv, DbInv
<1> QED BY <1>3, <1>4

LEMMA CloseAbsentCIsStep ==
  ASSUME IInv, CloseAbsentCIs
  PROVE  IInv'
<1> DEFINE C == db.cis \ Absent
           I == {r.id : r \in Absent}
<1>1. /\ tx.kind = "reconcile" /\ tx.phase = Upserting
      /\ db' = [db EXCEPT !.cis = C] /\ tx' = [tx EXCEPT !.phase = Linking, !.closed = I]
      /\ saved' = saved /\ nextId' = nextId /\ batches' = batches
      /\ mixedUp' = mixedUp /\ savedMixedUp' = savedMixedUp
  BY DEF CloseAbsentCIs, history
<1>2. db \in DB /\ tx \in Tx
  BY <1>1, NoTxIsNone DEF IInv, TypeOK
<1>3. Absent \subseteq db.cis /\ db.cis \subseteq [id: Ids, key: Keys, val: Values]
  BY <1>2 DEF Absent, DB
<1>4. C \in SUBSET [id: Ids, key: Keys, val: Values] /\ I \in SUBSET Ids
  BY <1>3
<1> HIDE DEF C, I
<1>5. /\ db' \in DB /\ db'.cis = C /\ db'.edges = db.edges
      /\ db'.vertices = db.vertices /\ db'.links = db.links /\ db'.bound = db.bound
  BY <1>1, <1>2, <1>4, ClosedDB
<1>6. /\ tx' \in Tx /\ tx'.kind = tx.kind /\ tx'.phase = Linking
      /\ tx'.byKey = tx.byKey /\ tx'.seen = tx.seen /\ tx'.cis = tx.cis /\ tx'.closed = I
      /\ tx'.edges = tx.edges /\ tx'.edgesClosed = tx.edgesClosed
  BY <1>1, <1>2, <1>4, ClosedPhaseTx
<1>7. TypeOK'
  BY <1>1, <1>5, <1>6 DEF IInv, TypeOK
<1>8. /\ tx.edges = {} /\ tx.closed = {} /\ tx.edgesClosed = {}
      /\ \A b \in tx.byKey : b.id < nextId
      /\ OneToOne(db) /\ Known(db, nextId) /\ Owned(db) /\ Agrees(db, tx, mixedUp)
  BY <1>1 DEF IInv, PhaseInv, DbInv, Upserting, Linking
<1>9. OneToOne(db') /\ Known(db', nextId') /\ Agrees(db', tx', mixedUp')
  <2>1. Closes(db, db', tx, tx', Absent)
    BY <1>5, <1>6, <1>8 DEF Closes, C, I
  <2> QED BY <2>1, <1>1, <1>2, <1>3, <1>5, <1>8, ClosedAgrees
<1>10. PhaseInv'
  BY <1>1, <1>6, <1>8, NoTxIsNone DEF PhaseInv, Upserting, Linking
<1>11. RunInv'
  <2>1. \A r \in db.cis : r.key \in tx.seen => r \in C
    BY DEF C, Absent
  <2> QED BY <2>1, <1>1, <1>5, <1>6, <1>8 DEF IInv, RunInv
<1>12. Owned(db')
  BY <1>5, <1>8 DEF Owned, C
<1>13. SavedInv'
  BY <1>1, SavedKept
<1> QED BY <1>7, <1>9, <1>10, <1>11, <1>12, <1>13 DEF IInv, DbInv

LEMMA RemoveCIStep ==
  ASSUME IInv, NEW k \in Keys, RemoveCI(k)
  PROVE  IInv'
<1> DEFINE G == Current(k)
           C == db.cis \ G
           I == tx.closed \cup {r.id : r \in G}
           t == [tx EXCEPT !.closed = I]
<1>1. /\ tx.kind = "delta" /\ tx.events < MaxEvents
      /\ db' = [db EXCEPT !.cis = C] /\ tx' = Advance(RemovingCIs, t)
      /\ saved' = saved /\ nextId' = nextId /\ batches' = batches
      /\ mixedUp' = mixedUp /\ savedMixedUp' = savedMixedUp
  BY DEF RemoveCI, InPhase, history
<1>2. db \in DB /\ tx \in Tx
  BY <1>1, NoTxIsNone DEF IInv, TypeOK
<1>3. G \subseteq db.cis /\ db.cis \subseteq [id: Ids, key: Keys, val: Values]
  BY <1>2 DEF Current, DB
<1>4. C \in SUBSET [id: Ids, key: Keys, val: Values] /\ I \in SUBSET Ids
  BY <1>2, <1>3 DEF Tx
<1> HIDE DEF C, I
<1>5. /\ db' \in DB /\ db'.cis = C /\ db'.edges = db.edges
      /\ db'.vertices = db.vertices /\ db'.links = db.links /\ db'.bound = db.bound
  BY <1>1, <1>2, <1>4, ClosedDB
<1>6. /\ t \in Tx /\ t.kind = tx.kind /\ t.events = tx.events
      /\ t.byKey = tx.byKey /\ t.cis = tx.cis /\ t.closed = I
      /\ t.edges = tx.edges /\ t.edgesClosed = tx.edgesClosed
  BY <1>2, <1>4, ClosedTx
<1> HIDE DEF t
<1>7. /\ tx' \in Tx /\ tx'.kind = tx.kind /\ tx'.phase = RemovingCIs
      /\ tx'.byKey = tx.byKey /\ tx'.cis = tx.cis /\ tx'.closed = I
      /\ tx'.edges = tx.edges /\ tx'.edgesClosed = tx.edgesClosed
  BY <1>1, <1>6, AdvanceFields DEF RemovingCIs
<1>8. TypeOK'
  BY <1>1, <1>5, <1>7 DEF IInv, TypeOK
<1>9. /\ \A b \in tx.byKey : b.id < nextId
      /\ OneToOne(db) /\ Known(db, nextId) /\ Owned(db) /\ Agrees(db, tx, mixedUp)
  BY DEF IInv, PhaseInv, DbInv
<1>10. OneToOne(db') /\ Known(db', nextId') /\ Agrees(db', tx', mixedUp')
  <2>1. Closes(db, db', tx, tx', G)
    BY <1>5, <1>7 DEF Closes, C, I
  <2> QED BY <2>1, <1>1, <1>2, <1>3, <1>5, <1>9, ClosedAgrees
<1>11. PhaseInv'
  BY <1>1, <1>7, <1>9, NoTxIsNone DEF PhaseInv, Upserting, Linking, RemovingCIs
<1>12. RunInv'
  BY <1>1, <1>7 DEF RunInv
<1>13. Owned(db')
  BY <1>5, <1>9 DEF Owned, C
<1>14. SavedInv'
  BY <1>1, SavedKept
<1> QED BY <1>8, <1>10, <1>11, <1>12, <1>13, <1>14 DEF IInv, DbInv

\* What a name is resolved to.
LEMMA ResolveIs ==
  ASSUME IInv, tx \in Tx, NEW k \in Keys, NEW i \in Resolve(k), i # None
  PROVE  /\ i \in Ids /\ i < nextId
         /\ tx.kind = "reconcile" => i \in IdsOf(db)
<1>1. \/ \E b \in tx.byKey : b.id = i
      \/ \E r \in db.cis : r.id = i
  BY DEF Resolve, Current, OpenId, None
<1>2. /\ \A b \in tx.byKey : b.id \in Ids /\ b.id < nextId
      /\ tx.kind = "reconcile" => \A b \in tx.byKey : b.id \in IdsOf(db)
  BY DEF IInv, PhaseInv, RunInv, IdsOf, Tx
<1>3. \A r \in db.cis : r.id \in Ids /\ r.id < nextId /\ r.id \in IdsOf(db)
  BY DEF IInv, TypeOK, DbInv, Known, IdsOf, DB
<1> QED BY <1>1, <1>2, <1>3

LEMMA ObserveEdgeStep ==
  ASSUME IInv, NEW x \in Relations, NEW key \in EdgeKeys, ObserveEdge(x, key)
  PROVE  IInv'
<1>1. tx \in Tx /\ tx.events < MaxEvents /\ tx.phase \in {Upserting, Linking} /\ tx # NoTx
  BY DEF IInv, TypeOK, ObserveEdge, InPhase, Upserting, Linking, Tx
<1>2. PICK f \in Resolve(x.from), g \in Resolve(x.to) :
        LET e == [type |-> x.type, from |-> f, to |-> g, key |-> key]
            Stored == Advance(Linking, [tx EXCEPT !.edges = @ \cup {e}])
        IN IF None \in {f, g}
           THEN /\ tx.kind = "delta"
                /\ RollBack
           ELSE \/ /\ e \in db.edges
                   /\ tx' = Stored
                   /\ UNCHANGED <<db, saved, nextId, batches, history>>
                \/ /\ e \in db.edges => e \notin tx.edgeNow
                   /\ db' = [db EXCEPT !.edges = @ \cup {e}]
                   /\ tx' = [Stored EXCEPT !.edgeNow = @ \cup {e}]
                   /\ UNCHANGED <<saved, nextId, batches, history>>
                \/ /\ e \in db.edges /\ e \in tx.edgeNow
                   /\ RollBack
  BY DEF ObserveEdge
<1> DEFINE e == [type |-> x.type, from |-> f, to |-> g, key |-> key]
           E == db.edges \cup {e}
           F == tx.edges \cup {e}
           t == [tx EXCEPT !.edges = F]
           Stored == Advance(Linking, t)
           N == Stored.edgeNow \cup {e}
<1>3. CASE RollBack
  BY <1>3, RollBackStep
<1>4. CASE ~RollBack
  <2>1. /\ None \notin {f, g}
        /\ saved' = saved /\ nextId' = nextId /\ batches' = batches
        /\ mixedUp' = mixedUp /\ savedMixedUp' = savedMixedUp
        /\ \/ e \in db.edges /\ db' = db /\ tx' = Stored
           \/ db' = [db EXCEPT !.edges = E] /\ tx' = [Stored EXCEPT !.edgeNow = N]
    BY <1>2, <1>4 DEF history
  <2>2. x.from \in Keys /\ x.to \in Keys
    BY ScopeAssumption
  <2>3. /\ f \in Ids /\ f < nextId /\ g \in Ids /\ g < nextId
        /\ tx.kind = "reconcile" => f \in IdsOf(db) /\ g \in IdsOf(db)
    BY <1>1, <2>1, <2>2, ResolveIs
  <2>4. e \in Edge /\ e.from = f /\ e.to = g
    BY <2>3 DEF Edge
  <2> HIDE DEF e
  <2>5. db \in DB /\ E \in SUBSET Edge /\ F \in SUBSET Edge
    BY <1>1, <2>4 DEF IInv, TypeOK, DB, Tx
  <2> HIDE DEF E, F
  <2>6. /\ t \in Tx /\ t.kind = tx.kind /\ t.events = tx.events
        /\ t.byKey = tx.byKey /\ t.seen = tx.seen /\ t.cis = tx.cis
        /\ t.closed = tx.closed /\ t.edges = F
        /\ t.edgesClosed = tx.edgesClosed /\ t.edgeNow = tx.edgeNow
    BY <1>1, <2>5, EdgesTx
  <2> HIDE DEF t
  <2>7. /\ Stored \in Tx /\ Stored.kind = tx.kind /\ Stored.phase = Linking
        /\ Stored.byKey = tx.byKey /\ Stored.seen = tx.seen /\ Stored.cis = tx.cis
        /\ Stored.closed = tx.closed /\ Stored.edges = F
        /\ Stored.edgesClosed = tx.edgesClosed /\ Stored.edgeNow = tx.edgeNow
    BY <1>1, <2>6, AdvanceFields DEF Linking
  <2> HIDE DEF Stored
  <2>8. N \in SUBSET Edge
    BY <2>4, <2>7 DEF Tx
  <2> HIDE DEF N
  <2>9. /\ tx' \in Tx /\ tx'.kind = tx.kind /\ tx'.phase = Linking
        /\ tx'.byKey = tx.byKey /\ tx'.seen = tx.seen /\ tx'.cis = tx.cis
        /\ tx'.closed = tx.closed /\ tx'.edges = F /\ tx'.edgesClosed = tx.edgesClosed
    <3>1. CASE tx' = Stored
      BY <3>1, <2>7
    <3>2. CASE tx' = [Stored EXCEPT !.edgeNow = N]
      BY <3>2, <2>7, <2>8, EdgeNowTx
    <3> QED BY <2>1, <3>1, <3>2
  <2>10. /\ db' \in DB /\ db'.cis = db.cis /\ db'.edges = E
         /\ db'.vertices = db.vertices /\ db'.links = db.links /\ db'.bound = db.bound
    <3>1. CASE e \in db.edges /\ db' = db
      BY <3>1, <2>5 DEF E
    <3>2. CASE db' = [db EXCEPT !.edges = E]
      BY <3>2, <2>5, EdgesDB
    <3> QED BY <2>1, <3>1, <3>2
  <2>11. TypeOK'
    BY <2>1, <2>9, <2>10 DEF IInv, TypeOK
  <2>12. /\ tx.edgesClosed = {}
         /\ \A b \in tx.byKey : b.id < nextId
         /\ OneToOne(db) /\ Known(db, nextId) /\ Owned(db) /\ Agrees(db, tx, mixedUp)
    BY <1>1 DEF IInv, PhaseInv, DbInv
  <2>13. OneToOne(db') /\ Known(db', nextId') /\ Agrees(db', tx', mixedUp')
    <3>1. Relates(db, db', tx, tx', e)
      BY <2>9, <2>10, <2>12 DEF Relates, E, F
    <3> QED BY <3>1, <2>1, <2>3, <2>4, <2>5, <2>10, <2>12, LinkedAgrees
  <2>14. PhaseInv'
    BY <2>1, <2>9, <2>12, NoTxIsNone DEF PhaseInv, Upserting, Linking
  <2>15. RunInv'
    BY <2>3, <2>4, <2>9, <2>10 DEF IInv, RunInv, IdsOf, F
  <2>16. Owned(db')
    BY <2>10, <2>12 DEF Owned
  <2>17. SavedInv'
    BY <2>1, SavedKept
  <2> QED BY <2>11, <2>13, <2>14, <2>15, <2>16, <2>17 DEF IInv, DbInv
<1> QED BY <1>3, <1>4

LEMMA CloseAbsentEdgesStep ==
  ASSUME IInv, CloseAbsentEdges
  PROVE  IInv'
<1> DEFINE S == {e \in db.edges : e.type \in EdgeTypes[tx.source]} \ tx.edges
           E == db.edges \ S
<1>1. /\ tx.kind = "reconcile" /\ tx.phase = Linking
      /\ db' = [db EXCEPT !.edges = E] /\ tx' = [tx EXCEPT !.phase = Projecting, !.edgesClosed = S]
      /\ saved' = saved /\ nextId' = nextId /\ batches' = batches
      /\ mixedUp' = mixedUp /\ savedMixedUp' = savedMixedUp
  BY DEF CloseAbsentEdges, history
<1>2. db \in DB /\ tx \in Tx
  BY <1>1, NoTxIsNone DEF IInv, TypeOK
<1>3. E \in SUBSET Edge /\ S \in SUBSET Edge
  BY <1>2 DEF DB
<1> HIDE DEF E, S
<1>4. /\ db' \in DB /\ db'.cis = db.cis /\ db'.edges = E
      /\ db'.vertices = db.vertices /\ db'.links = db.links /\ db'.bound = db.bound
  BY <1>1, <1>2, <1>3, EdgesDB
<1>5. /\ tx' \in Tx /\ tx'.kind = tx.kind /\ tx'.phase = Projecting
      /\ tx'.byKey = tx.byKey /\ tx'.seen = tx.seen /\ tx'.cis = tx.cis
      /\ tx'.closed = tx.closed /\ tx'.edges = tx.edges /\ tx'.edgesClosed = S
  BY <1>1, <1>2, <1>3, EdgesPhaseTx
<1>6. TypeOK'
  BY <1>1, <1>4, <1>5 DEF IInv, TypeOK
<1>7. /\ tx.edgesClosed = {}
      /\ \A b \in tx.byKey : b.id < nextId
      /\ OneToOne(db) /\ Known(db, nextId) /\ Owned(db) /\ Agrees(db, tx, mixedUp)
  BY <1>1 DEF IInv, PhaseInv, DbInv
<1>8. OneToOne(db') /\ Known(db', nextId') /\ Agrees(db', tx', mixedUp')
  <2>1. Cuts(db, db', tx, tx', mixedUp, mixedUp', S, S)
    BY <1>1, <1>4, <1>5, <1>7 DEF Cuts, E
  <2> QED BY <2>1, <1>1, <1>2, <1>4, <1>7, CutAgrees
<1>9. PhaseInv'
  BY <1>1, <1>5, <1>7, NoTxIsNone DEF PhaseInv, Upserting, Linking, Projecting
<1>10. RunInv'
  BY <1>4, <1>5 DEF IInv, RunInv, IdsOf
<1>11. Owned(db')
  BY <1>4, <1>7 DEF Owned
<1>12. SavedInv'
  BY <1>1, SavedKept
<1> QED BY <1>6, <1>8, <1>9, <1>10, <1>11, <1>12 DEF IInv, DbInv

LEMMA RemoveEdgeStep ==
  ASSUME IInv, NEW x \in Relations, RemoveEdge(x)
  PROVE  IInv'
<1>1. /\ tx.kind = "delta" /\ tx.events < MaxEvents
      /\ saved' = saved /\ nextId' = nextId /\ batches' = batches
      /\ savedMixedUp' = savedMixedUp
  BY DEF RemoveEdge, InPhase
<1>2. PICK f \in Resolve(x.from), g \in Resolve(x.to) :
        LET between == {e \in db.edges : e.type = x.type /\ e.from = f /\ e.to = g}
            e == [type |-> x.type, from |-> f, to |-> g, key |-> DefaultKey]
        IN IF e \in between
           THEN \E o \in between :
                /\ db' = [db EXCEPT !.edges = @ \ {e}]
                /\ tx' = Advance(Cutting, [tx EXCEPT !.edgesClosed = @ \cup {o}])
                /\ mixedUp' = IF o = e THEN mixedUp ELSE mixedUp \cup {<<f, g>>}
           ELSE /\ tx' = Advance(Cutting, tx)
                /\ UNCHANGED <<db, mixedUp>>
  BY DEF RemoveEdge
<1> DEFINE e == [type |-> x.type, from |-> f, to |-> g, key |-> DefaultKey]
           E == db.edges \ {e}
<1>3. db \in DB /\ tx \in Tx
  BY <1>1, NoTxIsNone DEF IInv, TypeOK
<1>4. /\ \A b \in tx.byKey : b.id < nextId
      /\ OneToOne(db) /\ Known(db, nextId) /\ Owned(db) /\ Agrees(db, tx, mixedUp)
  BY DEF IInv, PhaseInv, DbInv
<1>5. Cutting \in 1..5 /\ Cutting \notin {Upserting, Linking}
  BY DEF Cutting, Upserting, Linking
<1>6. CASE tx' = Advance(Cutting, tx) /\ db' = db /\ mixedUp' = mixedUp
  <2>1. /\ tx' \in Tx /\ tx'.kind = tx.kind /\ tx'.phase = Cutting
        /\ tx'.byKey = tx.byKey /\ tx'.cis = tx.cis /\ tx'.closed = tx.closed
        /\ tx'.edges = tx.edges /\ tx'.edgesClosed = tx.edgesClosed
    BY <1>1, <1>3, <1>5, <1>6, AdvanceFields
  <2>2. TypeOK'
    BY <2>1, <1>1, <1>6 DEF IInv, TypeOK
  <2>3. OneToOne(db') /\ Known(db', nextId') /\ Owned(db') /\ Agrees(db', tx', mixedUp')
    BY <2>1, <1>1, <1>4, <1>6 DEF Agrees, Drawn
  <2>4. PhaseInv' /\ RunInv'
    BY <2>1, <1>1, <1>4, <1>5, NoTxIsNone DEF PhaseInv, RunInv
  <2>5. SavedInv'
    BY <1>1, SavedKept
  <2> QED BY <2>2, <2>3, <2>4, <2>5 DEF IInv, DbInv
<1>7. CASE ~(tx' = Advance(Cutting, tx) /\ db' = db /\ mixedUp' = mixedUp)
  <2>1. PICK o \in db.edges :
          /\ o.from = f /\ o.to = g /\ e \in db.edges
          /\ db' = [db EXCEPT !.edges = E]
          /\ tx' = Advance(Cutting, [tx EXCEPT !.edgesClosed = @ \cup {o}])
          /\ mixedUp' = IF o = e THEN mixedUp ELSE mixedUp \cup {<<f, g>>}
    BY <1>2, <1>7
  <2> DEFINE R == tx.edgesClosed \cup {o}
             t == [tx EXCEPT !.edgesClosed = R]
  <2>2. e.from = f /\ e.to = g /\ f \in Ids /\ g \in Ids
    BY <1>3, <2>1 DEF DB, Edge
  <2>3. E \in SUBSET Edge /\ R \in SUBSET Edge
    BY <1>3, <2>1 DEF DB, Tx
  <2> HIDE DEF e
  <2>4. tx' = Advance(Cutting, t)
    BY <2>1
  <2>5. E = db.edges \ {e} /\ R = tx.edgesClosed \cup {o}
    OBVIOUS
  <2> HIDE DEF E, R
  <2>6. /\ t \in Tx /\ t.kind = tx.kind /\ t.events = tx.events
        /\ t.byKey = tx.byKey /\ t.cis = tx.cis /\ t.closed = tx.closed
        /\ t.edges = tx.edges /\ t.edgesClosed = R
    BY <1>3, <2>3, EdgesClosedTx
  <2> HIDE DEF t
  <2>7. /\ tx' \in Tx /\ tx'.kind = tx.kind /\ tx'.phase = Cutting
        /\ tx'.byKey = tx.byKey /\ tx'.cis = tx.cis /\ tx'.closed = tx.closed
        /\ tx'.edges = tx.edges /\ tx'.edgesClosed = R
    BY <1>1, <1>5, <2>4, <2>6, AdvanceFields
  <2>8. /\ db' \in DB /\ db'.cis = db.cis /\ db'.edges = E
        /\ db'.vertices = db.vertices /\ db'.links = db.links /\ db'.bound = db.bound
    BY <1>3, <2>1, <2>3, EdgesDB
  <2>9. mixedUp \subseteq mixedUp' /\ mixedUp' \in SUBSET (Ids \X Ids)
    BY <2>1, <2>2 DEF IInv, TypeOK
  <2>10. TypeOK'
    BY <1>1, <2>7, <2>8, <2>9 DEF IInv, TypeOK
  <2>11. OneToOne(db') /\ Known(db', nextId') /\ Agrees(db', tx', mixedUp')
    <3>1. {e} = {o} \/ \A y \in {e} \cup {o} : <<y.from, y.to>> \in mixedUp'
      BY <2>1, <2>2
    <3>2. Cuts(db, db', tx, tx', mixedUp, mixedUp', {e}, {o})
      BY <3>1, <2>5, <2>7, <2>8, <2>9 DEF Cuts
    <3> QED BY <3>2, <1>1, <1>3, <1>4, <2>8, CutAgrees
  <2>12. PhaseInv' /\ RunInv'
    BY <2>7, <1>1, <1>4, <1>5, NoTxIsNone DEF PhaseInv, RunInv
  <2>13. Owned(db')
    BY <2>8, <1>4 DEF Owned
  <2>14. SavedInv'
    BY <1>1, SavedKept
  <2> QED BY <2>10, <2>11, <2>12, <2>13, <2>14 DEF IInv, DbInv
<1> QED BY <1>6, <1>7

LEMMA ProjectAndCommitStep ==
  ASSUME IInv, ProjectAndCommit
  PROVE  IInv'
<1> DEFINE V == (db.vertices \cup tx.cis) \ tx.closed
           L == Drawn(db, tx)
<1>1. /\ tx.kind \in {"delta", "reconcile"} /\ db' = Projected(db) /\ saved' = Projected(db)
      /\ tx' = NoTx /\ nextId' = nextId /\ batches' = batches
      /\ mixedUp' = mixedUp /\ savedMixedUp' = mixedUp
  BY DEF ProjectAndCommit
<1>2. db \in DB /\ tx \in Tx
  BY <1>1, NoTxIsNone DEF IInv, TypeOK
<1>3. V \in SUBSET Ids /\ L \in SUBSET Edge
  BY <1>2 DEF DB, Tx, Drawn
<1>4. Projected(db) = [db EXCEPT !.vertices = V, !.links = L]
  BY DEF Projected, Drawn
<1> HIDE DEF V, L
<1>5. /\ db' \in DB /\ db'.cis = db.cis /\ db'.edges = db.edges
      /\ db'.vertices = V /\ db'.links = L /\ db'.bound = db.bound
  BY <1>1, <1>2, <1>3, <1>4 DEF DB
<1>6. TypeOK'
  BY <1>1, <1>5 DEF IInv, TypeOK
<1>7. OneToOne(db) /\ Known(db, nextId) /\ Owned(db) /\ Agrees(db, tx, mixedUp)
  BY DEF IInv, DbInv
<1>8. OneToOne(db') /\ Known(db', nextId) /\ Mirrors(db', mixedUp)
  BY <1>2, <1>5, <1>7, ProjectedMirrors DEF V, L
<1>9. Owned(db')
  BY <1>5, <1>7 DEF Owned
<1>10. NoTx.phase = Upserting /\ NoTx.edges = {} /\ NoTx.closed = {} /\ NoTx.edgesClosed = {}
      /\ NoTx.byKey = {} /\ NoTx.kind = "none" /\ NoTx.cis = {}
  BY DEF NoTx, Started, Upserting
<1>11. PhaseInv' /\ RunInv'
  BY <1>1, <1>10 DEF PhaseInv, RunInv
<1>12. Agrees(db', NoTx, mixedUp)
  BY <1>8, <1>10, MirrorsAgrees
<1> QED BY <1>1, <1>6, <1>8, <1>9, <1>11, <1>12 DEF IInv, DbInv, SavedInv

LEMMA Step == IInv /\ [Next]_vars => IInv'
<1> SUFFICES ASSUME IInv, [Next]_vars PROVE IInv'
  OBVIOUS
<1>1. CASE \E s \in Sources, mode \in {"reconcile", "delta"} : Begin(s, mode)
  BY <1>1, BeginStep
<1>2. CASE \E k \in Keys, v \in Values, al \in SUBSET Aliases : ObserveCI(k, v, al)
  BY <1>2, ObserveCIStep
<1>3. CASE CloseAbsentCIs
  BY <1>3, CloseAbsentCIsStep
<1>4. CASE \E x \in Relations, key \in EdgeKeys : ObserveEdge(x, key)
  BY <1>4, ObserveEdgeStep
<1>5. CASE CloseAbsentEdges
  BY <1>5, CloseAbsentEdgesStep
<1>6. CASE \E k \in Keys : RemoveCI(k)
  BY <1>6, RemoveCIStep
<1>7. CASE \E x \in Relations : RemoveEdge(x)
  BY <1>7, RemoveEdgeStep
<1>8. CASE ProjectAndCommit
  BY <1>8, ProjectAndCommitStep
<1>9. CASE Fail
  BY <1>9, RollBackStep DEF Fail
<1>10. CASE UNCHANGED vars
  BY <1>10 DEF vars, history, IInv, TypeOK, PhaseInv, RunInv, DbInv, SavedInv,
               OneToOne, Known, Owned, Agrees, Mirrors, Drawn, Shown, IdsOf
<1> QED BY <1>1, <1>2, <1>3, <1>4, <1>5, <1>6, <1>7, <1>8, <1>9, <1>10 DEF Next

LEMMA Invariant == Spec => []IInv
  BY InitIInv, Step, PTL DEF Spec

-----------------------------------------------------------------------------
(* The theorems.                                                           *)

\* The types of the tables, the graph and the running batch (reconcile.py).
THEOREM TypeCorrect == Spec => []TypeOK
<1>1. IInv => TypeOK
  BY DEF IInv
<1> QED BY <1>1, Invariant, PTL

\* For any number of sources, identities, aliases and batches: a merge never
\* gives a CI a second identity or an identity a second CI (_resolve_canonical_ci).
THEOREM IdentityIsOneToOneCorrect == Spec => []IdentityIsOneToOne
<1>1. IInv => IdentityIsOneToOne
  BY DEF IInv, SavedInv, OneToOne, IdentityIsOneToOne
<1> QED BY <1>1, Invariant, PTL

\* After every transaction the graph that project leaves shows the open CIs and
\* the open edges between them (reconcile.py, projection.py).
THEOREM GraphMirrorsStoreCorrect == Spec => []GraphMirrorsStore
<1>1. ASSUME IInv PROVE GraphMirrorsStore
  <2>1. saved.vertices = {r.id : r \in saved.cis}
    BY <1>1 DEF IInv, SavedInv, Mirrors, IdsOf
  <2>2. saved.links \subseteq Edge /\ saved.edges \subseteq Edge
    BY <1>1 DEF IInv, TypeOK, DB
  <2>3. \A e \in Edge : <<e.from, e.to>> \notin savedMixedUp =>
          (e \in saved.links <=> /\ e \in saved.edges
                                 /\ e.from \in {r.id : r \in saved.cis}
                                 /\ e.to \in {r.id : r \in saved.cis})
    BY <1>1 DEF IInv, SavedInv, Mirrors, Shown, IdsOf
  <2> QED BY <2>1, <2>2, <2>3 DEF GraphMirrorsStore
<1> QED BY <1>1, Invariant, PTL

\* A reconcile run closes nothing that it observed, merged or not (step 2).
THEOREM ObservedIsOpenCorrect == Spec => []ObservedIsOpen
<1>1. IInv => ObservedIsOpen
  BY DEF IInv, RunInv, ObservedIsOpen, OpenId
<1> QED BY <1>1, Invariant, PTL

\* A reconcile run asserts no edge to a CI that is not open (_resolve).
THEOREM NoPhantomEdgeCorrect == Spec => []NoPhantomEdge
<1>1. IInv => NoPhantomEdge
  BY DEF IInv, RunInv, IdsOf, NoPhantomEdge, OpenId
<1> QED BY <1>1, Invariant, PTL

\* Every open CI has a source whose later runs can retire it (_bind_source_key).
THEOREM OpenIsOwnedCorrect == Spec => []OpenIsOwned
<1>1. IInv => OpenIsOwned
  BY DEF IInv, SavedInv, Owned, OpenIsOwned
<1> QED BY <1>1, Invariant, PTL

-----------------------------------------------------------------------------
(* EdgeLifecycle: the versions of one of the edges that a batch observes,  *)
(* for any number of processes and any decay curve that meets              *)
(* CurveAssumption.                                                        *)

\* What an upsert writes is trusted no more than it has earned, and a declared
\* version counts nothing.
Earned(v) ==
  /\ v.source = "inferred" => /\ Floor <= v.conf
                              /\ v.conf <= ConfidenceFor(AtLeast(v.count, 1))
  /\ v.source = "declared" => v.count = 0

EarnedInv == Earned(row) /\ \A p \in Procs : Earned(new[p])

\* How far p has come with the version that it decided on.
EdgePhaseInv ==
  \A p \in Procs :
    /\ pc[p] \in {"idle", "read"} => new[p] = NoRow
    /\ pc[p] \in {"idle", "read", "update", "locking"} => ~lock[p]
    /\ pc[p] # "ready" => ~inserted[p]
    /\ pc[p] = "insert" => new[p] # NoRow
    /\ pc[p] = "ready" /\ new[p] # NoRow => inserted[p]
    /\ inserted[p] => new[p] # NoRow

\* p changes, or may yet change, the row.
Writing(p) == pc[p] \in {"update", "locking", "insert"} \/ lock[p] \/ inserted[p]

\* The decision of a process of kind k that began at t, made from the row r, to
\* replace it by v.
Decision(k, t, r, v) ==
  /\ k = "observe" =>
       /\ v.source = "inferred"
       /\ r = NoRow => v.count = 1
       /\ r.source = "inferred" => v.count = AtLeast(r.count, 1) + 1
       /\ r.source = "declared" => v.count = 0
  /\ k = "declare" => v.source = "declared"
  /\ k = "remove" => v = NoRow
  /\ k = "sweep" =>
       /\ r.source = "inferred" /\ r.seen # Never
       /\ IF v = NoRow
          THEN t - r.seen > TTL
          ELSE /\ t - r.seen > Window /\ v.conf < r.conf /\ t \notin r.decays
               /\ v.source = "inferred" /\ v.count = r.count /\ v.seen = r.seen

\* Without overlap, the observations since the edge was created or declared are
\* what its row counts, one without a marker counting as one.
SerialInv ==
  ~overlapped =>
    /\ \A p, q \in Active : p = q
    /\ row.source = "inferred" => since = AtLeast(row.count, 1)
    /\ row.source = "declared" => since = 0
    /\ \A p \in Active : Writing(p) => Decision(kind[p], now[p], row, new[p])
-----------------------------------------------------------------------------
(* The curves.                                                             *)

\* A power of two counts the subsets of an interval.
LEMMA PowerPositive ==
  ASSUME NEW n \in Nat
  PROVE  2^n \in Nat \ {0}
<1>1. IsFiniteSet(1..n) /\ Cardinality(1..n) = n
  BY FS_Interval
<1>2. IsFiniteSet(SUBSET (1..n)) /\ Cardinality(SUBSET (1..n)) = 2^n
  BY <1>1, FS_SUBSET
<1>3. Cardinality(SUBSET (1..n)) \in Nat /\ Cardinality(SUBSET (1..n)) # 0
  BY <1>2, FS_CardinalityType, FS_EmptySet
<1> QED
  BY <1>2, <1>3

LEMMA Quotient ==
  ASSUME NEW a \in Nat, NEW b \in Nat \ {0}
  PROVE  a \div b \in Nat /\ a \div b <= a /\ a \div 1 = a
OBVIOUS

\* One observation earns the baseline, more never less than that, and never
\* more than full confidence.
LEMMA ConfidenceBounds ==
  ASSUME NEW n \in Nat, n >= 1
  PROVE  /\ ConfidenceFor(n) \in Nat
         /\ Baseline <= ConfidenceFor(n) /\ ConfidenceFor(n) <= Full
         /\ ConfidenceFor(1) = Baseline
<1>1. /\ Full \in Nat /\ Baseline \in Nat /\ Baseline < Full
      /\ Full - Baseline \in Nat /\ n - 1 \in Nat
  BY CurveAssumption
<1>2. 2^(n - 1) \in Nat \ {0}
  BY <1>1, PowerPositive
<1>3. 2^(1 - 1) = 1
  <2>1. 1 - 1 = 0 /\ 2^0 = 1
    OBVIOUS
  <2> QED
    BY <2>1
<1>4. /\ (Full - Baseline) \div 2^(n - 1) \in Nat
      /\ (Full - Baseline) \div 2^(n - 1) <= Full - Baseline
      /\ (Full - Baseline) \div 1 = Full - Baseline
  BY <1>1, <1>2, Quotient
<1> QED
  BY <1>1, <1>3, <1>4 DEF ConfidenceFor

LEMMA DecayedType ==
  ASSUME NEW c \in Int, NEW age \in Int
  PROVE  Decayed(c, age) \in Int /\ Floor <= Decayed(c, age)
BY CurveAssumption DEF Decayed, AtLeast

-----------------------------------------------------------------------------
(* What a decision writes.                                                 *)

LEMMA RowFields ==
  ASSUME NEW v \in Version \cup {NoRow}
  PROVE  /\ v.source \in {"declared", "inferred", "none"} /\ v.count \in Nat
         /\ v.seen \in Int /\ v.conf \in Nat /\ v.no \in Nat
         /\ v.source = "none" <=> v = NoRow
BY CurveAssumption, EdgeBoundsAssumption DEF Version, NoRow, Days, Never

\* What an operation writes, given what it read.
LEMMA Writes ==
  ASSUME EdgeTypeOK, NEW v \in Version \cup {NoRow}, Earned(v), NEW at \in Days
  PROVE  /\ First(at) \in Version /\ Earned(First(at))
         /\ Declared(v) \in Version /\ Earned(Declared(v))
         /\ v.source = "inferred" =>
              /\ Reobserved(v, at) \in Version /\ Earned(Reobserved(v, at))
              /\ Reobserved(v, at).source = "inferred"
              /\ Reobserved(v, at).count = AtLeast(v.count, 1) + 1
         /\ v.source = "declared" =>
              /\ Verbatim(v) \in Version /\ Earned(Verbatim(v))
              /\ Verbatim(v).source = "inferred" /\ Verbatim(v).count = 0
<1>1. /\ Full \in Nat /\ Baseline \in Nat /\ Floor \in Nat /\ nextNo \in Nat
      /\ Floor <= Baseline /\ Baseline < Full
      /\ Baseline \in 0..Full /\ Full \in 0..Full
  BY CurveAssumption DEF EdgeTypeOK
<1>2. /\ ConfidenceFor(1) = Baseline
      /\ AtLeast(0, 1) = 1 /\ AtLeast(1, 1) = 1
  BY ConfidenceBounds DEF AtLeast
<1>3. First(at) \in Version /\ Earned(First(at))
  BY <1>1, <1>2 DEF First, Earned, Version
<1>4. Declared(v) \in Version /\ Earned(Declared(v))
  <2>1. v # NoRow => v.id \in Nat
    BY DEF Version
  <2> QED
    BY <1>1, <2>1 DEF Declared, Earned, Version
<1>5. ASSUME v.source = "inferred"
      PROVE  /\ Reobserved(v, at) \in Version /\ Earned(Reobserved(v, at))
             /\ Reobserved(v, at).source = "inferred"
             /\ Reobserved(v, at).count = AtLeast(v.count, 1) + 1
  <2>1. v \in Version
    BY <1>5, RowFields
  <2> DEFINE n == AtLeast(v.count, 1) + 1
             w == Reobserved(v, at)
  <2>2. n \in Nat /\ n >= 1 /\ AtLeast(n, 1) = n
    BY <2>1 DEF Version, AtLeast
  <2>3. ConfidenceFor(n) \in Nat /\ Baseline <= ConfidenceFor(n) /\ ConfidenceFor(n) <= Full
    BY <2>2, ConfidenceBounds
  <2>4. w = [v EXCEPT !.no = nextNo, !.count = n, !.seen = at, !.conf = ConfidenceFor(n)]
    BY DEF Reobserved
  <2> HIDE DEF n, w
  <2>5. PICK c : c = ConfidenceFor(n)
    OBVIOUS
  <2>6. c \in 0..Full /\ at \in Days \cup {Never}
    BY <1>1, <2>3, <2>5
  <2>7. w = [v EXCEPT !.no = nextNo, !.count = n, !.seen = at, !.conf = c]
    BY <2>4, <2>5
  <2>8. /\ w \in Version /\ w.source = "inferred" /\ w.count = n /\ w.conf = c
    BY <1>1, <1>5, <2>1, <2>2, <2>6, <2>7 DEF Version
  <2>9. Earned(w)
    BY <1>1, <2>2, <2>3, <2>5, <2>8 DEF Earned
  <2> QED
    BY <2>8, <2>9 DEF n, w
<1>6. ASSUME v.source = "declared"
      PROVE  /\ Verbatim(v) \in Version /\ Earned(Verbatim(v))
             /\ Verbatim(v).source = "inferred" /\ Verbatim(v).count = 0
  <2>1. v \in Version /\ v.count = 0
    BY <1>6, RowFields DEF Earned
  <2>2. /\ Verbatim(v) \in Version /\ Verbatim(v).source = "inferred"
        /\ Verbatim(v).count = 0 /\ Verbatim(v).conf = Baseline
    BY <1>1, <2>1 DEF Verbatim, Version
  <2> QED
    BY <1>1, <1>2, <2>2 DEF Earned
<1> QED
  BY <1>3, <1>4, <1>5, <1>6

\* What the sweep writes: less confidence, down to the floor.
LEMMA SweepWrites ==
  ASSUME EdgeTypeOK, NEW v \in Version, Earned(v), v.source = "inferred",
         NEW c \in Int, Floor <= c, c < v.conf, NEW ref \in Days
  PROVE  /\ Aged(v, c, ref) \in Version /\ Earned(Aged(v, c, ref))
         /\ Aged(v, c, ref).source = "inferred" /\ Aged(v, c, ref).conf = c
         /\ Aged(v, c, ref).count = v.count /\ Aged(v, c, ref).seen = v.seen
<1>1. c \in 0..Full /\ nextNo \in Nat /\ Floor \in Int
  BY CurveAssumption DEF EdgeTypeOK, Version
<1>2. v.conf \in Int /\ v.count \in Nat
  BY CurveAssumption DEF Version
<1>3. AtLeast(v.count, 1) \in Nat /\ AtLeast(v.count, 1) >= 1
  BY <1>2 DEF AtLeast
<1>4. ConfidenceFor(AtLeast(v.count, 1)) \in Int
  BY <1>3, ConfidenceBounds
<1>5. /\ Aged(v, c, ref) \in Version
      /\ Aged(v, c, ref).source = "inferred" /\ Aged(v, c, ref).conf = c
      /\ Aged(v, c, ref).count = v.count /\ Aged(v, c, ref).seen = v.seen
  BY <1>1 DEF Aged, Version
<1> QED
  BY <1>1, <1>2, <1>4, <1>5 DEF Earned

-----------------------------------------------------------------------------
(* Every version is earned, however transactions interleave.               *)

EdgeInv == EdgeTypeOK /\ EarnedInv /\ EdgePhaseInv

\* What a SELECT may decide on.
LEMMA ReadDecides ==
  ASSUME EdgeInv, NEW p \in Procs,
         \/ \E at \in Days : ReadToObserve(p, at)
         \/ ReadToDeclare(p) \/ ReadToRemove(p) \/ ReadToSweep(p)
  PROVE  /\ pc[p] = "read"
         /\ \E next \in {"insert", "update", "ready"}, v \in Version \cup {NoRow} :
              /\ Decide(p, next, v) /\ Earned(v)
              /\ next = "insert" => v # NoRow
              /\ next = "ready" => v = NoRow
              /\ next # "ready" => Decision(kind[p], now[p], row, v)
<1>0. /\ row \in Version \cup {NoRow} /\ Earned(row) /\ EdgeTypeOK
      /\ now[p] \in Days
  BY DEF EdgeInv, EdgeTypeOK, EarnedInv
<1>1. NoRow.source = "none" /\ Earned(NoRow)
  BY DEF NoRow, Earned
<1>2. /\ row.source \in {"declared", "inferred", "none"}
      /\ row.source = "none" <=> row = NoRow
      /\ row.count \in Nat /\ row.seen \in Int /\ row.conf \in Nat
  BY <1>0, RowFields
<1> DEFINE G(next, v) == /\ Decide(p, next, v) /\ Earned(v)
                         /\ v \in Version \cup {NoRow}
                         /\ next = "insert" => v # NoRow
                         /\ next = "ready" => v = NoRow
                         /\ next # "ready" => Decision(kind[p], now[p], row, v)
<1> SUFFICES pc[p] = "read" /\ \E next \in {"insert", "update", "ready"} : \E v : G(next, v)
  OBVIOUS
<1>3. ASSUME NEW at \in Days, ReadToObserve(p, at)
      PROVE  pc[p] = "read" /\ \E next \in {"insert", "update", "ready"} : \E v : G(next, v)
  <2>1. pc[p] = "read" /\ kind[p] = "observe"
    BY <1>3 DEF ReadToObserve
  <2>2. CASE row = NoRow /\ Decide(p, "insert", First(at))
    <3>1. /\ First(at) \in Version /\ Earned(First(at))
          /\ First(at).source = "inferred" /\ First(at).count = 1
      BY <1>0, Writes DEF First
    <3>2. First(at) # NoRow
      BY <1>1, <3>1
    <3>3. Decision(kind[p], now[p], row, First(at))
      BY <1>1, <2>1, <2>2, <3>1 DEF Decision
    <3> QED
      BY <2>1, <2>2, <3>1, <3>2, <3>3
  <2>3. CASE row.source = "inferred" /\ Decide(p, "update", Reobserved(row, at))
    <3>1. /\ Reobserved(row, at) \in Version /\ Earned(Reobserved(row, at))
          /\ Reobserved(row, at).source = "inferred"
          /\ Reobserved(row, at).count = AtLeast(row.count, 1) + 1
      BY <1>0, <2>3, Writes
    <3>2. Decision(kind[p], now[p], row, Reobserved(row, at))
      BY <1>1, <2>1, <2>3, <3>1 DEF Decision
    <3> QED
      BY <2>1, <2>3, <3>1, <3>2
  <2>4. CASE row.source = "declared" /\ Decide(p, "update", Verbatim(row))
    <3>1. /\ Verbatim(row) \in Version /\ Earned(Verbatim(row))
          /\ Verbatim(row).source = "inferred" /\ Verbatim(row).count = 0
      BY <1>0, <2>4, Writes
    <3>2. Decision(kind[p], now[p], row, Verbatim(row))
      BY <1>1, <2>1, <2>4, <3>1 DEF Decision
    <3> QED
      BY <2>1, <2>4, <3>1, <3>2
  <2> QED
    BY <1>3, <2>2, <2>3, <2>4 DEF ReadToObserve
<1>4. ASSUME ReadToDeclare(p)
      PROVE  pc[p] = "read" /\ \E next \in {"insert", "update", "ready"} : \E v : G(next, v)
  <2>1. pc[p] = "read" /\ kind[p] = "declare"
    BY <1>4 DEF ReadToDeclare
  <2>2. 0 \in Days
    BY EdgeBoundsAssumption DEF Days
  <2>3. /\ Declared(row) \in Version /\ Earned(Declared(row))
        /\ Declared(row).source = "declared"
    BY <1>0, <2>2, Writes DEF Declared
  <2>4. Declared(row) # NoRow
    BY <1>1, <2>3
  <2>5. Decision(kind[p], now[p], row, Declared(row))
    BY <2>1, <2>3 DEF Decision
  <2> QED
    BY <1>1, <1>4, <2>1, <2>3, <2>4, <2>5 DEF ReadToDeclare, Nothing
<1>5. ASSUME ReadToRemove(p)
      PROVE  pc[p] = "read" /\ \E next \in {"insert", "update", "ready"} : \E v : G(next, v)
  <2>1. pc[p] = "read" /\ kind[p] = "remove"
    BY <1>5 DEF ReadToRemove
  <2>2. Decision(kind[p], now[p], row, NoRow)
    BY <2>1 DEF Decision
  <2> QED
    BY <1>1, <1>5, <2>1, <2>2 DEF ReadToRemove, Nothing
<1>6. ASSUME ReadToSweep(p)
      PROVE  pc[p] = "read" /\ \E next \in {"insert", "update", "ready"} : \E v : G(next, v)
  <2> DEFINE age == now[p] - row.seen
             conf == Decayed(row.conf, age)
  <2>1. pc[p] = "read" /\ kind[p] = "sweep"
    BY <1>6 DEF ReadToSweep
  <2>2. age \in Int /\ conf \in Int /\ Floor <= conf
    <3>1. now[p] \in Int
      BY <1>0, EdgeBoundsAssumption DEF Days
    <3>2. age \in Int /\ row.conf \in Int
      BY <1>2, <3>1
    <3> HIDE DEF age
    <3> QED
      BY <3>2, DecayedType
  <2>3. CASE /\ row.source = "inferred" /\ row.seen # Never /\ age > TTL
             /\ Decide(p, "update", NoRow)
    <3>1. Decision(kind[p], now[p], row, NoRow)
      BY <2>1, <2>3 DEF Decision
    <3> QED
      BY <1>1, <2>1, <2>3, <3>1
  <2>4. CASE /\ row.source = "inferred" /\ row.seen # Never /\ Window < age
             /\ now[p] \notin row.decays /\ conf < row.conf
             /\ Decide(p, "update", Aged(row, conf, now[p]))
    <3>1. row \in Version
      BY <1>0, <1>1, <2>4
    <3> HIDE DEF conf
    <3>2. /\ Aged(row, conf, now[p]) \in Version /\ Earned(Aged(row, conf, now[p]))
          /\ Aged(row, conf, now[p]).source = "inferred"
          /\ Aged(row, conf, now[p]).conf = conf
          /\ Aged(row, conf, now[p]).count = row.count
          /\ Aged(row, conf, now[p]).seen = row.seen
      BY <1>0, <2>2, <2>4, <3>1, SweepWrites
    <3>3. Window \in Int
      BY CurveAssumption
    <3>4. Decision(kind[p], now[p], row, Aged(row, conf, now[p]))
      BY <1>1, <2>1, <2>2, <2>4, <3>2, <3>3 DEF Decision
    <3> QED
      BY <2>1, <2>4, <3>2, <3>4
  <2>5. CASE Nothing(p)
    BY <1>1, <2>1, <2>5 DEF Nothing
  <2> QED
    BY <1>6, <2>3, <2>4, <2>5 DEF ReadToSweep
<1> QED
  BY <1>3, <1>4, <1>5, <1>6

LEMMA EdgeInvDecide ==
  ASSUME EdgeInv, NEW p \in Procs, pc[p] = "read",
         NEW next \in {"insert", "update", "ready"}, NEW v \in Version \cup {NoRow},
         Decide(p, next, v), Earned(v),
         next = "insert" => v # NoRow, next = "ready" => v = NoRow
  PROVE  EdgeInv'
<1> USE DEF EdgeInv
<1>1. \A q \in Procs : /\ pc'[q] = IF q = p THEN next ELSE pc[q]
                       /\ new'[q] = IF q = p THEN v ELSE new[q]
  BY DEF Decide, EdgeTypeOK
<1>2. EdgeTypeOK'
  BY DEF Decide, EdgeTypeOK
<1>3. EarnedInv'
  BY <1>1 DEF Decide, EarnedInv, Earned
<1>4. EdgePhaseInv'
  BY <1>1 DEF Decide, EdgePhaseInv
<1> QED
  BY <1>2, <1>3, <1>4

LEMMA EdgeInvReset ==
  ASSUME EdgeInv, NEW p \in Procs, Reset(p), row' \in Version \cup {NoRow}, Earned(row'),
         UNCHANGED <<clock, nextNo, begun>>, since' \in Nat, overlapped' \in BOOLEAN
  PROVE  EdgeInv'
<1> USE DEF EdgeInv
<1>0. 0 \in Days
  BY EdgeBoundsAssumption DEF Days
<1>1. \A q \in Procs : /\ pc'[q] = IF q = p THEN "idle" ELSE pc[q]
                       /\ new'[q] = IF q = p THEN NoRow ELSE new[q]
                       /\ IF q = p THEN ~lock'[q] /\ ~inserted'[q]
                          ELSE lock'[q] = lock[q] /\ inserted'[q] = inserted[q]
  BY DEF Reset, EdgeTypeOK
<1>2. EdgeTypeOK'
  BY <1>0 DEF Reset, EdgeTypeOK, Kinds
<1>3. Earned(NoRow)
  BY DEF Earned, NoRow
<1>4. EarnedInv'
  BY <1>1, <1>3 DEF EarnedInv, Earned
<1>5. EdgePhaseInv'
  BY <1>1 DEF EdgePhaseInv
<1> QED
  BY <1>2, <1>4, <1>5

LEMMA EdgeInvCorrect == EdgeSpec => []EdgeInv
<1> USE DEF EdgeInv
<1>1. EdgeInit => EdgeInv
  <2> SUFFICES ASSUME EdgeInit PROVE EdgeInv
    OBVIOUS
  <2>1. 0 \in Days /\ 0 \in 0..MaxBegun /\ NoRow.source = "none"
    BY EdgeBoundsAssumption DEF Days, NoRow
  <2>2. EdgeTypeOK
    BY <2>1 DEF EdgeInit, EdgeTypeOK, Kinds
  <2>3. EarnedInv
    BY <2>1 DEF EdgeInit, EarnedInv, Earned
  <2>4. EdgePhaseInv
    BY DEF EdgeInit, EdgePhaseInv
  <2> QED
    BY <2>2, <2>3, <2>4
<1>2. EdgeInv /\ [EdgeNext]_edgeVars => EdgeInv'
  <2> SUFFICES ASSUME EdgeInv, [EdgeNext]_edgeVars PROVE EdgeInv'
    OBVIOUS
  <2>1. CASE UNCHANGED edgeVars
    BY <2>1 DEF EdgeTypeOK, EarnedInv, Earned, EdgePhaseInv, edgeVars, txVars
  <2>2. CASE Tick
    BY <2>2, EdgeBoundsAssumption DEF Tick, EdgeTypeOK, EarnedInv, Earned, EdgePhaseInv, txVars, Days
  <2>3. ASSUME NEW p \in Procs, EdgeStep(p)
        PROVE  EdgeInv'
    <3>1. ASSUME NEW k \in Kinds, BeginOnEdge(p, k)
          PROVE  EdgeInv'
      <4>1. begun' \in 0..MaxBegun
        BY <3>1, EdgeBoundsAssumption DEF BeginOnEdge, EdgeTypeOK
      <4>2. EdgeTypeOK'
        BY <3>1, <4>1 DEF BeginOnEdge, EdgeTypeOK
      <4>3. EarnedInv' /\ EdgePhaseInv'
        BY <3>1 DEF BeginOnEdge, EdgeTypeOK, EarnedInv, Earned, EdgePhaseInv
      <4> QED
        BY <4>2, <4>3
    <3>2. CASE \/ \E at \in Days : ReadToObserve(p, at)
               \/ ReadToDeclare(p) \/ ReadToRemove(p) \/ ReadToSweep(p)
      BY <3>2, ReadDecides, EdgeInvDecide
    <3>3. CASE StartUpdate(p)
      <4>1. \A q \in Procs : pc'[q] = IF q = p THEN "locking" ELSE pc[q]
        BY <3>3 DEF StartUpdate, EdgeTypeOK
      <4>2. hit' \in [Procs -> Nat]
        <5>1. row.no \in Nat
          BY RowFields DEF EdgeTypeOK
        <5> QED
          BY <3>3, <5>1 DEF StartUpdate, EdgeTypeOK
      <4>3. EdgeTypeOK'
        BY <3>3, <4>2 DEF StartUpdate, EdgeTypeOK
      <4>4. EarnedInv' /\ EdgePhaseInv'
        BY <3>3, <4>1 DEF StartUpdate, EarnedInv, Earned, EdgePhaseInv
      <4> QED
        BY <4>3, <4>4
    <3>4. CASE FinishUpdate(p)
      <4>1. \A q \in Procs :
              /\ pc'[q] = IF q = p THEN IF new[p] = NoRow THEN "ready" ELSE "insert"
                          ELSE pc[q]
              /\ q # p => lock'[q] = lock[q]
        BY <3>4 DEF FinishUpdate, EdgeTypeOK
      <4>2. EdgeTypeOK'
        BY <3>4 DEF FinishUpdate, EdgeTypeOK
      <4>3. EarnedInv'
        BY <3>4 DEF FinishUpdate, EarnedInv, Earned
      <4>4. EdgePhaseInv'
        BY <3>4, <4>1 DEF FinishUpdate, EdgePhaseInv
      <4> QED
        BY <4>2, <4>3, <4>4
    <3>5. CASE Insert(p)
      <4>1. CASE Reset(p)
        BY <3>5, <4>1, EdgeInvReset DEF Insert, EdgeTypeOK, EarnedInv, Earned
      <4>2. CASE /\ inserted' = [inserted EXCEPT ![p] = TRUE]
                 /\ pc' = [pc EXCEPT ![p] = "ready"]
                 /\ UNCHANGED <<kind, now, new, hit, lock>>
        <5>1. \A q \in Procs : /\ pc'[q] = IF q = p THEN "ready" ELSE pc[q]
                               /\ IF q = p THEN inserted'[q]
                                  ELSE inserted'[q] = inserted[q]
          BY <4>2 DEF EdgeTypeOK
        <5>2. EdgeTypeOK'
          BY <3>5, <4>2 DEF Insert, EdgeTypeOK
        <5>3. EarnedInv'
          BY <3>5, <4>2 DEF Insert, EarnedInv, Earned
        <5>4. EdgePhaseInv'
          BY <3>5, <4>2, <5>1 DEF Insert, EdgePhaseInv
        <5> QED
          BY <5>2, <5>3, <5>4
      <4> QED
        BY <3>5, <4>1, <4>2 DEF Insert
    <3>6. CASE Commit(p)
      <4>1. row' \in {new[p], NoRow, row} /\ since' \in Nat
        BY <3>6 DEF Commit, EdgeTypeOK
      <4>2. row' \in Version \cup {NoRow} /\ Earned(row')
        <5>1. Earned(NoRow) /\ Earned(row) /\ Earned(new[p])
          BY DEF Earned, NoRow, EarnedInv
        <5> QED
          BY <4>1, <5>1 DEF EdgeTypeOK
      <4> QED
        BY <3>6, <4>1, <4>2, EdgeInvReset DEF Commit, EdgeTypeOK
    <3>7. CASE Rollback(p)
      BY <3>7, EdgeInvReset DEF Rollback, EdgeTypeOK, EarnedInv, Earned
    <3> QED
      BY <2>3, <3>1, <3>2, <3>3, <3>4, <3>5, <3>6, <3>7 DEF EdgeStep
  <2> QED
    BY <2>1, <2>2, <2>3 DEF EdgeNext
<1> QED
  BY <1>1, <1>2, PTL DEF EdgeSpec

\* Edges, versions and transactions have their types.
THEOREM EdgeTypeCorrect == EdgeSpec => []EdgeTypeOK
<1>1. EdgeInv => EdgeTypeOK
  BY DEF EdgeInv
<1> QED
  BY <1>1, EdgeInvCorrect, PTL

\* However the sweeps and the batches interleave, an inferred edge is trusted no
\* more than its observation count earns, and never below the floor.
THEOREM ConfidenceIsEarnedCorrect == EdgeSpec => []ConfidenceIsEarned
<1>1. EdgeInv => ConfidenceIsEarned
  BY DEF EdgeInv, EarnedInv, Earned, ConfidenceIsEarned
<1> QED
  BY <1>1, EdgeInvCorrect, PTL

-----------------------------------------------------------------------------
(* Without overlapping transactions.                                       *)

\* Whoever decides, nobody else is about to write.
LEMMA SerialRead ==
  ASSUME EdgeInv, SerialInv, NEW p \in Procs, pc[p] = "read",
         NEW next \in {"insert", "update", "ready"}, NEW v,
         Decide(p, next, v),
         next # "ready" => Decision(kind[p], now[p], row, v)
  PROVE  SerialInv'
<1>1. /\ \A q \in Procs : /\ pc'[q] = IF q = p THEN next ELSE pc[q]
                          /\ q # p => new'[q] = new[q]
      /\ new'[p] = v
      /\ UNCHANGED <<row, kind, now, lock, inserted, since, overlapped>>
  BY DEF Decide, EdgeInv, EdgeTypeOK
<1>2. Active' = Active /\ p \in Active
  BY <1>1 DEF Active
<1>3. ~lock[p] /\ ~inserted[p]
  BY DEF EdgeInv, EdgePhaseInv
<1>4. ASSUME Writing(p)'
      PROVE  Decision(kind[p], now[p], row, v)
  BY <1>1, <1>3, <1>4 DEF Writing
<1>5. SUFFICES ASSUME ~overlapped'
               PROVE  \A q \in Active' : Writing(q)' => Decision(kind[q], now[q], row, new[q])'
  BY <1>1, <1>2 DEF SerialInv
<1>6. \A q \in Active : q = p
  BY <1>1, <1>2, <1>5 DEF SerialInv
<1> QED
  BY <1>1, <1>2, <1>4, <1>6 DEF Decision

\* A step in which whoever writes goes on writing what it had decided on.
LEMMA SerialGoesOn ==
  ASSUME SerialInv, UNCHANGED <<row, kind, now, new, since, overlapped>>,
         Active' \subseteq Active, \A q \in Active' : Writing(q)' => Writing(q)
  PROVE  SerialInv'
BY DEF SerialInv, Decision

\* A transaction ends without having changed the row.
LEMMA SerialReset ==
  ASSUME EdgeInv, SerialInv, NEW p \in Procs, Reset(p), UNCHANGED <<row, since, overlapped>>
  PROVE  SerialInv'
<1>1. \A q \in Procs : IF q = p THEN pc'[q] = "idle"
                       ELSE /\ pc'[q] = pc[q] /\ kind'[q] = kind[q] /\ now'[q] = now[q]
                            /\ new'[q] = new[q] /\ lock'[q] = lock[q]
                            /\ inserted'[q] = inserted[q]
  BY DEF Reset, EdgeInv, EdgeTypeOK
<1>2. \A q \in Active' : q \in Active /\ q # p
  BY <1>1 DEF Active
<1>3. \A q \in Procs \ {p} : Writing(q)' => Writing(q)
  BY <1>1 DEF Writing
<1> QED
  BY <1>1, <1>2, <1>3 DEF SerialInv, Decision, Active

LEMMA SerialCommit ==
  ASSUME EdgeInv, SerialInv, NEW p \in Procs, Commit(p)
  PROVE  SerialInv'
<1> USE DEF EdgeInv
<1>0. /\ row \in Version \cup {NoRow} /\ new[p] \in Version \cup {NoRow}
      /\ kind[p] \in Kinds /\ since \in Nat
  BY DEF EdgeTypeOK
<1>1. \A q \in Procs : IF q = p THEN pc'[q] = "idle" ELSE pc'[q] = pc[q]
  BY DEF Commit, Reset, EdgeTypeOK
<1>2. SUFFICES ASSUME ~overlapped'
               PROVE  /\ \A q \in Active' : FALSE
                      /\ row'.source = "inferred" => since' = AtLeast(row'.count, 1)
                      /\ row'.source = "declared" => since' = 0
  BY DEF SerialInv
<1>3. ~overlapped /\ p \in Active
  BY <1>2 DEF Commit, Active
<1>4. \A q \in Active' : FALSE
  BY <1>1, <1>3 DEF SerialInv, Active
<1>5. /\ row.source = "inferred" => since = AtLeast(row.count, 1)
      /\ row.source = "declared" => since = 0
      /\ Writing(p) => Decision(kind[p], now[p], row, new[p])
  BY <1>3 DEF SerialInv
<1>6. /\ row.source \in {"declared", "inferred", "none"} /\ row.count \in Nat
      /\ row.source = "none" <=> row = NoRow
      /\ NoRow.source = "none"
  BY <1>0, RowFields DEF NoRow
<1>7. CASE ~inserted[p]
  <2>1. since' = since /\ row' \in {row, NoRow}
    BY <1>7 DEF Commit
  <2> QED
    BY <1>4, <1>5, <1>6, <2>1
<1>8. CASE inserted[p]
  <2>1. /\ row' = new[p] /\ new[p] # NoRow
        /\ Decision(kind[p], now[p], row, new[p])
    BY <1>5, <1>8 DEF Commit, EdgePhaseInv, Writing
  <2>2. CASE kind[p] = "observe"
    <3>1. since' = IF row = NoRow THEN 1 ELSE since + 1
      BY <1>8, <2>2 DEF Commit
    <3> QED
      BY <1>0, <1>4, <1>5, <1>6, <2>1, <2>2, <3>1 DEF Decision, AtLeast
  <2>3. CASE kind[p] = "declare"
    <3>1. since' = 0
      BY <1>8, <2>3 DEF Commit
    <3> QED
      BY <1>4, <2>1, <2>3, <3>1 DEF Decision
  <2>4. CASE kind[p] = "sweep"
    <3>1. since' = since
      BY <1>8, <2>4 DEF Commit
    <3> QED
      BY <1>4, <1>5, <2>1, <2>4, <3>1 DEF Decision
  <2>5. kind[p] # "remove"
    BY <2>1 DEF Decision
  <2> QED
    BY <1>0, <2>2, <2>3, <2>4, <2>5 DEF Kinds
<1> QED
  BY <1>7, <1>8

LEMMA SerialCorrect == EdgeSpec => []SerialInv
<1>1. EdgeInit => SerialInv
  <2> SUFFICES ASSUME EdgeInit PROVE SerialInv
    OBVIOUS
  <2>1. Active = {} /\ row.source = "none"
    BY DEF EdgeInit, Active, NoRow
  <2> QED
    BY <2>1 DEF SerialInv
<1>2. EdgeInv /\ SerialInv /\ [EdgeNext]_edgeVars => SerialInv'
  <2> SUFFICES ASSUME EdgeInv, SerialInv, [EdgeNext]_edgeVars PROVE SerialInv'
    OBVIOUS
  <2>1. CASE UNCHANGED edgeVars \/ Tick
    <3>1. /\ UNCHANGED <<row, kind, now, new, since, overlapped>> /\ pc' = pc
          /\ lock' = lock /\ inserted' = inserted
      BY <2>1 DEF Tick, edgeVars, txVars
    <3> QED
      BY <3>1, SerialGoesOn DEF Active, Writing
  <2>2. ASSUME NEW p \in Procs, EdgeStep(p)
        PROVE  SerialInv'
    <3>1. ASSUME NEW k \in Kinds, BeginOnEdge(p, k)
          PROVE  SerialInv'
      <4>1. /\ \A q \in Procs : pc'[q] = IF q = p THEN "read" ELSE pc[q]
            /\ pc[p] = "idle"
            /\ UNCHANGED <<row, since, lock, inserted>>
            /\ overlapped' = (overlapped \/ Active # {})
        BY <3>1 DEF BeginOnEdge, EdgeInv, EdgeTypeOK
      <4>2. ~Writing(p)'
        BY <4>1 DEF Writing, EdgeInv, EdgePhaseInv
      <4>3. ASSUME ~overlapped'
            PROVE  ~overlapped /\ \A q \in Active' : q = p
        BY <4>1, <4>3 DEF Active
      <4> QED
        BY <4>1, <4>2, <4>3 DEF SerialInv
    <3>2. CASE \/ \E at \in Days : ReadToObserve(p, at)
               \/ ReadToDeclare(p) \/ ReadToRemove(p) \/ ReadToSweep(p)
      <4>1. PICK next \in {"insert", "update", "ready"}, v \in Version \cup {NoRow} :
              /\ Decide(p, next, v)
              /\ next # "ready" => Decision(kind[p], now[p], row, v)
        BY <3>2, ReadDecides
      <4>2. pc[p] = "read"
        BY <3>2, ReadDecides
      <4> QED
        BY <4>1, <4>2, SerialRead
    <3>3. CASE StartUpdate(p)
      <4>1. \A q \in Procs : IF q = p THEN pc[q] = "update" /\ pc'[q] = "locking"
                             ELSE pc'[q] = pc[q]
        BY <3>3 DEF StartUpdate, EdgeInv, EdgeTypeOK
      <4>2. Active' \subseteq Active /\ \A q \in Procs : Writing(q)' => Writing(q)
        BY <3>3, <4>1 DEF StartUpdate, Active, Writing
      <4> QED
        BY <3>3, <4>2, SerialGoesOn DEF StartUpdate, Active
    <3>4. CASE FinishUpdate(p)
      <4>1. \A q \in Procs : IF q = p THEN pc[q] = "locking"
                             ELSE pc'[q] = pc[q] /\ lock'[q] = lock[q]
        BY <3>4 DEF FinishUpdate, EdgeInv, EdgeTypeOK
      <4>2. Active' \subseteq Active /\ \A q \in Procs : Writing(q)' => Writing(q)
        BY <3>4, <4>1 DEF FinishUpdate, Active, Writing
      <4> QED
        BY <3>4, <4>2, SerialGoesOn DEF FinishUpdate, Active
    <3>5. CASE Insert(p)
      <4>1. CASE Reset(p)
        BY <3>5, <4>1, SerialReset DEF Insert
      <4>2. CASE /\ inserted' = [inserted EXCEPT ![p] = TRUE]
                 /\ pc' = [pc EXCEPT ![p] = "ready"]
                 /\ UNCHANGED <<kind, now, new, hit, lock>>
        <5>1. \A q \in Procs : IF q = p THEN pc[q] = "insert"
                               ELSE pc'[q] = pc[q] /\ inserted'[q] = inserted[q]
          BY <3>5, <4>2 DEF Insert, EdgeInv, EdgeTypeOK
        <5>2. Active' \subseteq Active /\ \A q \in Procs : Writing(q)' => Writing(q)
          BY <4>2, <5>1 DEF Active, Writing
        <5> QED
          BY <3>5, <4>2, <5>2, SerialGoesOn DEF Insert, Active
      <4> QED
        BY <3>5, <4>1, <4>2 DEF Insert
    <3>6. CASE Commit(p)
      BY <3>6, SerialCommit
    <3>7. CASE Rollback(p)
      BY <3>7, SerialReset DEF Rollback
    <3> QED
      BY <2>2, <3>1, <3>2, <3>3, <3>4, <3>5, <3>6, <3>7 DEF EdgeStep
  <2> QED
    BY <2>1, <2>2 DEF EdgeNext
<1> QED
  BY <1>1, <1>2, EdgeInvCorrect, PTL DEF EdgeSpec

\* "The count itself always reflects the true number of observations": true
\* as long as transactions do not overlap.
THEOREM CountIsExactCorrect == EdgeSpec => []CountIsExact
<1>1. EdgeInv /\ SerialInv => CountIsExact
  <2> SUFFICES ASSUME EdgeInv, SerialInv, ~overlapped, row.source = "inferred", row.count > 0
               PROVE  row.count = since
    BY DEF CountIsExact
  <2>1. row.count \in Nat
    BY RowFields DEF EdgeInv, EdgeTypeOK
  <2> QED
    BY <2>1 DEF SerialInv, AtLeast
<1> QED
  BY <1>1, EdgeInvCorrect, SerialCorrect, PTL

\* Without overlapping, a sweep closes only an edge past its TTL, lowers the
\* confidence of one past its window, once per sweep, and never a declared one.
THEOREM SerialSweepCorrect == EdgeSpec => SerialSweep
<1> DEFINE A == \A p \in Procs : (Sweeps(p) /\ ~overlapped) =>
       /\ row.source = "inferred" /\ row.seen # Never
       /\ IF row' = NoRow
          THEN now[p] - row.seen > TTL
          ELSE /\ now[p] - row.seen > Window /\ row'.conf < row.conf
               /\ now[p] \notin row.decays
               /\ row'.count = row.count /\ row'.seen = row.seen
<1>1. EdgeInv /\ SerialInv /\ [EdgeNext]_edgeVars => [A]_edgeVars
  <2> SUFFICES ASSUME EdgeInv, SerialInv, [EdgeNext]_edgeVars,
                      NEW p \in Procs, Sweeps(p), ~overlapped
               PROVE  /\ row.source = "inferred" /\ row.seen # Never
                      /\ IF row' = NoRow
                         THEN now[p] - row.seen > TTL
                         ELSE /\ now[p] - row.seen > Window /\ row'.conf < row.conf
                              /\ now[p] \notin row.decays
                              /\ row'.count = row.count /\ row'.seen = row.seen
    OBVIOUS
  <2>1. PICK q \in Procs : Commit(q)
    <3>1. PICK q \in Procs : EdgeStep(q)
      BY DEF Sweeps, EdgeNext, Tick, edgeVars
    <3>2. row' # row
      BY DEF Sweeps
    <3> QED
      BY <3>1, <3>2 DEF EdgeStep, BeginOnEdge, ReadToObserve, ReadToDeclare, ReadToRemove,
         ReadToSweep, Nothing, Decide, StartUpdate, FinishUpdate, Insert, Rollback
  <2>2. p = q
    <3>1. p \in Active /\ q \in Active
      BY <2>1 DEF Sweeps, Commit, Active
    <3> QED
      BY <3>1 DEF SerialInv
  <2>3. kind[p] = "sweep" /\ (lock[p] \/ inserted[p])
    BY <2>1, <2>2 DEF Commit, Sweeps
  <2>4. Decision(kind[p], now[p], row, new[p])
    BY <2>1, <2>2, <2>3 DEF SerialInv, Writing, Commit, Active
  <2>5. /\ inserted[p] => row' = new[p] /\ new[p] # NoRow
        /\ ~inserted[p] => row' = NoRow /\ new[p] = NoRow
    BY <2>1, <2>2, <2>3 DEF Commit, EdgeInv, EdgePhaseInv
  <2> QED
    BY <2>3, <2>4, <2>5 DEF Decision
<1> QED
  BY <1>1, EdgeInvCorrect, SerialCorrect, PTL DEF SerialSweep, EdgeSpec
=============================================================================
