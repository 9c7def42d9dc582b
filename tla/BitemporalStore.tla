--------------------------- MODULE BitemporalStore ---------------------------
(***************************************************************************)
(* The bitemporal store of configuration items: CIRepository in            *)
(* packages/db/.../repositories.py over the table `cis` of                 *)
(* migrations/0001_init.sql, used by several concurrent transactions of    *)
(* one tenant.  tenant_session opens every transaction with PostgreSQL's   *)
(* default isolation (READ COMMITTED), and now() is the time at which the  *)
(* transaction BEGAN, so the order of timestamps is not the order of       *)
(* commits.  This is what makes the module interesting.                    *)
(*                                                                         *)
(* A step is one SQL statement, or half of one: an UPDATE first takes the  *)
(* snapshot that finds its rows and then locks and re-checks each of them  *)
(* (a row that a concurrent transaction holds is waited for, and is        *)
(* skipped if that transaction closed it).  An INSERT waits for a          *)
(* concurrent transaction that holds a conflicting row and fails if the    *)
(* conflict stays.                                                         *)
(***************************************************************************)
EXTENDS Integers, FiniteSets

CONSTANTS Tx,        \* the transactions, each of which runs at most once
          Keys,      \* the identities (type, external_id) of a tenant's CIs
          Values,    \* what _ci_changed compares: name, attributes, confidence
          MaxClock,  \* bound: the last instant of the clock
          MaxOps     \* bound: repository calls in one transaction

ASSUME BoundsAssumption == MaxClock \in Nat /\ MaxOps \in Nat
ASSUME KeysAssumption == Keys # {}

Open  == -1          \* valid_to IS NULL
Times == 0..MaxClock

\* One row of `cis`.
Row == [id: Nat, key: Keys, val: Values, from: Times, to: Times \cup {Open}]

\* The call a transaction is in the middle of.  "create" and "version" are the
\* two inserting branches of upsert, "touch" the one that only moves last_seen.
Op == [kind: {"none", "create", "version", "touch", "close"},
       key: Keys, vals: SUBSET Values, id: Nat]
NoOp == [kind |-> "none", key |-> CHOOSE k \in Keys : TRUE, vals |-> {}, id |-> 0]

VARIABLES
  clock,       \* the database server's clock
  nextId,      \* the next fresh uuid
  rows,        \* the committed rows of `cis`
  pc,          \* pc[t]: where transaction t stands
  now,         \* now[t]: t's now(), fixed when it begins
  op,          \* op[t]: the repository call t is executing
  target,      \* target[t]: the rows t's UPDATE found in its snapshot
  ops,         \* ops[t]: the calls t has begun
  closes,      \* closes[t]: the committed rows t has closed, not yet committed
  touches,     \* touches[t]: the committed rows t has locked by a touch
  inserts,     \* inserts[t]: the rows t has inserted, not yet committed
  asked,       \* history: the last call that returned in t, for each key
  overlapped   \* history: two transactions have been open at the same time

dataVars == <<clock, nextId, rows, overlapped>>
callVars == <<op, target, ops>>
workVars == <<closes, touches, inserts, asked>>
vars     == <<dataVars, pc, now, callVars, workVars>>

TypeOK ==
  /\ clock \in Times
  /\ nextId \in Nat
  /\ rows \in SUBSET Row
  /\ pc \in [Tx -> {"idle", "ready", "update", "locking", "insert",
                    "committed", "aborted"}]
  /\ now \in [Tx -> Times]
  /\ op \in [Tx -> Op]
  /\ target \in [Tx -> SUBSET Row]
  /\ ops \in [Tx -> 0..MaxOps]
  /\ closes \in [Tx -> SUBSET Row]
  /\ touches \in [Tx -> SUBSET Row]
  /\ inserts \in [Tx -> SUBSET Row]
  /\ asked \in [Tx -> SUBSET [key: Keys, vals: SUBSET Values]]
  /\ overlapped \in BOOLEAN

-----------------------------------------------------------------------------
(* What a transaction sees, and what stops it.                             *)

ActivePC == {"ready", "update", "locking", "insert"}
Active   == {t \in Tx : pc[t] \in ActivePC}

Closed(r, T) == [r EXCEPT !.to = T]

\* The open rows a statement of t sees: the committed ones t has not closed
\* itself, and those t inserted.
OpenRows(t) == {r \in (rows \ closes[t]) \cup inserts[t] : r.to = Open}

\* A concurrent transaction holds the row: an UPDATE of it has to wait.
LockedByOther(t, r) == \E u \in Tx \ {t} : r \in closes[u] \cup touches[u]

\* The primary key (id, valid_from) and the partial unique index
\* cis_current_identity of 0001_init.sql.
Collide(r, s) == \/ r.id = s.id /\ r.from = s.from
                 \/ r.to = Open /\ s.to = Open /\ r.key = s.key

\* The call returns: what t has now asked of the key.
Returned(t) ==
  /\ asked' = [asked EXCEPT ![t] = {p \in @ : p.key # op[t].key}
                                   \cup {[key |-> op[t].key, vals |-> op[t].vals]}]
  /\ op' = [op EXCEPT ![t] = NoOp]
  /\ pc' = [pc EXCEPT ![t] = "ready"]

\* The transaction holds nothing any more.
Release(t) ==
  /\ closes' = [closes EXCEPT ![t] = {}]
  /\ touches' = [touches EXCEPT ![t] = {}]
  /\ inserts' = [inserts EXCEPT ![t] = {}]
  /\ target' = [target EXCEPT ![t] = {}]
  /\ op' = [op EXCEPT ![t] = NoOp]

\* An exception leaves `with conn.transaction()`: everything is rolled back.
Abort(t) ==
  /\ Release(t)
  /\ pc' = [pc EXCEPT ![t] = "aborted"]
  /\ asked' = [asked EXCEPT ![t] = {}]

-----------------------------------------------------------------------------
Init ==
  /\ clock = 0 /\ nextId = 0 /\ rows = {} /\ overlapped = FALSE
  /\ pc = [t \in Tx |-> "idle"]
  /\ now = [t \in Tx |-> 0]
  /\ op = [t \in Tx |-> NoOp]
  /\ target = [t \in Tx |-> {}]
  /\ ops = [t \in Tx |-> 0]
  /\ closes = [t \in Tx |-> {}]
  /\ touches = [t \in Tx |-> {}]
  /\ inserts = [t \in Tx |-> {}]
  /\ asked = [t \in Tx |-> {}]

Tick ==
  /\ clock < MaxClock
  /\ clock' = clock + 1
  /\ UNCHANGED <<nextId, rows, overlapped, pc, now, callVars, workVars>>

\* Mutated Begin: now() runs ahead of the clock.
BeginAhead(t) ==
  /\ pc[t] = "idle"
  /\ pc' = [pc EXCEPT ![t] = "ready"]
  /\ now' = [now EXCEPT ![t] = clock + 1]
  /\ overlapped' = (overlapped \/ Active # {})
  /\ UNCHANGED <<clock, nextId, rows, callVars, workVars>>

\* tenant_session: BEGIN fixes now() for the whole transaction.
Begin(t) ==
  /\ pc[t] = "idle"
  /\ pc' = [pc EXCEPT ![t] = "ready"]
  /\ now' = [now EXCEPT ![t] = clock]
  /\ overlapped' = (overlapped \/ Active # {})
  /\ UNCHANGED <<clock, nextId, rows, callVars, workVars>>

\* Mutated Select: attribute changes are not noticed (_ci_changed).
SelectBlind(t, k, v) ==
  /\ pc[t] = "ready" /\ ops[t] < MaxOps
  /\ ops' = [ops EXCEPT ![t] = @ + 1]
  /\ LET current == {r \in OpenRows(t) : r.key = k}
     IN \/ /\ current = {}
           /\ op' = [op EXCEPT ![t] =
                [kind |-> "create", key |-> k, vals |-> {v}, id |-> nextId]]
           /\ nextId' = nextId + 1
           /\ pc' = [pc EXCEPT ![t] = "insert"]
        \/ \E r \in current :
           /\ op' = [op EXCEPT ![t] =
                [kind |-> "touch", key |-> k, vals |-> {v}, id |-> r.id]]
           /\ pc' = [pc EXCEPT ![t] = "update"]
           /\ UNCHANGED nextId
  /\ UNCHANGED <<clock, rows, overlapped, now, target, workVars>>

\* upsert, its SELECT: which of the three branches the call takes.
Select(t, k, v) ==
  /\ pc[t] = "ready" /\ ops[t] < MaxOps
  /\ ops' = [ops EXCEPT ![t] = @ + 1]
  /\ LET current == {r \in OpenRows(t) : r.key = k}
         Call(kind, id) == op' = [op EXCEPT ![t] =
             [kind |-> kind, key |-> k, vals |-> {v}, id |-> id]]
     IN \/ /\ current = {}
           /\ Call("create", nextId)
           /\ nextId' = nextId + 1
           /\ pc' = [pc EXCEPT ![t] = "insert"]
        \/ \E r \in current :
           /\ Call(IF r.val = v THEN "touch" ELSE "version", r.id)
           /\ pc' = [pc EXCEPT ![t] = "update"]
           /\ UNCHANGED nextId
  /\ UNCHANGED <<clock, rows, overlapped, now, target, workVars>>

\* upsert, UPDATE cis ... WHERE id = %s AND valid_to IS NULL: its snapshot.
StartUpdate(t) ==
  /\ pc[t] = "update"
  /\ target' = [target EXCEPT ![t] = {r \in OpenRows(t) : r.id = op[t].id}]
  /\ pc' = [pc EXCEPT ![t] = "locking"]
  /\ UNCHANGED <<dataVars, now, op, ops, workVars>>

\* close, its only statement: the snapshot.
StartClose(t, k) ==
  /\ pc[t] = "ready" /\ ops[t] < MaxOps
  /\ ops' = [ops EXCEPT ![t] = @ + 1]
  /\ op' = [op EXCEPT ![t] = [kind |-> "close", key |-> k, vals |-> {}, id |-> 0]]
  /\ target' = [target EXCEPT ![t] = {r \in OpenRows(t) : r.key = k}]
  /\ pc' = [pc EXCEPT ![t] = "locking"]
  /\ UNCHANGED <<dataVars, now, workVars>>

\* The rows found are locked, waiting for whoever holds them; a row that was
\* closed meanwhile no longer satisfies the WHERE and is skipped.
Hit(t) == target[t] \cap (rows \cup inserts[t])
CanLock(t) == \A r \in target[t] : ~LockedByOther(t, r)

\* Mutated FinishTouch: a touch that found no row is taken for a success.
FinishTouchUnchecked(t) ==
  /\ pc[t] = "locking" /\ op[t].kind = "touch" /\ CanLock(t)
  /\ touches' = [touches EXCEPT ![t] = @ \cup (Hit(t) \cap rows)]
  /\ target' = [target EXCEPT ![t] = {}]
  /\ Returned(t)
  /\ UNCHANGED <<dataVars, now, ops, closes, inserts>>

\* upsert, unchanged branch: _row_to_ci(None) raises when no row came back.
FinishTouch(t) ==
  /\ pc[t] = "locking" /\ op[t].kind = "touch" /\ CanLock(t)
  /\ IF Hit(t) = {}
     THEN Abort(t)
     ELSE /\ touches' = [touches EXCEPT ![t] = @ \cup (Hit(t) \cap rows)]
          /\ target' = [target EXCEPT ![t] = {}]
          /\ Returned(t)
          /\ UNCHANGED <<closes, inserts>>
  /\ UNCHANGED <<dataVars, now, ops>>

\* SET valid_to = now() on the rows hit.
CloseHit(t) ==
  /\ closes' = [closes EXCEPT ![t] = @ \cup (Hit(t) \cap rows)]
  /\ inserts' = [inserts EXCEPT ![t] = (@ \ Hit(t)) \cup
                   {Closed(r, now[t]) : r \in inserts[t] \cap Hit(t)}]
  /\ target' = [target EXCEPT ![t] = {}]

\* upsert, changed branch: the number of rows closed is not looked at.
FinishVersion(t) ==
  /\ pc[t] = "locking" /\ op[t].kind = "version" /\ CanLock(t)
  /\ CloseHit(t)
  /\ pc' = [pc EXCEPT ![t] = "insert"]
  /\ UNCHANGED <<dataVars, now, op, ops, touches, asked>>

\* close: True or False, the callers in reconcile ignore which.
FinishClose(t) ==
  /\ pc[t] = "locking" /\ op[t].kind = "close" /\ CanLock(t)
  /\ CloseHit(t)
  /\ Returned(t)
  /\ UNCHANGED <<dataVars, now, ops, touches>>

\* Mutated Collisions: without the index cis_current_identity.
CollisionsNoIndex(t, n) == {r \in rows \cup inserts[t] : r.id = n.id /\ r.from = n.from}

\* The rows an INSERT of n by t collides with now, and those it may yet
\* collide with, depending on how another transaction ends.
Collisions(t, n) == {r \in (rows \ closes[t]) \cup inserts[t] : Collide(r, n)}
                    \cup {r \in closes[t] : r.id = n.id /\ r.from = n.from}
Undecided(t, n)  == \/ \E u \in Tx \ {t} : \E r \in inserts[u] : Collide(r, n)
                    \/ \E r \in Collisions(t, n) : LockedByOther(t, r)

\* upsert, INSERT INTO cis of the open version starting at now().
Insert(t) ==
  /\ pc[t] = "insert"
  /\ \E v \in op[t].vals :
     LET n == [id |-> op[t].id, key |-> op[t].key, val |-> v,
               from |-> now[t], to |-> Open]
     IN /\ ~Undecided(t, n)
        /\ IF Collisions(t, n) # {}
           THEN Abort(t)
           ELSE /\ inserts' = [inserts EXCEPT ![t] = @ \cup {n}]
                /\ Returned(t)
                /\ UNCHANGED <<target, closes, touches>>
  /\ UNCHANGED <<dataVars, now, ops>>

\* Mutated Commit: the new version replaces the old one instead of following it.
CommitInPlace(t) ==
  /\ pc[t] = "ready"
  /\ rows' = (rows \ closes[t]) \cup inserts[t]
  /\ pc' = [pc EXCEPT ![t] = "committed"]
  /\ Release(t)
  /\ UNCHANGED <<clock, nextId, overlapped, now, ops, asked>>

\* Mutated Commit: rows are closed at the time of the statement.
CommitAtClock(t) ==
  /\ pc[t] = "ready"
  /\ rows' = (rows \ closes[t]) \cup {Closed(r, clock) : r \in closes[t]}
             \cup inserts[t]
  /\ pc' = [pc EXCEPT ![t] = "committed"]
  /\ Release(t)
  /\ UNCHANGED <<clock, nextId, overlapped, now, ops, asked>>

\* COMMIT: all the transaction's rows appear at once.
Commit(t) ==
  /\ pc[t] = "ready"
  /\ rows' = (rows \ closes[t]) \cup {Closed(r, now[t]) : r \in closes[t]}
             \cup inserts[t]
  /\ pc' = [pc EXCEPT ![t] = "committed"]
  /\ Release(t)
  /\ UNCHANGED <<clock, nextId, overlapped, now, ops, asked>>

\* The caller raises, the connection is lost, or PostgreSQL breaks a deadlock.
Rollback(t) ==
  /\ pc[t] \in ActivePC
  /\ Abort(t)
  /\ UNCHANGED <<dataVars, now, ops>>

TxStep(t) ==
  \/ Begin(t)
  \/ \E k \in Keys, v \in Values : Select(t, k, v)
  \/ \E k \in Keys : StartClose(t, k)
  \/ StartUpdate(t)
  \/ FinishTouch(t)
  \/ FinishVersion(t)
  \/ FinishClose(t)
  \/ Insert(t)
  \/ Commit(t)
  \/ Rollback(t)

Next == Tick \/ \E t \in Tx : TxStep(t)

Spec == Init /\ [][Next]_vars

-----------------------------------------------------------------------------
(* Reading the history.                                                    *)

\* CIRepository.as_of: valid_from <= ts AND (valid_to IS NULL OR valid_to > ts).
ValidAt(r, T) == r.from <= T /\ (r.to = Open \/ r.to > T)
AsOf(T)       == {r \in rows : ValidAt(r, T)}

\* CIRepository.history orders the versions of an id by valid_from; q is the
\* version listed right after r.
Successor(r, q) ==
  /\ r.id = q.id /\ r.from < q.from
  /\ ~\E s \in rows : s.id = r.id /\ r.from < s.from /\ s.from < q.from

-----------------------------------------------------------------------------
(* Properties.                                                             *)

\* Whatever the interleaving, an identity never has two open versions, and an
\* id never has two versions that start together (the two unique constraints
\* of 0001_init.sql, which upsert relies on instead of locking).
OneOpenVersion ==
  \A r, s \in rows : Collide(r, s) => r = s

\* "A change never overwrites or deletes a fact": a committed row stays as it
\* is, except that an open one is closed once.
NoRowRewritten ==
  \A r \in rows : \/ r \in rows'
                  \/ r.to = Open /\ \E T \in Times : Closed(r, T) \in rows'
NeverRewritten == [][NoRowRewritten]_vars

\* A query as of an instant before every running transaction began has a
\* final answer: no commit, however late, changes it.
PastIsFixed ==
  [][\A T \in Times :
       (T < clock /\ \A t \in Active : T < now[t]) =>
         {<<r.id, r.key, r.val>> : r \in AsOf(T)}'
           = {<<r.id, r.key, r.val>> : r \in AsOf(T)}]_vars

\* A transaction that commits after upserting a key leaves the key open, even
\* if others closed it, versioned it or inserted it in the meantime.
UpsertLeavesOpen ==
  [][\A t \in Tx : (pc[t] = "ready" /\ pc'[t] = "committed") =>
       \A p \in asked[t] : p.vals # {} =>
         \E r \in rows' : r.key = p.key /\ r.to = Open]_vars

\* Without overlapping transactions, what a committed transaction asked of a
\* key last is exactly what is current afterwards.
AskedIsCurrent ==
  [][\A t \in Tx : (pc[t] = "ready" /\ pc'[t] = "committed" /\ ~overlapped) =>
       \A p \in asked[t] :
         {r.val : r \in {q \in rows' : q.key = p.key /\ q.to = Open}} = p.vals]_vars

\* A query as of T returns one version of a CI at most.
AsOfIsUnique == \A T \in Times : \A r, s \in AsOf(T) : r.key = s.key => r = s

\* "A closed version's valid_to exactly equals the new version's valid_from."
HistoryIsContiguous ==
  \A r, q \in rows : Successor(r, q) => r.to = q.from

\* Both hold as long as no two transactions of the tenant overlap.
SerialHistory == ~overlapped => AsOfIsUnique /\ HistoryIsContiguous

=============================================================================
