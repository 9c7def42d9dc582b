------------------------ MODULE BitemporalStoreProofs ------------------------
(***************************************************************************)
(* Proofs about BitemporalStore for any number of transactions, identities *)
(* and values.                                                             *)
(***************************************************************************)
EXTENDS BitemporalStore, TLAPS

-----------------------------------------------------------------------------
(* The types of what the actions build.                                    *)

LEMMA NoOpType == NoOp \in Op
BY KeysAssumption DEF NoOp, Op

LEMMA ClosedType ==
  ASSUME NEW r \in Row, NEW T \in Times
  PROVE  /\ Closed(r, T) \in Row
         /\ Closed(r, T).id = r.id /\ Closed(r, T).key = r.key
         /\ Closed(r, T).val = r.val /\ Closed(r, T).from = r.from
         /\ Closed(r, T).to = T
BY DEF Closed, Row

LEMMA OpenRowsType ==
  ASSUME TypeOK, NEW t \in Tx
  PROVE  OpenRows(t) \in SUBSET Row
BY DEF TypeOK, OpenRows

LEMMA ReleaseType ==
  ASSUME TypeOK, NEW t \in Tx, Release(t)
  PROVE  /\ closes' \in [Tx -> SUBSET Row] /\ touches' \in [Tx -> SUBSET Row]
         /\ inserts' \in [Tx -> SUBSET Row] /\ target' \in [Tx -> SUBSET Row]
         /\ op' \in [Tx -> Op]
BY NoOpType DEF TypeOK, Release

LEMMA AbortType ==
  ASSUME TypeOK, NEW t \in Tx, Abort(t), UNCHANGED <<dataVars, now, ops>>
  PROVE  TypeOK'
<1>1. /\ closes' \in [Tx -> SUBSET Row] /\ touches' \in [Tx -> SUBSET Row]
      /\ inserts' \in [Tx -> SUBSET Row] /\ target' \in [Tx -> SUBSET Row]
      /\ op' \in [Tx -> Op]
  BY ReleaseType DEF Abort
<1>2. asked' \in [Tx -> SUBSET [key: Keys, vals: SUBSET Values]]
  BY DEF Abort, TypeOK
<1>3. pc' \in [Tx -> {"idle", "ready", "update", "locking", "insert",
                      "committed", "aborted"}]
  BY DEF Abort, TypeOK
<1> QED
  BY <1>1, <1>2, <1>3 DEF TypeOK, dataVars

LEMMA ReturnedType ==
  ASSUME TypeOK, NEW t \in Tx, Returned(t)
  PROVE  /\ op' \in [Tx -> Op]
         /\ asked' \in [Tx -> SUBSET [key: Keys, vals: SUBSET Values]]
         /\ pc' \in [Tx -> {"idle", "ready", "update", "locking", "insert",
                            "committed", "aborted"}]
<1>1. op[t].key \in Keys /\ op[t].vals \in SUBSET Values
  BY DEF TypeOK, Op
<1> QED
  BY <1>1, NoOpType DEF TypeOK, Returned

LEMMA CloseHitType ==
  ASSUME TypeOK, NEW t \in Tx, CloseHit(t)
  PROVE  /\ closes' \in [Tx -> SUBSET Row] /\ inserts' \in [Tx -> SUBSET Row]
         /\ target' \in [Tx -> SUBSET Row]
<1>1. now[t] \in Times /\ inserts[t] \subseteq Row /\ target[t] \subseteq Row
      /\ Hit(t) \subseteq Row
  BY DEF TypeOK, Hit
<1>2. {Closed(r, now[t]) : r \in inserts[t] \cap Hit(t)} \subseteq Row
  BY <1>1, ClosedType
<1> QED
  BY <1>1, <1>2 DEF TypeOK, CloseHit

LEMMA NewRowType ==
  ASSUME TypeOK, NEW t \in Tx, NEW v \in op[t].vals
  PROVE  [id |-> op[t].id, key |-> op[t].key, val |-> v,
          from |-> now[t], to |-> Open] \in Row
BY DEF TypeOK, Op, Row

-----------------------------------------------------------------------------
\* Every variable of the store keeps its type: the model is well formed for any
\* number of transactions, identities and values.
THEOREM TypeCorrect == Spec => []TypeOK
<1>1. Init => TypeOK
  <2> SUFFICES ASSUME Init PROVE TypeOK
    OBVIOUS
  <2>1. 0 \in Times /\ 0 \in 0..MaxOps
    BY BoundsAssumption DEF Times
  <2> QED
    BY <2>1, NoOpType DEF Init, TypeOK
<1>2. TypeOK /\ [Next]_vars => TypeOK'
  <2> SUFFICES ASSUME TypeOK, [Next]_vars
               PROVE  TypeOK'
    OBVIOUS
  <2>1. CASE UNCHANGED vars
    BY <2>1 DEF TypeOK, vars, dataVars, callVars, workVars
  <2>2. CASE Tick
    BY <2>2, BoundsAssumption DEF Tick, TypeOK, Times, callVars, workVars
  <2>3. ASSUME NEW t \in Tx, TxStep(t)
        PROVE  TypeOK'
    <3>1. CASE Begin(t)
      BY <3>1 DEF Begin, TypeOK, callVars, workVars
    <3>2. ASSUME NEW k \in Keys, NEW v \in Values, Select(t, k, v)
          PROVE  TypeOK'
      <4>1. \A r \in OpenRows(t) : r.id \in Nat
        BY OpenRowsType DEF Row
      <4>2. nextId' \in Nat
        BY <3>2 DEF Select, TypeOK
      <4>3. op' \in [Tx -> Op]
        <5>1. \A kind \in {"create", "version", "touch"}, id \in Nat :
                [kind |-> kind, key |-> k, vals |-> {v}, id |-> id] \in Op
          BY DEF Op
        <5> QED
          BY <3>2, <4>1, <5>1 DEF Select, TypeOK
      <4>4. pc' \in [Tx -> {"idle", "ready", "update", "locking", "insert",
                            "committed", "aborted"}]
        BY <3>2 DEF Select, TypeOK
      <4>5. ops' \in [Tx -> 0..MaxOps]
        BY <3>2, BoundsAssumption DEF Select, TypeOK
      <4> QED
        BY <3>2, <4>2, <4>3, <4>4, <4>5 DEF Select, TypeOK, workVars
    <3>3. ASSUME NEW k \in Keys, StartClose(t, k)
          PROVE  TypeOK'
      <4>1. op' \in [Tx -> Op]
        <5>1. [kind |-> "close", key |-> k, vals |-> {}, id |-> 0] \in Op
          BY DEF Op
        <5> QED
          BY <3>3, <5>1 DEF StartClose, TypeOK
      <4>2. target' \in [Tx -> SUBSET Row]
        BY <3>3, OpenRowsType DEF StartClose, TypeOK
      <4>3. ops' \in [Tx -> 0..MaxOps]
        BY <3>3, BoundsAssumption DEF StartClose, TypeOK
      <4> QED
        BY <3>3, <4>1, <4>2, <4>3 DEF StartClose, TypeOK, dataVars, workVars
    <3>4. CASE StartUpdate(t)
      <4>1. target' \in [Tx -> SUBSET Row]
        BY <3>4, OpenRowsType DEF StartUpdate, TypeOK
      <4> QED
        BY <3>4, <4>1 DEF StartUpdate, TypeOK, dataVars, workVars
    <3>5. CASE FinishTouch(t)
      <4>1. CASE Abort(t)
        BY <3>5, <4>1, AbortType DEF FinishTouch
      <4>2. CASE Returned(t) /\ target' = [target EXCEPT ![t] = {}]
                 /\ touches' = [touches EXCEPT ![t] = @ \cup (Hit(t) \cap rows)]
                 /\ UNCHANGED <<closes, inserts>>
        BY <3>5, <4>2, ReturnedType DEF FinishTouch, TypeOK, dataVars
      <4> QED
        BY <3>5, <4>1, <4>2 DEF FinishTouch
    <3>6. CASE FinishVersion(t)
      <4>1. pc' \in [Tx -> {"idle", "ready", "update", "locking", "insert",
                            "committed", "aborted"}]
        BY <3>6 DEF FinishVersion, TypeOK
      <4> QED
        BY <3>6, <4>1, CloseHitType DEF FinishVersion, TypeOK, dataVars
    <3>7. CASE FinishClose(t)
      BY <3>7, CloseHitType, ReturnedType DEF FinishClose, TypeOK, dataVars
    <3>8. CASE Insert(t)
      <4>1. CASE Abort(t)
        BY <3>8, <4>1, AbortType DEF Insert
      <4>2. ASSUME NEW v \in op[t].vals, Returned(t),
                   inserts' = [inserts EXCEPT ![t] = @ \cup
                     {[id |-> op[t].id, key |-> op[t].key, val |-> v,
                       from |-> now[t], to |-> Open]}],
                   UNCHANGED <<target, closes, touches>>
            PROVE  TypeOK'
        <5>1. inserts' \in [Tx -> SUBSET Row]
          BY <4>2, NewRowType DEF TypeOK
        <5> QED
          BY <3>8, <4>2, <5>1, ReturnedType DEF Insert, TypeOK, dataVars
      <4> QED
        BY <3>8, <4>1, <4>2 DEF Insert
    <3>9. CASE Commit(t)
      <4>1. rows' \in SUBSET Row
        <5>1. now[t] \in Times /\ closes[t] \subseteq Row /\ inserts[t] \subseteq Row
          BY DEF TypeOK
        <5>2. {Closed(r, now[t]) : r \in closes[t]} \subseteq Row
          BY <5>1, ClosedType
        <5> QED
          BY <3>9, <5>1, <5>2 DEF Commit, TypeOK
      <4>2. pc' \in [Tx -> {"idle", "ready", "update", "locking", "insert",
                            "committed", "aborted"}]
        BY <3>9 DEF Commit, TypeOK
      <4> QED
        BY <3>9, <4>1, <4>2, ReleaseType DEF Commit, TypeOK
    <3>10. CASE Rollback(t)
      BY <3>10, AbortType DEF Rollback
    <3> QED
      BY <2>3, <3>1, <3>2, <3>3, <3>4, <3>5, <3>6, <3>7, <3>8, <3>9, <3>10 DEF TxStep
  <2> QED
    BY <2>1, <2>2, <2>3 DEF Next
<1> QED
  BY <1>1, <1>2, PTL DEF Spec

-----------------------------------------------------------------------------
(***************************************************************************)
(* Uniqueness.  No statement of upsert takes a lock on an identity; what   *)
(* makes the two unique constraints hold is that a row is only closed by   *)
(* one transaction at a time and that an INSERT waits for every            *)
(* transaction that could still create or remove a conflict.  The          *)
(* invariant says this of the uncommitted rows.                            *)
(***************************************************************************)

\* Only open committed rows are locked, and a closed one by its closer alone.
LocksInv ==
  \A t \in Tx :
    /\ \A r \in target[t] : r.to = Open
    /\ \A r \in closes[t] \cup touches[t] : r \in rows /\ r.to = Open
    /\ \A u \in Tx \ {t} : \A r \in closes[t] : r \notin closes[u] \cup touches[u]

SameVersion(r, s) == r.id = s.id /\ r.from = s.from

\* An uncommitted row collides with nothing that its commit would meet.
PendingInv ==
  \A t \in Tx : \A r \in inserts[t] :
    /\ \A s \in inserts[t] : Collide(r, s) => r = s
    /\ \A u \in Tx \ {t} : \A s \in inserts[u] : ~Collide(r, s)
    /\ \A s \in rows : s \notin closes[t] => ~Collide(r, s)
    /\ \A s \in closes[t] : ~SameVersion(r, s)

UniqueInv == OneOpenVersion /\ LocksInv /\ PendingInv

\* Steps that touch no row and no lock.
LEMMA UniqueUnchanged ==
  ASSUME UniqueInv, UNCHANGED <<rows, closes, touches, inserts, target>>
  PROVE  UniqueInv'
BY DEF UniqueInv, OneOpenVersion, LocksInv, PendingInv, Collide, SameVersion

\* Giving up the uncommitted rows and locks of one transaction.
LEMMA UniqueAbort ==
  ASSUME TypeOK, UniqueInv, NEW t \in Tx, Release(t), UNCHANGED rows
  PROVE  UniqueInv'
<1>1. \A u \in Tx : /\ closes'[u] = IF u = t THEN {} ELSE closes[u]
                    /\ touches'[u] = IF u = t THEN {} ELSE touches[u]
                    /\ inserts'[u] = IF u = t THEN {} ELSE inserts[u]
                    /\ target'[u] = IF u = t THEN {} ELSE target[u]
  BY DEF TypeOK, Release
<1>2. OneOpenVersion'
  BY DEF UniqueInv, OneOpenVersion, Collide
<1>3. LocksInv'
  BY <1>1 DEF UniqueInv, LocksInv
<1>4. PendingInv'
  BY <1>1 DEF UniqueInv, PendingInv, Collide, SameVersion
<1> QED
  BY <1>2, <1>3, <1>4 DEF UniqueInv

\* An UPDATE takes its snapshot.
LEMMA UniqueTarget ==
  ASSUME TypeOK, UniqueInv, NEW t \in Tx, NEW S \in SUBSET OpenRows(t),
         target' = [target EXCEPT ![t] = S],
         UNCHANGED <<rows, closes, touches, inserts>>
  PROVE  UniqueInv'
<1>1. \A u \in Tx : target'[u] = IF u = t THEN S ELSE target[u]
  BY DEF TypeOK
<1>2. \A r \in S : r.to = Open
  BY DEF OpenRows
<1>3. OneOpenVersion' /\ PendingInv'
  BY DEF UniqueInv, OneOpenVersion, PendingInv, Collide, SameVersion
<1>4. LocksInv'
  BY <1>1, <1>2 DEF UniqueInv, LocksInv
<1> QED
  BY <1>3, <1>4 DEF UniqueInv

\* A touch locks the rows it hits.
LEMMA UniqueTouch ==
  ASSUME TypeOK, UniqueInv, NEW t \in Tx, CanLock(t),
         touches' = [touches EXCEPT ![t] = @ \cup (Hit(t) \cap rows)],
         target' = [target EXCEPT ![t] = {}],
         UNCHANGED <<rows, closes, inserts>>
  PROVE  UniqueInv'
<1>1. \A u \in Tx : /\ target'[u] = IF u = t THEN {} ELSE target[u]
                    /\ touches'[u] = IF u = t THEN touches[u] \cup (Hit(t) \cap rows)
                                     ELSE touches[u]
  BY DEF TypeOK
<1>2. OneOpenVersion' /\ PendingInv'
  BY DEF UniqueInv, OneOpenVersion, PendingInv, Collide, SameVersion
<1>3. \A r \in Hit(t) \cap rows : /\ r \in rows /\ r.to = Open
                                  /\ \A u \in Tx \ {t} : r \notin closes[u]
  BY DEF Hit, CanLock, LockedByOther, UniqueInv, LocksInv
<1>4. LocksInv'
  BY <1>1, <1>3 DEF UniqueInv, LocksInv
<1> QED
  BY <1>2, <1>4 DEF UniqueInv

\* Closing the rows an UPDATE hits.
LEMMA UniqueClose ==
  ASSUME TypeOK, UniqueInv, NEW t \in Tx, CanLock(t), CloseHit(t),
         UNCHANGED <<rows, touches>>
  PROVE  UniqueInv'
<1>1. /\ now[t] \in Times /\ inserts[t] \subseteq Row
      /\ \A u \in Tx : inserts[u] \subseteq Row
  BY DEF TypeOK
<1>2. \A u \in Tx :
        /\ target'[u] = IF u = t THEN {} ELSE target[u]
        /\ closes'[u] = IF u = t THEN closes[u] \cup (Hit(t) \cap rows) ELSE closes[u]
        /\ inserts'[u] = IF u = t THEN (inserts[t] \ Hit(t)) \cup
                              {Closed(r, now[t]) : r \in inserts[t] \cap Hit(t)}
                         ELSE inserts[u]
  BY DEF TypeOK, CloseHit
<1>3. \A r \in Hit(t) \cap rows :
        /\ r \in rows /\ r.to = Open
        /\ \A u \in Tx \ {t} : r \notin closes[u] \cup touches[u]
  BY DEF Hit, CanLock, LockedByOther, UniqueInv, LocksInv
<1>4. OneOpenVersion'
  BY DEF UniqueInv, OneOpenVersion, Collide
<1>5. LocksInv'
  BY <1>2, <1>3 DEF UniqueInv, LocksInv
<1>6. PendingInv'
  <2>1. now[t] # Open
    BY <1>1 DEF Times, Open
  \* Every row t holds now stems from one it held, and collides with no more.
  <2>2. \A n \in inserts'[t] : \E r \in inserts[t] :
          /\ SameVersion(n, r)
          /\ \A s : Collide(n, s) => Collide(r, s)
          /\ IF r \in Hit(t) THEN n = Closed(r, now[t]) ELSE n = r
    <3> SUFFICES ASSUME NEW n \in inserts'[t]
                 PROVE  \E r \in inserts[t] :
                   /\ SameVersion(n, r)
                   /\ \A s : Collide(n, s) => Collide(r, s)
                   /\ IF r \in Hit(t) THEN n = Closed(r, now[t]) ELSE n = r
      OBVIOUS
    <3>1. CASE n \in inserts[t] \ Hit(t)
      BY <3>1 DEF SameVersion
    <3>2. ASSUME NEW r \in inserts[t] \cap Hit(t), n = Closed(r, now[t])
          PROVE  SameVersion(n, r) /\ \A s : Collide(n, s) => Collide(r, s)
      <4>1. n.id = r.id /\ n.from = r.from /\ n.to = now[t]
        BY <1>1, <3>2, ClosedType
      <4> QED
        BY <4>1, <2>1 DEF SameVersion, Collide
    <3> QED
      BY <1>2, <3>1, <3>2
  <2>3. ASSUME NEW n \in inserts'[t], NEW m \in inserts'[t], Collide(n, m)
        PROVE  n = m
    <3>1. PICK r \in inserts[t] :
            /\ SameVersion(n, r)
            /\ \A s : Collide(n, s) => Collide(r, s)
            /\ IF r \in Hit(t) THEN n = Closed(r, now[t]) ELSE n = r
      BY <2>2
    <3>2. PICK s \in inserts[t] :
            /\ SameVersion(m, s)
            /\ \A x : Collide(m, x) => Collide(s, x)
            /\ IF s \in Hit(t) THEN m = Closed(s, now[t]) ELSE m = s
      BY <2>2
    <3>3. Collide(s, r)
      BY <2>3, <3>1, <3>2 DEF Collide
    <3>4. r = s
      BY <3>3 DEF UniqueInv, PendingInv, Collide
    <3> QED
      BY <3>1, <3>2, <3>4
  <2>4. ASSUME NEW n \in inserts'[t]
        PROVE  /\ \A u \in Tx \ {t} : \A s \in inserts[u] : ~Collide(n, s) /\ ~Collide(s, n)
               /\ \A s \in rows : s \notin closes'[t] => ~Collide(n, s)
               /\ \A s \in closes'[t] : ~SameVersion(n, s)
    <3>1. PICK r \in inserts[t] :
            SameVersion(n, r) /\ \A s : Collide(n, s) => Collide(r, s)
      BY <2>2
    <3>2. \A u \in Tx \ {t} : \A s \in inserts[u] : ~Collide(r, s)
      BY DEF UniqueInv, PendingInv
    <3>3. \A s \in rows : s \notin closes[t] => ~Collide(r, s)
      BY DEF UniqueInv, PendingInv
    <3>4. \A s \in closes[t] : ~SameVersion(r, s)
      BY DEF UniqueInv, PendingInv
    <3>5. \A s \in rows : ~SameVersion(r, s)
      BY <3>3, <3>4 DEF Collide, SameVersion
    <3>6. \A s \in closes'[t] : s \in rows
      BY <1>2 DEF UniqueInv, LocksInv
    <3>7. \A s \in rows : s \notin closes'[t] => ~Collide(n, s)
      BY <1>2, <3>1, <3>3
    <3>8. \A s \in closes'[t] : ~SameVersion(n, s)
      BY <3>1, <3>5, <3>6 DEF SameVersion
    <3>9. \A u \in Tx \ {t} : \A s \in inserts[u] : ~Collide(n, s) /\ ~Collide(s, n)
      BY <3>1, <3>2 DEF Collide
    <3> QED
      BY <3>7, <3>8, <3>9
  <2> SUFFICES ASSUME NEW u \in Tx, NEW n \in inserts'[u]
               PROVE  /\ \A m \in inserts'[u] : Collide(n, m) => n = m
                      /\ \A w \in Tx \ {u} : \A m \in inserts'[w] : ~Collide(n, m)
                      /\ \A m \in rows : m \notin closes'[u] => ~Collide(n, m)
                      /\ \A m \in closes'[u] : ~SameVersion(n, m)
    BY DEF PendingInv, Collide, SameVersion
  <2>5. CASE u = t
    BY <1>2, <2>3, <2>4, <2>5
  <2>6. CASE u # t
    <3>1. inserts'[u] = inserts[u] /\ closes'[u] = closes[u]
      BY <1>2, <2>6
    <3>2. \A m \in inserts'[t] : ~Collide(n, m)
      BY <2>4, <2>6, <3>1 DEF Collide
    <3>3. \A w \in Tx \ {u, t} : \A m \in inserts'[w] : ~Collide(n, m)
      BY <1>2, <3>1 DEF UniqueInv, PendingInv
    <3> QED
      BY <3>1, <3>2, <3>3 DEF UniqueInv, PendingInv
  <2> QED
    BY <2>5, <2>6
<1> QED
  BY <1>4, <1>5, <1>6 DEF UniqueInv

\* An INSERT that neither waits nor fails.
LEMMA UniqueInsert ==
  ASSUME TypeOK, UniqueInv, NEW t \in Tx, NEW n,
         ~Undecided(t, n), Collisions(t, n) = {},
         inserts' = [inserts EXCEPT ![t] = @ \cup {n}],
         UNCHANGED <<rows, closes, touches, target>>
  PROVE  UniqueInv'
<1>1. \A u \in Tx : inserts'[u] = IF u = t THEN inserts[t] \cup {n} ELSE inserts[u]
  BY DEF TypeOK
<1>2. /\ \A s \in inserts[t] : ~Collide(s, n)
      /\ \A s \in rows : s \notin closes[t] => ~Collide(s, n)
      /\ \A s \in closes[t] : ~SameVersion(s, n)
      /\ \A u \in Tx \ {t} : \A s \in inserts[u] : ~Collide(s, n)
  BY DEF Collisions, Undecided, SameVersion
<1>3. OneOpenVersion' /\ LocksInv'
  BY DEF UniqueInv, OneOpenVersion, LocksInv, Collide
<1>4. PendingInv'
  BY <1>1, <1>2 DEF UniqueInv, PendingInv, Collide, SameVersion
<1> QED
  BY <1>3, <1>4 DEF UniqueInv

\* COMMIT: what was kept apart while uncommitted is apart when committed.
LEMMA UniqueCommit ==
  ASSUME TypeOK, UniqueInv, NEW t \in Tx, Commit(t)
  PROVE  UniqueInv'
<1>1. \A u \in Tx : /\ closes'[u] = IF u = t THEN {} ELSE closes[u]
                    /\ touches'[u] = IF u = t THEN {} ELSE touches[u]
                    /\ inserts'[u] = IF u = t THEN {} ELSE inserts[u]
                    /\ target'[u] = IF u = t THEN {} ELSE target[u]
  BY DEF TypeOK, Commit, Release
<1>2. /\ now[t] \in Times /\ now[t] # Open
      /\ rows \subseteq Row /\ closes[t] \subseteq rows
  BY DEF TypeOK, UniqueInv, LocksInv, Times, Open
\* Where the rows of the new state come from.
<1>3. \A n \in rows' : \/ n \in rows /\ n \notin closes[t]
                       \/ n \in inserts[t]
                       \/ \E c \in closes[t] : n = Closed(c, now[t])
  BY DEF Commit
<1>4. \A c \in closes[t] : /\ SameVersion(Closed(c, now[t]), c)
                           /\ Closed(c, now[t]).to # Open
  BY <1>2, ClosedType DEF SameVersion
<1>5. OneOpenVersion'
  <2> SUFFICES ASSUME NEW m \in rows', NEW n \in rows', Collide(m, n)
               PROVE  m = n
    BY DEF OneOpenVersion, Collide
  <2>1. CASE \E c \in closes[t] : m = Closed(c, now[t])
    <3>1. PICK c \in closes[t] : m = Closed(c, now[t])
      BY <2>1
    <3>2. SameVersion(c, n)
      BY <3>1, <1>4 DEF Collide, SameVersion
    <3>3. n \notin inserts[t]
      BY <3>2 DEF UniqueInv, PendingInv, SameVersion
    <3>4. ~(n \in rows /\ n \notin closes[t])
      BY <3>2, <1>2 DEF UniqueInv, OneOpenVersion, Collide, SameVersion
    <3>5. PICK d \in closes[t] : n = Closed(d, now[t])
      BY <1>3, <3>3, <3>4
    <3>6. c = d
      BY <3>2, <3>5, <1>2, <1>4 DEF UniqueInv, OneOpenVersion, Collide, SameVersion
    <3> QED
      BY <3>1, <3>5, <3>6
  <2>2. CASE m \in inserts[t]
    <3>1. CASE n \in inserts[t]
      BY <2>2, <3>1 DEF UniqueInv, PendingInv
    <3>2. CASE n \in rows /\ n \notin closes[t]
      BY <2>2, <3>2 DEF UniqueInv, PendingInv
    <3>3. CASE \E c \in closes[t] : n = Closed(c, now[t])
      BY <2>2, <3>3, <1>4 DEF UniqueInv, PendingInv, Collide, SameVersion
    <3> QED
      BY <1>3, <3>1, <3>2, <3>3
  <2>3. CASE m \in rows /\ m \notin closes[t]
    <3>1. CASE n \in inserts[t]
      <4>1. Collide(n, m)
        BY DEF Collide
      <4> QED
        BY <2>3, <3>1, <4>1 DEF UniqueInv, PendingInv
    <3>2. CASE n \in rows /\ n \notin closes[t]
      BY <2>3, <3>2 DEF UniqueInv, OneOpenVersion
    <3>3. CASE \E c \in closes[t] : n = Closed(c, now[t])
      <4>1. PICK c \in closes[t] : n = Closed(c, now[t])
        BY <3>3
      <4>2. SameVersion(m, c)
        BY <4>1, <1>4 DEF Collide, SameVersion
      <4> QED
        BY <2>3, <4>2, <1>2 DEF UniqueInv, OneOpenVersion, Collide, SameVersion
    <3> QED
      BY <1>3, <3>1, <3>2, <3>3
  <2> QED
    BY <1>3, <2>1, <2>2, <2>3
<1>6. LocksInv'
  <2>1. \A u \in Tx \ {t} : \A r \in closes[u] \cup touches[u] : r \in rows'
    BY DEF Commit, UniqueInv, LocksInv
  <2> QED
    BY <1>1, <2>1 DEF UniqueInv, LocksInv
<1>7. PendingInv'
  <2> SUFFICES ASSUME NEW u \in Tx \ {t}, NEW r \in inserts[u]
               PROVE  /\ \A s \in inserts[u] : Collide(r, s) => r = s
                      /\ \A w \in Tx \ {u, t} : \A s \in inserts[w] : ~Collide(r, s)
                      /\ \A s \in rows' : s \notin closes[u] => ~Collide(r, s)
                      /\ \A s \in closes[u] : ~SameVersion(r, s)
    BY <1>1 DEF PendingInv, Collide, SameVersion
  <2>1. /\ \A s \in inserts[u] : Collide(r, s) => r = s
        /\ \A w \in Tx \ {u} : \A s \in inserts[w] : ~Collide(r, s)
        /\ \A s \in rows : s \notin closes[u] => ~Collide(r, s)
        /\ \A s \in closes[u] : ~SameVersion(r, s)
    BY DEF UniqueInv, PendingInv
  <2>2. \A c \in closes[t] : c \notin closes[u]
    BY DEF UniqueInv, LocksInv
  <2>3. \A c \in closes[t] : ~Collide(r, Closed(c, now[t]))
    BY <2>1, <2>2, <1>2, <1>4 DEF Collide, SameVersion
  <2> QED
    BY <2>1, <2>3, <1>3
<1> QED
  BY <1>5, <1>6, <1>7 DEF UniqueInv

\* The uniqueness invariant holds of every behaviour.
LEMMA UniqueCorrect == Spec => []UniqueInv
<1>1. Init => UniqueInv
  BY DEF Init, UniqueInv, OneOpenVersion, LocksInv, PendingInv
<1>2. TypeOK /\ UniqueInv /\ [Next]_vars => UniqueInv'
  <2> SUFFICES ASSUME TypeOK, UniqueInv, [Next]_vars
               PROVE  UniqueInv'
    OBVIOUS
  <2>1. CASE UNCHANGED vars
    BY <2>1, UniqueUnchanged DEF vars, dataVars, callVars, workVars
  <2>2. CASE Tick
    BY <2>2, UniqueUnchanged DEF Tick, callVars, workVars
  <2>3. ASSUME NEW t \in Tx, TxStep(t)
        PROVE  UniqueInv'
    <3>1. CASE Begin(t)
      BY <3>1, UniqueUnchanged DEF Begin, callVars, workVars
    <3>2. ASSUME NEW k \in Keys, NEW v \in Values, Select(t, k, v)
          PROVE  UniqueInv'
      BY <3>2, UniqueUnchanged DEF Select, workVars
    <3>3. ASSUME NEW k \in Keys, StartClose(t, k)
          PROVE  UniqueInv'
      <4>1. {r \in OpenRows(t) : r.key = k} \in SUBSET OpenRows(t)
        OBVIOUS
      <4> QED
        BY <3>3, <4>1, UniqueTarget DEF StartClose, dataVars, workVars
    <3>4. CASE StartUpdate(t)
      <4>1. {r \in OpenRows(t) : r.id = op[t].id} \in SUBSET OpenRows(t)
        OBVIOUS
      <4> QED
        BY <3>4, <4>1, UniqueTarget DEF StartUpdate, dataVars, workVars
    <3>5. CASE FinishTouch(t)
      BY <3>5, UniqueTouch, UniqueAbort DEF FinishTouch, Abort, dataVars
    <3>6. CASE FinishVersion(t)
      BY <3>6, UniqueClose DEF FinishVersion, dataVars
    <3>7. CASE FinishClose(t)
      BY <3>7, UniqueClose DEF FinishClose, dataVars
    <3>8. CASE Insert(t)
      BY <3>8, UniqueInsert, UniqueAbort DEF Insert, Abort, dataVars
    <3>9. CASE Commit(t)
      BY <3>9, UniqueCommit
    <3>10. CASE Rollback(t)
      BY <3>10, UniqueAbort DEF Rollback, Abort, dataVars
    <3> QED
      BY <2>3, <3>1, <3>2, <3>3, <3>4, <3>5, <3>6, <3>7, <3>8, <3>9, <3>10 DEF TxStep
  <2> QED
    BY <2>1, <2>2, <2>3 DEF Next
<1> QED
  BY <1>1, <1>2, TypeCorrect, PTL DEF Spec

\* An identity never has two open versions, nor an id two versions of the same
\* start, whatever the number of concurrent writers.
THEOREM OneOpenVersionCorrect == Spec => []OneOpenVersion
<1>1. UniqueInv => OneOpenVersion
  BY DEF UniqueInv
<1> QED
  BY <1>1, UniqueCorrect, PTL

\* Only COMMIT changes the committed rows.
LEMMA OnlyCommitWrites ==
  ASSUME [Next]_vars, rows' # rows
  PROVE  \E t \in Tx : Commit(t)
<1>1. ASSUME NEW t \in Tx, TxStep(t)
      PROVE  Commit(t)
  BY <1>1 DEF TxStep, Begin, Select, StartClose, StartUpdate, FinishTouch,
     FinishVersion, FinishClose, Insert, Rollback, dataVars
<1>2. ~UNCHANGED vars /\ ~Tick
  BY DEF Tick, vars, dataVars
<1> QED
  BY <1>1, <1>2 DEF Next

\* "A change never overwrites or deletes a fact."
THEOREM NeverRewrittenCorrect == Spec => NeverRewritten
<1>1. TypeOK /\ UniqueInv /\ [Next]_vars => [NoRowRewritten]_vars
  <2> SUFFICES ASSUME TypeOK, UniqueInv, [Next]_vars, NEW r \in rows, r \notin rows'
               PROVE  r.to = Open /\ \E T \in Times : Closed(r, T) \in rows'
    BY DEF NoRowRewritten
  <2>1. PICK t \in Tx : Commit(t)
    BY OnlyCommitWrites
  <2>2. r \in closes[t]
    BY <2>1 DEF Commit
  <2>3. r.to = Open
    BY <2>2 DEF UniqueInv, LocksInv
  <2>4. now[t] \in Times /\ Closed(r, now[t]) \in rows'
    BY <2>1, <2>2 DEF Commit, TypeOK
  <2> QED
    BY <2>3, <2>4
<1> QED
  BY <1>1, TypeCorrect, UniqueCorrect, PTL DEF NeverRewritten, Spec

(***************************************************************************)
(* Time.                                                                   *)
(***************************************************************************)

TimeInv ==
  /\ \A t \in Tx : now[t] <= clock
  /\ \A r \in rows : r.from <= clock /\ r.to <= clock
  /\ \A t \in Tx : \A r \in inserts[t] : r.from = now[t] /\ r.to \in {Open, now[t]}
  /\ \A t \in Tx : pc[t] = "idle" => inserts[t] = {}

\* A closing UPDATE keeps the uncommitted rows inside their transaction's instant.
LEMMA TimeClose ==
  ASSUME TypeOK, TimeInv, NEW t \in Tx, CloseHit(t)
  PROVE  \A u \in Tx : \A r \in inserts'[u] : r.from = now[u] /\ r.to \in {Open, now[u]}
<1>1. now[t] \in Times /\ inserts[t] \subseteq Row
  BY DEF TypeOK
<1>2. \A u \in Tx : inserts'[u] =
        IF u = t THEN (inserts[t] \ Hit(t)) \cup
                      {Closed(r, now[t]) : r \in inserts[t] \cap Hit(t)}
        ELSE inserts[u]
  BY DEF CloseHit, TypeOK
<1>3. \A r \in inserts[t] : /\ Closed(r, now[t]).from = r.from
                            /\ Closed(r, now[t]).to = now[t]
  BY <1>1, ClosedType
<1>4. \A r \in inserts[t] : r.from = now[t] /\ r.to \in {Open, now[t]}
  BY DEF TimeInv
<1>5. \A n \in inserts'[t] : n.from = now[t] /\ n.to \in {Open, now[t]}
  <2> SUFFICES ASSUME NEW n \in inserts'[t]
               PROVE  n.from = now[t] /\ n.to \in {Open, now[t]}
    OBVIOUS
  <2>1. ASSUME NEW r \in inserts[t], n = Closed(r, now[t])
        PROVE  n.from = now[t] /\ n.to \in {Open, now[t]}
    BY <1>3, <1>4, <2>1
  <2> QED
    BY <1>2, <1>4, <2>1
<1> QED
  BY <1>2, <1>5 DEF TimeInv

\* No committed time lies in the future, and uncommitted rows start at the
\* instant their transaction began.
LEMMA TimeCorrect == Spec => []TimeInv
<1>1. Init => TimeInv
  BY DEF Init, TimeInv
<1>2. TypeOK /\ UniqueInv /\ TimeInv /\ [Next]_vars => TimeInv'
  <2> SUFFICES ASSUME TypeOK, UniqueInv, TimeInv, [Next]_vars
               PROVE  TimeInv'
    OBVIOUS
  <2>0. /\ clock \in Int /\ \A t \in Tx : now[t] \in Times /\ now[t] \in Int
        /\ \A r \in rows : r \in Row /\ r.from \in Int /\ r.to \in Int
    BY BoundsAssumption DEF TypeOK, Row, Times, Open
  <2>1. CASE UNCHANGED vars
    BY <2>1 DEF TimeInv, vars, dataVars, workVars
  <2>2. CASE Tick
    BY <2>0, <2>2 DEF Tick, TimeInv, callVars, workVars
  <2>3. ASSUME NEW t \in Tx, TxStep(t)
        PROVE  TimeInv'
    <3>1. CASE Begin(t)
      BY <2>0, <3>1 DEF Begin, TimeInv, TypeOK, callVars, workVars
    <3>2. ASSUME NEW k \in Keys, NEW v \in Values, Select(t, k, v)
          PROVE  TimeInv'
      BY <3>2 DEF Select, TimeInv, TypeOK, workVars
    <3>3. ASSUME NEW k \in Keys, StartClose(t, k)
          PROVE  TimeInv'
      BY <3>3 DEF StartClose, TimeInv, TypeOK, dataVars, workVars
    <3>4. CASE StartUpdate(t)
      BY <3>4 DEF StartUpdate, TimeInv, TypeOK, dataVars, workVars
    <3>5. CASE FinishTouch(t)
      <4>1. CASE Abort(t)
        BY <3>5, <4>1 DEF FinishTouch, Abort, Release, TimeInv, TypeOK, dataVars
      <4>2. CASE Returned(t) /\ UNCHANGED inserts
        BY <3>5, <4>2 DEF FinishTouch, Returned, TimeInv, TypeOK, dataVars
      <4> QED
        BY <3>5, <4>1, <4>2 DEF FinishTouch
    <3>6. CASE FinishVersion(t)
      <4>1. \A u \in Tx : pc'[u] = "idle" => u # t /\ inserts'[u] = {}
        BY <3>6 DEF FinishVersion, CloseHit, TimeInv, TypeOK
      <4> QED
        BY <3>6, <4>1, TimeClose DEF FinishVersion, TimeInv, dataVars
    <3>7. CASE FinishClose(t)
      <4>1. \A u \in Tx : pc'[u] = "idle" => u # t /\ inserts'[u] = {}
        BY <3>7 DEF FinishClose, CloseHit, Returned, TimeInv, TypeOK
      <4> QED
        BY <3>7, <4>1, TimeClose DEF FinishClose, TimeInv, dataVars
    <3>8. CASE Insert(t)
      BY <3>8 DEF Insert, Abort, Release, Returned, TimeInv, TypeOK, dataVars
    <3>9. CASE Commit(t)
      <4>1. \A c \in closes[t] : /\ Closed(c, now[t]).from = c.from
                                 /\ Closed(c, now[t]).to = now[t]
                                 /\ c \in rows
        <5>1. \A c \in closes[t] : c \in rows
          BY DEF UniqueInv, LocksInv
        <5> QED
          BY <5>1, <2>0, ClosedType
      <4>2. \A r \in inserts[t] : r.from <= clock /\ r.to <= clock
        BY <2>0 DEF TimeInv, TypeOK, Times, Open
      <4>3. \A r \in rows' : r.from <= clock /\ r.to <= clock
        BY <3>9, <4>1, <4>2 DEF Commit, TimeInv
      <4> QED
        BY <3>9, <4>3 DEF Commit, Release, TimeInv, TypeOK
    <3>10. CASE Rollback(t)
      BY <3>10 DEF Rollback, Abort, Release, TimeInv, TypeOK, dataVars
    <3> QED
      BY <2>3, <3>1, <3>2, <3>3, <3>4, <3>5, <3>6, <3>7, <3>8, <3>9, <3>10 DEF TxStep
  <2> QED
    BY <2>1, <2>2, <2>3 DEF Next
<1> QED
  BY <1>1, <1>2, TypeCorrect, UniqueCorrect, PTL DEF Spec

\* What a commit does to the answers of as_of before it began: nothing.
LEMMA CommitKeepsPast ==
  ASSUME TypeOK, UniqueInv, TimeInv, NEW t \in Tx, Commit(t),
         NEW T \in Times, T < now[t]
  PROVE  {<<r.id, r.key, r.val>> : r \in AsOf(T)}'
           = {<<r.id, r.key, r.val>> : r \in AsOf(T)}
<1>1. /\ now[t] \in Times /\ now[t] \in Int /\ now[t] # Open /\ T \in Int
      /\ rows \subseteq Row
      /\ \A c \in closes[t] : c \in rows /\ c.to = Open
  BY BoundsAssumption DEF TypeOK, UniqueInv, LocksInv, Times, Open
<1>2. \A c \in closes[t] :
        LET d == Closed(c, now[t])
        IN /\ d.id = c.id /\ d.key = c.key /\ d.val = c.val
           /\ ValidAt(d, T) <=> ValidAt(c, T)
  <2> SUFFICES ASSUME NEW c \in closes[t]
               PROVE  LET d == Closed(c, now[t])
                      IN /\ d.id = c.id /\ d.key = c.key /\ d.val = c.val
                         /\ ValidAt(d, T) <=> ValidAt(c, T)
    OBVIOUS
  <2>1. c \in Row /\ c.to = Open
    BY <1>1
  <2> QED
    BY <1>1, <2>1, ClosedType DEF ValidAt
<1>3. \A r \in inserts[t] : ~ValidAt(r, T)
  BY <1>1 DEF TimeInv, ValidAt
<1>4. rows' = (rows \ closes[t]) \cup {Closed(r, now[t]) : r \in closes[t]} \cup inserts[t]
  BY DEF Commit
<1>5. ASSUME NEW r \in AsOf(T)
      PROVE  \E s \in AsOf(T)' : s.id = r.id /\ s.key = r.key /\ s.val = r.val
  <2>1. CASE r \in closes[t]
    <3>1. Closed(r, now[t]) \in rows' /\ ValidAt(Closed(r, now[t]), T)
      BY <1>2, <1>4, <1>5, <2>1 DEF AsOf
    <3> QED
      BY <1>2, <2>1, <3>1 DEF AsOf, ValidAt
  <2>2. CASE r \notin closes[t]
    BY <1>4, <1>5, <2>2 DEF AsOf, ValidAt
  <2> QED
    BY <2>1, <2>2
<1>6. ASSUME NEW s \in AsOf(T)'
      PROVE  \E r \in AsOf(T) : s.id = r.id /\ s.key = r.key /\ s.val = r.val
  <2>1. s \in rows' /\ ValidAt(s, T)
    BY <1>6 DEF AsOf, ValidAt
  <2>2. CASE s \in rows \ closes[t]
    BY <2>1, <2>2 DEF AsOf
  <2>3. ASSUME NEW c \in closes[t], s = Closed(c, now[t])
        PROVE  \E r \in AsOf(T) : s.id = r.id /\ s.key = r.key /\ s.val = r.val
    BY <1>1, <1>2, <2>1, <2>3 DEF AsOf
  <2> QED
    BY <1>3, <1>4, <2>1, <2>2, <2>3
<1> QED
  BY <1>5, <1>6

\* Answers about instants before every running transaction are final.
THEOREM PastIsFixedCorrect == Spec => PastIsFixed
<1> DEFINE A == \A T \in Times :
                  (T < clock /\ \A t \in Active : T < now[t]) =>
                    {<<r.id, r.key, r.val>> : r \in AsOf(T)}'
                      = {<<r.id, r.key, r.val>> : r \in AsOf(T)}
<1>1. TypeOK /\ UniqueInv /\ TimeInv /\ [Next]_vars => [A]_vars
  <2> SUFFICES ASSUME TypeOK, UniqueInv, TimeInv, [Next]_vars, NEW T \in Times,
                      \A t \in Active : T < now[t]
               PROVE  {<<r.id, r.key, r.val>> : r \in AsOf(T)}'
                        = {<<r.id, r.key, r.val>> : r \in AsOf(T)}
    OBVIOUS
  <2>1. CASE rows' = rows
    BY <2>1 DEF AsOf, ValidAt
  <2>2. CASE rows' # rows
    <3>1. PICK t \in Tx : Commit(t)
      BY <2>2, OnlyCommitWrites
    <3>2. t \in Active
      BY <3>1 DEF Commit, Active, ActivePC
    <3> QED
      BY <3>1, <3>2, CommitKeepsPast
  <2> QED
    BY <2>1, <2>2
<1> QED
  BY <1>1, TypeCorrect, UniqueCorrect, TimeCorrect, PTL DEF PastIsFixed, Spec

-----------------------------------------------------------------------------
(***************************************************************************)
(* Without overlapping transactions.                                       *)
(***************************************************************************)

\* Without overlap the running transaction is alone, and the youngest writer.
SerialInv ==
  ~overlapped =>
    \A t \in Active : /\ \A u \in Active : t = u
                      /\ \A r \in rows : r.from <= now[t] /\ r.to <= now[t]

\* An action of t other than BEGIN leaves the set of running transactions
\* alone or removes t from it.
LEMMA ActiveShrinks ==
  ASSUME TypeOK, NEW t \in Tx, TxStep(t), ~Begin(t)
  PROVE  Active' \subseteq Active /\ now' = now /\ overlapped' = overlapped
<1> USE DEF ActivePC, TypeOK, Active
<1>1. ASSUME NEW k \in Keys, NEW v \in Values, Select(t, k, v)
      PROVE  Active' \subseteq Active /\ now' = now /\ overlapped' = overlapped
  BY <1>1 DEF Select
<1>2. ASSUME NEW k \in Keys, StartClose(t, k)
      PROVE  Active' \subseteq Active /\ now' = now /\ overlapped' = overlapped
  BY <1>2 DEF StartClose, dataVars
<1>3. CASE StartUpdate(t)
  BY <1>3 DEF StartUpdate, dataVars
<1>4. CASE FinishTouch(t)
  BY <1>4 DEF FinishTouch, Abort, Returned, dataVars
<1>5. CASE FinishVersion(t)
  BY <1>5 DEF FinishVersion, dataVars
<1>6. CASE FinishClose(t)
  BY <1>6 DEF FinishClose, Returned, dataVars
<1>7. CASE Insert(t)
  BY <1>7 DEF Insert, Abort, Returned, dataVars
<1>8. CASE Commit(t)
  BY <1>8 DEF Commit
<1>9. CASE Rollback(t)
  BY <1>9 DEF Rollback, Abort, dataVars
<1> QED
  BY <1>1, <1>2, <1>3, <1>4, <1>5, <1>6, <1>7, <1>8, <1>9 DEF TxStep

LEMMA SerialCorrect == Spec => []SerialInv
<1>1. Init => SerialInv
  BY DEF Init, SerialInv, Active, ActivePC
<1>2. TypeOK /\ TimeInv /\ SerialInv /\ [Next]_vars => SerialInv'
  <2> SUFFICES ASSUME TypeOK, TimeInv, SerialInv, [Next]_vars
               PROVE  SerialInv'
    OBVIOUS
  <2>1. CASE UNCHANGED vars \/ Tick
    BY <2>1 DEF SerialInv, Active, ActivePC, Tick, vars, dataVars, callVars, workVars
  <2>2. ASSUME NEW t \in Tx, Begin(t)
        PROVE  SerialInv'
    <3>1. CASE Active = {}
      <4>1. Active' = {t} /\ now'[t] = clock
        BY <2>2, <3>1 DEF Begin, Active, ActivePC, TypeOK
      <4> QED
        BY <2>2, <4>1 DEF Begin, SerialInv, TimeInv
    <3>2. CASE Active # {}
      BY <2>2, <3>2 DEF Begin, SerialInv
    <3> QED
      BY <3>1, <3>2
  <2>3. ASSUME NEW t \in Tx, TxStep(t), ~Begin(t)
        PROVE  SerialInv'
    <3>1. Active' \subseteq Active /\ now' = now /\ overlapped' = overlapped
      BY <2>3, ActiveShrinks
    <3>2. CASE rows' = rows
      BY <3>1, <3>2 DEF SerialInv
    <3>3. CASE rows' # rows
      <4>1. PICK u \in Tx : Commit(u)
        BY <3>3, OnlyCommitWrites
      <4>2. u \in Active /\ u \notin Active'
        BY <4>1 DEF Commit, Active, ActivePC, TypeOK
      <4>3. ~overlapped => Active' = {}
        BY <3>1, <4>2 DEF SerialInv
      <4> QED
        BY <3>1, <4>3 DEF SerialInv
    <3> QED
      BY <3>2, <3>3
  <2> QED
    BY <2>1, <2>2, <2>3 DEF Next
<1> QED
  BY <1>1, <1>2, TypeCorrect, TimeCorrect, PTL DEF Spec

\* A row that has not been closed by T, seen from a time no row exceeds.
LEMMA UniqueAsOfCommit ==
  ASSUME TypeOK, UniqueInv, UniqueInv', TimeInv, SerialInv, AsOfIsUnique,
         ~overlapped, NEW t \in Tx, Commit(t)
  PROVE  AsOfIsUnique'
<1>1. t \in Active
  BY DEF Commit, Active, ActivePC
<1>2. \A r \in rows : r.from <= now[t] /\ r.to <= now[t]
  BY <1>1 DEF SerialInv
<1>3. /\ now[t] \in Times /\ now[t] \in Int /\ now[t] # Open
      /\ \A r \in rows : r \in Row /\ r.from \in Int /\ r.to \in Int
      /\ \A c \in closes[t] : c \in rows /\ c.to = Open
  BY BoundsAssumption DEF TypeOK, UniqueInv, LocksInv, Row, Times, Open
<1>4. \A c \in closes[t] : /\ Closed(c, now[t]).id = c.id
                           /\ Closed(c, now[t]).key = c.key
                           /\ Closed(c, now[t]).from = c.from
                           /\ Closed(c, now[t]).to = now[t]
  BY <1>3, ClosedType
<1>5. \A n \in rows' : \/ n \in rows /\ n \notin closes[t]
                       \/ n \in inserts[t]
                       \/ \E c \in closes[t] : n = Closed(c, now[t])
  BY DEF Commit
<1> SUFFICES ASSUME NEW T \in Times, NEW m \in rows', NEW n \in rows',
                    ValidAt(m, T), ValidAt(n, T), m.key = n.key
             PROVE  m = n
  BY DEF AsOfIsUnique, AsOf, ValidAt
<1>6. T \in Int
  BY DEF Times
<1>7. CASE T < now[t]
  \* Both versions answered the query before the commit.
  <2>1. ASSUME NEW x \in rows', ValidAt(x, T)
        PROVE  \E r \in AsOf(T) : /\ r.key = x.key
                                  /\ \/ x = r
                                     \/ r \in closes[t] /\ x = Closed(r, now[t])
    <3>1. x \notin inserts[t]
      BY <1>3, <1>6, <1>7, <2>1 DEF ValidAt, TimeInv
    <3>2. CASE x \in rows /\ x \notin closes[t]
      BY <2>1, <3>2 DEF AsOf
    <3>3. ASSUME NEW c \in closes[t], x = Closed(c, now[t])
          PROVE  c \in AsOf(T) /\ c.key = x.key
      BY <1>3, <1>4, <2>1, <3>3 DEF AsOf, ValidAt
    <3> QED
      BY <1>5, <3>1, <3>2, <3>3
  <2>2. PICK r \in AsOf(T) : /\ r.key = m.key
                             /\ (m = r \/ (r \in closes[t] /\ m = Closed(r, now[t])))
    BY <2>1
  <2>3. PICK s \in AsOf(T) : /\ s.key = n.key
                             /\ (n = s \/ (s \in closes[t] /\ n = Closed(s, now[t])))
    BY <2>1
  <2>4. r = s
    BY <2>2, <2>3 DEF AsOfIsUnique
  <2>5. \A c \in closes[t] : c \notin rows' \/ c \in inserts[t]
    BY <1>3, <1>4 DEF Commit
  <2>6. \A c \in closes[t] : c \notin inserts[t]
    BY DEF UniqueInv, PendingInv, SameVersion
  <2> QED
    BY <2>2, <2>3, <2>4, <2>5, <2>6
<1>8. CASE ~(T < now[t])
  \* Only open rows are valid that late, and an identity has one of them.
  <2>1. ASSUME NEW x \in rows', ValidAt(x, T)
        PROVE  x.to = Open
    <3>1. CASE x \in rows /\ x \notin closes[t]
      BY <1>2, <1>3, <1>6, <1>8, <2>1, <3>1 DEF ValidAt
    <3>2. CASE x \in inserts[t]
      BY <1>3, <1>6, <1>8, <2>1, <3>2 DEF ValidAt, TimeInv
    <3>3. ASSUME NEW c \in closes[t], x = Closed(c, now[t])
          PROVE  x.to = Open
      BY <1>3, <1>4, <1>6, <1>8, <2>1, <3>3 DEF ValidAt
    <3> QED
      BY <1>5, <3>1, <3>2, <3>3
  <2> QED
    BY <2>1 DEF UniqueInv, OneOpenVersion, Collide
<1> QED
  BY <1>7, <1>8

\* As long as no two transactions of a tenant overlap, a query as of any
\* instant returns at most one version of a CI.
THEOREM SerialAsOfCorrect == Spec => [](~overlapped => AsOfIsUnique)
<1>1. Init => (~overlapped => AsOfIsUnique)
  BY DEF Init, AsOfIsUnique, AsOf
<1>2. /\ TypeOK /\ UniqueInv /\ UniqueInv' /\ TimeInv /\ SerialInv
      /\ (~overlapped => AsOfIsUnique) /\ [Next]_vars
      => (~overlapped => AsOfIsUnique)'
  <2> SUFFICES ASSUME TypeOK, UniqueInv, UniqueInv', TimeInv, SerialInv,
                      ~overlapped => AsOfIsUnique, [Next]_vars, ~overlapped'
               PROVE  AsOfIsUnique'
    OBVIOUS
  <2>1. ~overlapped
    BY DEF Next, TxStep, Tick, Begin, Select, StartUpdate, StartClose, FinishTouch,
       FinishVersion, FinishClose, Insert, Commit, Rollback, vars, dataVars
  <2>2. CASE rows' = rows
    BY <2>1, <2>2 DEF AsOfIsUnique, AsOf, ValidAt
  <2>3. CASE rows' # rows
    BY <2>1, <2>3, OnlyCommitWrites, UniqueAsOfCommit
  <2> QED
    BY <2>2, <2>3
<1> QED
  BY <1>1, <1>2, TypeCorrect, UniqueCorrect, TimeCorrect, SerialCorrect, PTL DEF Spec

-----------------------------------------------------------------------------
(***************************************************************************)
(* Contiguity, without overlap: a new version of an id always follows the  *)
(* open version of that id, which its own transaction closes.              *)
(***************************************************************************)

\* Ids are handed out once.
IdsInv ==
  /\ \A r \in rows : r.id < nextId
  /\ \A t \in Tx : /\ \A r \in inserts[t] : r.id < nextId
                   /\ op[t].kind \in {"create", "version"} => op[t].id < nextId
                   /\ pc[t] = "insert" => op[t].kind \in {"create", "version"}

LEMMA IdsCorrect == Spec => []IdsInv
<1>1. Init => IdsInv
  BY DEF Init, IdsInv, NoOp
<1>2. TypeOK /\ UniqueInv /\ IdsInv /\ [Next]_vars => IdsInv'
  <2> SUFFICES ASSUME TypeOK, UniqueInv, IdsInv, [Next]_vars
               PROVE  IdsInv'
    OBVIOUS
  <2>0. /\ nextId \in Nat
        /\ \A r \in rows : r \in Row /\ r.id \in Nat
        /\ \A t \in Tx : /\ now[t] \in Times
                         /\ op[t].id \in Nat
                         /\ \A r \in inserts[t] \cup closes[t] : r \in Row /\ r.id \in Nat
        /\ NoOp.kind = "none"
    BY DEF TypeOK, Row, Op, NoOp
  <2>1. CASE UNCHANGED vars \/ Tick
    BY <2>1 DEF IdsInv, Tick, vars, dataVars, callVars, workVars
  <2>2. ASSUME NEW t \in Tx, Release(t), UNCHANGED <<rows, nextId>>,
               \A u \in Tx : pc'[u] = "insert" => u # t /\ pc[u] = "insert"
        PROVE  IdsInv'
    BY <2>0, <2>2 DEF IdsInv, Release, TypeOK
  <2>3. ASSUME NEW t \in Tx, CloseHit(t)
        PROVE  \A u \in Tx : \A r \in inserts'[u] : r.id < nextId
    <3>1. \A u \in Tx : inserts'[u] =
            IF u = t THEN (inserts[t] \ Hit(t)) \cup
                          {Closed(r, now[t]) : r \in inserts[t] \cap Hit(t)}
            ELSE inserts[u]
      BY <2>3 DEF CloseHit, TypeOK
    <3>2. \A r \in inserts[t] : Closed(r, now[t]).id = r.id
      BY <2>0, ClosedType
    <3>3. ASSUME NEW n \in inserts'[t]
          PROVE  n.id < nextId
      <4>1. ASSUME NEW r \in inserts[t], n = Closed(r, now[t])
            PROVE  n.id < nextId
        BY <3>2, <4>1 DEF IdsInv
      <4> QED
        BY <3>1, <4>1 DEF IdsInv
    <3> QED
      BY <3>1, <3>3 DEF IdsInv
  <2>4. ASSUME NEW t \in Tx, TxStep(t)
        PROVE  IdsInv'
    <3>1. CASE Begin(t)
      BY <3>1 DEF Begin, IdsInv, TypeOK, callVars, workVars
    <3>2. ASSUME NEW k \in Keys, NEW v \in Values, Select(t, k, v)
          PROVE  IdsInv'
      <4>1. nextId' >= nextId /\ nextId' \in Nat
        BY <2>0, <3>2 DEF Select
      <4>2. op'[t].kind \in {"create", "version"} => op'[t].id < nextId'
        <5>1. \A r \in OpenRows(t) : r.id < nextId
          BY DEF IdsInv, OpenRows
        <5> QED
          BY <2>0, <3>2, <5>1 DEF Select, TypeOK
      <4>3. pc'[t] = "insert" => op'[t].kind \in {"create", "version"}
        BY <3>2 DEF Select, TypeOK
      <4>4. \A u \in Tx \ {t} : op'[u] = op[u] /\ pc'[u] = pc[u]
        BY <3>2 DEF Select, TypeOK
      <4> QED
        BY <2>0, <3>2, <4>1, <4>2, <4>3, <4>4 DEF Select, IdsInv, workVars
    <3>3. ASSUME NEW k \in Keys, StartClose(t, k)
          PROVE  IdsInv'
      BY <3>3 DEF StartClose, IdsInv, TypeOK, dataVars, workVars
    <3>4. CASE StartUpdate(t)
      BY <3>4 DEF StartUpdate, IdsInv, TypeOK, dataVars, workVars
    <3>5. CASE FinishTouch(t)
      <4>1. CASE Abort(t)
        BY <3>5, <4>1, <2>2 DEF FinishTouch, Abort, TypeOK, dataVars
      <4>2. CASE Returned(t) /\ UNCHANGED inserts
        BY <2>0, <3>5, <4>2 DEF FinishTouch, Returned, IdsInv, TypeOK, dataVars
      <4> QED
        BY <3>5, <4>1, <4>2 DEF FinishTouch
    <3>6. CASE FinishVersion(t)
      BY <3>6, <2>3 DEF FinishVersion, IdsInv, TypeOK, dataVars
    <3>7. CASE FinishClose(t)
      BY <2>0, <3>7, <2>3 DEF FinishClose, Returned, IdsInv, TypeOK, dataVars
    <3>8. CASE Insert(t)
      <4>1. CASE Abort(t)
        BY <3>8, <4>1, <2>2 DEF Insert, Abort, TypeOK, dataVars
      <4>2. ASSUME NEW v \in op[t].vals, Returned(t),
                   inserts' = [inserts EXCEPT ![t] = @ \cup
                     {[id |-> op[t].id, key |-> op[t].key, val |-> v,
                       from |-> now[t], to |-> Open]}]
            PROVE  IdsInv'
        BY <2>0, <3>8, <4>2 DEF Insert, Returned, IdsInv, TypeOK, dataVars
      <4> QED
        BY <3>8, <4>1, <4>2 DEF Insert
    <3>9. CASE Commit(t)
      <4>1. \A c \in closes[t] : c \in rows /\ Closed(c, now[t]).id = c.id
        <5>1. \A c \in closes[t] : c \in rows
          BY DEF UniqueInv, LocksInv
        <5> QED
          BY <2>0, <5>1, ClosedType
      <4>2. \A r \in rows' : r.id < nextId
        BY <3>9, <4>1 DEF Commit, IdsInv
      <4> QED
        BY <2>0, <3>9, <4>2 DEF Commit, Release, IdsInv, TypeOK
    <3>10. CASE Rollback(t)
      BY <3>10, <2>2 DEF Rollback, Abort, TypeOK, dataVars
    <3> QED
      BY <2>4, <3>1, <3>2, <3>3, <3>4, <3>5, <3>6, <3>7, <3>8, <3>9, <3>10 DEF TxStep
  <2> QED
    BY <2>1, <2>4 DEF Next
<1> QED
  BY <1>1, <1>2, TypeCorrect, UniqueCorrect, PTL DEF Spec

\* The open version of an id is its last one.
OpenIsLast == \A r, s \in rows : r.id = s.id /\ r.to = Open => s.from <= r.from

\* t closes a committed version of the id i, if the id has any.
Continues(t, i) == (\E r \in rows : r.id = i) => \E c \in closes[t] : c.id = i

\* What t inserts, or is about to insert, continues what it closes.
ChainOf(t) ==
  /\ \A q \in inserts[t] : Continues(t, q.id)
  /\ pc[t] = "insert" => Continues(t, op[t].id)
  /\ pc[t] = "update" => \E r \in OpenRows(t) : r.id = op[t].id
  /\ pc[t] = "locking" /\ op[t].kind = "version" =>
       \E r \in target[t] \cap OpenRows(t) : r.id = op[t].id

ChainInv == ~overlapped => /\ OpenIsLast
                           /\ HistoryIsContiguous
                           /\ \A t \in Active : ChainOf(t)

\* An UPDATE that closes rows keeps the chain of what t has inserted.
LEMMA ChainClose ==
  ASSUME TypeOK, NEW t \in Tx, CloseHit(t), UNCHANGED rows,
         \A q \in inserts[t] : Continues(t, q.id)
  PROVE  /\ \A q \in inserts'[t] : Continues(t, q.id)'
         /\ closes[t] \subseteq closes'[t]
<1>1. closes'[t] = closes[t] \cup (Hit(t) \cap rows)
  BY DEF CloseHit, TypeOK
<1>2. now[t] \in Times /\ inserts[t] \subseteq Row
  BY DEF TypeOK
<1>3. \A r \in inserts[t] : Closed(r, now[t]).id = r.id
  BY <1>2, ClosedType
<1>4. inserts'[t] = (inserts[t] \ Hit(t)) \cup
                    {Closed(r, now[t]) : r \in inserts[t] \cap Hit(t)}
  BY DEF CloseHit, TypeOK
<1>5. \A n \in inserts'[t] : \E q \in inserts[t] : n.id = q.id
  <2> SUFFICES ASSUME NEW n \in inserts'[t]
               PROVE  \E q \in inserts[t] : n.id = q.id
    OBVIOUS
  <2>1. ASSUME NEW r \in inserts[t], n = Closed(r, now[t])
        PROVE  n.id = r.id
    BY <1>3, <2>1
  <2> QED
    BY <1>4, <2>1
<1> QED
  BY <1>1, <1>5 DEF Continues

\* Every step of the only running transaction but its commit.
LEMMA ChainStep ==
  ASSUME TypeOK, UniqueInv, IdsInv, NEW t \in Tx, TxStep(t),
         ~Begin(t), ~Commit(t), t \in Active', ChainOf(t)
  PROVE  ChainOf(t)' /\ rows' = rows
<1>0. rows' = rows
  BY OnlyCommitWrites, TypeOK DEF TxStep, Begin, Select, StartClose, StartUpdate,
     FinishTouch, FinishVersion, FinishClose, Insert, Rollback, dataVars
<1>1. pc'[t] # "aborted" /\ pc'[t] # "committed"
  BY DEF Active, ActivePC
<1>2. ~Abort(t)
  BY <1>1 DEF Abort, TypeOK
<1>3. ASSUME NEW k \in Keys, NEW v \in Values, Select(t, k, v)
      PROVE  ChainOf(t)'
  <2>1. CASE op'[t].id = nextId /\ pc'[t] = "insert"
    <3>1. ~\E r \in rows : r.id = nextId
      BY DEF IdsInv, TypeOK, Row
    <3> QED
      BY <1>3, <2>1, <3>1 DEF Select, ChainOf, Continues, workVars
  <2>2. CASE pc'[t] = "update" /\ \E r \in OpenRows(t) : r.id = op'[t].id
    BY <1>3, <2>2 DEF Select, ChainOf, Continues, OpenRows, workVars
  <2>3. CASE \E r \in OpenRows(t) : r.id = op'[t].id /\ pc'[t] = "update"
    BY <2>2, <2>3
  <2> QED
    BY <1>3, <2>1, <2>2 DEF Select, TypeOK
<1>4. ASSUME NEW k \in Keys, StartClose(t, k)
      PROVE  ChainOf(t)'
  <2>1. pc'[t] = "locking" /\ op'[t].kind = "close"
    BY <1>4 DEF StartClose, TypeOK
  <2> QED
    BY <1>4, <2>1 DEF StartClose, ChainOf, Continues, dataVars, workVars
<1>5. CASE StartUpdate(t)
  <2>1. /\ pc[t] = "update" /\ pc'[t] = "locking"
        /\ target'[t] = {r \in OpenRows(t) : r.id = op[t].id}
        /\ op'[t] = op[t]
    BY <1>5 DEF StartUpdate, TypeOK
  <2> QED
    BY <1>5, <2>1 DEF StartUpdate, ChainOf, Continues, OpenRows, dataVars, workVars
<1>6. CASE FinishTouch(t)
  BY <1>2, <1>6 DEF FinishTouch, Returned, ChainOf, Continues, TypeOK, dataVars
<1>7. CASE FinishVersion(t)
  <2>1. /\ pc[t] = "locking" /\ op[t].kind = "version" /\ CloseHit(t)
        /\ pc'[t] = "insert" /\ op'[t] = op[t]
        /\ closes'[t] = closes[t] \cup (Hit(t) \cap rows)
    BY <1>7 DEF FinishVersion, CloseHit, TypeOK
  <2>2. PICK r \in target[t] \cap OpenRows(t) : r.id = op[t].id
    BY <2>1 DEF ChainOf
  <2>3. CASE r \in rows
    <3>1. r \in closes'[t]
      BY <2>1, <2>2, <2>3 DEF Hit
    <3> QED
      BY <1>0, <2>1, <2>2, <3>1, ChainClose DEF ChainOf, Continues
  <2>4. CASE r \in inserts[t]
    <3>1. Continues(t, op[t].id)
      BY <2>2, <2>4 DEF ChainOf
    <3> QED
      BY <1>0, <2>1, <3>1, ChainClose DEF ChainOf, Continues
  <2> QED
    BY <2>2, <2>3, <2>4 DEF OpenRows
<1>8. CASE FinishClose(t)
  <2>1. CloseHit(t) /\ pc'[t] = "ready"
    BY <1>8 DEF FinishClose, Returned, TypeOK
  <2> QED
    BY <1>0, <2>1, ChainClose DEF ChainOf
<1>9. CASE Insert(t)
  <2>1. PICK v \in op[t].vals : inserts' = [inserts EXCEPT ![t] = @ \cup
                     {[id |-> op[t].id, key |-> op[t].key, val |-> v,
                       from |-> now[t], to |-> Open]}]
    BY <1>2, <1>9 DEF Insert
  <2>2. /\ pc[t] = "insert" /\ pc'[t] = "ready" /\ closes' = closes
        /\ \A q \in inserts'[t] : q \in inserts[t] \/ q.id = op[t].id
    BY <1>2, <1>9, <2>1 DEF Insert, Returned, TypeOK
  <2> QED
    BY <1>0, <2>2 DEF ChainOf, Continues
<1>10. ~Rollback(t)
  BY <1>2 DEF Rollback
<1> QED
  BY <1>0, <1>3, <1>4, <1>5, <1>6, <1>7, <1>8, <1>9, <1>10 DEF TxStep

\* The commit of the only running transaction.
LEMMA ChainCommit ==
  ASSUME TypeOK, UniqueInv, UniqueInv', TimeInv, SerialInv, ~overlapped,
         NEW t \in Tx, Commit(t), OpenIsLast, HistoryIsContiguous, ChainOf(t)
  PROVE  OpenIsLast' /\ HistoryIsContiguous'
<1>1. t \in Active
  BY DEF Commit, Active, ActivePC
<1>2. /\ now[t] \in Int /\ now[t] \in Times /\ now[t] # Open
      /\ \A r \in rows : /\ r \in Row /\ r.from \in Int /\ r.to \in Int
                         /\ r.from <= now[t]
      /\ \A c \in closes[t] : c \in rows /\ c.to = Open
      /\ \A q \in inserts[t] : q.from = now[t] /\ q \in Row
  BY <1>1, BoundsAssumption
  DEF TypeOK, UniqueInv, LocksInv, TimeInv, SerialInv, Row, Times, Open
<1>3. \A c \in closes[t] : /\ Closed(c, now[t]).id = c.id
                           /\ Closed(c, now[t]).from = c.from
                           /\ Closed(c, now[t]).to = now[t]
                           /\ Closed(c, now[t]) \in rows'
  BY <1>2, ClosedType DEF Commit
<1>4. \A n \in rows' : \/ n \in rows /\ n \notin closes[t]
                       \/ n \in inserts[t]
                       \/ \E c \in closes[t] : n = Closed(c, now[t])
  BY DEF Commit
\* Every row of the old state is there with its id and its start.
<1>5. \A r \in rows : \E n \in rows' : SameVersion(n, r) /\ (r \in closes[t] \/ n = r)
  BY <1>3 DEF Commit, SameVersion
<1>6. \A n \in rows' : n \in inserts[t] \/ \E r \in rows :
                         SameVersion(n, r) /\ (r.to # Open => n = r)
                         /\ (r \in closes[t] => n.to = now[t])
                         /\ (r \notin closes[t] => n = r)
  <2> SUFFICES ASSUME NEW n \in rows', n \notin inserts[t]
               PROVE  \E r \in rows : SameVersion(n, r) /\ (r.to # Open => n = r)
                         /\ (r \in closes[t] => n.to = now[t])
                         /\ (r \notin closes[t] => n = r)
    OBVIOUS
  <2>1. ASSUME NEW c \in closes[t], n = Closed(c, now[t])
        PROVE  /\ c \in rows /\ SameVersion(n, c) /\ c.to = Open
               /\ n.to = now[t]
    BY <1>2, <1>3, <2>1 DEF SameVersion
  <2>2. CASE n \in rows /\ n \notin closes[t]
    BY <2>2 DEF SameVersion
  <2> QED
    BY <1>4, <2>1, <2>2
<1>7. \A n \in rows' : n.from \in Int /\ n.from <= now[t]
  BY <1>2, <1>6 DEF SameVersion
\* The versions that t's rows continue were the last of their id.
<1>8. \A q \in inserts[t], r \in rows : r.id = q.id =>
        \E c \in closes[t] : c.id = q.id /\ r.from <= c.from /\ c.from < now[t]
  <2> SUFFICES ASSUME NEW q \in inserts[t], NEW r \in rows, r.id = q.id
               PROVE  \E c \in closes[t] : c.id = q.id /\ r.from <= c.from
                                           /\ c.from < now[t]
    OBVIOUS
  <2>1. PICK c \in closes[t] : c.id = q.id
    BY DEF ChainOf, Continues
  <2>2. r.from <= c.from
    BY <1>2, <2>1 DEF OpenIsLast
  <2>3. c.from # q.from
    BY <2>1 DEF UniqueInv, PendingInv, SameVersion
  <2> QED
    BY <1>2, <2>1, <2>2, <2>3
<1>9. OpenIsLast'
  <2> SUFFICES ASSUME NEW m \in rows', NEW n \in rows', m.id = n.id, m.to = Open
               PROVE  n.from <= m.from
    BY DEF OpenIsLast
  <2>1. CASE m \in inserts[t]
    BY <1>2, <1>7, <2>1
  <2>2. CASE m \notin inserts[t]
    <3>1. m \in rows /\ m \notin closes[t]
      BY <1>2, <1>6, <2>2
    <3>2. CASE n \in inserts[t]
      <4>1. PICK c \in closes[t] : c.id = n.id /\ m.from <= c.from
        BY <1>8, <3>1, <3>2
      <4>2. c.from <= m.from
        BY <1>2, <3>1, <4>1 DEF OpenIsLast
      <4>3. SameVersion(c, m)
        BY <1>2, <3>1, <4>1, <4>2 DEF SameVersion
      <4> QED
        BY <1>2, <3>1, <4>3 DEF UniqueInv, OneOpenVersion, Collide, SameVersion
    <3>3. CASE n \notin inserts[t]
      BY <1>6, <3>1, <3>3 DEF OpenIsLast, SameVersion
    <3> QED
      BY <3>2, <3>3
  <2> QED
    BY <2>1, <2>2
<1>10. HistoryIsContiguous'
  <2> SUFFICES ASSUME NEW m \in rows', NEW n \in rows', m.id = n.id, m.from < n.from,
                      ~\E s \in rows' : s.id = m.id /\ m.from < s.from /\ s.from < n.from
               PROVE  m.to = n.from
    BY DEF HistoryIsContiguous, Successor
  <2>1. m \notin inserts[t]
    BY <1>2, <1>7
  <2>2. PICK r \in rows : /\ SameVersion(m, r)
                          /\ r.to # Open => m = r
                          /\ r \in closes[t] => m.to = now[t]
                          /\ r \notin closes[t] => m = r
    BY <1>6, <2>1
  <2>3. CASE n \in inserts[t]
    <3>1. PICK c \in closes[t] : c.id = n.id /\ r.from <= c.from /\ c.from < now[t]
      BY <1>8, <2>2, <2>3 DEF SameVersion
    <3>2. c.from <= m.from
      BY <1>2, <1>3, <1>7, <2>3, <3>1
    <3>3. SameVersion(c, r)
      <4>1. c.id = r.id /\ m.from = r.from
        BY <2>2, <3>1 DEF SameVersion
      <4>2. c.from \in Int /\ r.from \in Int
        BY <1>2
      <4> QED
        BY <3>1, <3>2, <4>1, <4>2 DEF SameVersion
    <3>4. c = r
      BY <1>2, <3>3 DEF UniqueInv, OneOpenVersion, Collide, SameVersion
    <3> QED
      BY <1>2, <2>2, <2>3, <3>4
  <2>4. CASE n \notin inserts[t]
    <3>1. PICK q \in rows : SameVersion(n, q)
      BY <1>6, <2>4
    <3>2. Successor(r, q)
      BY <1>5, <2>2, <3>1 DEF Successor, SameVersion
    <3>3. r.to = q.from
      BY <3>2 DEF HistoryIsContiguous
    <3>4. r.to # Open
      BY <1>2, <3>1, <3>3 DEF TypeOK, Row, Times, Open
    <3> QED
      BY <2>2, <3>1, <3>3, <3>4 DEF SameVersion
  <2> QED
    BY <2>3, <2>4
<1> QED
  BY <1>9, <1>10

LEMMA ChainCorrect == Spec => []ChainInv
<1>1. Init => ChainInv
  BY DEF Init, ChainInv, OpenIsLast, HistoryIsContiguous, Active, ActivePC
<1>2. /\ TypeOK /\ UniqueInv /\ UniqueInv' /\ TimeInv /\ SerialInv /\ IdsInv
      /\ ChainInv /\ [Next]_vars
      => ChainInv'
  <2> SUFFICES ASSUME TypeOK, UniqueInv, UniqueInv', TimeInv, SerialInv, IdsInv,
                      ChainInv, [Next]_vars, ~overlapped'
               PROVE  /\ OpenIsLast' /\ HistoryIsContiguous'
                      /\ \A t \in Active' : ChainOf(t)'
    BY DEF ChainInv
  <2>1. ~overlapped
    BY DEF Next, TxStep, Tick, Begin, Select, StartUpdate, StartClose, FinishTouch,
       FinishVersion, FinishClose, Insert, Commit, Rollback, vars, dataVars
  <2>2. OpenIsLast /\ HistoryIsContiguous /\ \A t \in Active : ChainOf(t)
    BY <2>1 DEF ChainInv
  <2>3. CASE UNCHANGED vars \/ Tick
    BY <2>2, <2>3 DEF OpenIsLast, HistoryIsContiguous, Successor, ChainOf, Continues,
       OpenRows, Active, ActivePC, Tick, vars, dataVars, callVars, workVars
  <2>4. ASSUME NEW t \in Tx, Begin(t)
        PROVE  /\ OpenIsLast' /\ HistoryIsContiguous'
               /\ \A u \in Active' : ChainOf(u)'
    <3>1. rows' = rows /\ inserts' = inserts /\ inserts[t] = {} /\ pc'[t] = "ready"
      BY <2>4 DEF Begin, TimeInv, TypeOK, workVars
    <3>2. Active' = {t}
      BY <2>1, <2>4 DEF Begin, Active, ActivePC, TypeOK
    <3> QED
      BY <2>2, <3>1, <3>2 DEF OpenIsLast, HistoryIsContiguous, Successor, ChainOf
  <2>5. ASSUME NEW t \in Tx, Commit(t)
        PROVE  /\ OpenIsLast' /\ HistoryIsContiguous'
               /\ \A u \in Active' : ChainOf(u)'
    <3>1. t \in Active /\ t \notin Active' /\ Active' \subseteq Active
      BY <2>5 DEF Commit, Active, ActivePC, TypeOK
    <3>2. Active' = {}
      BY <2>1, <3>1 DEF SerialInv
    <3> QED
      BY <2>1, <2>2, <2>5, <3>1, <3>2, ChainCommit
  <2>6. ASSUME NEW t \in Tx, TxStep(t), ~Begin(t), ~Commit(t)
        PROVE  /\ OpenIsLast' /\ HistoryIsContiguous'
               /\ \A u \in Active' : ChainOf(u)'
    <3>1. t \in Active /\ Active' \subseteq Active
      <4>1. t \in Active
        BY <2>6 DEF TxStep, Select, StartUpdate, StartClose, FinishTouch, FinishVersion,
           FinishClose, Insert, Rollback, Active, ActivePC
      <4> QED
        BY <2>6, <4>1, ActiveShrinks
    <3>2. rows' = rows
      BY <2>6 DEF TxStep, Select, StartClose, StartUpdate, FinishTouch, FinishVersion,
         FinishClose, Insert, Rollback, dataVars
    <3>3. ASSUME NEW u \in Active'
          PROVE  ChainOf(u)'
      <4>1. u = t
        BY <2>1, <3>1 DEF SerialInv
      <4> QED
        BY <2>2, <2>6, <3>1, <4>1, ChainStep
    <3> QED
      BY <2>2, <3>2, <3>3 DEF OpenIsLast, HistoryIsContiguous, Successor
  <2> QED
    BY <2>3, <2>4, <2>5, <2>6 DEF Next
<1> QED
  BY <1>1, <1>2, TypeCorrect, UniqueCorrect, TimeCorrect, SerialCorrect, IdsCorrect,
     PTL DEF Spec

\* As long as no two transactions overlap, history is a function of time and
\* every version starts where the one before it ended.
THEOREM SerialHistoryCorrect == Spec => []SerialHistory
<1>1. ChainInv /\ (~overlapped => AsOfIsUnique) => SerialHistory
  BY DEF ChainInv, SerialHistory
<1> QED
  BY <1>1, ChainCorrect, SerialAsOfCorrect, PTL


-----------------------------------------------------------------------------
(***************************************************************************)
(* The call a transaction is in the middle of, and the rows it is about:   *)
(* an UPDATE finds its rows by id, a caller thinks in identities, and what *)
(* ties the two is that an id never changes its identity.                  *)
(***************************************************************************)

\* A row, or a call of upsert, binds the id i to the identity k.
KeyOf(i, k) ==
  \/ \E r \in rows : r.id = i /\ r.key = k
  \/ \E t \in Tx : \E r \in inserts[t] : r.id = i /\ r.key = k
  \/ \E t \in Tx : /\ op[t].kind \in {"create", "version", "touch"}
                   /\ op[t].id = i /\ op[t].key = k

KeysInv == \A i \in Nat, k \in Keys :
             KeyOf(i, k) => i < nextId /\ \A l \in Keys : KeyOf(i, l) => k = l

\* Where a transaction stands in its call, and what the call will return.
CallInv ==
  \A t \in Tx :
    /\ pc[t] = "idle" => asked[t] = {}
    /\ pc[t] = "update" => op[t].kind \in {"version", "touch"}
    /\ pc[t] = "locking" => op[t].kind \in {"version", "touch", "close"}
    /\ pc[t] = "insert" => op[t].kind \in {"create", "version"}
    /\ op[t].kind = "close" => op[t].vals = {}
    /\ op[t].kind \in {"create", "version", "touch"} => \E v \in Values : op[t].vals = {v}
    /\ pc[t] # "locking" => target[t] = {}
    /\ \A r \in target[t] : r \notin closes[t] /\ r.key = op[t].key

\* What a closing UPDATE makes of the uncommitted rows.
LEMMA CloseHitRows ==
  ASSUME TypeOK, NEW t \in Tx, CloseHit(t), NEW u \in Tx, NEW n \in inserts'[u]
  PROVE  \/ n \in inserts[u] /\ (u = t => n \notin Hit(t))
         \/ u = t /\ \E r \in inserts[t] \cap Hit(t) :
              /\ n = Closed(r, now[t]) /\ n.id = r.id /\ n.key = r.key
              /\ n.to = now[t] /\ n.to # Open
<1>1. inserts'[u] = IF u = t THEN (inserts[t] \ Hit(t)) \cup
                                  {Closed(r, now[t]) : r \in inserts[t] \cap Hit(t)}
                    ELSE inserts[u]
  BY DEF CloseHit, TypeOK
<1>2. now[t] \in Times /\ now[t] # Open /\ inserts[t] \subseteq Row
  BY BoundsAssumption DEF TypeOK, Times, Open
<1>3. ASSUME NEW r \in inserts[t] \cap Hit(t), n = Closed(r, now[t])
      PROVE  n.id = r.id /\ n.key = r.key /\ n.to = now[t] /\ n.to # Open
  BY <1>2, <1>3, ClosedType
<1> QED
  BY <1>1, <1>3

\* A step binds no id anew but the one it takes from nextId.
LEMMA KeysStep ==
  ASSUME TypeOK, UniqueInv, CallInv, NEW t \in Tx, TxStep(t),
         NEW i \in Nat, NEW k \in Keys, KeyOf(i, k)'
  PROVE  /\ nextId' >= nextId
         /\ KeyOf(i, k) \/ (i = nextId /\ nextId' = nextId + 1 /\ k = op'[t].key)
<1> DEFINE G == /\ nextId' >= nextId
                /\ KeyOf(i, k) \/ (i = nextId /\ nextId' = nextId + 1 /\ k = op'[t].key)
<1>0. nextId \in Nat /\ NoOp.kind = "none"
  BY DEF TypeOK, NoOp
<1>1. CASE Begin(t)
  BY <1>0, <1>1 DEF Begin, KeyOf, callVars, workVars
<1>2. ASSUME NEW j \in Keys, NEW v \in Values, Select(t, j, v)
      PROVE  G
  <2>1. rows' = rows /\ inserts' = inserts /\ \A u \in Tx \ {t} : op'[u] = op[u]
    BY <1>2 DEF Select, TypeOK, workVars
  <2>2. op'[t].key = j
    BY <1>2 DEF Select, TypeOK
  <2>3. nextId' >= nextId
    BY <1>0, <1>2 DEF Select
  <2>4. \/ op'[t].id = nextId /\ nextId' = nextId + 1
        \/ \E r \in OpenRows(t) : r.key = j /\ op'[t].id = r.id
    BY <1>2 DEF Select, TypeOK
  <2>5. \A r \in OpenRows(t) : r.key = j => KeyOf(r.id, j)
    BY DEF OpenRows, KeyOf
  <2> QED
    BY <2>1, <2>2, <2>3, <2>4, <2>5 DEF KeyOf
<1>3. ASSUME NEW j \in Keys, StartClose(t, j)
      PROVE  G
  <2>1. /\ rows' = rows /\ inserts' = inserts /\ nextId' = nextId
        /\ \A u \in Tx : op'[u] = op[u] \/ op'[u].kind = "close"
    BY <1>3 DEF StartClose, TypeOK, dataVars, workVars
  <2> QED
    BY <1>0, <2>1 DEF KeyOf
<1>4. CASE StartUpdate(t)
  BY <1>0, <1>4 DEF StartUpdate, KeyOf, dataVars, workVars
<1>5. ASSUME rows' = rows, nextId' = nextId,
             \A u \in Tx : op'[u] = op[u] \/ op'[u] = NoOp,
             \A u \in Tx : \A n \in inserts'[u] :
               \/ n \in inserts[u]
               \/ \E r \in inserts[u] : n.id = r.id /\ n.key = r.key
               \/ u = t /\ pc[t] = "insert" /\ n.id = op[t].id /\ n.key = op[t].key
      PROVE  G
  <2>1. KeyOf(i, k)
    <3>1. CASE \E u \in Tx : \E n \in inserts'[u] : n.id = i /\ n.key = k
      <4>1. pc[t] = "insert" => op[t].kind \in {"create", "version"}
        BY DEF CallInv
      <4> QED
        BY <1>5, <3>1, <4>1 DEF KeyOf
    <3>2. CASE ~\E u \in Tx : \E n \in inserts'[u] : n.id = i /\ n.key = k
      BY <1>0, <1>5, <3>2 DEF KeyOf
    <3> QED
      BY <3>1, <3>2
  <2> QED
    BY <1>0, <1>5, <2>1
<1>6. CASE FinishTouch(t)
  <2>1. \A u \in Tx : op'[u] = op[u] \/ op'[u] = NoOp
    BY <1>6 DEF FinishTouch, Abort, Release, Returned, TypeOK
  <2>2. \A u \in Tx : inserts'[u] \subseteq inserts[u]
    BY <1>6 DEF FinishTouch, Abort, Release, Returned, TypeOK
  <2> QED
    BY <1>5, <1>6, <2>1, <2>2 DEF FinishTouch, dataVars
<1>7. CASE FinishVersion(t)
  <2>1. op' = op /\ rows' = rows /\ nextId' = nextId /\ CloseHit(t)
    BY <1>7 DEF FinishVersion, dataVars
  <2> QED
    BY <1>5, <2>1, CloseHitRows
<1>8. CASE FinishClose(t)
  <2>1. /\ rows' = rows /\ nextId' = nextId /\ CloseHit(t)
        /\ \A u \in Tx : op'[u] = op[u] \/ op'[u] = NoOp
    BY <1>8 DEF FinishClose, Returned, TypeOK, dataVars
  <2> QED
    BY <1>5, <2>1, CloseHitRows
<1>9. CASE Insert(t)
  <2>1. /\ rows' = rows /\ nextId' = nextId /\ pc[t] = "insert"
        /\ \A u \in Tx : op'[u] = op[u] \/ op'[u] = NoOp
    BY <1>9 DEF Insert, Abort, Release, Returned, TypeOK, dataVars
  <2>2. \A u \in Tx : \A n \in inserts'[u] :
          n \in inserts[u] \/ (u = t /\ n.id = op[t].id /\ n.key = op[t].key)
    BY <1>9 DEF Insert, Abort, Release, Returned, TypeOK
  <2> QED
    BY <1>5, <2>1, <2>2
<1>10. CASE Commit(t)
  <2>1. /\ nextId' = nextId
        /\ \A u \in Tx : op'[u] = op[u] \/ op'[u] = NoOp
        /\ \A u \in Tx : inserts'[u] \subseteq inserts[u]
    BY <1>10 DEF Commit, Release, TypeOK
  <2>2. \A n \in rows' : \/ n \in rows \/ n \in inserts[t]
                         \/ \E c \in rows : n.id = c.id /\ n.key = c.key
    <3>1. now[t] \in Times /\ \A c \in closes[t] : c \in rows /\ c \in Row
      BY DEF TypeOK, UniqueInv, LocksInv
    <3>2. ASSUME NEW n \in rows', NEW c \in closes[t], n = Closed(c, now[t])
          PROVE  n.id = c.id /\ n.key = c.key
      BY <3>1, <3>2, ClosedType
    <3>3. \A n \in rows' : n \in rows \/ n \in inserts[t]
                           \/ \E c \in closes[t] : n = Closed(c, now[t])
      BY <1>10 DEF Commit
    <3> QED
      BY <3>1, <3>2, <3>3
  <2>3. KeyOf(i, k)
    <3>1. CASE \E n \in rows' : n.id = i /\ n.key = k
      BY <2>2, <3>1 DEF KeyOf
    <3>2. CASE ~\E n \in rows' : n.id = i /\ n.key = k
      BY <1>0, <2>1, <3>2 DEF KeyOf
    <3> QED
      BY <3>1, <3>2
  <2> QED
    BY <1>0, <2>1, <2>3
<1>11. CASE Rollback(t)
  BY <1>5, <1>11 DEF Rollback, Abort, Release, TypeOK, dataVars
<1> QED
  BY <1>1, <1>2, <1>3, <1>4, <1>6, <1>7, <1>8, <1>9, <1>10, <1>11 DEF TxStep

\* What a transaction is in the middle of stays what its call made it.
LEMMA CallStep ==
  ASSUME TypeOK, UniqueInv, KeysInv, CallInv, NEW t \in Tx, TxStep(t)
  PROVE  CallInv'
<1> DEFINE C(u) ==
      /\ pc'[u] = "idle" => asked'[u] = {}
      /\ pc'[u] = "update" => op'[u].kind \in {"version", "touch"}
      /\ pc'[u] = "locking" => op'[u].kind \in {"version", "touch", "close"}
      /\ pc'[u] = "insert" => op'[u].kind \in {"create", "version"}
      /\ op'[u].kind = "close" => op'[u].vals = {}
      /\ op'[u].kind \in {"create", "version", "touch"} =>
           \E v \in Values : op'[u].vals = {v}
      /\ pc'[u] # "locking" => target'[u] = {}
      /\ \A r \in target'[u] : r \notin closes'[u] /\ r.key = op'[u].key
<1> SUFFICES \A u \in Tx : C(u)
  BY DEF CallInv
<1>0. NoOp.kind = "none"
  BY DEF NoOp
<1>1. ASSUME \A u \in Tx \ {t} : /\ pc'[u] = pc[u] /\ asked'[u] = asked[u]
                                 /\ op'[u] = op[u] /\ target'[u] = target[u]
                                 /\ closes'[u] = closes[u],
             C(t)
      PROVE  \A u \in Tx : C(u)
  BY <1>1 DEF CallInv
<1>2. CASE Begin(t)
  BY <1>2 DEF Begin, CallInv, TypeOK, callVars, workVars
<1>3. ASSUME NEW k \in Keys, NEW v \in Values, Select(t, k, v)
      PROVE  \A u \in Tx : C(u)
  <2>1. \A u \in Tx \ {t} : /\ pc'[u] = pc[u] /\ asked'[u] = asked[u]
                            /\ op'[u] = op[u] /\ target'[u] = target[u]
                            /\ closes'[u] = closes[u]
    BY <1>3 DEF Select, TypeOK, workVars
  <2>2. /\ op'[t].key = k /\ op'[t].vals = {v}
        /\ \/ pc'[t] = "insert" /\ op'[t].kind = "create"
           \/ pc'[t] = "update" /\ op'[t].kind \in {"version", "touch"}
    BY <1>3 DEF Select, TypeOK
  <2>3. target'[t] = {}
    BY <1>3 DEF Select, TypeOK, CallInv
  <2> QED
    BY <1>1, <2>1, <2>2, <2>3
<1>4. ASSUME NEW k \in Keys, StartClose(t, k)
      PROVE  \A u \in Tx : C(u)
  <2>1. \A u \in Tx \ {t} : /\ pc'[u] = pc[u] /\ asked'[u] = asked[u]
                            /\ op'[u] = op[u] /\ target'[u] = target[u]
                            /\ closes'[u] = closes[u]
    BY <1>4 DEF StartClose, TypeOK, workVars
  <2>2. /\ op'[t].key = k /\ op'[t].vals = {} /\ op'[t].kind = "close"
        /\ pc'[t] = "locking" /\ closes'[t] = closes[t]
        /\ target'[t] = {r \in OpenRows(t) : r.key = k}
    BY <1>4 DEF StartClose, TypeOK, workVars
  <2>3. \A r \in OpenRows(t) : r \notin closes[t]
    BY DEF OpenRows, UniqueInv, PendingInv, SameVersion
  <2> QED
    BY <1>1, <2>1, <2>2, <2>3
<1>5. CASE StartUpdate(t)
  <2>1. \A u \in Tx \ {t} : /\ pc'[u] = pc[u] /\ asked'[u] = asked[u]
                            /\ op'[u] = op[u] /\ target'[u] = target[u]
                            /\ closes'[u] = closes[u]
    BY <1>5 DEF StartUpdate, TypeOK, workVars
  <2>2. /\ op'[t] = op[t] /\ closes'[t] = closes[t]
        /\ pc[t] = "update" /\ pc'[t] = "locking"
        /\ target'[t] = {r \in OpenRows(t) : r.id = op[t].id}
    BY <1>5 DEF StartUpdate, TypeOK, workVars
  <2>3. /\ op[t].kind \in {"version", "touch"}
        /\ \E v \in Values : op[t].vals = {v}
    BY <2>2 DEF CallInv
  <2>4. \A r \in OpenRows(t) : r.id = op[t].id => r.key = op[t].key
    <3> SUFFICES ASSUME NEW r \in OpenRows(t), r.id = op[t].id
                 PROVE  r.key = op[t].key
      OBVIOUS
    <3>1. r \in Row /\ r.id \in Nat /\ r.key \in Keys /\ op[t].key \in Keys
      BY OpenRowsType DEF TypeOK, Row, Op
    <3>2. KeyOf(r.id, r.key) /\ KeyOf(r.id, op[t].key)
      BY <2>3 DEF KeyOf, OpenRows
    <3> QED
      BY <3>1, <3>2 DEF KeysInv
  <2>5. \A r \in OpenRows(t) : r \notin closes[t]
    BY DEF OpenRows, UniqueInv, PendingInv, SameVersion
  <2> QED
    BY <1>1, <2>1, <2>2, <2>3, <2>4, <2>5
\* A call that returns, or a transaction that ends, leaves nothing half done.
<1>6. ASSUME op'[t] = NoOp, target'[t] = {},
             pc'[t] \in {"ready", "committed", "aborted"},
             \A u \in Tx \ {t} : /\ pc'[u] = pc[u] /\ asked'[u] = asked[u]
                                 /\ op'[u] = op[u] /\ target'[u] = target[u]
                                 /\ closes'[u] = closes[u]
      PROVE  \A u \in Tx : C(u)
  BY <1>0, <1>1, <1>6
<1>7. ASSUME Abort(t)
      PROVE  \A u \in Tx : C(u)
  BY <1>6, <1>7 DEF Abort, Release, TypeOK
<1>8. CASE FinishTouch(t)
  <2>1. CASE Returned(t) /\ target' = [target EXCEPT ![t] = {}] /\ closes' = closes
    BY <1>6, <2>1 DEF Returned, TypeOK
  <2> QED
    BY <1>7, <1>8, <2>1 DEF FinishTouch
<1>9. CASE FinishVersion(t)
  <2>1. \A u \in Tx \ {t} : /\ pc'[u] = pc[u] /\ asked'[u] = asked[u]
                            /\ op'[u] = op[u] /\ target'[u] = target[u]
                            /\ closes'[u] = closes[u]
    BY <1>9 DEF FinishVersion, CloseHit, TypeOK
  <2>2. /\ op'[t] = op[t] /\ op[t].kind = "version" /\ target'[t] = {}
        /\ pc'[t] = "insert"
    BY <1>9 DEF FinishVersion, CloseHit, TypeOK
  <2> QED
    BY <1>1, <2>1, <2>2 DEF CallInv
<1>10. CASE FinishClose(t)
  BY <1>6, <1>10 DEF FinishClose, CloseHit, Returned, TypeOK
<1>11. CASE Insert(t)
  <2>1. CASE Returned(t) /\ UNCHANGED <<target, closes>> /\ pc[t] = "insert"
    <3>1. target[t] = {}
      BY <2>1 DEF CallInv
    <3> QED
      BY <1>6, <2>1, <3>1 DEF Returned, TypeOK
  <2> QED
    BY <1>7, <1>11, <2>1 DEF Insert
<1>12. CASE Commit(t)
  BY <1>6, <1>12 DEF Commit, Release, TypeOK
<1>13. CASE Rollback(t)
  BY <1>7, <1>13 DEF Rollback
<1> QED
  BY <1>2, <1>3, <1>4, <1>5, <1>8, <1>9, <1>10, <1>11, <1>12, <1>13 DEF TxStep

\* Ids keep their identity, and every call stays about the identity it named.
LEMMA CallsCorrect == Spec => [](KeysInv /\ CallInv)
<1>0. NoOp.kind = "none"
  BY DEF NoOp
<1>1. Init => KeysInv /\ CallInv
  <2> SUFFICES ASSUME Init PROVE KeysInv /\ CallInv
    OBVIOUS
  <2>1. KeysInv
    BY <1>0 DEF Init, KeysInv, KeyOf
  <2>2. CallInv
    BY <1>0 DEF Init, CallInv
  <2> QED
    BY <2>1, <2>2
<1>2. TypeOK /\ TypeOK' /\ UniqueInv /\ KeysInv /\ CallInv /\ [Next]_vars
      => KeysInv' /\ CallInv'
  <2> SUFFICES ASSUME TypeOK, TypeOK', UniqueInv, KeysInv, CallInv, [Next]_vars
               PROVE  KeysInv' /\ CallInv'
    OBVIOUS
  <2>1. CASE UNCHANGED vars \/ Tick
    BY <2>1 DEF KeysInv, KeyOf, CallInv, Tick, vars, dataVars, callVars, workVars
  <2>2. ASSUME NEW t \in Tx, TxStep(t)
        PROVE  KeysInv' /\ CallInv'
    <3>1. ASSUME NEW i \in Nat, NEW k \in Keys, KeyOf(i, k)'
          PROVE  i < nextId' /\ \A l \in Keys : KeyOf(i, l)' => k = l
      <4>1. nextId \in Nat /\ nextId' >= nextId
        BY <2>2, <3>1, KeysStep DEF TypeOK
      <4>2. KeyOf(i, k) \/ (i = nextId /\ nextId' = nextId + 1 /\ k = op'[t].key)
        BY <2>2, <3>1, KeysStep
      <4>3. ASSUME NEW l \in Keys, KeyOf(i, l)'
            PROVE  k = l
        <5>1. KeyOf(i, l) \/ (i = nextId /\ nextId' = nextId + 1 /\ l = op'[t].key)
          BY <2>2, <4>3, KeysStep
        <5> QED
          BY <4>1, <4>2, <5>1 DEF KeysInv
      <4>4. i < nextId'
        <5>1. nextId' \in Int
          BY DEF TypeOK
        <5> QED
          BY <4>1, <4>2, <5>1 DEF KeysInv
      <4> QED
        BY <4>3, <4>4
    <3>2. KeysInv'
      BY <3>1 DEF KeysInv
    <3> QED
      BY <2>2, <3>2, CallStep
  <2> QED
    BY <2>1, <2>2 DEF Next
<1> QED
  BY <1>1, <1>2, TypeCorrect, UniqueCorrect, PTL DEF Spec

-----------------------------------------------------------------------------
(***************************************************************************)
(* What a commit leaves open.  An open row that the transaction inserted,  *)
(* or locked by a touch and did not close, stays open until it commits:    *)
(* nobody else can close it.                                               *)
(***************************************************************************)

Holds(t, k) == \E r \in inserts[t] \cup (touches[t] \ closes[t]) :
                 r.key = k /\ r.to = Open

\* What t upserted and is not upserting again or closing, it holds open.
HeldInv ==
  \A t \in Active : \A p \in asked[t] :
    p.vals # {} /\ (pc[t] = "ready" \/ p.key # op[t].key) => Holds(t, p.key)

\* A closing UPDATE leaves what is held of the other identities.
LEMMA HoldsAfterClose ==
  ASSUME TypeOK, CallInv, NEW t \in Tx, CloseHit(t), touches' = touches,
         NEW k \in Keys, k # op[t].key, Holds(t, k)
  PROVE  Holds(t, k)'
<1>1. /\ closes'[t] = closes[t] \cup (Hit(t) \cap rows)
      /\ inserts[t] \ Hit(t) \subseteq inserts'[t]
  BY DEF CloseHit, TypeOK
<1>2. \A r \in Hit(t) : r.key = op[t].key
  BY DEF Hit, CallInv
<1> QED
  BY <1>1, <1>2 DEF Holds

\* What t asked for after a call of it returned.
LEMMA ReturnedAsked ==
  ASSUME TypeOK, NEW t \in Tx, Returned(t), NEW p \in asked'[t]
  PROVE  \/ p \in asked[t] /\ p.key # op[t].key
         \/ p = [key |-> op[t].key, vals |-> op[t].vals]
BY DEF Returned, TypeOK

LEMMA HeldStep ==
  ASSUME TypeOK, UniqueInv, CallInv, HeldInv, NEW t \in Tx, TxStep(t)
  PROVE  HeldInv'
<1> DEFINE H(u) == u \in Active' => \A p \in asked'[u] :
             p.vals # {} /\ (pc'[u] = "ready" \/ p.key # op'[u].key) => Holds(u, p.key)'
<1> SUFFICES \A u \in Tx : H(u)
  BY DEF HeldInv, Active
<1>0. \A u \in Tx : \A p \in asked[u] : p.key \in Keys
  BY DEF TypeOK
<1>1. ASSUME \A u \in Tx \ {t} :
               /\ pc'[u] = pc[u] /\ asked'[u] = asked[u] /\ op'[u] = op[u]
               /\ inserts'[u] = inserts[u] /\ touches'[u] = touches[u]
               /\ closes'[u] = closes[u],
             H(t)
      PROVE  \A u \in Tx : H(u)
  <2> SUFFICES ASSUME NEW u \in Tx \ {t}
               PROVE  H(u)
    BY <1>1
  <2>1. u \in Active' => u \in Active
    BY <1>1 DEF Active
  <2> QED
    BY <1>1, <2>1 DEF HeldInv, Holds
<1>2. CASE Begin(t)
  <2>1. asked'[t] = {}
    BY <1>2 DEF Begin, CallInv, workVars
  <2> QED
    BY <1>1, <1>2, <2>1 DEF Begin, TypeOK, callVars, workVars
\* A call starts, or takes its snapshot.
<1>3. ASSUME pc[t] \in {"ready", "update"}, UNCHANGED workVars,
             pc[t] = "update" => op'[t] = op[t] /\ pc'[t] # "ready",
             \A u \in Tx \ {t} : pc'[u] = pc[u] /\ op'[u] = op[u]
      PROVE  \A u \in Tx : H(u)
  <2>1. t \in Active
    BY <1>3 DEF Active, ActivePC
  <2>2. H(t)
    BY <1>3, <2>1 DEF HeldInv, Holds, workVars
  <2> QED
    BY <1>1, <1>3, <2>2 DEF workVars
<1>4. ASSUME NEW k \in Keys, NEW v \in Values, Select(t, k, v)
      PROVE  \A u \in Tx : H(u)
  <2>1. \A u \in Tx \ {t} : pc'[u] = pc[u] /\ op'[u] = op[u]
    BY <1>4 DEF Select, TypeOK
  <2> QED
    BY <1>3, <1>4, <2>1 DEF Select
<1>5. ASSUME NEW k \in Keys, StartClose(t, k)
      PROVE  \A u \in Tx : H(u)
  BY <1>3, <1>5 DEF StartClose, TypeOK
<1>6. CASE StartUpdate(t)
  BY <1>3, <1>6 DEF StartUpdate, TypeOK
<1>7. ASSUME \/ Abort(t)
             \/ Commit(t)
      PROVE  \A u \in Tx : H(u)
  <2>1. t \notin Active'
    BY <1>7 DEF Abort, Commit, Active, ActivePC, TypeOK
  <2>2. \A u \in Tx \ {t} :
               /\ pc'[u] = pc[u] /\ asked'[u] = asked[u] /\ op'[u] = op[u]
               /\ inserts'[u] = inserts[u] /\ touches'[u] = touches[u]
               /\ closes'[u] = closes[u]
    BY <1>7 DEF Abort, Commit, Release, TypeOK
  <2> QED
    BY <1>1, <2>1, <2>2
<1>8. CASE FinishTouch(t)
  <2>1. CASE Returned(t) /\ Hit(t) # {}
             /\ touches' = [touches EXCEPT ![t] = @ \cup (Hit(t) \cap rows)]
             /\ UNCHANGED <<closes, inserts>>
    <3>1. \A u \in Tx \ {t} :
               /\ pc'[u] = pc[u] /\ asked'[u] = asked[u] /\ op'[u] = op[u]
               /\ inserts'[u] = inserts[u] /\ touches'[u] = touches[u]
               /\ closes'[u] = closes[u]
      BY <2>1 DEF Returned, TypeOK
    <3>2. /\ touches'[t] = touches[t] \cup (Hit(t) \cap rows) /\ inserts'[t] = inserts[t]
          /\ closes'[t] = closes[t] /\ pc[t] = "locking"
      BY <1>8, <2>1 DEF FinishTouch, TypeOK
    <3>3. PICK r \in target[t] : r \in rows \/ r \in inserts[t]
      BY <2>1 DEF Hit
    <3>4. r.to = Open /\ r.key = op[t].key /\ r \notin closes[t]
      BY DEF CallInv, UniqueInv, LocksInv
    <3>0. PICK k : k = op[t].key
      OBVIOUS
    <3>5. Holds(t, k)'
      BY <3>0, <3>2, <3>3, <3>4 DEF Holds, Hit
    <3>6. ASSUME NEW p \in asked[t], p.key # op[t].key, p.vals # {}
          PROVE  Holds(t, p.key)'
      <4>1. Holds(t, p.key)
        BY <3>2, <3>6 DEF HeldInv, Active, ActivePC
      <4> QED
        BY <3>2, <4>1 DEF Holds
    <3>7. ASSUME NEW p \in asked'[t], p.vals # {}
          PROVE  Holds(t, p.key)'
      <4>1. CASE p \in asked[t] /\ p.key # op[t].key
        BY <3>6, <3>7, <4>1
      <4>2. CASE p = [key |-> op[t].key, vals |-> op[t].vals]
        <5>1. p.key = k
          BY <3>0, <4>2
        <5> QED
          BY <3>5, <5>1
      <4> QED
        BY <2>1, <4>1, <4>2, ReturnedAsked
    <3> QED
      BY <1>1, <3>1, <3>7
  <2> QED
    BY <1>7, <1>8, <2>1 DEF FinishTouch
<1>9. CASE FinishVersion(t)
  <2>1. \A u \in Tx \ {t} :
               /\ pc'[u] = pc[u] /\ asked'[u] = asked[u] /\ op'[u] = op[u]
               /\ inserts'[u] = inserts[u] /\ touches'[u] = touches[u]
               /\ closes'[u] = closes[u]
    BY <1>9 DEF FinishVersion, CloseHit, TypeOK
  <2>2. /\ pc[t] = "locking" /\ pc'[t] = "insert" /\ CloseHit(t) /\ touches' = touches
        /\ op'[t] = op[t] /\ asked'[t] = asked[t]
    BY <1>9 DEF FinishVersion, TypeOK
  <2>3. ASSUME NEW p \in asked[t], p.key # op[t].key, p.vals # {}
        PROVE  Holds(t, p.key)'
    <3>1. Holds(t, p.key)
      BY <2>2, <2>3 DEF HeldInv, Active, ActivePC
    <3> QED
      BY <1>0, <2>2, <2>3, <3>1, HoldsAfterClose
  <2> QED
    BY <1>1, <2>1, <2>2, <2>3
<1>10. CASE FinishClose(t)
  <2>1. \A u \in Tx \ {t} :
               /\ pc'[u] = pc[u] /\ asked'[u] = asked[u] /\ op'[u] = op[u]
               /\ inserts'[u] = inserts[u] /\ touches'[u] = touches[u]
               /\ closes'[u] = closes[u]
    BY <1>10 DEF FinishClose, CloseHit, Returned, TypeOK
  <2>2. /\ pc[t] = "locking" /\ CloseHit(t) /\ touches' = touches
        /\ Returned(t) /\ op[t].vals = {}
    BY <1>10 DEF FinishClose, CallInv
  <2>3. ASSUME NEW p \in asked'[t], p.vals # {}
        PROVE  Holds(t, p.key)'
    <3>1. p \in asked[t] /\ p.key # op[t].key
      BY <2>2, <2>3, ReturnedAsked
    <3>2. Holds(t, p.key)
      BY <2>2, <2>3, <3>1 DEF HeldInv, Active, ActivePC
    <3> QED
      BY <1>0, <2>2, <3>1, <3>2, HoldsAfterClose
  <2> QED
    BY <1>1, <2>1, <2>3
<1>11. CASE Insert(t)
  <2>1. ASSUME NEW v \in op[t].vals, Returned(t), UNCHANGED <<target, closes, touches>>,
               inserts' = [inserts EXCEPT ![t] = @ \cup
                     {[id |-> op[t].id, key |-> op[t].key, val |-> v,
                       from |-> now[t], to |-> Open]}]
        PROVE  \A u \in Tx : H(u)
    <3>1. \A u \in Tx \ {t} :
               /\ pc'[u] = pc[u] /\ asked'[u] = asked[u] /\ op'[u] = op[u]
               /\ inserts'[u] = inserts[u] /\ touches'[u] = touches[u]
               /\ closes'[u] = closes[u]
      BY <2>1 DEF Returned, TypeOK
    <3>2. /\ inserts'[t] = inserts[t] \cup {[id |-> op[t].id, key |-> op[t].key, val |-> v,
                                            from |-> now[t], to |-> Open]}
          /\ touches'[t] = touches[t] /\ closes'[t] = closes[t] /\ pc[t] = "insert"
      BY <1>11, <2>1 DEF Insert, TypeOK
    <3>0. PICK k : k = op[t].key
      OBVIOUS
    <3>3. Holds(t, k)'
      <4>1. PICK n : n = [id |-> op[t].id, key |-> op[t].key, val |-> v,
                          from |-> now[t], to |-> Open]
        OBVIOUS
      <4>2. n.key = k /\ n.to = Open
        BY <3>0, <4>1
      <4>3. n \in inserts'[t]
        BY <3>2, <4>1
      <4> QED
        BY <4>2, <4>3 DEF Holds
    <3>4. ASSUME NEW p \in asked[t], p.key # op[t].key, p.vals # {}
          PROVE  Holds(t, p.key)'
      <4>1. Holds(t, p.key)
        BY <3>2, <3>4 DEF HeldInv, Active, ActivePC
      <4> QED
        BY <3>2, <4>1 DEF Holds
    <3>5. ASSUME NEW p \in asked'[t], p.vals # {}
          PROVE  Holds(t, p.key)'
      <4>1. CASE p \in asked[t] /\ p.key # op[t].key
        BY <3>4, <3>5, <4>1
      <4>2. CASE p = [key |-> op[t].key, vals |-> op[t].vals]
        <5>1. p.key = k
          BY <3>0, <4>2
        <5> QED
          BY <3>3, <5>1
      <4> QED
        BY <2>1, <4>1, <4>2, ReturnedAsked
    <3> QED
      BY <1>1, <3>1, <3>5
  <2> QED
    BY <1>7, <1>11, <2>1 DEF Insert
<1>12. CASE Rollback(t)
  BY <1>7, <1>12 DEF Rollback
<1> QED
  BY <1>2, <1>4, <1>5, <1>6, <1>7, <1>8, <1>9, <1>10, <1>11, <1>12 DEF TxStep

LEMMA HeldCorrect == Spec => []HeldInv
<1>1. Init => HeldInv
  BY DEF Init, HeldInv, Active
<1>2. TypeOK /\ UniqueInv /\ CallInv /\ HeldInv /\ [Next]_vars => HeldInv'
  <2> SUFFICES ASSUME TypeOK, UniqueInv, CallInv, HeldInv, [Next]_vars
               PROVE  HeldInv'
    OBVIOUS
  <2>1. CASE UNCHANGED vars \/ Tick
    BY <2>1 DEF HeldInv, Holds, Active, Tick, vars, dataVars, callVars, workVars
  <2> QED
    BY <2>1, HeldStep DEF Next
<1> QED
  BY <1>1, <1>2, TypeCorrect, UniqueCorrect, CallsCorrect, PTL DEF Spec

\* Only COMMIT makes a transaction committed.
LEMMA OnlyCommitCommits ==
  ASSUME TypeOK, [Next]_vars, NEW t \in Tx, pc[t] = "ready", pc'[t] = "committed"
  PROVE  Commit(t)
<1>1. PICK u \in Tx : TxStep(u)
  BY DEF Next, Tick, vars
<1>2. \A w \in Tx \ {u} : pc'[w] = pc[w]
  BY <1>1 DEF TxStep, Begin, Select, StartClose, StartUpdate, FinishTouch,
     FinishVersion, FinishClose, Insert, Commit, Rollback, Abort, Returned, TypeOK
<1>3. ~Commit(u) => pc'[u] # "committed"
  BY <1>1 DEF TxStep, Begin, Select, StartClose, StartUpdate, FinishTouch,
     FinishVersion, FinishClose, Insert, Rollback, Abort, Returned, TypeOK
<1> QED
  BY <1>1, <1>2, <1>3

\* A transaction that commits after upserting a key leaves the key open, even
\* if others closed it, versioned it or inserted it in the meantime.
THEOREM UpsertLeavesOpenCorrect == Spec => UpsertLeavesOpen
<1> DEFINE A == \A t \in Tx : (pc[t] = "ready" /\ pc'[t] = "committed") =>
                  \A p \in asked[t] : p.vals # {} =>
                    \E r \in rows' : r.key = p.key /\ r.to = Open
<1>1. TypeOK /\ UniqueInv /\ HeldInv /\ [Next]_vars => [A]_vars
  <2> SUFFICES ASSUME TypeOK, UniqueInv, HeldInv, [Next]_vars,
                      NEW t \in Tx, pc[t] = "ready", pc'[t] = "committed",
                      NEW p \in asked[t], p.vals # {}
               PROVE  \E r \in rows' : r.key = p.key /\ r.to = Open
    OBVIOUS
  <2>1. Commit(t)
    BY OnlyCommitCommits
  <2>2. Holds(t, p.key)
    BY DEF HeldInv, Active, ActivePC
  <2>3. \A r \in touches[t] : r \in rows
    BY DEF UniqueInv, LocksInv
  <2> QED
    BY <2>1, <2>2, <2>3 DEF Holds, Commit
<1> QED
  BY <1>1, TypeCorrect, UniqueCorrect, HeldCorrect, PTL DEF UpsertLeavesOpen, Spec

-----------------------------------------------------------------------------
(***************************************************************************)
(* What was asked is what is current, without overlap: the rows a call     *)
(* found are still the rows that it changes.                               *)
(***************************************************************************)

\* The open rows of k that t sees have the values V.
Shows(t, k, V) ==
  /\ \A r \in OpenRows(t) : r.key = k => r.val \in V
  /\ \A v \in V : \E r \in OpenRows(t) : r.key = k /\ r.val = v

SerialCall(t) ==
  /\ \A p \in asked[t] : (pc[t] = "ready" \/ p.key # op[t].key) => Shows(t, p.key, p.vals)
  /\ pc[t] \in {"update", "locking"} /\ op[t].kind # "close" =>
       \E r \in OpenRows(t) : /\ r.key = op[t].key /\ r.id = op[t].id
                              /\ op[t].kind = "touch" => op[t].vals = {r.val}
  /\ pc[t] = "locking" =>
       target[t] = {r \in OpenRows(t) : IF op[t].kind = "close" THEN r.key = op[t].key
                                        ELSE r.id = op[t].id}
  /\ pc[t] = "insert" => \A r \in OpenRows(t) : r.key # op[t].key

SerialCallInv == ~overlapped => \A t \in Active : SerialCall(t)

\* A transaction sees one open row of an identity at most.
LEMMA OneOpenSeen ==
  ASSUME UniqueInv, NEW t \in Tx, NEW r \in OpenRows(t), NEW s \in OpenRows(t),
         r.key = s.key
  PROVE  r = s
<1>1. Collide(r, s) /\ Collide(s, r)
  BY DEF OpenRows, Collide
<1> QED
  BY <1>1 DEF OpenRows, UniqueInv, OneOpenVersion, PendingInv

\* A closing UPDATE that finds its rows unchanged closes exactly these.
LEMMA OpenAfterClose ==
  ASSUME TypeOK, UniqueInv, NEW t \in Tx, CloseHit(t), rows' = rows,
         target[t] \subseteq OpenRows(t)
  PROVE  OpenRows(t)' = OpenRows(t) \ target[t]
<1>1. Hit(t) = target[t]
  BY DEF Hit, OpenRows
<1>2. closes'[t] = closes[t] \cup (Hit(t) \cap rows)
  BY DEF CloseHit, TypeOK
<1>3. \A r \in inserts[t] : r \notin Hit(t) => r \in inserts'[t]
  BY DEF CloseHit, TypeOK
<1>4. \A r \in inserts'[t] : r.to = Open => r \in inserts[t] /\ r \notin Hit(t)
  BY CloseHitRows
<1>5. \A r \in inserts[t] : r \notin closes[t] /\ (r \in rows => r \notin Hit(t) \/ r \in closes[t])
  <2> SUFFICES ASSUME NEW r \in inserts[t], r \in rows, r \notin closes[t]
               PROVE  FALSE
    BY DEF UniqueInv, PendingInv, SameVersion
  <2> QED
    BY DEF UniqueInv, PendingInv, Collide
<1>6. ASSUME NEW r \in OpenRows(t)'
      PROVE  r \in OpenRows(t) /\ r \notin target[t]
  <2>1. r.to = Open /\ (r \in rows \ closes'[t] \/ r \in inserts'[t])
    BY <1>6 DEF OpenRows
  <2> QED
    BY <1>1, <1>2, <1>4, <2>1 DEF OpenRows
<1>7. ASSUME NEW r \in OpenRows(t), r \notin target[t]
      PROVE  r \in OpenRows(t)'
  BY <1>1, <1>2, <1>3, <1>7 DEF OpenRows
<1> QED
  BY <1>6, <1>7

\* A call of t other than its commit.
LEMMA SerialCallStep ==
  ASSUME TypeOK, UniqueInv, CallInv, NEW t \in Tx, TxStep(t),
         ~Begin(t), ~Commit(t), t \in Active', SerialCall(t), rows' = rows
  PROVE  SerialCall(t)'
<1>0. \A p \in asked[t] : p.key \in Keys
  BY DEF TypeOK
<1>1. ~Abort(t)
  BY DEF Abort, TypeOK, Active, ActivePC
<1>2. ASSUME inserts'[t] = inserts[t], closes'[t] = closes[t]
      PROVE  OpenRows(t)' = OpenRows(t)
  BY <1>2 DEF OpenRows
<1>3. ASSUME NEW k \in Keys, NEW v \in Values, Select(t, k, v)
      PROVE  SerialCall(t)'
  <2>1. /\ OpenRows(t)' = OpenRows(t) /\ asked'[t] = asked[t] /\ pc[t] = "ready"
    BY <1>2, <1>3 DEF Select, workVars
  <2>2. \/ /\ pc'[t] = "insert" /\ op'[t].key = k
           /\ \A r \in OpenRows(t) : r.key # k
        \/ /\ pc'[t] = "update" /\ op'[t].key = k
           /\ \E r \in OpenRows(t) : /\ r.key = k /\ op'[t].id = r.id
                                     /\ op'[t].kind = "touch" => op'[t].vals = {r.val}
    BY <1>3 DEF Select, TypeOK
  <2>3. \A p \in asked[t] : Shows(t, p.key, p.vals)'
    BY <2>1 DEF SerialCall, Shows
  <2> QED
    BY <2>1, <2>2, <2>3 DEF SerialCall
<1>4. ASSUME NEW k \in Keys, StartClose(t, k)
      PROVE  SerialCall(t)'
  <2>1. /\ OpenRows(t)' = OpenRows(t) /\ asked'[t] = asked[t] /\ pc[t] = "ready"
    BY <1>2, <1>4 DEF StartClose, workVars
  <2>2. /\ pc'[t] = "locking" /\ op'[t].key = k /\ op'[t].kind = "close"
        /\ target'[t] = {r \in OpenRows(t) : r.key = k}
    BY <1>4 DEF StartClose, TypeOK
  <2>3. \A p \in asked[t] : Shows(t, p.key, p.vals)'
    BY <2>1 DEF SerialCall, Shows
  <2> QED
    BY <2>1, <2>2, <2>3 DEF SerialCall
<1>5. CASE StartUpdate(t)
  <2>1. /\ OpenRows(t)' = OpenRows(t) /\ asked'[t] = asked[t] /\ op'[t] = op[t]
        /\ pc[t] = "update" /\ pc'[t] = "locking"
        /\ target'[t] = {r \in OpenRows(t) : r.id = op[t].id}
    BY <1>2, <1>5 DEF StartUpdate, TypeOK, workVars
  <2>2. op[t].kind # "close"
    BY <2>1 DEF CallInv
  <2>3. \A p \in asked[t] : p.key # op[t].key => Shows(t, p.key, p.vals)'
    BY <2>1 DEF SerialCall, Shows
  <2> QED
    BY <2>1, <2>2, <2>3 DEF SerialCall
<1>6. CASE FinishTouch(t)
  <2>1. /\ Returned(t) /\ pc[t] = "locking" /\ pc'[t] = "ready" /\ op[t].kind = "touch"
        /\ OpenRows(t)' = OpenRows(t)
    BY <1>1, <1>2, <1>6 DEF FinishTouch, Returned, TypeOK
  <2>2. PICK r \in OpenRows(t) : r.key = op[t].key /\ op[t].vals = {r.val}
    BY <2>1 DEF SerialCall
  <2>3. \A q \in OpenRows(t) : q.key = op[t].key => q.val = r.val
    BY <2>2, OneOpenSeen
  <2>4. ASSUME NEW p \in asked'[t]
        PROVE  Shows(t, p.key, p.vals)'
    <3>1. CASE p \in asked[t] /\ p.key # op[t].key
      BY <2>1, <3>1 DEF SerialCall, Shows
    <3>2. CASE p = [key |-> op[t].key, vals |-> op[t].vals]
      BY <2>1, <2>2, <2>3, <3>2 DEF Shows
    <3> QED
      BY <2>1, <2>4, <3>1, <3>2, ReturnedAsked
  <2> QED
    BY <2>1, <2>4 DEF SerialCall
<1>7. CASE FinishVersion(t)
  <2>1. /\ CloseHit(t) /\ pc[t] = "locking" /\ pc'[t] = "insert" /\ op'[t] = op[t]
        /\ op[t].kind = "version" /\ asked'[t] = asked[t]
    BY <1>7 DEF FinishVersion, TypeOK
  <2>2. target[t] = {r \in OpenRows(t) : r.id = op[t].id}
    BY <2>1 DEF SerialCall
  <2>3. OpenRows(t)' = OpenRows(t) \ target[t]
    BY <2>1, <2>2, OpenAfterClose
  <2>4. PICK r \in OpenRows(t) : r.key = op[t].key /\ r.id = op[t].id
    BY <2>1 DEF SerialCall
  <2>5. \A q \in OpenRows(t) : q.key = op[t].key => q \in target[t]
    BY <2>2, <2>4, OneOpenSeen
  <2>6. \A q \in target[t] : q.key = op[t].key
    BY DEF CallInv
  <2>7. \A p \in asked[t] : p.key # op[t].key => Shows(t, p.key, p.vals)'
    BY <2>1, <2>3, <2>6 DEF SerialCall, Shows
  <2> QED
    BY <2>1, <2>3, <2>5, <2>7 DEF SerialCall
<1>8. CASE FinishClose(t)
  <2>1. /\ CloseHit(t) /\ pc[t] = "locking" /\ pc'[t] = "ready" /\ Returned(t)
        /\ op[t].kind = "close" /\ op[t].vals = {}
    BY <1>8 DEF FinishClose, Returned, TypeOK, CallInv
  <2>2. target[t] = {r \in OpenRows(t) : r.key = op[t].key}
    BY <2>1 DEF SerialCall
  <2>3. OpenRows(t)' = OpenRows(t) \ target[t]
    BY <2>1, <2>2, OpenAfterClose
  <2>4. ASSUME NEW p \in asked'[t]
        PROVE  Shows(t, p.key, p.vals)'
    <3>1. CASE p \in asked[t] /\ p.key # op[t].key
      BY <2>1, <2>2, <2>3, <3>1 DEF SerialCall, Shows
    <3>2. CASE p = [key |-> op[t].key, vals |-> op[t].vals]
      BY <2>1, <2>2, <2>3, <3>2 DEF Shows
    <3> QED
      BY <2>1, <2>4, <3>1, <3>2, ReturnedAsked
  <2> QED
    BY <2>1, <2>4 DEF SerialCall
<1>9. CASE Insert(t)
  <2>0. PICK v \in op[t].vals :
          /\ inserts'[t] = inserts[t] \cup
               {[id |-> op[t].id, key |-> op[t].key, val |-> v, from |-> now[t], to |-> Open]}
          /\ Returned(t) /\ closes'[t] = closes[t]
    BY <1>1, <1>9 DEF Insert, TypeOK
  <2>1. PICK n :
          /\ n = [id |-> op[t].id, key |-> op[t].key, val |-> v,
                  from |-> now[t], to |-> Open]
          /\ inserts'[t] = inserts[t] \cup {n}
          /\ Returned(t) /\ closes'[t] = closes[t]
    BY <2>0
  <2>2. pc[t] = "insert" /\ pc'[t] = "ready"
    BY <1>9, <2>1 DEF Insert, Returned, TypeOK
  <2>3. op[t].vals = {v}
    BY <2>2 DEF CallInv
  <2>4. n.key = op[t].key /\ n.val = v /\ n.to = Open
    BY <2>1
  <2>5. OpenRows(t)' = OpenRows(t) \cup {n}
    BY <2>1, <2>4 DEF OpenRows
  <2>6. ASSUME NEW p \in asked'[t]
        PROVE  Shows(t, p.key, p.vals)'
    <3>1. CASE p \in asked[t] /\ p.key # op[t].key
      BY <2>2, <2>4, <2>5, <3>1 DEF SerialCall, Shows
    <3>2. CASE p = [key |-> op[t].key, vals |-> op[t].vals]
      <4>1. \A r \in OpenRows(t) : r.key # op[t].key
        BY <2>2 DEF SerialCall
      <4> QED
        BY <2>3, <2>4, <2>5, <3>2, <4>1 DEF Shows
    <3> QED
      BY <2>1, <2>6, <3>1, <3>2, ReturnedAsked
  <2> QED
    BY <2>2, <2>6 DEF SerialCall
<1>10. ~Rollback(t)
  BY <1>1 DEF Rollback
<1> QED
  BY <1>3, <1>4, <1>5, <1>6, <1>7, <1>8, <1>9, <1>10 DEF TxStep

LEMMA SerialCallCorrect == Spec => []SerialCallInv
<1>1. Init => SerialCallInv
  BY DEF Init, SerialCallInv, Active, ActivePC
<1>2. TypeOK /\ UniqueInv /\ CallInv /\ SerialInv /\ SerialCallInv /\ [Next]_vars
      => SerialCallInv'
  <2> SUFFICES ASSUME TypeOK, UniqueInv, CallInv, SerialInv, SerialCallInv,
                      [Next]_vars, ~overlapped'
               PROVE  \A t \in Active' : SerialCall(t)'
    BY DEF SerialCallInv
  <2>1. ~overlapped
    BY DEF Next, TxStep, Tick, Begin, Select, StartUpdate, StartClose, FinishTouch,
       FinishVersion, FinishClose, Insert, Commit, Rollback, vars, dataVars
  <2>2. \A t \in Active : SerialCall(t)
    BY <2>1 DEF SerialCallInv
  <2>3. CASE UNCHANGED vars \/ Tick
    BY <2>2, <2>3 DEF SerialCall, Shows, OpenRows, Active, Tick, vars, dataVars,
       callVars, workVars
  <2>4. ASSUME NEW t \in Tx, Begin(t)
        PROVE  \A u \in Active' : SerialCall(u)'
    <3>1. asked'[t] = {} /\ pc'[t] = "ready"
      BY <2>4 DEF Begin, CallInv, TypeOK, workVars
    <3>2. Active' = {t}
      BY <2>1, <2>4 DEF Begin, Active, ActivePC, TypeOK
    <3> QED
      BY <3>1, <3>2 DEF SerialCall
  <2>5. ASSUME NEW t \in Tx, Commit(t)
        PROVE  \A u \in Active' : SerialCall(u)'
    <3>1. t \in Active /\ t \notin Active' /\ Active' \subseteq Active
      BY <2>5 DEF Commit, Active, ActivePC, TypeOK
    <3> QED
      BY <2>1, <3>1 DEF SerialInv
  <2>6. ASSUME NEW t \in Tx, TxStep(t), ~Begin(t), ~Commit(t)
        PROVE  \A u \in Active' : SerialCall(u)'
    <3>1. t \in Active /\ Active' \subseteq Active
      <4>1. t \in Active
        BY <2>6 DEF TxStep, Select, StartUpdate, StartClose, FinishTouch, FinishVersion,
           FinishClose, Insert, Rollback, Active, ActivePC
      <4> QED
        BY <2>6, <4>1, ActiveShrinks
    <3>2. rows' = rows
      BY <2>6 DEF TxStep, Select, StartClose, StartUpdate, FinishTouch, FinishVersion,
         FinishClose, Insert, Rollback, dataVars
    <3>3. ASSUME NEW u \in Active'
          PROVE  SerialCall(u)'
      <4>1. u = t
        BY <2>1, <3>1 DEF SerialInv
      <4>2. SerialCall(t)'
        BY <2>2, <2>6, <3>1, <3>2, <3>3, <4>1, SerialCallStep
      <4> QED
        BY <4>1, <4>2
    <3> QED
      BY <3>3
  <2> QED
    BY <2>3, <2>4, <2>5, <2>6 DEF Next
<1> QED
  BY <1>1, <1>2, TypeCorrect, UniqueCorrect, CallsCorrect, SerialCorrect, PTL DEF Spec

\* Without overlapping transactions, what a committed transaction asked of a
\* key last is exactly what is current afterwards.
THEOREM AskedIsCurrentCorrect == Spec => AskedIsCurrent
<1> DEFINE A == \A t \in Tx : (pc[t] = "ready" /\ pc'[t] = "committed" /\ ~overlapped) =>
                  \A p \in asked[t] :
                    {r.val : r \in {q \in rows' : q.key = p.key /\ q.to = Open}} = p.vals
<1>1. TypeOK /\ UniqueInv /\ SerialCallInv /\ [Next]_vars => [A]_vars
  <2> SUFFICES ASSUME TypeOK, UniqueInv, SerialCallInv, [Next]_vars, ~overlapped,
                      NEW t \in Tx, pc[t] = "ready", pc'[t] = "committed",
                      NEW p \in asked[t]
               PROVE  {r.val : r \in {q \in rows' : q.key = p.key /\ q.to = Open}} = p.vals
    OBVIOUS
  <2>1. Commit(t)
    BY OnlyCommitCommits
  <2>2. Shows(t, p.key, p.vals)
    BY DEF SerialCallInv, SerialCall, Active, ActivePC
  <2>3. \A q \in rows' : q.to = Open <=> q \in OpenRows(t)
    <3>1. now[t] \in Times /\ now[t] # Open
          /\ \A c \in closes[t] : c \in Row
      BY BoundsAssumption DEF TypeOK, Times, Open
    <3>2. ASSUME NEW q \in rows', NEW c \in closes[t], q = Closed(c, now[t])
          PROVE  q.to # Open
      BY <3>1, <3>2, ClosedType
    <3>3. \A q \in rows' : \/ q \in (rows \ closes[t]) \cup inserts[t]
                           \/ \E c \in closes[t] : q = Closed(c, now[t])
      BY <2>1 DEF Commit
    <3> QED
      BY <3>2, <3>3 DEF OpenRows
  <2>4. OpenRows(t) \subseteq rows'
    BY <2>1 DEF Commit, OpenRows
  <2> QED
    BY <2>2, <2>3, <2>4 DEF Shows
<1> QED
  BY <1>1, TypeCorrect, UniqueCorrect, SerialCallCorrect, PTL DEF AskedIsCurrent, Spec

=============================================================================
