------------------------ MODULE HistoryRetentionProofs ------------------------
(***************************************************************************)
(* Proofs about HistoryRetention for any number of sweeps, entities and    *)
(* instants: whatever the writers and the other sweeps do between a        *)
(* sweep's SELECT and its DELETE, the rows it deletes are the ones it read *)
(* and are not needed from the horizon on, and it counts them.             *)
(***************************************************************************)
EXTENDS HistoryRetention, FiniteSetTheorems, WellFoundedInduction, TLAPS

\* The types that the first arguments use; those of the aggregates are in CountInv.
Shape ==
  /\ clock \in Times /\ nextId \in 0..MaxId
  /\ versions \subseteq Version
  /\ policy \in Retentions \cup {NoPolicy}
  /\ pc \in [Sweeps -> {"idle", "select", "write", "over"}]
  /\ horizon \in [Sweeps -> Int]
  /\ snapshot \in [Sweeps -> SUBSET Version]

\* A version that exists is of an entity created already, began already and
\* ended no earlier than it began.
Dated(v) == /\ v.id < nextId /\ v.from <= clock
            /\ v.to # Open => v.from <= v.to
DatedInv == \A v \in versions : Dated(v)

\* (id, valid_from) is a key, and an open version is alone and the newest.
KeyInv ==
  \A v, w \in versions : v.id = w.id /\ v # w =>
    /\ v.from # w.from
    /\ v.to = Open => w.to # Open /\ w.from < v.from

\* An entity with a closed version has a most recent one.
HasBoundary == \A v \in versions : v.to # Open =>
                 \E b \in ClosedOf(versions, v.id) : IsBoundary(versions, b)

\* What a sweep has read of a closed version is still true: the row is as it
\* was or has been deleted, and the table has a closed version as recent.
StillTrue(c) ==
  /\ \A v \in versions : v.id = c.id /\ v.from = c.from => v = c
  /\ \E w \in ClosedOf(versions, c.id) : c.from <= w.from
  /\ Dated(c)
SnapshotInv == \A s \in Sweeps : \A c \in snapshot[s] : c.to # Open => StillTrue(c)

Inv == Shape /\ DatedInv /\ KeyInv /\ HasBoundary /\ SnapshotInv

-----------------------------------------------------------------------------
(* Versions.                                                               *)

LEMMA VersionFields ==
  \A v \in Version : /\ v.id \in Nat /\ v.from \in Nat /\ v.from \in Times
                     /\ v.to \in Int /\ (v.to # Open => v.to \in Nat)
BY BoundsAssumption DEF Version, Ids, Times, Open

LEMMA OpenedFields ==
  ASSUME NEW i \in Ids, clock \in Times
  PROVE  /\ Opened(i) \in Version /\ Opened(i).id = i
         /\ Opened(i).from = clock /\ Opened(i).to = Open
BY DEF Opened, Version

LEMMA ClosedFields ==
  ASSUME NEW v \in Version, clock \in Times
  PROVE  /\ Closed(v) \in Version /\ Closed(v).id = v.id
         /\ Closed(v).from = v.from /\ Closed(v).to = clock /\ Closed(v).to # Open
BY BoundsAssumption DEF Closed, Version, Times, Open

-----------------------------------------------------------------------------
(* What a sweep deletes.                                                   *)

\* A row that the DELETE finds is one that the sweep read, and it is neither
\* open, nor recent, nor the boundary of the table as it is now.
LEMMA HitIsOld ==
  ASSUME Inv, NEW s \in Sweeps, NEW v \in Hit(s)
  PROVE  /\ v \in versions /\ v \in snapshot[s] /\ v.to # Open
         /\ v.from <= v.to /\ v.to < horizon[s]
         /\ ~IsBoundary(versions, v)
<1>1. PICK c \in Collapsible(snapshot[s], horizon[s]) : v.id = c.id /\ v.from = c.from
  BY DEF Hit
<1>2. v \in versions /\ v.to # Open
  BY DEF Hit
<1>3. c \in snapshot[s] /\ c.to # Open /\ c.to < horizon[s] /\ ~IsBoundary(snapshot[s], c)
  BY <1>1 DEF Collapsible
<1>4. v = c
  BY <1>1, <1>2, <1>3 DEF Inv, SnapshotInv, StillTrue
<1>5. PICK x \in ClosedOf(snapshot[s], c.id) : ~(x.from <= c.from)
  BY <1>3 DEF IsBoundary
<1>6. x \in snapshot[s] /\ x.to # Open /\ x.id = c.id
  BY <1>5 DEF ClosedOf
<1>7. PICK w \in ClosedOf(versions, x.id) : x.from <= w.from
  BY <1>6 DEF Inv, SnapshotInv, StillTrue
<1>8. /\ c \in Version /\ x \in Version /\ w \in Version
  BY <1>3, <1>6, <1>7 DEF Inv, Shape, ClosedOf
<1>9. ~(w.from <= v.from)
  BY <1>4, <1>5, <1>7, <1>8, VersionFields
<1>10. ~IsBoundary(versions, v)
  BY <1>4, <1>6, <1>7, <1>9 DEF IsBoundary
<1>11. v.from <= v.to
  BY <1>2 DEF Inv, DatedInv, Dated
<1> QED
  BY <1>2, <1>3, <1>4, <1>10, <1>11

-----------------------------------------------------------------------------
(* The invariant.                                                          *)

LEMMA InvInit == Init => Inv
<1> SUFFICES ASSUME Init PROVE Inv
  OBVIOUS
<1>1. Shape
  BY BoundsAssumption DEF Init, Shape, Times
<1>2. DatedInv /\ KeyInv /\ HasBoundary /\ SnapshotInv
  BY DEF Init, DatedInv, KeyInv, HasBoundary, SnapshotInv
<1> QED
  BY <1>1, <1>2 DEF Inv

\* Time passing and the policy do not matter.
LEMMA CalmStep ==
  ASSUME Inv, UNCHANGED <<nextId, versions, snapshot>>, clock' \in Nat, clock <= clock'
  PROVE  (DatedInv /\ KeyInv /\ HasBoundary /\ SnapshotInv)'
<1>1. /\ \A v \in versions : v.from \in Nat
      /\ \A s \in Sweeps : \A c \in snapshot[s] : c.from \in Nat
  BY VersionFields DEF Inv, Shape
<1>2. clock \in Nat
  BY BoundsAssumption DEF Inv, Shape, Times
<1>3. DatedInv' /\ KeyInv' /\ HasBoundary'
  BY <1>1, <1>2 DEF Inv, DatedInv, Dated, KeyInv, HasBoundary, ClosedOf, IsBoundary
<1>4. ASSUME NEW s \in Sweeps, NEW c \in snapshot[s], c.to # Open
      PROVE  StillTrue(c)'
  BY <1>1, <1>2, <1>4 DEF Inv, SnapshotInv, StillTrue, Dated, ClosedOf
<1> QED
  BY <1>3, <1>4 DEF SnapshotInv

LEMMA CreateStep ==
  ASSUME Inv, Create
  PROVE  (DatedInv /\ KeyInv /\ HasBoundary /\ SnapshotInv)'
<1> DEFINE o == Opened(nextId)
<1>1. nextId \in Ids /\ clock \in Nat /\ nextId \in Nat
  BY BoundsAssumption DEF Inv, Shape, Create, Ids, Times
<1>2. o \in Version /\ o.id = nextId /\ o.from = clock /\ o.to = Open
  BY <1>1, OpenedFields DEF Inv, Shape
<1>3. versions' = versions \cup {o} /\ nextId' = nextId + 1 /\ clock' = clock
      /\ snapshot' = snapshot
  BY DEF Create, sweepVars
<1> HIDE DEF o
<1>4. /\ versions \subseteq Version /\ \A v \in versions : v.id < nextId /\ v.id \in Nat
  BY VersionFields DEF Inv, Shape, DatedInv, Dated
<1>5. DatedInv'
  BY <1>1, <1>2, <1>3, <1>4 DEF Inv, DatedInv, Dated
<1>6. KeyInv'
  BY <1>1, <1>2, <1>3, <1>4 DEF Inv, KeyInv
<1>7. \A i : ClosedOf(versions', i) = ClosedOf(versions, i)
  BY <1>2, <1>3 DEF ClosedOf
<1>8. HasBoundary'
  BY <1>2, <1>3, <1>7 DEF Inv, HasBoundary, IsBoundary
<1>9. ASSUME NEW s \in Sweeps, NEW c \in snapshot[s], c.to # Open
      PROVE  StillTrue(c)'
  <2>1. StillTrue(c) /\ c.id \in Nat
    BY <1>9, VersionFields DEF Inv, SnapshotInv, Shape
  <2>2. c.id < nextId /\ c.id # nextId
    BY <2>1, <1>1 DEF StillTrue, Dated
  <2>3. \A v \in versions' : v.id = c.id => v \in versions
    BY <2>2, <1>2, <1>3
  <2>4. Dated(c)'
    BY <2>1, <2>2, <1>1, <1>3 DEF StillTrue, Dated
  <2> QED
    BY <2>1, <2>3, <2>4, <1>7 DEF StillTrue
<1> QED
  BY <1>3, <1>5, <1>6, <1>8, <1>9 DEF SnapshotInv

\* An open version v is closed, and replaced by the versions N: none, or one
\* that opens now.
LEMMA CloseStep ==
  ASSUME Inv, NEW v \in versions, v.to = Open, NEW N \in SUBSET {Opened(v.id)},
         N # {} => v.from # clock,
         versions' = (versions \ {v}) \cup {Closed(v)} \cup N,
         UNCHANGED <<clock, nextId, snapshot>>
  PROVE  (DatedInv /\ KeyInv /\ HasBoundary /\ SnapshotInv)'
<1> DEFINE k == Closed(v)
           o == Opened(v.id)
<1>1. /\ v \in Version /\ clock \in Times /\ clock \in Nat /\ v.id \in Ids /\ nextId \in Nat
      /\ v.from <= clock /\ v.id < nextId
  BY BoundsAssumption DEF Inv, Shape, DatedInv, Dated, Times, Version
<1>2. k \in Version /\ k.id = v.id /\ k.from = v.from /\ k.to = clock /\ k.to # Open
  BY <1>1, ClosedFields
<1>3. o \in Version /\ o.id = v.id /\ o.from = clock /\ o.to = Open
  BY <1>1, OpenedFields
<1>4. \A w \in versions' : (w \in versions /\ w # v) \/ w = k \/ (w = o /\ v.from # clock)
  OBVIOUS
<1>5. \A w \in versions : w # v => w \in versions'
  OBVIOUS
<1>6. k \in versions'
  OBVIOUS
<1> HIDE DEF k, o
<1>7. \A w \in versions : w.from \in Nat /\ w \in Version /\ w.from <= clock
  BY VersionFields DEF Inv, Shape, DatedInv, Dated
<1>8. \A w \in versions : w.id = v.id /\ w # v => w.to # Open /\ w.from < v.from
  BY DEF Inv, KeyInv
<1>9. DatedInv'
  BY <1>1, <1>2, <1>3, <1>4 DEF Inv, DatedInv, Dated
<1>10. KeyInv'
  <2> SUFFICES ASSUME NEW a \in versions', NEW b \in versions', a.id = b.id, a # b
               PROVE  /\ a.from # b.from
                      /\ a.to = Open => b.to # Open /\ b.from < a.from
    BY DEF KeyInv
  <2>1. CASE a \in versions /\ a # v /\ b \in versions /\ b # v
    BY <2>1 DEF Inv, KeyInv
  <2>2. CASE a = k /\ b \in versions /\ b # v
    BY <2>2, <1>2, <1>7, <1>8
  <2>3. CASE b = k /\ a \in versions /\ a # v
    BY <2>3, <1>2, <1>7, <1>8
  <2>4. CASE a = o /\ v.from # clock /\ b \in versions /\ b # v
    BY <2>4, <1>1, <1>3, <1>7, <1>8
  <2>5. CASE b = o /\ v.from # clock /\ a \in versions /\ a # v
    BY <2>5, <1>1, <1>3, <1>7, <1>8
  <2>6. CASE ((a = o /\ b = k) \/ (a = k /\ b = o)) /\ v.from # clock
    BY <2>6, <1>1, <1>2, <1>3, <1>7
  <2> QED
    BY <1>4, <2>1, <2>2, <2>3, <2>4, <2>5, <2>6
<1>11. \A i : \A w \in ClosedOf(versions, i) : w \in ClosedOf(versions', i)
  BY <1>5 DEF ClosedOf
<1>12. \A w \in versions' : w.to # Open => (w \in versions /\ w # v) \/ w = k
  BY <1>3, <1>4
<1>13. HasBoundary'
  <2> SUFFICES ASSUME NEW w \in versions', w.to # Open
               PROVE  \E b \in ClosedOf(versions', w.id) : IsBoundary(versions', b)
    BY DEF HasBoundary
  <2>1. CASE w.id = v.id
    <3>1. k \in ClosedOf(versions', w.id)
      BY <2>1, <1>2, <1>6 DEF ClosedOf
    <3>2. \A x \in ClosedOf(versions', k.id) : x.from <= k.from
      BY <1>2, <1>7, <1>8, <1>12 DEF ClosedOf
    <3> QED
      BY <3>1, <3>2 DEF IsBoundary
  <2>2. CASE w.id # v.id
    <3>1. ClosedOf(versions', w.id) = ClosedOf(versions, w.id)
      BY <2>2, <1>2, <1>11, <1>12 DEF ClosedOf
    <3>2. w \in versions
      BY <2>2, <1>2, <1>12
    <3>3. PICK b \in ClosedOf(versions, w.id) : IsBoundary(versions, b)
      BY <3>2 DEF Inv, HasBoundary
    <3>4. b.id = w.id
      BY <3>3 DEF ClosedOf
    <3> QED
      BY <3>1, <3>3, <3>4 DEF IsBoundary
  <2> QED
    BY <2>1, <2>2
<1>14. ASSUME NEW s \in Sweeps, NEW c \in snapshot[s], c.to # Open
       PROVE  StillTrue(c)'
  <2>1. StillTrue(c) /\ c \in Version /\ c.from \in Nat
    BY <1>14, VersionFields DEF Inv, SnapshotInv, Shape
  <2>2. PICK w \in ClosedOf(versions, c.id) : c.from <= w.from
    BY <2>1 DEF StillTrue
  <2>3. w \in versions /\ w.to # Open /\ w.id = c.id /\ w # v
    BY <2>2 DEF ClosedOf
  <2>4. ~(v.id = c.id /\ v.from = c.from)
    BY <1>14, <2>1 DEF StillTrue
  <2>5. v.id = c.id => c.from < v.from
    BY <2>1, <2>2, <2>3, <1>7, <1>8
  <2>6. \A x \in versions' : x.id = c.id /\ x.from = c.from => x = c
    <3> SUFFICES ASSUME NEW x \in versions', x.id = c.id, x.from = c.from PROVE x = c
      OBVIOUS
    <3>1. x # k
      BY <2>4, <1>2
    <3>2. ~(x = o /\ v.from # clock)
      BY <2>1, <2>5, <1>1, <1>3, <1>7
    <3> QED
      BY <3>1, <3>2, <1>4, <2>1 DEF StillTrue
  <2> QED
    BY <2>1, <2>2, <2>6, <1>11 DEF StillTrue, Dated
<1> QED
  BY <1>9, <1>10, <1>13, <1>14 DEF SnapshotInv

LEMMA SelectStep ==
  ASSUME Inv, NEW s \in Sweeps, Select(s)
  PROVE  (DatedInv /\ KeyInv /\ HasBoundary /\ SnapshotInv)'
<1>1. versions' = versions /\ clock' = clock /\ nextId' = nextId
      /\ snapshot' = [snapshot EXCEPT ![s] = versions]
  BY DEF Select
<1>2. DatedInv' /\ KeyInv' /\ HasBoundary'
  BY <1>1 DEF Inv, DatedInv, Dated, KeyInv, HasBoundary, ClosedOf, IsBoundary
<1>3. ASSUME NEW c \in versions, c.to # Open PROVE StillTrue(c)
  <2>1. c \in ClosedOf(versions, c.id) /\ c.from \in Nat
    BY <1>3, VersionFields DEF ClosedOf, Inv, Shape
  <2> QED
    BY <2>1 DEF Inv, KeyInv, DatedInv, StillTrue
<1>4. ASSUME NEW t \in Sweeps, NEW c \in snapshot'[t], c.to # Open
      PROVE  StillTrue(c)
  BY <1>1, <1>3, <1>4 DEF Inv, Shape, SnapshotInv
<1>5. ASSUME NEW c, StillTrue(c) PROVE StillTrue(c)'
  BY <1>1, <1>5 DEF StillTrue, Dated, ClosedOf
<1> QED
  BY <1>2, <1>4, <1>5 DEF SnapshotInv

\* Rows that are not a boundary are deleted.
LEMMA FinishStep ==
  ASSUME Inv, NEW s \in Sweeps, Finish(s)
  PROVE  (DatedInv /\ KeyInv /\ HasBoundary /\ SnapshotInv)'
<1>1. versions' = versions \ Hit(s) /\ clock' = clock /\ nextId' = nextId
      /\ snapshot' = [snapshot EXCEPT ![s] = {}]
  BY DEF Finish, Forget
<1>2. DatedInv' /\ KeyInv'
  BY <1>1 DEF Inv, DatedInv, Dated, KeyInv
<1>3. ASSUME NEW v \in versions, v.to # Open
      PROVE  \E b \in ClosedOf(versions', v.id) :
               \A x \in ClosedOf(versions, v.id) : x.from <= b.from
  <2>1. PICK b \in ClosedOf(versions, v.id) : IsBoundary(versions, b)
    BY <1>3 DEF Inv, HasBoundary
  <2>2. b \notin Hit(s)
    BY <2>1, HitIsOld
  <2>3. b \in ClosedOf(versions', v.id) /\ b.id = v.id
    BY <2>1, <2>2, <1>1 DEF ClosedOf
  <2> QED
    BY <2>1, <2>3 DEF IsBoundary
<1>4. \A i : ClosedOf(versions', i) \subseteq ClosedOf(versions, i)
  BY <1>1 DEF ClosedOf
<1>5. HasBoundary'
  <2> SUFFICES ASSUME NEW v \in versions', v.to # Open
               PROVE  \E b \in ClosedOf(versions', v.id) : IsBoundary(versions', b)
    BY DEF HasBoundary
  <2>1. PICK b \in ClosedOf(versions', v.id) :
          \A x \in ClosedOf(versions, v.id) : x.from <= b.from
    BY <1>1, <1>3
  <2>2. b.id = v.id
    BY <2>1 DEF ClosedOf
  <2> QED
    BY <2>1, <2>2, <1>4 DEF IsBoundary
<1>6. ASSUME NEW t \in Sweeps, NEW c \in snapshot'[t], c.to # Open
      PROVE  StillTrue(c)'
  <2>1. c \in snapshot[t]
    BY <1>1 DEF Inv, Shape
  <2>2. StillTrue(c) /\ c.from \in Nat
    BY <1>6, <2>1, VersionFields DEF Inv, SnapshotInv, Shape
  <2>3. PICK w \in ClosedOf(versions, c.id) : c.from <= w.from
    BY <2>2 DEF StillTrue
  <2>4. w \in versions /\ w.to # Open /\ w.id = c.id
    BY <2>3 DEF ClosedOf
  <2>5. PICK b \in ClosedOf(versions', c.id) :
          \A x \in ClosedOf(versions, c.id) : x.from <= b.from
    BY <2>4, <1>3
  <2>6. b \in versions /\ w.from \in Nat /\ b.from \in Nat
    BY <2>4, <2>5, <1>1, VersionFields DEF ClosedOf, Inv, Shape
  <2>7. c.from <= b.from
    BY <2>2, <2>3, <2>5, <2>6
  <2> QED
    BY <2>2, <2>5, <2>7, <1>1 DEF StillTrue, Dated
<1> QED
  BY <1>2, <1>5, <1>6 DEF SnapshotInv

LEMMA RollbackStep ==
  ASSUME Inv, NEW s \in Sweeps, Rollback(s)
  PROVE  (DatedInv /\ KeyInv /\ HasBoundary /\ SnapshotInv)'
<1>1. versions' = versions /\ clock' = clock /\ nextId' = nextId
      /\ snapshot' = [snapshot EXCEPT ![s] = {}]
  BY DEF Rollback, Forget
<1>2. DatedInv' /\ KeyInv' /\ HasBoundary'
  BY <1>1 DEF Inv, DatedInv, Dated, KeyInv, HasBoundary, ClosedOf, IsBoundary
<1>3. ASSUME NEW t \in Sweeps, NEW c \in snapshot'[t] PROVE c \in snapshot[t]
  BY <1>1 DEF Inv, Shape
<1>4. ASSUME NEW c, StillTrue(c) PROVE StillTrue(c)'
  BY <1>1, <1>4 DEF StillTrue, Dated, ClosedOf
<1> QED
  BY <1>2, <1>3, <1>4 DEF SnapshotInv, Inv

LEMMA InvNext == Inv /\ [Next]_vars => Inv'
<1> SUFFICES ASSUME Inv, [Next]_vars PROVE Inv'
  OBVIOUS
<1> USE DEF sweepVars
<1>1. clock \in Nat /\ MaxClock \in Nat
  BY BoundsAssumption DEF Inv, Shape, Times
<1>2. CASE Tick
  <2>1. Shape'
    BY <1>1, <1>2, BoundsAssumption DEF Inv, Shape, Tick, Times
  <2>2. UNCHANGED <<nextId, versions, snapshot>> /\ clock' \in Nat /\ clock <= clock'
    BY <1>1, <1>2 DEF Tick
  <2> QED
    BY <2>1, <2>2, CalmStep DEF Inv
<1>3. CASE Create
  <2>1. nextId \in Ids /\ nextId' \in 0..MaxId
    BY <1>3, BoundsAssumption DEF Inv, Shape, Create, Ids
  <2>2. Opened(nextId) \in Version
    BY <2>1, OpenedFields DEF Inv, Shape
  <2>3. Shape'
    BY <1>3, <2>1, <2>2 DEF Inv, Shape, Create
  <2> QED
    BY <1>3, <2>3, CreateStep DEF Inv
<1>4. ASSUME NEW v \in versions, Change(v) \/ Retire(v) PROVE Inv'
  <2>1. v \in Version /\ v.id \in Ids /\ clock \in Times
    BY DEF Inv, Shape, Version
  <2>2. Opened(v.id) \in Version /\ Closed(v) \in Version
    BY <2>1, OpenedFields, ClosedFields
  <2>3. UNCHANGED <<clock, nextId, snapshot, policy, pc, horizon>>
    BY <1>4 DEF Change, Retire
  <2>4. versions' \subseteq Version
    BY <1>4, <2>2 DEF Inv, Shape, Change, Retire
  <2>5. Shape'
    BY <2>3, <2>4 DEF Inv, Shape
  <2>6. CASE Change(v)
    <3>1. /\ v.to = Open /\ v.from # clock
          /\ versions' = (versions \ {v}) \cup {Closed(v)} \cup {Opened(v.id)}
      BY <2>6 DEF Change
    <3> QED
      BY <3>1, <2>3, <2>5, CloseStep DEF Inv
  <2>7. CASE Retire(v)
    <3>1. PICK N \in SUBSET {Opened(v.id)} : N = {}
      OBVIOUS
    <3>2. v.to = Open /\ versions' = (versions \ {v}) \cup {Closed(v)} \cup N
      BY <2>7, <3>1 DEF Retire
    <3>3. (DatedInv /\ KeyInv /\ HasBoundary /\ SnapshotInv)'
      BY <2>3, <3>1, <3>2, CloseStep
    <3> QED
      BY <3>3, <2>5 DEF Inv
  <2> QED
    BY <1>4, <2>6, <2>7
<1>5. ASSUME NEW d \in Retentions \cup {NoPolicy}, SetPolicy(d) PROVE Inv'
  <2>1. Shape' /\ UNCHANGED <<nextId, versions, snapshot, clock>>
    BY <1>5 DEF Inv, Shape, SetPolicy
  <2> QED
    BY <1>1, <2>1, CalmStep DEF Inv
<1>6. ASSUME NEW s \in Sweeps, Begin(s) PROVE Inv'
  <2>1. policy \in Int
    BY RetentionsAssumption DEF Inv, Shape, NoPolicy
  <2>2. clock - policy \in Int
    BY <1>1, <2>1
  <2>3. Shape' /\ UNCHANGED <<nextId, versions, snapshot, clock>>
    BY <1>6, <2>2 DEF Inv, Shape, Begin
  <2> QED
    BY <1>1, <2>3, CalmStep DEF Inv
<1>7. ASSUME NEW s \in Sweeps, Select(s) PROVE Inv'
  <2>1. Shape'
    BY <1>7 DEF Inv, Shape, Select
  <2> QED
    BY <1>7, <2>1, SelectStep DEF Inv
<1>8. ASSUME NEW s \in Sweeps, Finish(s) PROVE Inv'
  <2>1. Shape'
    BY <1>8 DEF Inv, Shape, Finish, Forget
  <2> QED
    BY <1>8, <2>1, FinishStep DEF Inv
<1>9. ASSUME NEW s \in Sweeps, Rollback(s) PROVE Inv'
  <2>1. Shape'
    BY <1>9 DEF Inv, Shape, Rollback, Forget
  <2> QED
    BY <1>9, <2>1, RollbackStep DEF Inv
<1>10. CASE UNCHANGED vars
  <2>1. Shape' /\ UNCHANGED <<nextId, versions, snapshot, clock>>
    BY <1>10 DEF Inv, Shape, vars
  <2> QED
    BY <1>1, <2>1, CalmStep DEF Inv
<1> QED
  BY <1>2, <1>3, <1>4, <1>5, <1>6, <1>7, <1>8, <1>9, <1>10 DEF Next

LEMMA InvCorrect == Spec => []Inv
<1> QED
  BY InvInit, InvNext, PTL DEF Spec

-----------------------------------------------------------------------------
(* What a sweep keeps.                                                     *)

\* Among the steps, only those of a sweep move its pc.
LEMMA CommitIsFinish ==
  ASSUME Inv, Next, NEW s \in Sweeps, Commits(s)
  PROVE  Finish(s) \/ Rollback(s)
<1>1. CASE Tick \/ Create \/ (\E v \in versions : Change(v) \/ Retire(v))
             \/ (\E d \in Retentions \cup {NoPolicy} : SetPolicy(d))
  BY <1>1 DEF Commits, Tick, Create, Change, Retire, SetPolicy, sweepVars
<1>2. ASSUME NEW t \in Sweeps, t # s, Begin(t) \/ Select(t) \/ Finish(t) \/ Rollback(t)
      PROVE  FALSE
  BY <1>2 DEF Inv, Shape, Commits, Begin, Select, Finish, Rollback
<1>3. ~Begin(s) /\ ~Select(s)
  BY DEF Inv, Shape, Commits, Begin, Select
<1> QED
  BY <1>1, <1>2, <1>3 DEF Next

\* A sweep that commits deletes its hits, or nothing if it rolls back.
LEMMA CommitDeletes ==
  ASSUME Inv, Next, NEW s \in Sweeps, Commits(s)
  PROVE  /\ versions' \subseteq versions
         /\ \A v \in versions : v \notin versions' => v \in Hit(s)
BY CommitIsFinish DEF Finish, Rollback

\* No sweep deletes an open version or the most recent closed one of an entity,
\* whatever was written since it read the table (retention.py, _sweep_kind).
THEOREM BoundaryStaysCorrect == Spec => BoundaryStays
<1>1. Inv /\ [Next]_vars => [KeepsBoundary]_vars
  <2> SUFFICES ASSUME Inv, Next, NEW s \in Sweeps, Commits(s), NEW v \in versions,
                      v.to = Open \/ IsBoundary(versions, v)
               PROVE  v \in versions'
    BY DEF KeepsBoundary
  <2>1. v \notin Hit(s)
    BY HitIsOld
  <2> QED
    BY <2>1, CommitDeletes
<1> QED
  BY <1>1, InvCorrect, PTL DEF BoundaryStays, Spec

\* An as-of answer for an instant from the horizon on is the same before and
\* after a sweep (repositories.py, as_of).
THEOREM RecentPastStaysCorrect == Spec => RecentPastStays
<1>1. Inv /\ [Next]_vars => [KeepsRecentPast]_vars
  <2> SUFFICES ASSUME Inv, Next, NEW s \in Sweeps, Commits(s),
                      NEW T \in Times, T >= horizon[s]
               PROVE  AsOf(versions', T) = AsOf(versions, T)
    BY DEF KeepsRecentPast
  <2>1. T \in Int /\ horizon[s] \in Int
    BY BoundsAssumption DEF Times, Inv, Shape
  <2>2. ASSUME NEW v \in versions, v \notin versions'
        PROVE  ~(v.from <= T /\ (v.to = Open \/ v.to > T))
    <3>1. v.to # Open /\ v.to < horizon[s] /\ v.to \in Int
      BY <2>2, CommitDeletes, HitIsOld, VersionFields DEF Inv, Shape
    <3> QED
      BY <3>1, <2>1
  <2> QED
    BY <2>2, CommitDeletes DEF AsOf
<1> QED
  BY <1>1, InvCorrect, PTL DEF RecentPastStays, Spec

\* The change feed from the horizon on is the same before and after a sweep:
\* no deleted version is needed to tell an update from a creation or a removal
\* (change_feed.py).
THEOREM RecentFeedStaysCorrect == Spec => RecentFeedStays
<1>1. Inv /\ [Next]_vars => [KeepsRecentFeed]_vars
  <2> SUFFICES ASSUME Inv, Next, NEW s \in Sweeps, Commits(s)
               PROVE  Feed(versions', horizon[s]) = Feed(versions, horizon[s])
    BY DEF KeepsRecentFeed
  <2> DEFINE h == horizon[s]
  <2>1. h \in Int /\ versions' \subseteq versions
        /\ \A v \in versions : v.from \in Int /\ v.to \in Int
    BY CommitDeletes, VersionFields DEF Inv, Shape
  <2>2. ASSUME NEW v \in versions, v \notin versions'
        PROVE  v.from < h /\ v.to < h
    <3>1. v.to < h /\ v.from <= v.to
      BY <2>2, CommitDeletes, HitIsOld
    <3> QED
      BY <3>1, <2>1
  <2> HIDE DEF h
  <2> DEFINE Starts(S) == {w \in S : w.from >= h}
             Ends(S) == {w \in S : w.to # Open /\ w.to >= h /\
                                    ~\E x \in S : x.id = w.id /\ x.from = w.to}
             Preceded(S, v) == \E w \in S : w.id = v.id /\ w.to = v.from
  <2>3. Starts(versions') = Starts(versions)
    BY <2>1, <2>2
  <2>4. Ends(versions') = Ends(versions)
    BY <2>1, <2>2
  <2>5. \A v \in Starts(versions) : Preceded(versions', v) <=> Preceded(versions, v)
    BY <2>1, <2>2
  <2>6. \A S : Feed(S, h) =
          {[kind |-> IF Preceded(S, v) THEN "updated" ELSE "created",
            id |-> v.id, at |-> v.from] : v \in Starts(S)}
          \cup {[kind |-> "removed", id |-> v.id, at |-> v.to] : v \in Ends(S)}
    BY DEF Feed
  <2> HIDE DEF Starts, Ends, Preceded
  <2>7. Feed(versions', h) = Feed(versions, h)
    BY <2>3, <2>4, <2>5, <2>6
  <2> QED
    BY <2>7 DEF h
<1> QED
  BY <1>1, InvCorrect, PTL DEF RecentFeedStays, Spec

-----------------------------------------------------------------------------
(* What is counted.                                                        *)

\* A sweep has written once, at its end; while sweeps do not overlap, what one has read of a closed
\* version is still there.
CountInv ==
  /\ IsFiniteSet(versions) /\ \A s \in Sweeps : IsFiniteSet(snapshot[s])
  /\ aggregates \subseteq Aggregate /\ deleted \subseteq Sweeps \X Version
  /\ overlapped \in BOOLEAN
  /\ \A d \in deleted : pc[d[1]] = "over"
  /\ ~overlapped =>
       /\ \A s, t \in Running : s = t
       /\ \A s \in Sweeps : pc[s] = "write" =>
            \A c \in snapshot[s] : c.to # Open => c \in versions

\* The versions of an entity that a sweep has deleted.
Mine(s, i) == {e \in deleted : e[1] = s /\ e[2].id = i}

LEMMA MinOfNaturals ==
  ASSUME NEW T \in SUBSET Nat, T # {}
  PROVE  MinOf(T) \in T /\ \A y \in T : MinOf(T) <= y
<1> DEFINE Less == {ss \in Nat \X Nat : ss[1] < ss[2]}
<1>1. PICK x \in T : \A y \in T : ~(<<y, x>> \in Less)
  <2>1. T \subseteq Nat
    OBVIOUS
  <2>2. IsWellFoundedOn(Less, Nat)
    BY NatLessThanWellFounded DEF OpToRel
  <2> HIDE DEF Less
  <2>3. \E x \in T : \A y \in T : ~(<<y, x>> \in Less)
    BY <2>1, <2>2, WFMin
  <2> QED BY <2>3
<1>2. \A y \in T : ~(y < x)
  BY <1>1
<1>3. \A y \in T : x <= y BY <1>2
<1> QED BY <1>3 DEF MinOf

LEMMA MaxOfBounded ==
  ASSUME NEW n \in Nat, NEW T \in SUBSET (0..n), T # {}
  PROVE  MaxOf(T) \in T /\ \A y \in T : y <= MaxOf(T)
<1> DEFINE U == {k \in Nat : k <= n /\ n - k \in T}
<1>1. U # {}
  <2>1. PICK y \in T : TRUE OBVIOUS
  <2>2. n - y \in Nat /\ n - y <= n /\ n - (n - y) = y BY <2>1
  <2> QED BY <2>1, <2>2
<1>2. PICK u \in U : \A k \in U : u <= k
  <2>1. U \in SUBSET Nat OBVIOUS
  <2> HIDE DEF U
  <2> QED BY <1>1, <2>1, MinOfNaturals
<1>3. n - u \in T OBVIOUS
<1>4. ASSUME NEW y \in T PROVE y <= n - u
  <2>1. y \in Nat /\ y <= n OBVIOUS
  <2>2. n - y \in U BY <2>1
  <2>3. u \in Nat /\ u <= n - y BY <1>2, <2>2
  <2> QED BY <2>1, <2>3
<1> QED BY <1>3, <1>4 DEF MaxOf

\* The aggregate counts the versions it is made of, and covers their times.
LEMMA RollupFields ==
  ASSUME NEW s \in Sweeps, NEW i \in Ids, NEW C \in SUBSET Version, C # {}, IsFiniteSet(C),
         \A v \in C : v.to # Open
  PROVE  /\ Rollup(s, i, C) \in Aggregate
         /\ Rollup(s, i, C).sweep = s /\ Rollup(s, i, C).id = i
         /\ Rollup(s, i, C).count = Cardinality(C)
         /\ \A v \in C : Rollup(s, i, C).first <= v.from /\ v.to <= Rollup(s, i, C).last
<1> DEFINE F == {v.from : v \in C}
           L == {v.to : v \in C}
<1>1. MaxClock \in Nat /\ Times \subseteq Nat /\ Times = 0..MaxClock BY BoundsAssumption DEF Times
<1>2. F \subseteq Times /\ F # {} BY DEF Version
<1>3. L \subseteq Times /\ L # {} BY DEF Version
<1>4. \A v \in C : v.from \in F /\ v.to \in L OBVIOUS
<1> HIDE DEF F, L
<1>5. MinOf(F) \in F /\ \A y \in F : MinOf(F) <= y BY <1>1, <1>2, MinOfNaturals
<1>6. MaxOf(L) \in L /\ \A y \in L : y <= MaxOf(L) BY <1>1, <1>3, MaxOfBounded
<1>7. Cardinality(C) \in Nat BY FS_CardinalityType
<1> DEFINE min == MinOf(F)
           max == MaxOf(L)
           n == Cardinality(C)
<1>8. Rollup(s, i, C) = [sweep |-> s, id |-> i, count |-> n, first |-> min, last |-> max]
  BY DEF Rollup, F, L
<1>9. min \in Times /\ max \in Times /\ n \in Nat BY <1>2, <1>3, <1>5, <1>6, <1>7
<1>10. \A v \in C : min <= v.from /\ v.to <= max BY <1>4, <1>5, <1>6
<1> HIDE DEF min, max, n
<1>11. [sweep |-> s, id |-> i, count |-> n, first |-> min, last |-> max] \in Aggregate
  BY <1>9 DEF Aggregate
<1> QED BY <1>8, <1>10, <1>11 DEF n

Counts(a, d) ==
  /\ a.sweep = d[1] /\ a.id = d[2].id
  /\ a.first <= d[2].from /\ d[2].to <= a.last
  /\ IF overlapped THEN Cardinality(Mine(a.sweep, a.id)) <= a.count
                   ELSE Cardinality(Mine(a.sweep, a.id)) = a.count

LEMMA CountedMeans == DeletedIsCounted <=> \A d \in deleted : \E a \in aggregates : Counts(a, d)
BY DEF DeletedIsCounted, Counts, Mine

LEMMA CountsStay ==
  ASSUME CountInv, DeletedIsCounted, UNCHANGED <<aggregates, deleted>>,
         overlapped' \in BOOLEAN, overlapped => overlapped'
  PROVE  DeletedIsCounted'
<1>1. \A s, i : Mine(s, i)' = Mine(s, i) BY DEF Mine
<1>2. ASSUME NEW a \in aggregates, NEW d, Counts(a, d) PROVE Counts(a, d)'
  <2>1. a.count \in Nat BY DEF CountInv, Aggregate
  <2>2. Cardinality(Mine(a.sweep, a.id))' = Cardinality(Mine(a.sweep, a.id)) BY <1>1
  <2> QED BY <1>2, <2>1, <2>2 DEF Counts
<1>3. \A d \in deleted : \E a \in aggregates : Counts(a, d) BY CountedMeans
<1>4. \A d \in deleted' : \E a \in aggregates' : Counts(a, d)' BY <1>2, <1>3
<1> QED BY <1>4 DEF DeletedIsCounted, Counts, Mine

\* The writers delete no closed version.
LEMMA WritersCount ==
  ASSUME CountInv, DeletedIsCounted, UNCHANGED <<aggregates, sweepVars>>, IsFiniteSet(versions'),
         \A v \in versions : v.to # Open => v \in versions'
  PROVE  (CountInv /\ DeletedIsCounted)'
<1>1. UNCHANGED <<aggregates, pc, snapshot, deleted, overlapped>> BY DEF sweepVars
<1>2. overlapped \in BOOLEAN BY DEF CountInv
<1>3. DeletedIsCounted' BY <1>1, <1>2, CountsStay
<1>4. deleted' \subseteq Sweeps \X Version BY <1>1 DEF CountInv
<1>5. Running' = Running BY <1>1 DEF Running
<1>6. CountInv' BY <1>1, <1>4, <1>5 DEF CountInv
<1> QED BY <1>3, <1>6

LEMMA BeginCount ==
  ASSUME Inv, CountInv, DeletedIsCounted, NEW s \in Sweeps, Begin(s)
  PROVE  (CountInv /\ DeletedIsCounted)'
<1>1. /\ UNCHANGED <<versions, aggregates, snapshot, deleted>> /\ pc[s] = "idle"
      /\ pc' = [pc EXCEPT ![s] = "select"] /\ overlapped' = (overlapped \/ Running # {})
  BY DEF Begin
<1>2. pc'[s] = "select" /\ \A t \in Sweeps \ {s} : pc'[t] = pc[t] BY <1>1 DEF Inv, Shape
<1>3. overlapped' \in BOOLEAN /\ (overlapped => overlapped') BY <1>1 DEF CountInv
<1>4. DeletedIsCounted' BY <1>1, <1>3, CountsStay
<1>5. Running' = Running \cup {s} BY <1>2 DEF Running
<1>6. ~overlapped' => \A t, u \in Running' : t = u BY <1>1, <1>5
<1>7. \A d \in deleted : d[1] \in Sweeps /\ d[1] # s BY <1>1 DEF CountInv
<1>8. CountInv' BY <1>1, <1>2, <1>3, <1>6, <1>7 DEF CountInv
<1> QED BY <1>4, <1>8

LEMMA SelectCount ==
  ASSUME Inv, CountInv, DeletedIsCounted, NEW s \in Sweeps, Select(s)
  PROVE  (CountInv /\ DeletedIsCounted)'
<1>1. /\ UNCHANGED <<versions, aggregates, deleted, overlapped>> /\ pc[s] = "select"
      /\ pc' = [pc EXCEPT ![s] = "write"] /\ snapshot' = [snapshot EXCEPT ![s] = versions]
  BY DEF Select
<1>2. /\ pc'[s] = "write" /\ \A t \in Sweeps \ {s} : pc'[t] = pc[t]
      /\ snapshot'[s] = versions /\ \A t \in Sweeps \ {s} : snapshot'[t] = snapshot[t]
  BY <1>1 DEF Inv, Shape
<1>3. DeletedIsCounted' BY <1>1, CountsStay DEF CountInv
<1>4. Running' = Running BY <1>1, <1>2 DEF Running
<1>5. \A d \in deleted : d[1] \in Sweeps /\ d[1] # s BY <1>1 DEF CountInv
<1>6. CountInv' BY <1>1, <1>2, <1>4, <1>5 DEF CountInv
<1> QED BY <1>3, <1>6

LEMMA RollbackCount ==
  ASSUME Inv, CountInv, DeletedIsCounted, NEW s \in Sweeps, Rollback(s)
  PROVE  (CountInv /\ DeletedIsCounted)'
<1>1. /\ UNCHANGED <<versions, aggregates, deleted, overlapped>> /\ pc[s] \in {"select", "write"}
      /\ pc' = [pc EXCEPT ![s] = "over"] /\ snapshot' = [snapshot EXCEPT ![s] = {}]
  BY DEF Rollback, Forget
<1>2. /\ pc'[s] = "over" /\ \A t \in Sweeps \ {s} : pc'[t] = pc[t]
      /\ snapshot'[s] = {} /\ \A t \in Sweeps \ {s} : snapshot'[t] = snapshot[t]
  BY <1>1 DEF Inv, Shape
<1>3. DeletedIsCounted' BY <1>1, CountsStay DEF CountInv
<1>4. Running' \subseteq Running BY <1>1, <1>2 DEF Running
<1>5. \A d \in deleted : d[1] \in Sweeps /\ d[1] # s BY <1>1 DEF CountInv
<1>6. IsFiniteSet({}) BY FS_EmptySet
<1>7. CountInv' BY <1>1, <1>2, <1>4, <1>5, <1>6 DEF CountInv
<1> QED BY <1>3, <1>7

\* What a sweep has to count of an entity, and what it deletes of it.
Old(s, i)  == {v \in Collapsible(snapshot[s], horizon[s]) : v.id = i}
Gone(s, i) == {v \in Hit(s) : v.id = i}

\* What a sweep deletes of an entity is among what it counts, and is all of it when no other sweep
\* has deleted any since it read.
LEMMA HitsAreCounted ==
  ASSUME Inv, CountInv, NEW s \in Sweeps, pc[s] = "write", NEW i
  PROVE  /\ Old(s, i) \subseteq Version /\ IsFiniteSet(Old(s, i))
         /\ \A v \in Old(s, i) : v.to # Open
         /\ Gone(s, i) \subseteq Old(s, i)
         /\ ~overlapped => Gone(s, i) = Old(s, i)
<1> DEFINE C == Old(s, i)
           H == Gone(s, i)
<1> USE DEF Old, Gone
<1>1. C \subseteq snapshot[s] /\ \A v \in C : v.to # Open BY DEF Collapsible
<1>2. IsFiniteSet(C) BY <1>1, FS_Subset DEF CountInv
<1>3. C \subseteq Version BY <1>1 DEF Inv, Shape
<1>4. \A v \in Hit(s) : v \in Collapsible(snapshot[s], horizon[s])
  <2> SUFFICES ASSUME NEW v \in Hit(s) PROVE v \in Collapsible(snapshot[s], horizon[s]) OBVIOUS
  <2>1. PICK c \in Collapsible(snapshot[s], horizon[s]) : v.id = c.id /\ v.from = c.from
    BY DEF Hit
  <2>2. c \in snapshot[s] /\ c.to # Open /\ v \in versions BY DEF Collapsible, Hit
  <2>3. v = c BY <2>1, <2>2 DEF Inv, SnapshotInv, StillTrue
  <2> QED BY <2>3
<1>5. H \subseteq C BY <1>4
<1>6. ASSUME ~overlapped, NEW v \in C PROVE v \in H
  <2>1. v \in versions BY <1>1, <1>6 DEF CountInv
  <2>2. v \in Hit(s) BY <1>1, <2>1 DEF Hit
  <2> QED BY <2>2
<1> QED BY <1>1, <1>2, <1>3, <1>5, <1>6

LEMMA FinishCount ==
  ASSUME Inv, CountInv, DeletedIsCounted, NEW s \in Sweeps, Finish(s)
  PROVE  (CountInv /\ DeletedIsCounted)'
<1> DEFINE fresh == {Rollup(s, i, Old(s, i)) : i \in {j \in Ids : Old(s, j) # {}}}
<1>1. /\ pc[s] = "write" /\ pc' = [pc EXCEPT ![s] = "over"] /\ overlapped' = overlapped
      /\ versions' = versions \ Hit(s) /\ aggregates' = aggregates \cup fresh
      /\ deleted' = deleted \cup ({s} \X Hit(s)) /\ snapshot' = [snapshot EXCEPT ![s] = {}]
  BY DEF Finish, Forget, Old
<1>2. /\ pc'[s] = "over" /\ \A t \in Sweeps \ {s} : pc'[t] = pc[t]
      /\ snapshot'[s] = {} /\ \A t \in Sweeps \ {s} : snapshot'[t] = snapshot[t]
  BY <1>1 DEF Inv, Shape
<1>3. Hit(s) \subseteq Version BY DEF Hit, Inv, Shape
<1>4. \A i : /\ Old(s, i) \subseteq Version /\ IsFiniteSet(Old(s, i)) /\ \A v \in Old(s, i) : v.to # Open
             /\ Gone(s, i) \subseteq Old(s, i) /\ (~overlapped => Gone(s, i) = Old(s, i))
  BY <1>1, HitsAreCounted
<1>5. \A d \in deleted : d[1] # s BY <1>1 DEF CountInv
<1>6. CountInv'
  <2>1. aggregates' \subseteq Aggregate
    <3>1. \A i \in Ids : Old(s, i) # {} => Rollup(s, i, Old(s, i)) \in Aggregate BY <1>4, RollupFields
    <3>2. fresh \subseteq Aggregate BY <3>1
    <3> QED BY <1>1, <3>2 DEF CountInv
  <2>2. deleted' \subseteq Sweeps \X Version BY <1>1, <1>3 DEF CountInv
  <2>3. IsFiniteSet(versions') BY <1>1, FS_Subset DEF CountInv
  <2>4. \A t \in Sweeps : IsFiniteSet(snapshot'[t]) BY <1>2, FS_EmptySet DEF CountInv
  <2>5. \A d \in deleted' : pc'[d[1]] = "over" BY <1>1, <1>2, <2>2 DEF CountInv
  <2>6. ASSUME ~overlapped' PROVE \A t, u \in Running' : t = u
    BY <1>1, <1>2, <2>6 DEF CountInv, Running
  <2>7. ASSUME ~overlapped', NEW t \in Sweeps, pc'[t] = "write" PROVE FALSE
    <3>1. t # s /\ pc[t] = "write" BY <1>2, <2>7
    <3>2. t \in Running /\ s \in Running BY <1>1, <3>1 DEF Running
    <3> QED BY <1>1, <2>7, <3>1, <3>2 DEF CountInv
  <2>8. overlapped' \in BOOLEAN BY <1>1 DEF CountInv
  <2> QED BY <2>1, <2>2, <2>3, <2>4, <2>5, <2>6, <2>7, <2>8 DEF CountInv
<1>7. DeletedIsCounted'
  <2>1. ASSUME NEW d \in deleted PROVE \E a \in aggregates' : Counts(a, d)'
    <3>1. PICK a \in aggregates : Counts(a, d) BY CountedMeans
    <3>2. a.sweep # s BY <1>5, <3>1 DEF Counts
    <3>3. Mine(a.sweep, a.id)' = Mine(a.sweep, a.id) BY <1>1, <3>2 DEF Mine
    <3>4. Counts(a, d)' BY <1>1, <3>1, <3>3 DEF Counts
    <3> QED BY <1>1, <3>4
  <2>2. ASSUME NEW d \in {s} \X Hit(s) PROVE \E a \in aggregates' : Counts(a, d)'
    <3>1. PICK v \in Hit(s) : d = <<s, v>> OBVIOUS
    <3>2. PICK i \in Ids : i = v.id BY <1>3 DEF Version
    <3>3. v \in Gone(s, i) /\ v \in Old(s, i) BY <1>4, <3>2 DEF Gone
    <3>4. PICK a : a = Rollup(s, i, Old(s, i)) OBVIOUS
    <3>5. /\ a \in aggregates' /\ a.sweep = s /\ a.id = i /\ a.count = Cardinality(Old(s, i))
          /\ a.first <= v.from /\ v.to <= a.last
      BY <1>1, <1>4, <3>3, <3>4, RollupFields
    <3>6. Mine(s, i)' = {s} \X Gone(s, i)
      <4>1. \A e \in {s} \X Hit(s) : e[1] = s /\ e[2] \in Hit(s) /\ e = <<s, e[2]>> OBVIOUS
      <4>2. Mine(s, i)' = {e \in {s} \X Hit(s) : e[2].id = i} BY <1>1, <1>5, <4>1 DEF Mine
      <4> QED BY <4>2 DEF Gone
    <3>7. IsFiniteSet(Gone(s, i)) /\ Cardinality(Gone(s, i)) <= Cardinality(Old(s, i)) BY <1>4, FS_Subset
    <3>8. Cardinality({s} \X Gone(s, i)) = Cardinality(Gone(s, i))
      <4>1. Cardinality(Gone(s, i)) \in Nat BY <3>7, FS_CardinalityType
      <4>2. IsFiniteSet({s}) /\ Cardinality({s}) = 1 BY FS_Singleton
      <4>3. Cardinality({s} \X Gone(s, i)) = Cardinality({s}) * Cardinality(Gone(s, i))
        BY <3>7, <4>2, FS_Product
      <4> QED BY <4>1, <4>2, <4>3
    <3>9. IF overlapped THEN Cardinality(Mine(s, i)') <= a.count
                        ELSE Cardinality(Mine(s, i)') = a.count
      <4>1. ~overlapped => Gone(s, i) = Old(s, i) BY <1>4
      <4> QED BY <3>5, <3>6, <3>7, <3>8, <4>1
    <3>10. Counts(a, d)' BY <1>1, <3>1, <3>2, <3>5, <3>9 DEF Counts
    <3> QED BY <3>5, <3>10
  <2>3. \A d \in deleted' : \E a \in aggregates' : Counts(a, d)' BY <1>1, <2>1, <2>2
  <2> QED BY <2>3 DEF DeletedIsCounted, Counts, Mine
<1> QED BY <1>6, <1>7

LEMMA CountNext == Inv /\ CountInv /\ DeletedIsCounted /\ [Next]_vars => (CountInv /\ DeletedIsCounted)'
<1> SUFFICES ASSUME Inv, CountInv, DeletedIsCounted, [Next]_vars
             PROVE  (CountInv /\ DeletedIsCounted)'
  OBVIOUS
<1>1. IsFiniteSet(versions) BY DEF CountInv
<1>2. CASE Tick \/ (\E d \in Retentions \cup {NoPolicy} : SetPolicy(d)) \/ UNCHANGED vars
  <2>1. UNCHANGED <<versions, aggregates, sweepVars>> BY <1>2 DEF Tick, SetPolicy, vars, sweepVars
  <2> QED BY <1>1, <2>1, WritersCount
<1>3. CASE Create
  <2>1. versions' = versions \cup {Opened(nextId)} /\ UNCHANGED <<aggregates, sweepVars>>
    BY <1>3 DEF Create
  <2>2. IsFiniteSet(versions') BY <1>1, <2>1, FS_AddElement
  <2> QED BY <2>1, <2>2, WritersCount
<1>4. ASSUME NEW v \in versions, Change(v) \/ Retire(v) PROVE (CountInv /\ DeletedIsCounted)'
  <2>1. /\ v.to = Open /\ UNCHANGED <<aggregates, sweepVars>>
        /\ \/ versions' = ((versions \ {v}) \cup {Closed(v)}) \cup {Opened(v.id)}
           \/ versions' = (versions \ {v}) \cup {Closed(v)}
    BY <1>4 DEF Change, Retire
  <2>2. IsFiniteSet(versions \ {v}) BY <1>1, FS_Subset
  <2>3. IsFiniteSet((versions \ {v}) \cup {Closed(v)}) BY <2>2, FS_AddElement
  <2>4. IsFiniteSet(((versions \ {v}) \cup {Closed(v)}) \cup {Opened(v.id)}) BY <2>3, FS_AddElement
  <2> QED BY <2>1, <2>3, <2>4, WritersCount
<1> QED
  BY <1>2, <1>3, <1>4, BeginCount, SelectCount, FinishCount, RollbackCount DEF Next

LEMMA CountInit == Init => CountInv /\ DeletedIsCounted
BY FS_EmptySet DEF Init, CountInv, DeletedIsCounted, Running

\* Whatever is written between the reading and the deleting, and however sweeps overlap, each deleted
\* version lies within an aggregate of the sweep that deleted it, which counts as many or, unless
\* sweeps overlapped, exactly as many (retention.py, _sweep_kind).
THEOREM DeletedIsCountedCorrect == Spec => []DeletedIsCounted
<1>1. Init => Inv /\ CountInv /\ DeletedIsCounted BY InvInit, CountInit
<1>2. Inv /\ CountInv /\ DeletedIsCounted /\ [Next]_vars => (Inv /\ CountInv /\ DeletedIsCounted)'
  BY InvNext, CountNext
<1> QED BY <1>1, <1>2, PTL DEF Spec

\* The types, and so that every aggregate counts a number of versions and covers times of the clock.
THEOREM TypeCorrect == Spec => []TypeOK
<1>1. Init => Inv /\ CountInv /\ DeletedIsCounted BY InvInit, CountInit
<1>2. Inv /\ CountInv /\ DeletedIsCounted /\ [Next]_vars => (Inv /\ CountInv /\ DeletedIsCounted)'
  BY InvNext, CountNext
<1>3. Inv /\ CountInv => TypeOK BY DEF Inv, Shape, CountInv, TypeOK
<1> QED BY <1>1, <1>2, <1>3, PTL DEF Spec
=============================================================================
