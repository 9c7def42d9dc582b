---------------------------- MODULE EdgeLifecycle ----------------------------
(***************************************************************************)
(* The life of one edge identity (type, from_id, to_id, edge_key): what    *)
(* EdgeRepository.upsert and close, the deltas of flow logs, declared      *)
(* discovery and the aging sweep (repositories.py, confidence.py,          *)
(* aging.py) make of its open version when they run concurrently.          *)
(*                                                                         *)
(* Every process decides from a SELECT and then changes the row with an    *)
(* UPDATE and an INSERT.  Under READ COMMITTED the UPDATE meets whatever   *)
(* version is open when it runs, which need not be the one decided upon.   *)
(* BitemporalStore explains the two halves of an UPDATE; the closed        *)
(* versions and the primary key, which it models, are left out here.       *)
(*                                                                         *)
(* Confidence is counted in twentieths, the loss of a day's decay, and     *)
(* time in days.                                                           *)
(***************************************************************************)
EXTENDS Integers, FiniteSets

CONSTANTS
  Procs,      \* processes, each in one transaction at a time
  Full,       \* confidence 1.0
  Baseline,   \* INFERRED_BASELINE_CONFIDENCE
  Floor,      \* STALE_FLOOR_CONFIDENCE
  PerDay,     \* INFERRED_DECAY_PER_DAY
  Window,     \* INFERRED_FRESHNESS_WINDOW
  TTL,        \* INFERRED_EDGE_TTL
  MaxClock,   \* bound: the last day
  MaxBegun    \* bound: transactions

ASSUME CurveAssumption ==
  /\ {Full, Baseline, Floor, PerDay, Window, TTL} \subseteq Nat
  /\ Floor <= Baseline /\ Baseline < Full /\ 0 < PerDay /\ Window < TTL
ASSUME EdgeBoundsAssumption == MaxClock \in Nat /\ MaxBegun \in Nat

Days  == 0..MaxClock
Never == -1                \* no count marker: last_observed_at_of is None

\* An open version: count is the observation count of the marker in evidence[0]
\* (0 without one), seen its observed_at, decays the sweeps noted in evidence.
Version == [id: Nat, no: Nat, source: {"declared", "inferred"}, count: Nat,
            seen: Days \cup {Never}, conf: 0..Full, decays: SUBSET Days]
NoRow   == [id |-> 0, no |-> 0, source |-> "none", count |-> 0, seen |-> Never,
            conf |-> 0, decays |-> {}]

Kinds == {"observe", "declare", "remove", "sweep"}

VARIABLES
  clock,
  row,         \* the committed open version, or NoRow
  nextNo,      \* numbers the versions, and the edges, ever written
  pc,          \* pc[p]: where process p stands
  kind,        \* kind[p]: what its transaction does
  now,         \* now[p]: when its transaction began
  new,         \* new[p]: the version it will insert, or NoRow
  hit,         \* hit[p]: the number of the version its UPDATE found, or 0
  lock,        \* lock[p]: p has closed the committed row
  inserted,    \* inserted[p]: p has inserted new[p]
  begun,       \* the transactions begun
  since,       \* history: observations since the edge was created or declared
  overlapped   \* history: two transactions have been open at the same time

txVars   == <<kind, now, new, hit, lock, inserted>>
edgeVars == <<clock, row, nextNo, pc, txVars, begun, since, overlapped>>

EdgeTypeOK ==
  /\ clock \in Days /\ nextNo \in Nat /\ begun \in 0..MaxBegun
  /\ row \in Version \cup {NoRow}
  /\ pc \in [Procs -> {"idle", "read", "update", "locking", "insert", "ready"}]
  /\ kind \in [Procs -> Kinds] /\ now \in [Procs -> Days]
  /\ new \in [Procs -> Version \cup {NoRow}]
  /\ hit \in [Procs -> Nat]
  /\ lock \in [Procs -> BOOLEAN] /\ inserted \in [Procs -> BOOLEAN]
  /\ since \in Nat /\ overlapped \in BOOLEAN

EdgeInit ==
  /\ clock = 0 /\ row = NoRow /\ nextNo = 1 /\ begun = 0
  /\ since = 0 /\ overlapped = FALSE
  /\ pc = [p \in Procs |-> "idle"]
  /\ kind = [p \in Procs |-> "observe"]
  /\ now = [p \in Procs |-> 0]
  /\ new = [p \in Procs |-> NoRow]
  /\ hit = [p \in Procs |-> 0]
  /\ lock = [p \in Procs |-> FALSE]
  /\ inserted = [p \in Procs |-> FALSE]

-----------------------------------------------------------------------------
(* The curves of confidence.py.                                            *)

\* Mutated ConfidenceFor: a linear ramp.
ConfidenceForLinear(n) == Baseline * n

\* confidence_for_observations: every observation halves the gap to 1.0.
ConfidenceFor(n) == Full - ((Full - Baseline) \div (2^(n - 1)))

AtLeast(a, b) == IF a >= b THEN a ELSE b

\* Mutated Decayed: no floor.
DecayedNoFloor(conf, age) == conf - PerDay * (age - Window)

\* decayed_confidence past the window: linear in age, from the confidence the
\* edge has now, which may have been decayed already.
Decayed(conf, age) == AtLeast(Floor, conf - PerDay * (age - Window))

-----------------------------------------------------------------------------
(* The versions an operation writes, given the one it read.                *)

First(at)  == [id |-> nextNo, no |-> nextNo, source |-> "inferred", count |-> 1,
               seen |-> at, conf |-> Baseline, decays |-> {}]
Declared(v) == [id |-> IF v = NoRow THEN nextNo ELSE v.id, no |-> nextNo,
                source |-> "declared", count |-> 0, seen |-> Never,
                conf |-> Full, decays |-> {}]

\* Mutated Reobserved: the marker of the new batch replaces the old one.
ReobservedAnew(v, at) ==
  [v EXCEPT !.no = nextNo, !.count = 1, !.seen = at, !.conf = ConfidenceFor(1)]

\* Case 2 of upsert.  The marker gets the time of the batch's own last
\* observation, whatever was observed before.
Reobserved(v, at) ==
  LET n == AtLeast(v.count, 1) + 1
  IN [v EXCEPT !.no = nextNo, !.count = n, !.seen = at, !.conf = ConfidenceFor(n)]

\* Case 3: an inferred edge replaces a declared one verbatim, without a marker.
Verbatim(v) == [v EXCEPT !.no = nextNo, !.source = "inferred", !.conf = Baseline]

\* write_decayed_version.
Aged(v, conf, ref) == [v EXCEPT !.no = nextNo, !.conf = conf, !.decays = @ \cup {ref}]

-----------------------------------------------------------------------------
Active == {p \in Procs : pc[p] # "idle"}

Tick == /\ clock < MaxClock /\ clock' = clock + 1
        /\ UNCHANGED <<row, nextNo, pc, txVars, begun, since, overlapped>>

BeginOnEdge(p, k) ==
  /\ pc[p] = "idle" /\ begun < MaxBegun
  /\ begun' = begun + 1
  /\ pc' = [pc EXCEPT ![p] = "read"]
  /\ kind' = [kind EXCEPT ![p] = k]
  /\ now' = [now EXCEPT ![p] = clock]
  /\ overlapped' = (overlapped \/ Active # {})
  /\ UNCHANGED <<clock, row, nextNo, new, hit, lock, inserted, since>>

\* The SELECT of p, and what it decides on.
Decide(p, next, v) ==
  /\ pc' = [pc EXCEPT ![p] = next]
  /\ new' = [new EXCEPT ![p] = v]
  /\ nextNo' = IF v = NoRow THEN nextNo ELSE nextNo + 1
  /\ UNCHANGED <<clock, row, kind, now, hit, lock, inserted, begun, since, overlapped>>
Nothing(p) == Decide(p, "ready", NoRow)

\* upsert of an inferred edge, observed on some day up to now.
ReadToObserve(p, at) ==
  /\ pc[p] = "read" /\ kind[p] = "observe" /\ at <= clock
  /\ \/ row = NoRow /\ Decide(p, "insert", First(at))
     \/ row.source = "inferred" /\ Decide(p, "update", Reobserved(row, at))
     \/ row.source = "declared" /\ Decide(p, "update", Verbatim(row))

\* upsert of a declared edge; other evidence than before makes a new version.
ReadToDeclare(p) ==
  /\ pc[p] = "read" /\ kind[p] = "declare"
  /\ \/ row = NoRow /\ Decide(p, "insert", Declared(row))
     \/ row # NoRow /\ Decide(p, "update", Declared(row))
     \/ row.source = "declared" /\ Nothing(p)

\* reconcile, step 4: an edge read as open is closed.
ReadToRemove(p) ==
  /\ pc[p] = "read" /\ kind[p] = "remove"
  /\ IF row = NoRow THEN Nothing(p) ELSE Decide(p, "update", NoRow)

\* Mutated ReadToSweep: the same sweep decays an edge again and again.
ReadToSweepAgain(p) ==
  /\ pc[p] = "read" /\ kind[p] = "sweep"
  /\ LET age  == now[p] - row.seen
         conf == Decayed(row.conf, age)
     IN \/ (row.source # "inferred" \/ row.seen = Never \/ age <= Window) /\ Nothing(p)
        \/ row.source = "inferred" /\ row.seen # Never /\ age > Window /\
             Decide(p, "update", Aged(row, conf, now[p]))

\* age_inferred_edges for this edge: which of its outcomes.
ReadToSweep(p) ==
  /\ pc[p] = "read" /\ kind[p] = "sweep"
  /\ LET age  == now[p] - row.seen
         conf == Decayed(row.conf, age)
         ages == row.source = "inferred" /\ row.seen # Never
     IN \/ ages /\ age > TTL /\ Decide(p, "update", NoRow)
        \/ /\ ages /\ Window < age /\ age <= TTL
           /\ now[p] \notin row.decays /\ conf < row.conf
           /\ Decide(p, "update", Aged(row, conf, now[p]))
        \/ /\ ~ages \/ age <= Window
              \/ (age <= TTL /\ (now[p] \in row.decays \/ conf >= row.conf))
           /\ Nothing(p)

-----------------------------------------------------------------------------
(* Writing.                                                                *)

\* A version is closed by its id, an edge that is to stay closed by its
\* natural identity.
Found(p) == row # NoRow /\ (new[p] = NoRow \/ row.id = new[p].id)

StartUpdate(p) ==
  /\ pc[p] = "update"
  /\ hit' = [hit EXCEPT ![p] = IF Found(p) THEN row.no ELSE 0]
  /\ pc' = [pc EXCEPT ![p] = "locking"]
  /\ UNCHANGED <<clock, row, nextNo, kind, now, new, lock, inserted, begun,
                 since, overlapped>>

LockedByOther(p) == \E q \in Procs \ {p} : lock[q]

\* The row found is closed, unless someone closed it while p waited for it.
FinishUpdate(p) ==
  /\ pc[p] = "locking"
  /\ hit[p] = row.no => ~LockedByOther(p)
  /\ lock' = [lock EXCEPT ![p] = hit[p] # 0 /\ hit[p] = row.no]
  /\ pc' = [pc EXCEPT ![p] = IF new[p] = NoRow THEN "ready" ELSE "insert"]
  /\ UNCHANGED <<clock, row, nextNo, kind, now, new, hit, inserted, begun,
                 since, overlapped>>

Reset(p) ==
  /\ pc' = [pc EXCEPT ![p] = "idle"]
  /\ kind' = [kind EXCEPT ![p] = "observe"]
  /\ now' = [now EXCEPT ![p] = 0]
  /\ new' = [new EXCEPT ![p] = NoRow]
  /\ hit' = [hit EXCEPT ![p] = 0]
  /\ lock' = [lock EXCEPT ![p] = FALSE]
  /\ inserted' = [inserted EXCEPT ![p] = FALSE]

\* edges_current_identity: the INSERT waits for whoever is about to close or
\* to insert an open version, and fails if one stays.
Insert(p) ==
  /\ pc[p] = "insert"
  /\ ~LockedByOther(p) /\ \A q \in Procs \ {p} : ~inserted[q]
  /\ IF row # NoRow /\ ~lock[p]
     THEN Reset(p)
     ELSE /\ inserted' = [inserted EXCEPT ![p] = TRUE]
          /\ pc' = [pc EXCEPT ![p] = "ready"]
          /\ UNCHANGED <<kind, now, new, hit, lock>>
  /\ UNCHANGED <<clock, row, nextNo, begun, since, overlapped>>

Commit(p) ==
  /\ pc[p] = "ready"
  /\ row' = IF inserted[p] THEN new[p] ELSE IF lock[p] THEN NoRow ELSE row
  /\ since' = IF ~inserted[p] \/ kind[p] = "sweep" THEN since
              ELSE IF kind[p] = "declare" THEN 0
              ELSE IF row = NoRow THEN 1 ELSE since + 1
  /\ Reset(p)
  /\ UNCHANGED <<clock, nextNo, begun, overlapped>>

Rollback(p) ==
  /\ pc[p] # "idle"
  /\ Reset(p)
  /\ UNCHANGED <<clock, row, nextNo, begun, since, overlapped>>

EdgeStep(p) ==
  \/ \E k \in Kinds : BeginOnEdge(p, k)
  \/ \E at \in Days : ReadToObserve(p, at)
  \/ ReadToDeclare(p) \/ ReadToRemove(p) \/ ReadToSweep(p)
  \/ StartUpdate(p) \/ FinishUpdate(p) \/ Insert(p) \/ Commit(p) \/ Rollback(p)

EdgeNext == Tick \/ \E p \in Procs : EdgeStep(p)

EdgeSpec == EdgeInit /\ [][EdgeNext]_edgeVars

-----------------------------------------------------------------------------
(* Properties.                                                             *)

\* However the sweeps and the batches interleave, an inferred edge is trusted
\* no more than its observation count earns, and never below the floor.
ConfidenceIsEarned ==
  row.source = "inferred" =>
    Floor <= row.conf /\ row.conf <= ConfidenceFor(AtLeast(row.count, 1))

\* "The count itself always reflects the true number of observations": true
\* as long as transactions do not overlap.
CountIsExact ==
  (~overlapped /\ row.source = "inferred" /\ row.count > 0) => row.count = since

Sweeps(p) == kind[p] = "sweep" /\ pc[p] = "ready" /\ pc'[p] = "idle" /\ row' # row

\* Without overlapping, a sweep closes only an edge past its TTL, lowers the
\* confidence of one past its window, once per sweep, and never a declared one.
SerialSweep ==
  [][\A p \in Procs : (Sweeps(p) /\ ~overlapped) =>
       /\ row.source = "inferred" /\ row.seen # Never
       /\ IF row' = NoRow
          THEN now[p] - row.seen > TTL
          ELSE /\ now[p] - row.seen > Window /\ row'.conf < row.conf
               /\ now[p] \notin row.decays
               /\ row'.count = row.count /\ row'.seen = row.seen]_edgeVars

=============================================================================
