--------------------------- MODULE HistoryRetention ---------------------------
(***************************************************************************)
(* Retention of history (retention.py): sweep_history replaces old closed  *)
(* versions of an entity by one history_aggregates row, while discovery    *)
(* goes on writing versions and other sweeps may run; and what the change  *)
(* feed (change_feed.py) and as-of queries say before and after.           *)
(*                                                                         *)
(* A sweep reads all versions, computes in memory and then writes; its     *)
(* writes appear at COMMIT.  Two sweeps that delete the same rows wait for *)
(* each other, so that the order of their COMMITs is the order of their    *)
(* DELETEs.  The writers are one step each: what happens when they overlap *)
(* among themselves is the subject of BitemporalStore.  `cis` and `edges`  *)
(* are swept by the same code; one table is modelled.                      *)
(***************************************************************************)
EXTENDS Integers, FiniteSets

CONSTANTS Sweeps,      \* sweeps, each of which runs once
          Retentions,  \* values of retain_closed_days that a policy may take
          MaxClock,    \* bound: the last instant
          MaxId        \* bound: entities

\* CHECK (retain_closed_days > 0) of 0025_history_retention.sql.
ASSUME RetentionsAssumption == Retentions \subseteq Nat \ {0}
ASSUME BoundsAssumption == MaxClock \in Nat /\ MaxId \in Nat

Open  == -1                         \* valid_to IS NULL
Times == 0..MaxClock
Ids   == 0..(MaxId - 1)
Version == [id: Ids, from: Times, to: Times \cup {Open}]
NoPolicy == 0                       \* no policy, or a disabled one

\* A row of history_aggregates, with the sweep that wrote it.
Aggregate == [sweep: Sweeps, id: Ids, count: Nat, first: Times, last: Times]

VARIABLES
  clock,
  nextId,      \* the next fresh uuid
  versions,    \* the rows of the table
  aggregates,  \* the rows of history_aggregates
  policy,      \* retain_closed_days of the enabled policy, or NoPolicy
  pc,          \* pc[s]: where sweep s stands
  horizon,     \* horizon[s]: its eligibility horizon
  snapshot,    \* snapshot[s]: the versions it read
  deleted,     \* history: [sweep, version] of the rows deleted
  overlapped   \* history: two sweeps have been open at the same time

vars == <<clock, nextId, versions, aggregates, policy, pc, horizon, snapshot,
          deleted, overlapped>>

TypeOK ==
  /\ clock \in Times /\ nextId \in 0..MaxId
  /\ versions \in SUBSET Version
  /\ aggregates \in SUBSET Aggregate
  /\ policy \in Retentions \cup {NoPolicy}
  /\ pc \in [Sweeps -> {"idle", "select", "write", "over"}]
  /\ horizon \in [Sweeps -> Int]
  /\ snapshot \in [Sweeps -> SUBSET Version]
  /\ deleted \in SUBSET (Sweeps \X Version)
  /\ overlapped \in BOOLEAN

Init ==
  /\ clock = 0 /\ nextId = 0 /\ versions = {} /\ aggregates = {}
  /\ policy = NoPolicy
  /\ pc = [s \in Sweeps |-> "idle"]
  /\ horizon = [s \in Sweeps |-> 0]
  /\ snapshot = [s \in Sweeps |-> {}]
  /\ deleted = {} /\ overlapped = FALSE

sweepVars == <<pc, horizon, snapshot, deleted, overlapped>>
Running   == {s \in Sweeps : pc[s] \in {"select", "write"}}

-----------------------------------------------------------------------------
(* The writers: transactions of discovery, one after the other.            *)

Tick == /\ clock < MaxClock /\ clock' = clock + 1
        /\ UNCHANGED <<nextId, versions, aggregates, policy, sweepVars>>

Opened(i) == [id |-> i, from |-> clock, to |-> Open]

\* Mutated Closed: the version is still valid when it is closed.
ClosedLate(v) == [v EXCEPT !.to = clock + 1]

Closed(v) == [v EXCEPT !.to = clock]

Create == /\ nextId < MaxId /\ nextId' = nextId + 1
          /\ versions' = versions \cup {Opened(nextId)}
          /\ UNCHANGED <<clock, aggregates, policy, sweepVars>>

\* (id, valid_from) is the primary key: no second version in the same instant.
Change(v) == /\ v.to = Open /\ v.from # clock
             /\ versions' = (versions \ {v}) \cup {Closed(v), Opened(v.id)}
             /\ UNCHANGED <<clock, nextId, aggregates, policy, sweepVars>>

Retire(v) == /\ v.to = Open
             /\ versions' = (versions \ {v}) \cup {Closed(v)}
             /\ UNCHANGED <<clock, nextId, aggregates, policy, sweepVars>>

\* upsert_policy.
SetPolicy(d) == /\ d # policy /\ policy' = d
                /\ UNCHANGED <<clock, nextId, versions, aggregates, sweepVars>>

-----------------------------------------------------------------------------
(* sweep_history and _sweep_kind.                                          *)

ClosedOf(S, i) == {v \in S : v.id = i /\ v.to # Open}

\* The boundary row of an entity: its most recent closed version.
IsBoundary(S, v) == \A w \in ClosedOf(S, v.id) : w.from <= v.from

\* Mutated Collapsible: the boundary row goes too.
CollapsibleAll(S, h) == {v \in S : v.to # Open /\ v.to < h}

\* Mutated Collapsible: the horizon itself is included.
CollapsibleAt(S, h) == {v \in S : v.to # Open /\ v.to <= h /\ ~IsBoundary(S, v)}

\* Mutated Collapsible: judged by the start of the version.
CollapsibleStarted(S, h) == {v \in S : v.to # Open /\ v.from < h /\ ~IsBoundary(S, v)}

Collapsible(S, h) == {v \in S : v.to # Open /\ v.to < h /\ ~IsBoundary(S, v)}

MinOf(T) == CHOOSE x \in T : \A y \in T : x <= y
MaxOf(T) == CHOOSE x \in T : \A y \in T : y <= x

\* The aggregate of the versions C of entity i.
Rollup(s, i, C) ==
  [sweep |-> s, id |-> i, count |-> Cardinality(C),
   first |-> MinOf({v.from : v \in C}), last |-> MaxOf({v.to : v \in C})]

\* Without an enabled policy the sweep does nothing.
Begin(s) ==
  /\ pc[s] = "idle" /\ policy # NoPolicy
  /\ pc' = [pc EXCEPT ![s] = "select"]
  /\ horizon' = [horizon EXCEPT ![s] = clock - policy]
  /\ overlapped' = (overlapped \/ Running # {})
  /\ UNCHANGED <<clock, nextId, versions, aggregates, policy, snapshot, deleted>>

Select(s) ==
  /\ pc[s] = "select"
  /\ pc' = [pc EXCEPT ![s] = "write"]
  /\ snapshot' = [snapshot EXCEPT ![s] = versions]
  /\ UNCHANGED <<clock, nextId, versions, aggregates, policy, horizon, deleted,
                 overlapped>>

\* The variables of sweep_history are gone when it returns.
Forget(s) == /\ snapshot' = [snapshot EXCEPT ![s] = {}]
             /\ horizon' = [horizon EXCEPT ![s] = 0]

\* The rows that DELETE ... WHERE id = .. AND valid_to IS NOT NULL AND
\* valid_from = ANY(..) finds.
Hit(s) == {v \in versions : /\ v.to # Open
                            /\ \E c \in Collapsible(snapshot[s], horizon[s]) :
                                 v.id = c.id /\ v.from = c.from}

\* Mutated Finish: one aggregate per entity, whose first sweep it keeps.
FinishOnce(s) ==
  /\ pc[s] = "write"
  /\ pc' = [pc EXCEPT ![s] = "over"]
  /\ versions' = versions \ Hit(s)
  /\ LET C(i) == {v \in Collapsible(snapshot[s], horizon[s]) : v.id = i}
     IN aggregates' = aggregates \cup
          {Rollup(s, i, C(i)) : i \in {j \in Ids : C(j) # {} /\
             ~\E a \in aggregates : a.id = j}}
  /\ deleted' = deleted \cup ({s} \X Hit(s))
  /\ Forget(s)
  /\ UNCHANGED <<clock, nextId, policy, overlapped>>

\* For every entity the INSERT of the aggregate and the DELETE; then COMMIT.
Finish(s) ==
  /\ pc[s] = "write"
  /\ pc' = [pc EXCEPT ![s] = "over"]
  /\ versions' = versions \ Hit(s)
  /\ LET C(i) == {v \in Collapsible(snapshot[s], horizon[s]) : v.id = i}
     IN aggregates' = aggregates \cup
          {Rollup(s, i, C(i)) : i \in {j \in Ids : C(j) # {}}}
  /\ deleted' = deleted \cup ({s} \X Hit(s))
  /\ Forget(s)
  /\ UNCHANGED <<clock, nextId, policy, overlapped>>

\* Anything raised before COMMIT rolls the whole sweep back.
Rollback(s) ==
  /\ pc[s] \in {"select", "write"}
  /\ pc' = [pc EXCEPT ![s] = "over"]
  /\ Forget(s)
  /\ UNCHANGED <<clock, nextId, versions, aggregates, policy, deleted, overlapped>>

Next ==
  \/ Tick \/ Create
  \/ \E v \in versions : Change(v) \/ Retire(v)
  \/ \E d \in Retentions \cup {NoPolicy} : SetPolicy(d)
  \/ \E s \in Sweeps : Begin(s) \/ Select(s) \/ Finish(s) \/ Rollback(s)

Spec == Init /\ [][Next]_vars

-----------------------------------------------------------------------------
(* What readers see.                                                       *)

\* CIRepository.as_of.
AsOf(S, T) == {<<v.id, v.from>> : v \in {w \in S : w.from <= T /\
                                                  (w.to = Open \/ w.to > T)}}

\* change_feed, the events from instant T on: a version that starts where
\* another ends is an update, one that ends where none starts a removal.
Feed(S, T) ==
  {[kind |-> IF \E w \in S : w.id = v.id /\ w.to = v.from THEN "updated" ELSE "created",
    id |-> v.id, at |-> v.from] : v \in {w \in S : w.from >= T}}
  \cup
  {[kind |-> "removed", id |-> v.id, at |-> v.to] :
     v \in {w \in S : w.to # Open /\ w.to >= T /\
                      ~\E x \in S : x.id = w.id /\ x.from = w.to}}

-----------------------------------------------------------------------------
(* Properties.                                                             *)

Commits(s) == pc[s] = "write" /\ pc'[s] = "over"

\* "Current-state rows are NEVER touched", nor the most recent closed version of
\* an entity, even one that was closed after the sweep had read the table.
KeepsBoundary ==
  \A s \in Sweeps : Commits(s) =>
    \A v \in versions : (v.to = Open \/ IsBoundary(versions, v)) => v \in versions'

\* No step breaks KeepsBoundary (retention.py, _sweep_kind).
BoundaryStays == [][KeepsBoundary]_vars

\* As-of queries from the horizon on have the same answer after the sweep.
KeepsRecentPast ==
  \A s \in Sweeps : Commits(s) =>
    \A T \in Times : T >= horizon[s] => AsOf(versions', T) = AsOf(versions, T)

\* No step breaks KeepsRecentPast (retention.py against repositories.py, as_of).
RecentPastStays == [][KeepsRecentPast]_vars

\* The change feed from the horizon on is the same after the sweep.
KeepsRecentFeed ==
  \A s \in Sweeps : Commits(s) =>
    Feed(versions', horizon[s]) = Feed(versions, horizon[s])

\* No step breaks KeepsRecentFeed (retention.py against change_feed.py).
RecentFeedStays == [][KeepsRecentFeed]_vars

\* The aggregates account for every deleted version, once each as long as
\* sweeps do not overlap.
DeletedIsCounted ==
  \A d \in deleted : \E a \in aggregates :
    /\ a.sweep = d[1] /\ a.id = d[2].id
    /\ a.first <= d[2].from /\ d[2].to <= a.last
    /\ LET mine == {e \in deleted : e[1] = a.sweep /\ e[2].id = a.id}
       IN IF overlapped THEN Cardinality(mine) <= a.count
                        ELSE Cardinality(mine) = a.count
=============================================================================
