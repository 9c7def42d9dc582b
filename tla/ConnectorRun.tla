----------------------------- MODULE ConnectorRun ----------------------------
(***************************************************************************)
(* The runs of one connector: discover_and_reconcile (run.py) and          *)
(* apply_event_delta (events.py, apply_delta), the connectors registry     *)
(* (connectors.py), connector_runs (connector_health.py) and the freshness *)
(* of the source (freshness.py).                                           *)
(*                                                                         *)
(* A discovery is three things that can fail apart: a transaction that     *)
(* registers the connector and records the run, the provider calls, and    *)
(* the transaction that lands the facts and marks the run 'ok'; on failure *)
(* one more transaction marks it 'error'.  Runs of a connector may         *)
(* overlap.  What landing does to the inventory is Reconcile's subject.    *)
(***************************************************************************)
EXTENDS Integers, FiniteSets

CONSTANTS Runs,       \* the runs, each of which is started at most once
          Interval,   \* freshness_slos.expected_interval_seconds of the source
          MaxClock    \* bound: the last instant

ASSUME BoundsAssumption == Interval \in Nat /\ MaxClock \in Nat

Times == 0..MaxClock
NoTime == -1

\* A row of connector_runs; status "none" stands for no row.
NoRow == [status |-> "none", started |-> NoTime, finished |-> NoTime]
Row   == [status: {"partial"}, started: Times, finished: {NoTime}]
         \cup [status: {"ok", "error"}, started: Times, finished: Times]

Lookup == {"lookup", "register", "start"}       \* in the first transaction
PCs == Lookup \cup {"idle", "discover", "land", "failing", "over", "crashed"}

VARIABLES
  clock,
  pc,           \* pc[r]: where the process of run r stands
  kind,         \* kind[r]: "discovery" or "delta"
  now,          \* now[r]: when its current transaction began
  holder,       \* the runs whose uncommitted transaction inserted the connector
  connectors,   \* the committed rows of the connector, by the run that inserted it
  row,          \* row[r]: the committed row of r
  landed,       \* the runs whose facts are in the inventory
  silent        \* history: runs whose failure could not be recorded

vars == <<clock, pc, kind, now, holder, connectors, row, landed, silent>>

TypeOK ==
  /\ clock \in Times
  /\ pc \in [Runs -> PCs]
  /\ kind \in [Runs -> {"discovery", "delta"}]
  /\ now \in [Runs -> Times]
  /\ holder \subseteq Runs /\ connectors \subseteq Runs
  /\ row \in [Runs -> Row \cup {NoRow}]
  /\ landed \subseteq Runs /\ silent \subseteq Runs

Init ==
  /\ clock = 0
  /\ pc = [r \in Runs |-> "idle"]
  /\ kind = [r \in Runs |-> "discovery"]
  /\ now = [r \in Runs |-> 0]
  /\ holder = {} /\ connectors = {}
  /\ row = [r \in Runs |-> NoRow]
  /\ landed = {} /\ silent = {}

Goto(r, l) == pc' = [pc EXCEPT ![r] = l]
BeginTx(r) == now' = [now EXCEPT ![r] = clock]

-----------------------------------------------------------------------------
Tick == /\ clock < MaxClock /\ clock' = clock + 1
        /\ UNCHANGED <<pc, kind, now, holder, connectors, row, landed, silent>>

Begin(r, k) ==
  /\ pc[r] = "idle"
  /\ kind' = [kind EXCEPT ![r] = k]
  /\ BeginTx(r) /\ Goto(r, "lookup")
  /\ UNCHANGED <<clock, holder, connectors, row, landed, silent>>

\* ConnectorRegistry.register, its SELECT.
LookUp(r) ==
  /\ pc[r] = "lookup"
  /\ Goto(r, IF connectors # {} THEN "start" ELSE "register")
  /\ UNCHANGED <<clock, kind, now, holder, connectors, row, landed, silent>>

\* Mutated Register: without the unique constraint of the table.
RegisterAnyway(r) ==
  /\ pc[r] = "register"
  /\ Goto(r, "start") /\ holder' = holder \cup {r}
  /\ UNCHANGED <<clock, kind, now, connectors, row, landed, silent>>

\* Its INSERT waits for a concurrent one of the same (type, display_name), and
\* fails if that one commits: the caller gets the exception, no run is recorded.
Register(r) ==
  /\ pc[r] = "register" /\ holder = {}
  /\ IF connectors # {}
     THEN Goto(r, "over") /\ UNCHANGED holder
     ELSE Goto(r, "start") /\ holder' = {r}
  /\ UNCHANGED <<clock, kind, now, connectors, row, landed, silent>>

\* ConnectorRunRepository.start.
PartialRow(at) == [status |-> "partial", started |-> at, finished |-> NoTime]

\* Mutated CommitStart: the run is recorded only when it lands.
CommitStartUnrecorded(r) ==
  /\ pc[r] = "start"
  /\ connectors' = connectors \cup (holder \cap {r})
  /\ holder' = holder \ {r}
  /\ Goto(r, IF kind[r] = "discovery" THEN "discover" ELSE "land")
  /\ UNCHANGED <<clock, kind, now, row, landed, silent>>

\* COMMIT of the first transaction, which for a discovery records the run too.
CommitStart(r) ==
  /\ pc[r] = "start"
  /\ connectors' = connectors \cup (holder \cap {r})
  /\ holder' = holder \ {r}
  /\ IF kind[r] = "discovery"
     THEN /\ row' = [row EXCEPT ![r] = PartialRow(now[r])]
          /\ Goto(r, "discover") /\ UNCHANGED now
     ELSE /\ Goto(r, "land") /\ BeginTx(r) /\ UNCHANGED row
  /\ UNCHANGED <<clock, kind, landed, silent>>

\* connector.discover() ends, and the landing transaction begins.
Discover(r) ==
  /\ pc[r] = "discover"
  /\ BeginTx(r) /\ Goto(r, "land")
  /\ UNCHANGED <<clock, kind, holder, connectors, row, landed, silent>>

\* finish_ok and finish_error: SET status, finished_at.
Finished(x, status, at) ==
  [status |-> status, started |-> x.started, finished |-> at]

\* Mutated Landed: finish_ok in a transaction before the facts'.
LandedEarly(r) ==
  /\ row' = [row EXCEPT ![r] = Finished(@, "ok", now[r])]
  /\ UNCHANGED landed

\* COMMIT of the landing transaction: the facts and 'ok' together; a delta's
\* row was started by the same transaction.
Landed(r) ==
  /\ LET begun == IF kind[r] = "delta" THEN PartialRow(now[r]) ELSE row[r]
     IN row' = [row EXCEPT ![r] = Finished(begun, "ok", now[r])]
  /\ landed' = landed \cup {r}

Land(r) ==
  /\ pc[r] = "land"
  /\ Landed(r) /\ Goto(r, "over")
  /\ UNCHANGED <<clock, kind, now, holder, connectors, silent>>

\* The COMMIT is executed but its confirmation is lost.
LandUnconfirmed(r) ==
  /\ pc[r] = "land"
  /\ Landed(r) /\ Goto(r, IF kind[r] = "discovery" THEN "failing" ELSE "over")
  /\ UNCHANGED <<clock, kind, now, holder, connectors, silent>>

\* An exception: in the first transaction and in a delta it just propagates,
\* from the provider calls on it is recorded.
Raise(r) ==
  /\ pc[r] \in Lookup \cup {"discover", "land"}
  /\ holder' = holder \ {r}
  /\ Goto(r, IF pc[r] \in {"discover", "land"} /\ kind[r] = "discovery"
             THEN "failing" ELSE "over")
  /\ UNCHANGED <<clock, kind, now, connectors, row, landed, silent>>

\* Mutated RecordError: the failure is only raised.
RecordNothing(r) ==
  /\ pc[r] = "failing"
  /\ Goto(r, "over")
  /\ UNCHANGED <<clock, kind, now, holder, connectors, row, landed, silent>>

\* finish_error in a session of its own, whatever the row says by now.
RecordError(r) ==
  /\ pc[r] = "failing"
  /\ row' = [row EXCEPT ![r] = Finished(@, "error", clock)]
  /\ Goto(r, "over")
  /\ UNCHANGED <<clock, kind, now, holder, connectors, landed, silent>>

\* "finish_error failing must not mask the original exception."
RecordErrorFails(r) ==
  /\ pc[r] = "failing"
  /\ silent' = silent \cup {r}
  /\ Goto(r, "over")
  /\ UNCHANGED <<clock, kind, now, holder, connectors, row, landed>>

Crash(r) ==
  /\ pc[r] \notin {"idle", "over", "crashed"}
  /\ holder' = holder \ {r}
  /\ Goto(r, "crashed")
  /\ UNCHANGED <<clock, kind, now, connectors, row, landed, silent>>

\* What the process of r does next when nothing goes wrong outside of it.
Proceed(r) == LookUp(r) \/ Register(r) \/ CommitStart(r) \/ Discover(r) \/ Land(r)
              \/ Raise(r) \/ RecordError(r) \/ RecordErrorFails(r)

Next ==
  \/ Tick
  \/ \E r \in Runs : \/ \E k \in {"discovery", "delta"} : Begin(r, k)
                     \/ Proceed(r) \/ LandUnconfirmed(r) \/ Crash(r)

Spec == Init /\ [][Next]_vars

\* A process that was started goes on until it ends or crashes.
FairSpec == Spec /\ \A r \in Runs : WF_vars(Proceed(r))

-----------------------------------------------------------------------------
(* FreshnessRepository.evaluate, for the SLO of this source.               *)

\* DISTINCT ON (source) ... ORDER BY started_at DESC: any of the latest.
Recorded == {r \in Runs : row[r].status # "none"}
Latest   == {r \in Recorded : \A q \in Recorded : row[q].started <= row[r].started}

\* Mutated Fresh: by the last success, not by the last run.
FreshBySuccess == \E r \in Recorded : /\ row[r].status = "ok"
                                      /\ clock - row[r].finished <= Interval

Fresh == \E r \in Latest : /\ row[r].status = "ok"
                           /\ clock - row[r].finished <= Interval

-----------------------------------------------------------------------------
(* Properties.                                                             *)

\* The promise of RunLedger: 'ok' and the facts come together, and so on.
Ledger == INSTANCE RunLedger WITH status <- [r \in Runs |-> row[r].status]
ImplementsLedger == Ledger!Spec

\* A connector has one row however many of its first runs race.
OneConnector == Cardinality(connectors) <= 1

\* "A failure in discovery still leaves a traceable run": a discovery that got
\* as far as the provider has its row, whatever happens to it afterwards.
AttemptsAreTraced ==
  \A r \in Runs : (kind[r] = "discovery" /\
                   pc[r] \in {"discover", "land", "failing"}) => row[r].status # "none"

\* A fresh source was heard of: its latest run landed within the interval, and
\* no run that failed, crashed or still runs was started after it.
FreshIsRecent ==
  Fresh => \E r \in landed :
    /\ clock - row[r].finished <= Interval
    /\ \A q \in Runs : (row[q].status \in {"partial", "error"} /\ q # r)
                         => row[q].started <= row[r].started

\* A run that started is eventually 'ok' or 'error', unless its process dies or
\* even the error cannot be recorded.
RunsFinish ==
  \A r \in Runs : (row[r].status = "partial") ~>
    (row[r].status \in {"ok", "error"} \/ pc[r] = "crashed" \/ r \in silent)

=============================================================================
