-------------------------- MODULE ConnectorRunProofs --------------------------
(***************************************************************************)
(* Proofs about ConnectorRun for any number of runs, and that it           *)
(* implements RunLedger.                                                   *)
(***************************************************************************)
EXTENDS ConnectorRun, FiniteSetTheorems, TLAPS

\* What the status of a run is, given where its process stands.
PhaseInv ==
  \A r \in Runs :
    /\ pc[r] \in Lookup \cup {"idle"} => row[r].status = "none"
    /\ pc[r] = "discover" => row[r].status = "partial" /\ kind[r] = "discovery"
    /\ pc[r] = "land" =>
         row[r].status = IF kind[r] = "discovery" THEN "partial" ELSE "none"
    /\ pc[r] = "failing" => row[r].status \in {"partial", "ok"}

\* A run that says 'ok' has landed.
OkLanded == \A r \in Runs : row[r].status = "ok" => r \in landed

\* At most one run has inserted the connector, committed or not.
OneInsert == \A p, q \in holder \cup connectors : p = q

-----------------------------------------------------------------------------
(* Types.                                                                  *)

LEMMA RowTypes ==
  /\ NoRow.status = "none"
  /\ \A x \in Row : /\ x.status \in {"partial", "ok", "error"}
                    /\ x.started \in Times
  /\ \A s, f \in Times, st \in {"ok", "error"} :
       [status |-> st, finished |-> f, started |-> s] \in Row
  /\ \A s \in Times : [status |-> "partial", started |-> s, finished |-> NoTime] \in Row
BY DEF Row, NoRow

\* A row that was recorded can be finished.
LEMMA FinishType ==
  ASSUME NEW x \in Row \cup {NoRow}, x.status \in {"partial", "ok"}, NEW f \in Times,
         NEW st \in {"ok", "error"}
  PROVE  Finished(x, st, f) \in Row /\ Finished(x, st, f).status = st
<1>1. x \in Row
  BY RowTypes
<1> QED
  BY <1>1, RowTypes DEF Finished

-----------------------------------------------------------------------------
(* The invariant.  Types and phases hold each other up: a failed run can   *)
(* only be finished because its phase says that it was recorded.           *)

Inv == TypeOK /\ PhaseInv /\ OkLanded /\ OneInsert

LEMMA InvInit == Init => Inv
<1> SUFFICES ASSUME Init PROVE Inv
  OBVIOUS
<1>1. 0 \in Times
  BY BoundsAssumption DEF Times
<1>2. TypeOK
  BY <1>1 DEF Init, TypeOK, PCs, Lookup
<1>3. PhaseInv /\ OkLanded
  BY RowTypes DEF Init, PhaseInv, OkLanded, Lookup
<1>4. OneInsert
  BY DEF Init, OneInsert
<1> QED
  BY <1>2, <1>3, <1>4 DEF Inv

\* A step of r that keeps the rows and the facts, and moves r to a phase its
\* row fits.
LEMMA MoveOnly ==
  ASSUME Inv, NEW r \in Runs, NEW l \in PCs, Goto(r, l),
         UNCHANGED <<kind, row, landed>>,
         l \in {"register", "start"} => pc[r] \in Lookup,
         l \in {"idle", "lookup", "discover"} => FALSE,
         l = "land" => pc[r] = "discover" \/ (pc[r] = "start" /\ kind[r] = "delta"),
         l = "failing" => pc[r] \in {"discover", "land"} /\ kind[r] = "discovery"
  PROVE  /\ PhaseInv' /\ OkLanded'
         /\ pc' \in [Runs -> PCs]
<1>1. pc' \in [Runs -> PCs]
  BY DEF Inv, TypeOK, Goto
<1>2. OkLanded'
  BY DEF Inv, OkLanded
<1>3. PhaseInv'
  <2> SUFFICES ASSUME NEW q \in Runs
               PROVE  /\ pc'[q] \in Lookup \cup {"idle"} => row[q].status = "none"
                      /\ pc'[q] = "discover" =>
                           row[q].status = "partial" /\ kind[q] = "discovery"
                      /\ pc'[q] = "land" => row[q].status =
                           IF kind[q] = "discovery" THEN "partial" ELSE "none"
                      /\ pc'[q] = "failing" => row[q].status \in {"partial", "ok"}
    BY DEF PhaseInv
  <2>1. CASE q # r
    BY <2>1 DEF Inv, TypeOK, PhaseInv, Goto
  <2>2. CASE q = r
    BY <2>2 DEF Inv, TypeOK, PhaseInv, Goto, Lookup
  <2> QED
    BY <2>1, <2>2
<1> QED
  BY <1>1, <1>2, <1>3

\* A step of r that changes its row to x, which fits the phase r moves to.
LEMMA WriteRow ==
  ASSUME Inv, NEW r \in Runs, NEW l \in PCs, NEW x \in Row,
         Goto(r, l), UNCHANGED kind,
         row' = [row EXCEPT ![r] = x],
         l \notin Lookup \cup {"idle", "land"},
         l = "discover" => x.status = "partial" /\ kind[r] = "discovery",
         l = "failing" => x.status = "ok",
         landed \subseteq landed',
         x.status = "ok" => r \in landed'
  PROVE  /\ PhaseInv' /\ OkLanded'
         /\ pc' \in [Runs -> PCs] /\ row' \in [Runs -> Row \cup {NoRow}]
<1>1. pc' \in [Runs -> PCs] /\ row' \in [Runs -> Row \cup {NoRow}]
  BY DEF Inv, TypeOK, Goto
<1>2. OkLanded'
  <2> SUFFICES ASSUME NEW q \in Runs, row'[q].status = "ok" PROVE q \in landed'
    BY DEF OkLanded
  <2> QED
    BY DEF Inv, TypeOK, OkLanded
<1>3. PhaseInv'
  <2> SUFFICES ASSUME NEW q \in Runs
               PROVE  /\ pc'[q] \in Lookup \cup {"idle"} => row'[q].status = "none"
                      /\ pc'[q] = "discover" =>
                           row'[q].status = "partial" /\ kind[q] = "discovery"
                      /\ pc'[q] = "land" => row'[q].status =
                           IF kind[q] = "discovery" THEN "partial" ELSE "none"
                      /\ pc'[q] = "failing" => row'[q].status \in {"partial", "ok"}
    BY DEF PhaseInv
  <2>1. CASE q # r
    BY <2>1 DEF Inv, TypeOK, PhaseInv, Goto
  <2>2. CASE q = r
    BY <2>2 DEF Inv, TypeOK, Goto
  <2> QED
    BY <2>1, <2>2
<1> QED
  BY <1>1, <1>2, <1>3

LEMMA InvNext == Inv /\ [Next]_vars => Inv'
<1> SUFFICES ASSUME Inv, [Next]_vars PROVE Inv'
  OBVIOUS
<1> USE DEF Inv
<1>1. CASE UNCHANGED vars
  BY <1>1 DEF vars, TypeOK, PhaseInv, OkLanded, OneInsert
<1>2. CASE Tick
  <2>1. clock' \in Times
    BY <1>2, BoundsAssumption DEF Tick, TypeOK, Times
  <2> QED
    BY <1>2, <2>1 DEF Tick, TypeOK, PhaseInv, OkLanded, OneInsert
<1>3. ASSUME NEW r \in Runs, NEW k \in {"discovery", "delta"}, Begin(r, k)
      PROVE  Inv'
  <2>1. TypeOK'
    BY <1>3 DEF Begin, BeginTx, Goto, TypeOK, PCs, Lookup
  <2>2. PhaseInv'
    <3> SUFFICES ASSUME NEW q \in Runs
                 PROVE  /\ pc'[q] \in Lookup \cup {"idle"} => row[q].status = "none"
                        /\ pc'[q] = "discover" =>
                             row[q].status = "partial" /\ kind'[q] = "discovery"
                        /\ pc'[q] = "land" => row[q].status =
                             IF kind'[q] = "discovery" THEN "partial" ELSE "none"
                        /\ pc'[q] = "failing" => row[q].status \in {"partial", "ok"}
      BY <1>3 DEF PhaseInv, Begin
    <3>1. CASE q # r
      BY <1>3, <3>1 DEF Begin, Goto, TypeOK, PhaseInv
    <3>2. CASE q = r
      BY <1>3, <3>2 DEF Begin, Goto, TypeOK, PhaseInv, Lookup
    <3> QED
      BY <3>1, <3>2
  <2> QED
    BY <1>3, <2>1, <2>2 DEF Begin, OkLanded, OneInsert
<1>4. ASSUME NEW r \in Runs, LookUp(r)
      PROVE  Inv'
  <2> DEFINE l == IF connectors # {} THEN "start" ELSE "register"
  <2>1. l \in PCs /\ (l \in {"register", "start"} => pc[r] \in Lookup)
        /\ l \notin {"idle", "lookup", "discover"}
        /\ (l = "land" => pc[r] = "discover" \/ (pc[r] = "start" /\ kind[r] = "delta"))
        /\ (l = "failing" => pc[r] \in {"discover", "land"} /\ kind[r] = "discovery")
    BY <1>4 DEF LookUp, PCs, Lookup, PhaseInv
  <2>2. Inv /\ Goto(r, l) /\ UNCHANGED <<kind, row, landed>>
    BY <1>4 DEF LookUp
  <2>3. PhaseInv' /\ OkLanded' /\ pc' \in [Runs -> PCs]
    <3> HIDE DEF l, Inv
    <3> QED
      BY <2>1, <2>2, MoveOnly
  <2> QED
    BY <1>4, <2>3 DEF LookUp, BeginTx, TypeOK, OneInsert
<1>5. ASSUME NEW r \in Runs, Register(r)
      PROVE  Inv'
  <2> DEFINE l == IF connectors # {} THEN "over" ELSE "start"
  <2>1. l \in PCs /\ (l \in {"register", "start"} => pc[r] \in Lookup)
        /\ l \notin {"idle", "lookup", "discover"}
        /\ (l = "land" => pc[r] = "discover" \/ (pc[r] = "start" /\ kind[r] = "delta"))
        /\ (l = "failing" => pc[r] \in {"discover", "land"} /\ kind[r] = "discovery")
    BY <1>5 DEF Register, PCs, Lookup, PhaseInv
  <2>2. Inv /\ Goto(r, l) /\ UNCHANGED <<kind, row, landed>>
    BY <1>5 DEF Register
  <2>3. PhaseInv' /\ OkLanded' /\ pc' \in [Runs -> PCs]
    <3> HIDE DEF l, Inv
    <3> QED
      BY <2>1, <2>2, MoveOnly
  <2> QED
    BY <1>5, <2>3 DEF Register, BeginTx, TypeOK, OneInsert
<1>6. ASSUME NEW r \in Runs, Discover(r)
      PROVE  Inv'
  <2> DEFINE l == "land"
  <2>1. l \in PCs /\ (l \in {"register", "start"} => pc[r] \in Lookup)
        /\ l \notin {"idle", "lookup", "discover"}
        /\ (l = "land" => pc[r] = "discover" \/ (pc[r] = "start" /\ kind[r] = "delta"))
        /\ (l = "failing" => pc[r] \in {"discover", "land"} /\ kind[r] = "discovery")
    BY <1>6 DEF Discover, PCs, Lookup, PhaseInv
  <2>2. Inv /\ Goto(r, l) /\ UNCHANGED <<kind, row, landed>>
    BY <1>6 DEF Discover
  <2>3. PhaseInv' /\ OkLanded' /\ pc' \in [Runs -> PCs]
    <3> HIDE DEF l, Inv
    <3> QED
      BY <2>1, <2>2, MoveOnly
  <2> QED
    BY <1>6, <2>3 DEF Discover, BeginTx, TypeOK, OneInsert
<1>7. ASSUME NEW r \in Runs, Raise(r)
      PROVE  Inv'
  <2> DEFINE l == IF pc[r] \in {"discover", "land"} /\ kind[r] = "discovery"
                  THEN "failing" ELSE "over"
  <2>1. l \in PCs /\ (l \in {"register", "start"} => pc[r] \in Lookup)
        /\ l \notin {"idle", "lookup", "discover"}
        /\ (l = "land" => pc[r] = "discover" \/ (pc[r] = "start" /\ kind[r] = "delta"))
        /\ (l = "failing" => pc[r] \in {"discover", "land"} /\ kind[r] = "discovery")
    BY <1>7 DEF Raise, PCs, Lookup, PhaseInv
  <2>2. Inv /\ Goto(r, l) /\ UNCHANGED <<kind, row, landed>>
    BY <1>7 DEF Raise
  <2>3. PhaseInv' /\ OkLanded' /\ pc' \in [Runs -> PCs]
    <3> HIDE DEF l, Inv
    <3> QED
      BY <2>1, <2>2, MoveOnly
  <2> QED
    BY <1>7, <2>3 DEF Raise, BeginTx, TypeOK, OneInsert
<1>8. ASSUME NEW r \in Runs, RecordErrorFails(r)
      PROVE  Inv'
  <2> DEFINE l == "over"
  <2>1. l \in PCs /\ (l \in {"register", "start"} => pc[r] \in Lookup)
        /\ l \notin {"idle", "lookup", "discover"}
        /\ (l = "land" => pc[r] = "discover" \/ (pc[r] = "start" /\ kind[r] = "delta"))
        /\ (l = "failing" => pc[r] \in {"discover", "land"} /\ kind[r] = "discovery")
    BY <1>8 DEF RecordErrorFails, PCs, Lookup, PhaseInv
  <2>2. Inv /\ Goto(r, l) /\ UNCHANGED <<kind, row, landed>>
    BY <1>8 DEF RecordErrorFails
  <2>3. PhaseInv' /\ OkLanded' /\ pc' \in [Runs -> PCs]
    <3> HIDE DEF l, Inv
    <3> QED
      BY <2>1, <2>2, MoveOnly
  <2> QED
    BY <1>8, <2>3 DEF RecordErrorFails, BeginTx, TypeOK, OneInsert
<1>9. ASSUME NEW r \in Runs, Crash(r)
      PROVE  Inv'
  <2> DEFINE l == "crashed"
  <2>1. l \in PCs /\ (l \in {"register", "start"} => pc[r] \in Lookup)
        /\ l \notin {"idle", "lookup", "discover"}
        /\ (l = "land" => pc[r] = "discover" \/ (pc[r] = "start" /\ kind[r] = "delta"))
        /\ (l = "failing" => pc[r] \in {"discover", "land"} /\ kind[r] = "discovery")
    BY <1>9 DEF Crash, PCs, Lookup, PhaseInv
  <2>2. Inv /\ Goto(r, l) /\ UNCHANGED <<kind, row, landed>>
    BY <1>9 DEF Crash
  <2>3. PhaseInv' /\ OkLanded' /\ pc' \in [Runs -> PCs]
    <3> HIDE DEF l, Inv
    <3> QED
      BY <2>1, <2>2, MoveOnly
  <2> QED
    BY <1>9, <2>3 DEF Crash, BeginTx, TypeOK, OneInsert
<1>10. ASSUME NEW r \in Runs, Land(r)
      PROVE  Inv'
  <2> DEFINE l == "over"
             begun == IF kind[r] = "delta" THEN PartialRow(now[r]) ELSE row[r]
             x == Finished(begun, "ok", now[r])
  <2>1. x \in Row /\ x.status = "ok"
    <3>1. begun \in Row \cup {NoRow} /\ begun.status \in {"partial", "ok"}
      BY <1>10, RowTypes DEF Land, TypeOK, PhaseInv, PartialRow
    <3> QED
      BY <3>1, FinishType DEF TypeOK
  <2>2. l \in PCs /\ l \notin Lookup \cup {"idle", "land", "discover"}
    BY DEF PCs, Lookup
  <2>3. /\ Inv /\ Goto(r, l) /\ UNCHANGED kind
        /\ row' = [row EXCEPT ![r] = x] /\ landed' = landed \cup {r}
    BY <1>10 DEF Land, Landed
  <2>4. /\ PhaseInv' /\ OkLanded'
        /\ pc' \in [Runs -> PCs] /\ row' \in [Runs -> Row \cup {NoRow}]
    <3> HIDE DEF l, x, Inv
    <3> QED
      BY <2>1, <2>2, <2>3, WriteRow
  <2> QED
    BY <1>10, <2>3, <2>4 DEF Land, TypeOK, OneInsert
<1>11. ASSUME NEW r \in Runs, LandUnconfirmed(r)
      PROVE  Inv'
  <2> DEFINE l == IF kind[r] = "discovery" THEN "failing" ELSE "over"
             begun == IF kind[r] = "delta" THEN PartialRow(now[r]) ELSE row[r]
             x == Finished(begun, "ok", now[r])
  <2>1. x \in Row /\ x.status = "ok"
    <3>1. begun \in Row \cup {NoRow} /\ begun.status \in {"partial", "ok"}
      BY <1>11, RowTypes DEF LandUnconfirmed, TypeOK, PhaseInv, PartialRow
    <3> QED
      BY <3>1, FinishType DEF TypeOK
  <2>2. l \in PCs /\ l \notin Lookup \cup {"idle", "land", "discover"}
    BY DEF PCs, Lookup
  <2>3. /\ Inv /\ Goto(r, l) /\ UNCHANGED kind
        /\ row' = [row EXCEPT ![r] = x] /\ landed' = landed \cup {r}
    BY <1>11 DEF LandUnconfirmed, Landed
  <2>4. /\ PhaseInv' /\ OkLanded'
        /\ pc' \in [Runs -> PCs] /\ row' \in [Runs -> Row \cup {NoRow}]
    <3> HIDE DEF l, x, Inv
    <3> QED
      BY <2>1, <2>2, <2>3, WriteRow
  <2> QED
    BY <1>11, <2>3, <2>4 DEF LandUnconfirmed, TypeOK, OneInsert
<1>12. ASSUME NEW r \in Runs, RecordError(r)
      PROVE  Inv'
  <2> DEFINE x == Finished(row[r], "error", clock)
  <2>1. x \in Row /\ x.status = "error"
    BY <1>12, FinishType DEF RecordError, TypeOK, PhaseInv
  <2>2. "over" \in PCs /\ "over" \notin Lookup
    BY DEF PCs, Lookup
  <2>3. /\ Inv /\ Goto(r, "over") /\ UNCHANGED kind
        /\ row' = [row EXCEPT ![r] = x] /\ landed' = landed
    BY <1>12 DEF RecordError
  <2>4. /\ PhaseInv' /\ OkLanded'
        /\ pc' \in [Runs -> PCs] /\ row' \in [Runs -> Row \cup {NoRow}]
    <3> HIDE DEF x, Inv
    <3> QED
      BY <2>1, <2>2, <2>3, WriteRow
  <2> QED
    BY <1>12, <2>4 DEF RecordError, TypeOK, OneInsert
<1>13. ASSUME NEW r \in Runs, CommitStart(r)
      PROVE  Inv'
  <2>1. OneInsert' /\ holder' \subseteq Runs /\ connectors' \subseteq Runs
    BY <1>13 DEF CommitStart, OneInsert, TypeOK
  <2>2. pc[r] = "start" /\ pc[r] \in Lookup
    BY <1>13 DEF CommitStart, Lookup
  <2>3. CASE kind[r] = "discovery"
    <3> DEFINE x == PartialRow(now[r])
    <3>1. x \in Row /\ x.status = "partial"
      BY RowTypes DEF TypeOK, PartialRow
    <3>2. "discover" \in PCs /\ "discover" \notin Lookup
      BY DEF PCs, Lookup
    <3>3. /\ Inv /\ Goto(r, "discover") /\ UNCHANGED <<kind, now>>
          /\ row' = [row EXCEPT ![r] = x] /\ landed' = landed
      BY <1>13, <2>3 DEF CommitStart
    <3>4. /\ PhaseInv' /\ OkLanded'
          /\ pc' \in [Runs -> PCs] /\ row' \in [Runs -> Row \cup {NoRow}]
      <4> HIDE DEF x, Inv
      <4> QED
        BY <2>3, <3>1, <3>2, <3>3, WriteRow
    <3> QED
      BY <1>13, <2>1, <3>3, <3>4 DEF CommitStart, TypeOK
  <2>4. CASE kind[r] # "discovery"
    <3>1. /\ Inv /\ Goto(r, "land") /\ UNCHANGED <<kind, row, landed>>
          /\ kind[r] = "delta" /\ "land" \in PCs
      BY <1>13, <2>4 DEF CommitStart, TypeOK, PCs
    <3>2. PhaseInv' /\ OkLanded' /\ pc' \in [Runs -> PCs]
      <4> HIDE DEF Inv
      <4> QED
        BY <2>2, <3>1, MoveOnly
    <3> QED
      BY <1>13, <2>1, <2>4, <3>1, <3>2 DEF CommitStart, BeginTx, TypeOK
  <2> QED
    BY <2>3, <2>4
<1> QED
  BY <1>1, <1>2, <1>3, <1>4, <1>5, <1>6, <1>7, <1>8, <1>9, <1>10, <1>11, <1>12,
     <1>13 DEF Next, Proceed

LEMMA InvCorrect == Spec => []Inv
BY InvInit, InvNext, PTL DEF Spec

-----------------------------------------------------------------------------
(* The theorems.                                                           *)

\* Every variable keeps its type; in particular a run is only ever finished
\* after it was recorded.
THEOREM TypeCorrect == Spec => []TypeOK
<1>1. Inv => TypeOK
  BY DEF Inv
<1> QED
  BY <1>1, InvCorrect, PTL

\* However many first runs of a connector race, it gets one row.
THEOREM OneConnectorCorrect == Spec => []OneConnector
<1>1. Inv => OneConnector
  <2> SUFFICES ASSUME Inv PROVE Cardinality(connectors) <= 1
    BY DEF OneConnector
  <2>1. CASE connectors = {}
    BY <2>1, FS_EmptySet
  <2>2. CASE connectors # {}
    <3>1. PICK r \in connectors : connectors = {r}
      BY <2>2 DEF Inv, OneInsert
    <3> QED
      BY <3>1, FS_Singleton
  <2> QED
    BY <2>1, <2>2
<1> QED
  BY <1>1, InvCorrect, PTL

\* A discovery that got as far as the provider has its row in connector_runs.
THEOREM AttemptsAreTracedCorrect == Spec => []AttemptsAreTraced
<1>1. Inv => AttemptsAreTraced
  <2> SUFFICES ASSUME Inv, NEW r \in Runs, kind[r] = "discovery",
                      pc[r] \in {"discover", "land", "failing"}
               PROVE  row[r].status # "none"
    BY DEF AttemptsAreTraced
  <2> QED
    BY DEF Inv, PhaseInv
<1> QED
  BY <1>1, InvCorrect, PTL

\* A source that is reported fresh landed within the interval, and no run of it
\* that failed or has not finished was started later.
THEOREM FreshIsRecentCorrect == Spec => []FreshIsRecent
<1>1. Inv => FreshIsRecent
  <2> SUFFICES ASSUME Inv, Fresh
               PROVE  \E r \in landed :
                 /\ clock - row[r].finished <= Interval
                 /\ \A q \in Runs :
                      (row[q].status \in {"partial", "error"} /\ q # r)
                        => row[q].started <= row[r].started
    BY DEF FreshIsRecent
  <2>1. PICK r \in Latest : row[r].status = "ok" /\ clock - row[r].finished <= Interval
    BY DEF Fresh
  <2>2. r \in landed
    BY <2>1 DEF Inv, OkLanded, Latest, Recorded
  <2>3. ASSUME NEW q \in Runs, row[q].status \in {"partial", "error"}
        PROVE  row[q].started <= row[r].started
    BY <2>1, <2>3 DEF Latest, Recorded
  <2> QED
    BY <2>1, <2>2, <2>3
<1> QED
  BY <1>1, InvCorrect, PTL

-----------------------------------------------------------------------------
(* Every step of ConnectorRun is a step of RunLedger or none.              *)

LEMMA LedgerInit == Init => Ledger!Init
BY RowTypes DEF Init, Ledger!Init

\* Changing the row of r changes its status and no other.
LEMMA StatusOf ==
  ASSUME Inv, NEW r \in Runs, NEW x, row' = [row EXCEPT ![r] = x]
  PROVE  [q \in Runs |-> row'[q].status]
           = [[q \in Runs |-> row[q].status] EXCEPT ![r] = x.status]
BY DEF Inv, TypeOK

LEMMA LedgerNext == Inv /\ [Next]_vars => [Ledger!Next]_(Ledger!vars)
<1> SUFFICES ASSUME Inv, [Next]_vars PROVE [Ledger!Next]_(Ledger!vars)
  OBVIOUS
<1>1. CASE UNCHANGED <<row, landed>>
  BY <1>1 DEF Ledger!vars
<1>2. ASSUME NEW r \in Runs, Landed(r), pc[r] = "land"
      PROVE  Ledger!Land(r)
  <2> DEFINE begun == IF kind[r] = "delta" THEN PartialRow(now[r]) ELSE row[r]
  <2>1. row' = [row EXCEPT ![r] = Finished(begun, "ok", now[r])]
    BY <1>2 DEF Landed
  <2>2. row[r].status \in {"none", "partial"}
    BY <1>2 DEF Inv, PhaseInv
  <2>3. Finished(begun, "ok", now[r]).status = "ok"
    BY DEF Finished
  <2> HIDE DEF begun
  <2>4. [q \in Runs |-> row'[q].status]
              = [[q \in Runs |-> row[q].status] EXCEPT ![r] = Finished(begun, "ok", now[r]).status]
    BY <2>1, StatusOf
  <2> QED
    BY <1>2, <2>2, <2>3, <2>4 DEF Ledger!Land, Landed
<1>3. ASSUME NEW r \in Runs, RecordError(r)
      PROVE  Ledger!Fail(r) \/ Ledger!Doubt(r)
  <2>1. row' = [row EXCEPT ![r] = Finished(row[r], "error", clock)]
    BY <1>3 DEF RecordError
  <2>2. row[r].status \in {"partial", "ok"}
    BY <1>3 DEF RecordError, Inv, PhaseInv
  <2>3. Finished(row[r], "error", clock).status = "error"
    BY DEF Finished
  <2>4. [q \in Runs |-> row'[q].status]
              = [[q \in Runs |-> row[q].status] EXCEPT ![r] = Finished(row[r], "error", clock).status]
    BY <2>1, StatusOf
  <2> QED
    BY <1>3, <2>2, <2>3, <2>4 DEF Ledger!Fail, Ledger!Doubt, RecordError
<1>4. ASSUME NEW r \in Runs, CommitStart(r), kind[r] = "discovery"
      PROVE  Ledger!Open(r)
  <2>1. row' = [row EXCEPT ![r] = PartialRow(now[r])]
    BY <1>4 DEF CommitStart
  <2>2. row[r].status = "none"
    BY <1>4 DEF CommitStart, Inv, PhaseInv, Lookup
  <2>3. PartialRow(now[r]).status = "partial"
    BY DEF PartialRow
  <2>4. [q \in Runs |-> row'[q].status]
              = [[q \in Runs |-> row[q].status] EXCEPT ![r] = PartialRow(now[r]).status]
    BY <2>1, StatusOf
  <2> QED
    BY <1>4, <2>2, <2>3, <2>4 DEF Ledger!Open, CommitStart
<1>5. CASE UNCHANGED vars \/ Tick
  BY <1>1, <1>5 DEF vars, Tick
<1>6. ASSUME NEW r \in Runs,
             (\E k \in {"discovery", "delta"} : Begin(r, k)) \/ Proceed(r)
               \/ LandUnconfirmed(r) \/ Crash(r)
      PROVE  [Ledger!Next]_(Ledger!vars)
  <2>1. CASE Land(r) \/ LandUnconfirmed(r)
    BY <1>2, <2>1 DEF Land, LandUnconfirmed, Ledger!Next
  <2>2. CASE RecordError(r)
    BY <1>3, <2>2 DEF Ledger!Next
  <2>3. CASE CommitStart(r) /\ kind[r] = "discovery"
    BY <1>4, <2>3 DEF Ledger!Next
  <2>4. CASE CommitStart(r) /\ kind[r] # "discovery"
    BY <1>1, <2>4 DEF CommitStart
  <2>5. CASE (\E k \in {"discovery", "delta"} : Begin(r, k)) \/ Crash(r)
    BY <1>1, <2>5 DEF Begin, Crash
  <2>6. CASE LookUp(r) \/ Register(r) \/ Discover(r) \/ Raise(r) \/ RecordErrorFails(r)
    BY <1>1, <2>6 DEF LookUp, Register, Discover, Raise, RecordErrorFails
  <2> QED
    BY <1>6, <2>1, <2>2, <2>3, <2>4, <2>5, <2>6 DEF Proceed
<1> QED
  BY <1>5, <1>6 DEF Next

\* connector_runs keeps the promise of RunLedger, for any number of runs.
THEOREM LedgerImplemented == Spec => ImplementsLedger
<1>1. Init => Ledger!Init
  BY LedgerInit
<1>2. Inv /\ [Next]_vars => [Ledger!Next]_(Ledger!vars)
  BY LedgerNext
<1> QED
  BY <1>1, <1>2, InvCorrect, PTL DEF Spec, ImplementsLedger, Ledger!Spec

=============================================================================
