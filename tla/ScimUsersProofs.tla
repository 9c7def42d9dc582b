---------------------------- MODULE ScimUsersProofs ---------------------------
(***************************************************************************)
(* Proofs about ScimUsers for any number of requests, users and rows: the  *)
(* versioned table implements UserDirectory, and a deactivation undoes     *)
(* nothing.                                                                *)
(***************************************************************************)
EXTENDS ScimUsers, SequenceTheorems, TLAPS

\* The last row of a user name is its current one, and the only one that is open.
Versions == \A n \in Names : \A r \in DOMAIN rows[n] : rows[n][r].open <=> r = Len(rows[n])

\* Of one transaction: it has inserted exactly if only its COMMIT is left; what it closes
\* is open to the others; it deactivates the row that it was given, or none.
Sound(t) ==
  /\ t.opened <=> t.at = "commit"
  /\ t.closed # NoRow => t.closed \in DOMAIN rows[t.name] /\ rows[t.name][t.closed].open
  /\ t.at = "wait" => t.target \in DOMAIN rows[t.name]
  /\ t.at \in {"select", "update", "wait"} => t.closed = NoRow
  /\ t.at # "idle" /\ t.op = "deactivate" =>
       /\ t.id \in DOMAIN rows[t.name]
       /\ t.attrs = Deactivated(rows[t.name][t.id].attrs)
       /\ t.closed \in {NoRow, t.id}
       /\ t.at = "wait" => t.target = t.id
AllSound == \A p \in Clients : Sound(txn[p])

\* A row lock has one owner.
OneLock ==
  \A p, q \in Clients :
    txn[p].closed # NoRow /\ txn[p].closed = txn[q].closed /\ txn[p].name = txn[q].name => p = q

\* No two transactions have inserted what the unique indexes tell apart...
Apart ==
  \A p, q \in Clients :
    p # q /\ txn[p].opened /\ txn[q].opened =>
      ~Same(txn[p].name, txn[p].attrs.ext, txn[q].name, txn[q].attrs.ext)

\* ... and of the committed rows an inserted one conflicts at most with the one that its
\* own transaction closes.
Clear ==
  \A p \in Clients : txn[p].opened =>
    \A n \in Names :
      Current(n) # NoRow /\ Same(txn[p].name, txn[p].attrs.ext, n, rows[n][Current(n)].attrs.ext)
        => n = txn[p].name /\ Current(n) = txn[p].closed

IInv == TypeOK /\ Versions /\ AllSound /\ OneLock /\ Apart /\ Clear

-----------------------------------------------------------------------------
LEMMA RowsType ==
  ASSUME TypeOK, NEW n \in Names
  PROVE  /\ rows[n] \in Seq(Row) /\ Len(rows[n]) \in Nat /\ DOMAIN rows[n] = 1..Len(rows[n])
         /\ \A r \in DOMAIN rows[n] : rows[n][r] \in Row
BY DEF TypeOK

LEMMA CurrentIsLast ==
  ASSUME TypeOK, Versions, NEW n \in Names
  PROVE  /\ Current(n) = Len(rows[n])
         /\ \A r \in DOMAIN rows[n] : rows[n][r].open => r = Current(n) /\ Current(n) # NoRow
         /\ Current(n) # NoRow => Current(n) \in DOMAIN rows[n] /\ rows[n][Current(n)].open
<1>1. CASE rows[n] = <<>>
  <2>1. Len(rows[n]) = 0 /\ DOMAIN rows[n] = {} BY <1>1, RowsType
  <2> QED BY <1>1, <2>1 DEF Current, NoRow
<1>2. CASE rows[n] # <<>>
  <2>1. Len(rows[n]) \in DOMAIN rows[n] /\ Len(rows[n]) # 0
    BY <1>2, RowsType, EmptySeq
  <2>2. rows[n][Len(rows[n])].open BY <2>1 DEF Versions
  <2>3. Current(n) = Len(rows[n]) BY <1>2, <2>2 DEF Current
  <2> QED BY <2>1, <2>2, <2>3 DEF Versions, NoRow
<1> QED BY <1>1, <1>2

LEMMA RestFields ==
  Rest.at = "idle" /\ Rest.closed = NoRow /\ Rest.opened = FALSE
BY DEF Rest

LEMMA TxnType ==
  ASSUME TypeOK, NEW p \in Clients
  PROVE  /\ txn[p] \in Transaction \cup {Rest}
         /\ txn[p].at # "idle" => txn[p] \in Transaction
         /\ txn[p].opened \in BOOLEAN
<1>1. \A t \in Transaction : t.opened \in BOOLEAN BY DEF Transaction
<1> QED BY <1>1, RestFields DEF TypeOK

LEMMA TxnFields ==
  ASSUME NEW t \in Transaction
  PROVE  /\ t.name \in Names /\ t.attrs \in Attributes /\ t.id \in Nat /\ t.target \in Nat
         /\ t.closed \in Nat /\ t.at # "idle" /\ t.opened \in BOOLEAN
         /\ t.op \in {"replace", "reactivate", "deactivate"}
BY DEF Transaction

\* Of a step that only changes p's transaction.
LEMMA Moved ==
  ASSUME TypeOK, NEW p \in Clients, NEW t \in Transaction \cup {Rest}, To(p, t)
  PROVE  /\ TypeOK' /\ rows' = rows
         /\ txn'[p] = t /\ \A q \in Clients \ {p} : txn'[q] = txn[q]
BY DEF TypeOK, To

\* It leaves the invariant as it is if what p closes and has opened is no more than before.
LEMMA LessHeld ==
  ASSUME IInv, NEW p \in Clients, NEW t \in Transaction \cup {Rest}, To(p, t), Sound(t),
         t.closed = NoRow, ~t.opened
  PROVE  IInv'
<1>1. /\ TypeOK' /\ rows' = rows
      /\ txn'[p] = t /\ \A q \in Clients \ {p} : txn'[q] = txn[q]
  BY Moved DEF IInv
<1>2. Versions' BY <1>1 DEF IInv, Versions
<1>3. AllSound'
  <2> SUFFICES ASSUME NEW q \in Clients PROVE Sound(txn[q])' BY DEF AllSound
  <2>1. txn'[q] = t \/ txn'[q] = txn[q] BY <1>1
  <2>2. Sound(txn[q]) BY DEF IInv, AllSound
  <2> QED BY <1>1, <2>1, <2>2 DEF Sound
<1>4. OneLock' BY <1>1 DEF IInv, OneLock
<1>5. Apart' BY <1>1 DEF IInv, Apart
<1>6. Clear'
  <2> SUFFICES ASSUME NEW q \in Clients, txn'[q].opened, NEW n \in Names, Current(n)' # NoRow,
                      Same(txn'[q].name, txn'[q].attrs.ext, n, rows'[n][Current(n)'].attrs.ext)
               PROVE  n = txn'[q].name /\ Current(n)' = txn'[q].closed
    BY DEF Clear
  <2>1. txn'[q] = txn[q] BY <1>1
  <2>2. Current(n)' = Current(n) BY <1>1 DEF Current
  <2> QED BY <1>1, <2>1, <2>2 DEF IInv, Clear
<1> QED BY <1>1, <1>2, <1>3, <1>4, <1>5, <1>6 DEF IInv

\* A row that nobody else has locked may be closed.
LEMMA Held ==
  ASSUME IInv, NEW p \in Clients, NEW t \in Transaction, To(p, t), Sound(t), ~t.opened,
         ~Locked(p, t.name, t.closed)
  PROVE  IInv'
<1>1. /\ TypeOK' /\ rows' = rows
      /\ txn'[p] = t /\ \A q \in Clients \ {p} : txn'[q] = txn[q]
  BY Moved DEF IInv
<1>2. Versions' BY <1>1 DEF IInv, Versions
<1>3. AllSound'
  <2> SUFFICES ASSUME NEW q \in Clients PROVE Sound(txn[q])' BY DEF AllSound
  <2>1. txn'[q] = t \/ txn'[q] = txn[q] BY <1>1
  <2>2. Sound(txn[q]) BY DEF IInv, AllSound
  <2> QED BY <1>1, <2>1, <2>2 DEF Sound
<1>4. OneLock'
  <2> SUFFICES ASSUME NEW q \in Clients, NEW o \in Clients, txn'[q].closed # NoRow,
                      txn'[q].closed = txn'[o].closed, txn'[q].name = txn'[o].name
               PROVE  q = o
    BY DEF OneLock
  <2>1. ASSUME NEW v \in Clients \ {p} PROVE ~(txn[v].name = t.name /\ txn[v].closed = t.closed)
    BY DEF Locked
  <2>2. CASE q # p /\ o # p BY <1>1, <2>2 DEF IInv, OneLock
  <2>3. CASE q = p /\ o # p BY <1>1, <2>1, <2>3
  <2>4. CASE q # p /\ o = p BY <1>1, <2>1, <2>4
  <2> QED BY <2>2, <2>3, <2>4
<1>5. Apart' BY <1>1 DEF IInv, Apart
<1>6. Clear'
  <2> SUFFICES ASSUME NEW q \in Clients, txn'[q].opened, NEW n \in Names, Current(n)' # NoRow,
                      Same(txn'[q].name, txn'[q].attrs.ext, n, rows'[n][Current(n)'].attrs.ext)
               PROVE  n = txn'[q].name /\ Current(n)' = txn'[q].closed
    BY DEF Clear
  <2>1. txn'[q] = txn[q] BY <1>1
  <2>2. Current(n)' = Current(n) BY <1>1 DEF Current
  <2> QED BY <1>1, <2>1, <2>2 DEF IInv, Clear
<1> QED BY <1>1, <1>2, <1>3, <1>4, <1>5, <1>6 DEF IInv

\* `opened' where neither a committed row nor another transaction stands in the way.
LEMMA InsertStep == ASSUME IInv, NEW p \in Clients, Insert(p) PROVE IInv'
<1> DEFINE t == [txn[p] EXCEPT !.at = "commit", !.opened = TRUE]
<1>1. txn[p] \in Transaction BY RestFields, TxnType DEF Insert, IInv
<1>2. /\ t \in Transaction /\ t.at = "commit" /\ t.opened /\ t.name = txn[p].name
      /\ t.attrs = txn[p].attrs /\ t.closed = txn[p].closed /\ t.id = txn[p].id
      /\ t.op = txn[p].op
  BY <1>1 DEF Transaction
<1>3. To(p, t) BY DEF Insert
<1> HIDE DEF t
<1>4. /\ TypeOK' /\ rows' = rows
      /\ txn'[p] = t /\ \A q \in Clients \ {p} : txn'[q] = txn[q]
  BY <1>2, <1>3, Moved DEF IInv
<1>5. Versions' BY <1>4 DEF IInv, Versions
<1>6. AllSound'
  <2> SUFFICES ASSUME NEW q \in Clients PROVE Sound(txn[q])' BY DEF AllSound
  <2>1. Sound(txn[q]) /\ Sound(txn[p]) BY DEF IInv, AllSound
  <2>2. CASE q # p BY <1>4, <2>1, <2>2 DEF Sound
  <2>3. CASE q = p BY <1>1, <1>2, <1>4, <2>1, <2>3, TxnFields DEF Sound
  <2> QED BY <2>2, <2>3
<1>7. OneLock' BY <1>2, <1>4 DEF IInv, OneLock
<1>8. Apart'
  <2>1. ASSUME NEW q \in Clients \ {p}, txn[q].opened
        PROVE  /\ ~Same(t.name, t.attrs.ext, txn[q].name, txn[q].attrs.ext)
               /\ ~Same(txn[q].name, txn[q].attrs.ext, t.name, t.attrs.ext)
    BY <1>2, <2>1 DEF Insert, InDoubt, Same
  <2> QED BY <1>4, <2>1 DEF IInv, Apart
<1>9. Clear'
  <2> SUFFICES ASSUME NEW q \in Clients, txn'[q].opened, NEW n \in Names, Current(n)' # NoRow,
                      Same(txn'[q].name, txn'[q].attrs.ext, n, rows'[n][Current(n)'].attrs.ext)
               PROVE  n = txn'[q].name /\ Current(n)' = txn'[q].closed
    BY DEF Clear
  <2>1. Current(n)' = Current(n) BY <1>4 DEF Current
  <2>2. CASE q # p BY <1>4, <2>1, <2>2 DEF IInv, Clear
  <2>3. CASE q = p
    <3>1. Current(n) # NoRow
          /\ Same(txn[p].name, txn[p].attrs.ext, n, rows[n][Current(n)].attrs.ext)
      BY <1>2, <1>4, <2>1, <2>3
    <3>2. PICK o \in Clients : txn[o].name = n /\ txn[o].closed = Current(n)
      BY <3>1 DEF Insert, Violates
    <3>3. o = p BY <3>1, <3>2 DEF Insert, InDoubt
    <3> QED BY <1>2, <1>4, <2>1, <2>3, <3>2, <3>3
  <2> QED BY <2>2, <2>3
<1> QED BY <1>4, <1>5, <1>6, <1>7, <1>8, <1>9 DEF IInv

-----------------------------------------------------------------------------
(* COMMIT.                                                                 *)

LEMMA ClosedSeq ==
  ASSUME NEW s \in Seq(Row), NEW c \in Nat
  PROVE  LET f == [r \in DOMAIN s |-> IF r = c THEN [s[r] EXCEPT !.open = FALSE] ELSE s[r]]
         IN /\ f \in Seq(Row) /\ Len(f) = Len(s) /\ DOMAIN f = DOMAIN s
            /\ \A r \in DOMAIN s : /\ f[r].attrs = s[r].attrs
                                   /\ f[r].open = IF r = c THEN FALSE ELSE s[r].open
<1> DEFINE f == [r \in DOMAIN s |-> IF r = c THEN [s[r] EXCEPT !.open = FALSE] ELSE s[r]]
<1>1. DOMAIN s = 1..Len(s) /\ Len(s) \in Nat /\ \A r \in DOMAIN s : s[r] \in Row
  OBVIOUS
<1>2. ASSUME NEW w \in Row
      PROVE  [w EXCEPT !.open = FALSE] \in Row /\ [w EXCEPT !.open = FALSE].open = FALSE
             /\ [w EXCEPT !.open = FALSE].attrs = w.attrs
  BY DEF Row
<1>3. \A r \in DOMAIN s : /\ f[r] \in Row /\ f[r].attrs = s[r].attrs
                          /\ f[r].open = IF r = c THEN FALSE ELSE s[r].open
  BY <1>1, <1>2
<1>4. f \in [1..Len(s) -> Row] BY <1>1, <1>3
<1>5. f \in Seq(Row) /\ Len(f) = Len(s) BY <1>1, <1>4
<1> QED BY <1>1, <1>3, <1>5

\* What a commit leaves of the rows: the old ones are closed, and a new one is open.
LEMMA CommitRows ==
  ASSUME IInv, NEW p \in Clients, Commit(p)
  PROVE  LET n == txn[p].name
             l == Len(rows[n])
         IN /\ txn[p] \in Transaction /\ txn[p].opened
            /\ rows' \in [Names -> Seq(Row)]
            /\ \A m \in Names \ {n} : rows'[m] = rows[m]
            /\ DOMAIN rows'[n] = 1..(l + 1) /\ Len(rows'[n]) = l + 1
            /\ \A r \in DOMAIN rows[n] : rows'[n][r].attrs = rows[n][r].attrs
                                         /\ rows'[n][r].open = FALSE
            /\ rows'[n][l + 1].attrs = txn[p].attrs /\ rows'[n][l + 1].open = TRUE
<1> DEFINE t == txn[p]
           n == t.name
           s == rows[n]
           c == t.closed
           f == [r \in DOMAIN s |-> IF r = c THEN [s[r] EXCEPT !.open = FALSE] ELSE s[r]]
           new == [attrs |-> t.attrs, open |-> TRUE]
<1>1. txn[p] \in Transaction BY RestFields, TxnType DEF Commit, IInv
<1>2. Sound(t) /\ t.opened BY DEF IInv, AllSound, Sound, Commit
<1>3. n \in Names /\ c \in Nat /\ t.attrs \in Attributes BY <1>1, TxnFields
<1>4. s \in Seq(Row) /\ Len(s) \in Nat /\ DOMAIN s = 1..Len(s) BY <1>3, RowsType DEF IInv
<1>5. rows' = [rows EXCEPT ![n] = Append(f, new)] BY <1>2 DEF Commit, Applied
<1>6. new \in Row /\ new.attrs = t.attrs /\ new.open = TRUE BY <1>3 DEF Row
<1>7. ASSUME NEW r \in DOMAIN s, s[r].open PROVE r = c
  <2>1. r = Current(n) /\ Current(n) # NoRow BY <1>3, <1>7, CurrentIsLast DEF IInv
  <2>2. Same(n, t.attrs.ext, n, rows[n][Current(n)].attrs.ext) BY DEF Same
  <2> QED BY <1>2, <1>3, <2>1, <2>2 DEF IInv, Clear
<1>8. \A r \in DOMAIN s : s[r].open \in BOOLEAN
  <2>1. \A v \in Row : v.open \in BOOLEAN BY DEF Row
  <2>2. \A r \in DOMAIN s : s[r] \in Row BY <1>3, RowsType DEF IInv
  <2> QED BY <2>1, <2>2
<1> HIDE DEF new, s
<1> HIDE DEF c
<1>9. /\ f \in Seq(Row) /\ Len(f) = Len(s) /\ DOMAIN f = DOMAIN s
      /\ \A r \in DOMAIN s : /\ f[r].attrs = s[r].attrs
                             /\ f[r].open = IF r = c THEN FALSE ELSE s[r].open
  <2>1. s \in Seq(Row) /\ c \in Nat BY <1>3, <1>4
  <2> QED BY <2>1, ClosedSeq
<1>10. \A r \in DOMAIN s : f[r].open = FALSE BY <1>7, <1>8, <1>9
<1> HIDE DEF f
<1> DEFINE g == Append(f, new)
<1>11. /\ g \in Seq(Row) /\ Len(g) = Len(s) + 1 /\ DOMAIN g = 1..(Len(s) + 1)
       /\ \A r \in DOMAIN s : g[r] = f[r]
       /\ g[Len(s) + 1] = new
  BY <1>4, <1>6, <1>9
<1> HIDE DEF g
<1>12. rows' = [rows EXCEPT ![n] = g] BY <1>5 DEF g
<1>13. rows' \in [Names -> Seq(Row)] /\ rows'[n] = g /\ \A m \in Names \ {n} : rows'[m] = rows[m]
  BY <1>3, <1>11, <1>12 DEF IInv, TypeOK
<1> QED BY <1>1, <1>2, <1>6, <1>9, <1>10, <1>11, <1>13 DEF s

LEMMA CommitCurrent ==
  ASSUME IInv, NEW p \in Clients, Commit(p), NEW m \in Names
  PROVE  /\ m # txn[p].name => Current(m)' = Current(m) /\ rows'[m] = rows[m]
         /\ m = txn[p].name => /\ Current(m)' = Len(rows[m]) + 1 /\ Current(m)' # NoRow
                               /\ rows'[m][Current(m)'].attrs = txn[p].attrs
<1> DEFINE n == txn[p].name
           l == Len(rows[n])
<1>1. /\ rows' \in [Names -> Seq(Row)]
      /\ \A k \in Names \ {n} : rows'[k] = rows[k]
      /\ DOMAIN rows'[n] = 1..(l + 1) /\ Len(rows'[n]) = l + 1
      /\ rows'[n][l + 1].attrs = txn[p].attrs /\ rows'[n][l + 1].open = TRUE
      /\ txn[p] \in Transaction
  BY CommitRows
<1>2. CASE m # n BY <1>1, <1>2 DEF Current
<1>3. CASE m = n
  <2>1. l \in Nat BY <1>3, RowsType DEF IInv
  <2>2. rows'[n] # <<>> /\ l + 1 # 0
    <3>1. Len(rows'[n]) # 0 BY <1>1, <2>1
    <3>2. Len(<<>>) = 0 OBVIOUS
    <3> QED BY <2>1, <3>1, <3>2
  <2>3. Current(m)' = l + 1 BY <1>1, <1>3, <2>2 DEF Current
  <2> QED BY <1>1, <1>3, <2>2, <2>3 DEF NoRow
<1> QED BY <1>2, <1>3

LEMMA CommitStep == ASSUME IInv, NEW p \in Clients, Commit(p) PROVE IInv'
<1> DEFINE n == txn[p].name
           l == Len(rows[n])
<1>1. /\ txn[p] \in Transaction /\ txn[p].opened
      /\ rows' \in [Names -> Seq(Row)]
      /\ \A m \in Names \ {n} : rows'[m] = rows[m]
      /\ DOMAIN rows'[n] = 1..(l + 1) /\ Len(rows'[n]) = l + 1
      /\ \A r \in DOMAIN rows[n] : rows'[n][r].attrs = rows[n][r].attrs
                                   /\ rows'[n][r].open = FALSE
      /\ rows'[n][l + 1].attrs = txn[p].attrs /\ rows'[n][l + 1].open = TRUE
  BY CommitRows
<1>2. n \in Names BY <1>1, TxnFields
<1>3. l \in Nat /\ DOMAIN rows[n] = 1..l BY <1>2, RowsType DEF IInv
<1>4. txn'[p] = Rest /\ \A q \in Clients \ {p} : txn'[q] = txn[q]
  BY DEF Commit, IInv, TypeOK
<1>5. TypeOK' BY <1>1 DEF Commit, IInv, TypeOK
<1>6. Versions'
  <2> SUFFICES ASSUME NEW m \in Names, NEW r \in DOMAIN rows'[m]
               PROVE  rows'[m][r].open <=> r = Len(rows'[m])
    BY DEF Versions
  <2>1. CASE m # n BY <1>1, <2>1 DEF IInv, Versions
  <2>2. CASE m = n
    <3>1. CASE r = l + 1 BY <1>1, <2>2, <3>1
    <3>2. CASE r # l + 1
      <4>1. r \in DOMAIN rows[n] BY <1>1, <1>3, <2>2, <3>2
      <4>2. rows'[n][r].open = FALSE BY <1>1, <4>1
      <4> QED BY <1>1, <2>2, <3>2, <4>2
    <3> QED BY <3>1, <3>2
  <2> QED BY <2>1, <2>2
<1>7. AllSound'
  <2> SUFFICES ASSUME NEW q \in Clients PROVE Sound(txn[q])' BY DEF AllSound
  <2>1. CASE q = p BY <1>4, <2>1, RestFields DEF Sound
  <2>2. CASE q # p
    <3>1. txn'[q] = txn[q] /\ Sound(txn[q]) BY <1>4, <2>2 DEF IInv, AllSound
    <3>2. txn[q].at # "idle" \/ txn[q].closed # NoRow => txn[q].name \in Names
      BY TxnType, TxnFields, RestFields DEF IInv
    <3>3. CASE txn[q].name # n
      <4>1. (txn[q].at # "idle" \/ txn[q].closed # NoRow) => rows'[txn[q].name] = rows[txn[q].name]
        BY <1>1, <3>2, <3>3
      <4>2. txn[q].at = "wait" => txn[q].at # "idle" OBVIOUS
      <4> QED BY <3>1, <4>1, <4>2 DEF Sound
    <3>4. CASE txn[q].name = n
      <4>1. txn[q].closed = NoRow
        <5> SUFFICES ASSUME txn[q].closed # NoRow PROVE FALSE OBVIOUS
        <5>1. txn[q].closed \in DOMAIN rows[n] /\ rows[n][txn[q].closed].open
          BY <3>1, <3>4 DEF Sound
        <5>2. txn[q].closed = Current(n) /\ Current(n) # NoRow
          BY <1>2, <5>1, CurrentIsLast DEF IInv
        <5>3. Same(n, txn[p].attrs.ext, n, rows[n][Current(n)].attrs.ext) BY DEF Same
        <5>4. Current(n) = txn[p].closed BY <1>1, <1>2, <5>2, <5>3 DEF IInv, Clear
        <5> QED BY <2>2, <3>4, <5>2, <5>4 DEF IInv, OneLock
      <4>2. \A r \in DOMAIN rows[n] : r \in DOMAIN rows'[n] /\ rows'[n][r].attrs = rows[n][r].attrs
        BY <1>1, <1>3
      <4> QED BY <3>1, <3>4, <4>1, <4>2 DEF Sound
    <3> QED BY <3>3, <3>4
  <2> QED BY <2>1, <2>2
<1>8. OneLock' BY <1>4, RestFields DEF IInv, OneLock
<1>9. Apart' BY <1>4, RestFields DEF IInv, Apart
<1>10. Clear'
  <2> SUFFICES ASSUME NEW q \in Clients, txn'[q].opened, NEW m \in Names, Current(m)' # NoRow,
                      Same(txn'[q].name, txn'[q].attrs.ext, m, rows'[m][Current(m)'].attrs.ext)
               PROVE  m = txn'[q].name /\ Current(m)' = txn'[q].closed
    BY DEF Clear
  <2>1. q # p /\ txn'[q] = txn[q] BY <1>4, RestFields
  <2>2. CASE m = n
    <3>1. rows'[m][Current(m)'].attrs = txn[p].attrs BY <2>2, CommitCurrent
    <3>2. Same(txn[q].name, txn[q].attrs.ext, txn[p].name, txn[p].attrs.ext)
      BY <2>1, <2>2, <3>1
    <3> QED BY <1>1, <2>1, <3>2 DEF IInv, Apart
  <2>3. CASE m # n
    <3>1. Current(m)' = Current(m) /\ rows'[m] = rows[m] BY <2>3, CommitCurrent
    <3> QED BY <2>1, <3>1 DEF IInv, Clear
  <2> QED BY <2>2, <2>3
<1> QED BY <1>5, <1>6, <1>7, <1>8, <1>9, <1>10 DEF IInv

-----------------------------------------------------------------------------
(* The other steps.                                                        *)

LEMMA BeginStep ==
  ASSUME IInv, NEW p \in Clients, Create(p) \/ Put(p) \/ PatchActive(p) \/ PatchInactive(p)
  PROVE  IInv'
<1>1. CASE Replacement(p)
  <2>1. PICK n \in Names, attrs \in Asked : To(p, Begun("update", "replace", n, NoRow, attrs))
    BY <1>1 DEF Replacement
  <2> DEFINE t == Begun("update", "replace", n, NoRow, attrs)
  <2>2. attrs \in Attributes /\ NoRow \in Nat BY BoundsAssumption DEF NoRow
  <2>3. /\ t \in Transaction /\ t.at = "update" /\ t.op = "replace" /\ t.closed = NoRow
        /\ t.opened = FALSE
    BY <2>2 DEF Begun, Transaction, NoRow
  <2> HIDE DEF t
  <2>4. Sound(t) BY <2>3 DEF Sound
  <2> QED BY <2>1, <2>3, <2>4, LessHeld DEF t
<1>2. ASSUME NEW n \in Names, NEW id \in 1..Len(rows[n]), NEW b \in BOOLEAN
      PROVE  /\ [rows[n][id].attrs EXCEPT !.active = b] \in Attributes
             /\ id \in DOMAIN rows[n] /\ id \in Nat
  <2>1. id \in DOMAIN rows[n] /\ rows[n][id] \in Row /\ id \in Nat BY RowsType DEF IInv
  <2>2. rows[n][id].attrs \in Attributes BY <2>1 DEF Row
  <2>3. \A a \in Attributes : [a EXCEPT !.active = b] \in Attributes BY DEF Attributes
  <2> QED BY <2>1, <2>2, <2>3
<1>3. CASE PatchActive(p)
  <2>0. PICK n \in Names : \E id \in 1..Len(rows[n]) :
          To(p, Begun("update", "reactivate", n, NoRow,
                      [rows[n][id].attrs EXCEPT !.active = TRUE]))
    BY <1>3 DEF PatchActive
  <2>1. PICK id \in 1..Len(rows[n]) :
          To(p, Begun("update", "reactivate", n, NoRow,
                      [rows[n][id].attrs EXCEPT !.active = TRUE]))
    BY <2>0
  <2> DEFINE attrs == [rows[n][id].attrs EXCEPT !.active = TRUE]
             t == Begun("update", "reactivate", n, NoRow, attrs)
  <2>2. attrs \in Attributes /\ NoRow \in Nat BY <1>2 DEF NoRow
  <2>3. To(p, t) BY <2>1
  <2> HIDE DEF attrs
  <2>4. /\ t \in Transaction /\ t.at = "update" /\ t.op = "reactivate" /\ t.closed = NoRow
        /\ t.opened = FALSE
    BY <2>2 DEF Begun, Transaction, NoRow
  <2> HIDE DEF t
  <2>5. Sound(t) BY <2>4 DEF Sound
  <2> QED BY <2>3, <2>4, <2>5, LessHeld
<1>4. CASE PatchInactive(p)
  <2>0. PICK n \in Names : \E id \in 1..Len(rows[n]) :
          To(p, Begun("select", "deactivate", n, id,
                      Deactivated(rows[n][id].attrs)))
    BY <1>4 DEF PatchInactive
  <2>1. PICK id \in 1..Len(rows[n]) :
          To(p, Begun("select", "deactivate", n, id,
                      Deactivated(rows[n][id].attrs)))
    BY <2>0
  <2> DEFINE attrs == Deactivated(rows[n][id].attrs)
             t == Begun("select", "deactivate", n, id, attrs)
  <2>2. attrs \in Attributes /\ id \in Nat /\ id \in DOMAIN rows[n] BY <1>2 DEF Deactivated
  <2>3. To(p, t) BY <2>1
  <2>4. attrs = Deactivated(rows[n][id].attrs) OBVIOUS
  <2> HIDE DEF attrs
  <2>5. /\ t \in Transaction /\ t.at = "select" /\ t.op = "deactivate" /\ t.closed = NoRow
        /\ t.opened = FALSE /\ t.name = n /\ t.id = id /\ t.attrs = attrs
    BY <2>2 DEF Begun, Transaction, NoRow
  <2> HIDE DEF t
  <2>6. Sound(t) BY <2>2, <2>4, <2>5 DEF Sound
  <2> QED BY <2>3, <2>5, <2>6, LessHeld
<1> QED BY <1>1, <1>3, <1>4 DEF Create, Put

LEMMA RestStep == ASSUME IInv, NEW p \in Clients, To(p, Rest) PROVE IInv'
<1>1. Sound(Rest) /\ ~Rest.opened BY RestFields DEF Sound
<1> QED BY <1>1, RestFields, LessHeld

LEMMA SelectStep == ASSUME IInv, NEW p \in Clients, Select(p) PROVE IInv'
<1>1. txn[p] \in Transaction BY RestFields, TxnType DEF Select, IInv
<1>2. Sound(txn[p]) BY DEF IInv, AllSound
<1>3. CASE To(p, [txn[p] EXCEPT !.at = "update"])
  <2> DEFINE t == [txn[p] EXCEPT !.at = "update"]
  <2>1. /\ t \in Transaction /\ t.at = "update" /\ t.closed = txn[p].closed
        /\ t.opened = txn[p].opened /\ t.name = txn[p].name /\ t.id = txn[p].id
        /\ t.attrs = txn[p].attrs /\ t.op = txn[p].op
    BY <1>1 DEF Transaction
  <2> HIDE DEF t
  <2>2. txn[p].opened = FALSE BY <1>1, <1>2, TxnFields DEF Select, Sound
  <2>3. t.closed = NoRow BY <1>2, <2>1 DEF Select, Sound
  <2>4. Sound(t) BY <1>1, <1>2, <2>1, <2>2, <2>3, TxnFields DEF Select, Sound
  <2> QED BY <1>3, <2>1, <2>2, <2>3, <2>4, LessHeld DEF t
<1> QED BY <1>3, RestStep DEF Select

LEMMA ClosingFields ==
  ASSUME NEW t \in Transaction, NEW r \in Nat
  PROVE  /\ Closing(t, r) \in Transaction /\ Closing(t, r).at = "insert"
         /\ Closing(t, r).closed = r /\ Closing(t, r).opened = t.opened
         /\ Closing(t, r).name = t.name /\ Closing(t, r).id = t.id
         /\ Closing(t, r).attrs = t.attrs /\ Closing(t, r).op = t.op
BY DEF Closing, Transaction

\* A row that is open and that nobody has locked is closed, or none is.
LEMMA ClosingStep ==
  ASSUME IInv, NEW p \in Clients, NEW r \in Nat, NEW t, t \in Transaction, Sound(txn[p]),
         txn[p] \in Transaction, txn[p].at \in {"update", "wait"}, To(p, t),
         t.at = "insert", t.closed = r, t.opened = txn[p].opened, t.name = txn[p].name,
         t.id = txn[p].id, t.attrs = txn[p].attrs, t.op = txn[p].op,
         r # NoRow => /\ r \in DOMAIN rows[t.name] /\ rows[t.name][r].open
                      /\ ~Locked(p, t.name, r)
                      /\ t.op = "deactivate" => r = t.id
  PROVE  IInv'
<1>1. t.opened = FALSE BY TxnFields DEF Sound
<1>2. Sound(t) BY <1>1, TxnFields DEF Sound
<1>3. CASE r = NoRow BY <1>1, <1>2, <1>3, LessHeld
<1>4. CASE r # NoRow BY <1>1, <1>2, <1>4, Held
<1> QED BY <1>3, <1>4

LEMMA UpdateStep == ASSUME IInv, NEW p \in Clients, Update(p) PROVE IInv'
<1> DEFINE r == Matching(txn[p])
           n == txn[p].name
<1>1. txn[p] \in Transaction BY RestFields, TxnType DEF Update, IInv
<1>2. Sound(txn[p]) BY DEF IInv, AllSound
<1>3. n \in Names /\ txn[p].id \in Nat BY <1>1, TxnFields
<1>4. /\ r \in Nat
      /\ r # NoRow => /\ r \in DOMAIN rows[n] /\ rows[n][r].open
                      /\ txn[p].op = "deactivate" => r = txn[p].id
  <2>1. CASE txn[p].op = "deactivate"
    <3>1. txn[p].id \in DOMAIN rows[n] BY <1>2, <2>1 DEF Sound, Update
    <3> QED BY <1>3, <2>1, <3>1 DEF Matching, NoRow
  <2>2. CASE txn[p].op # "deactivate"
    <3>1. r = Current(n) BY <2>2 DEF Matching
    <3> QED BY <1>3, <2>2, <3>1, CurrentIsLast, RowsType DEF IInv
  <2> QED BY <2>1, <2>2
<1> HIDE DEF r
<1>5. CASE r # NoRow /\ Locked(p, n, r)
  <2> DEFINE t == [txn[p] EXCEPT !.at = "wait", !.target = r]
  <2>1. To(p, t) BY <1>5 DEF Update, r
  <2>2. /\ t \in Transaction /\ t.at = "wait" /\ t.target = r /\ t.closed = txn[p].closed
        /\ t.opened = txn[p].opened /\ t.name = n /\ t.id = txn[p].id
        /\ t.attrs = txn[p].attrs /\ t.op = txn[p].op
    BY <1>1, <1>4 DEF Transaction
  <2> HIDE DEF t
  <2>3. t.opened = FALSE /\ t.closed = NoRow
    BY <1>1, <1>2, <2>2, TxnFields DEF Update, Sound
  <2>4. Sound(t) BY <1>1, <1>2, <1>4, <1>5, <2>2, <2>3, TxnFields DEF Update, Sound
  <2> QED BY <2>1, <2>2, <2>3, <2>4, LessHeld
<1>6. CASE ~(r # NoRow /\ Locked(p, n, r))
  <2>1. To(p, Closing(txn[p], r)) BY <1>6 DEF Update, r
  <2>2. txn[p].at \in {"update", "wait"} BY DEF Update
  <2> QED BY <1>1, <1>2, <1>4, <1>6, <2>1, <2>2, ClosingFields, ClosingStep
<1> QED BY <1>5, <1>6

LEMMA WakeStep == ASSUME IInv, NEW p \in Clients, Wake(p) PROVE IInv'
<1> DEFINE n == txn[p].name
           target == txn[p].target
           r == IF rows[n][target].open THEN target ELSE NoRow
           c == Closing(txn[p], r)
           t == [c EXCEPT !.target = NoRow]
<1>1. txn[p] \in Transaction BY RestFields, TxnType DEF Wake, IInv
<1>2. Sound(txn[p]) BY DEF IInv, AllSound
<1>3. n \in Names /\ target \in Nat BY <1>1, TxnFields
<1>4. target \in DOMAIN rows[n] /\ (txn[p].op = "deactivate" => target = txn[p].id)
  BY <1>2 DEF Sound, Wake
<1>5. r \in Nat /\ (r # NoRow => r = target /\ rows[n][r].open) BY <1>3 DEF NoRow
<1>6. ~Locked(p, n, target) /\ To(p, t) BY DEF Wake
<1> HIDE DEF r
<1>7. /\ c \in Transaction /\ c.at = "insert" /\ c.closed = r /\ c.opened = txn[p].opened
      /\ c.name = n /\ c.id = txn[p].id /\ c.attrs = txn[p].attrs /\ c.op = txn[p].op
  BY <1>1, <1>5, ClosingFields
<1> HIDE DEF c
<1>8. /\ t \in Transaction /\ t.at = "insert" /\ t.closed = r /\ t.opened = txn[p].opened
      /\ t.name = n /\ t.id = txn[p].id /\ t.attrs = txn[p].attrs /\ t.op = txn[p].op
  BY <1>7 DEF Transaction, NoRow
<1>9. txn[p].at \in {"update", "wait"} BY DEF Wake
<1> HIDE DEF t
<1> QED BY <1>1, <1>2, <1>4, <1>5, <1>6, <1>8, <1>9, ClosingStep

LEMMA ViolationStep == ASSUME IInv, NEW p \in Clients, Violation(p) PROVE IInv'
<1>1. txn[p] \in Transaction BY RestFields, TxnType DEF Violation, IInv
<1>2. Sound(txn[p]) BY DEF IInv, AllSound
<1>3. CASE To(p, [txn[p] EXCEPT !.at = "update", !.closed = NoRow, !.again = TRUE])
  <2> DEFINE t == [txn[p] EXCEPT !.at = "update", !.closed = NoRow, !.again = TRUE]
  <2>1. /\ t \in Transaction /\ t.at = "update" /\ t.closed = NoRow
        /\ t.opened = txn[p].opened /\ t.name = txn[p].name /\ t.id = txn[p].id
        /\ t.attrs = txn[p].attrs /\ t.op = txn[p].op
    BY <1>1 DEF Transaction, NoRow
  <2> HIDE DEF t
  <2>2. txn[p].opened = FALSE BY <1>1, <1>2, TxnFields DEF Violation, Sound
  <2>3. Sound(t) BY <1>1, <1>2, <2>1, <2>2, TxnFields DEF Violation, Sound
  <2> QED BY <1>3, <2>1, <2>2, <2>3, LessHeld DEF t
<1> QED BY <1>3, RestStep DEF Violation

LEMMA IdleStep == ASSUME IInv, UNCHANGED <<rows, txn>>, issued' \in BOOLEAN PROVE IInv'
BY DEF IInv, TypeOK, Versions, AllSound, Sound, OneLock, Apart, Clear, Current

LEMMA IInvStep == IInv /\ [Next]_vars => IInv'
<1> SUFFICES ASSUME IInv, [Next]_vars PROVE IInv' OBVIOUS
<1>1. CASE IssueToken \/ UNCHANGED vars
  <2>1. issued' \in BOOLEAN BY <1>1 DEF IssueToken, vars, IInv, TypeOK
  <2> QED BY <1>1, <2>1, IdleStep DEF IssueToken, vars
<1>2. ASSUME NEW p \in Clients, Step(p) PROVE IInv'
  <2>1. CASE Create(p) \/ Put(p) \/ PatchActive(p) \/ PatchInactive(p) BY <2>1, BeginStep
  <2>2. CASE Select(p) BY <2>2, SelectStep
  <2>3. CASE Update(p) BY <2>3, UpdateStep
  <2>4. CASE Wake(p) BY <2>4, WakeStep
  <2>5. CASE Insert(p) BY <2>5, InsertStep
  <2>6. CASE Violation(p) BY <2>6, ViolationStep
  <2>7. CASE Commit(p) BY <2>7, CommitStep
  <2>8. CASE Fail(p) BY <2>8, RestStep DEF Fail
  <2> QED BY <1>2, <2>1, <2>2, <2>3, <2>4, <2>5, <2>6, <2>7, <2>8 DEF Step
<1> QED BY <1>1, <1>2 DEF Next

LEMMA InitIInv == Init => IInv
<1> SUFFICES ASSUME Init PROVE IInv OBVIOUS
<1>1. rows = [n \in Names |-> <<>>] /\ \A p \in Clients : txn[p] = Rest BY DEF Init
<1>2. <<>> \in Seq(Row) /\ Len(<<>>) = 0 /\ DOMAIN <<>> = {} OBVIOUS
<1>3. TypeOK BY <1>2 DEF Init, TypeOK
<1>4. Versions BY <1>1, <1>2 DEF Versions
<1>5. AllSound BY <1>1, RestFields DEF AllSound, Sound
<1>6. OneLock /\ Apart /\ Clear BY <1>1, RestFields DEF OneLock, Apart, Clear
<1> QED BY <1>3, <1>4, <1>5, <1>6 DEF IInv

LEMMA IInvCorrect == Spec => []IInv
BY InitIInv, IInvStep, PTL DEF Spec

-----------------------------------------------------------------------------
(* Theorems.                                                               *)

\* The types.
THEOREM TypeCorrect == Spec => []TypeOK
<1>1. IInv => TypeOK BY DEF IInv
<1> QED BY <1>1, IInvCorrect, PTL

LEMMA UsersInit == Init => Directory!DirectoryInit
<1> SUFFICES ASSUME Init PROVE users = [n \in Names |-> None]
  BY DEF Directory!DirectoryInit
<1>1. \A n \in Names : rows[n] = <<>> BY DEF Init
<1>2. \A n \in Names : Current(n) = NoRow BY <1>1 DEF Current
<1> QED BY <1>2 DEF users

\* A commit replaces the current row of its user name by what it inserted.
LEMMA CommitReplaces ==
  ASSUME IInv, NEW p \in Clients, Commit(p)
  PROVE  Directory!Replace(txn[p].name, txn[p].attrs)
<1> DEFINE n == txn[p].name
<1>1. txn[p] \in Transaction /\ txn[p].opened BY CommitRows
<1>2. n \in Names BY <1>1, TxnFields
<1>3. users' = [users EXCEPT ![n] = txn[p].attrs]
  <2>1. ASSUME NEW m \in Names PROVE users'[m] = IF m = n THEN txn[p].attrs ELSE users[m]
    <3>1. CASE m # n
      <4>1. Current(m)' = Current(m) /\ rows'[m] = rows[m] BY <3>1, CommitCurrent
      <4> QED BY <3>1, <4>1 DEF users
    <3>2. CASE m = n
      <4>1. Current(m)' # NoRow /\ rows'[m][Current(m)'].attrs = txn[p].attrs
        BY <3>2, CommitCurrent
      <4> QED BY <3>2, <4>1 DEF users
    <3> QED BY <3>1, <3>2
  <2>2. /\ users = [m \in Names |-> users[m]] /\ users' = [m \in Names |-> users'[m]]
    BY DEF users
  <2> HIDE DEF n
  <2> QED BY <1>2, <2>1, <2>2 DEF n
<1>4. ~Directory!Taken(n, txn[p].attrs.ext)
  <2> SUFFICES ASSUME txn[p].attrs.ext # None, NEW o \in Names \ {n}, users[o] # None,
                      users[o].ext = txn[p].attrs.ext
               PROVE  FALSE
    BY DEF Directory!Taken
  <2>1. Current(o) # NoRow /\ users[o] = rows[o][Current(o)].attrs BY DEF users
  <2>2. Same(n, txn[p].attrs.ext, o, rows[o][Current(o)].attrs.ext) BY <2>1 DEF Same
  <2> QED BY <1>1, <2>1, <2>2 DEF IInv, Clear
<1> QED BY <1>3, <1>4 DEF Directory!Replace

LEMMA UsersNext == IInv /\ [Next]_vars => [Directory!DirectoryNext]_users
<1> SUFFICES ASSUME IInv, [Next]_vars PROVE [Directory!DirectoryNext]_users OBVIOUS
<1>1. CASE rows' = rows BY <1>1 DEF users, Current
<1>2. ASSUME NEW p \in Clients, Commit(p) PROVE Directory!DirectoryNext
  <2>1. txn[p] \in Transaction BY <1>2, CommitRows
  <2>2. txn[p].name \in Names /\ txn[p].attrs \in Directory!Entry
    BY <2>1, TxnFields DEF Attributes, Directory!Entry
  <2>3. Directory!Replace(txn[p].name, txn[p].attrs) BY <1>2, CommitReplaces
  <2> QED BY <2>2, <2>3 DEF Directory!DirectoryNext
<1>3. ASSUME NEW p \in Clients, Step(p), ~Commit(p) PROVE rows' = rows
  BY <1>3 DEF Step, Create, Put, Replacement, PatchActive, PatchInactive, Select, Update, Wake,
              Insert, Violation, Fail, To
<1> QED BY <1>1, <1>2, <1>3 DEF Next, IssueToken, vars

\* Whatever requests race, wait for a lock, violate an index, try again or fail, the
\* versioned table is a UserDirectory: the specification that Access relies on.
THEOREM ImplementsDirectoryCorrect == Spec => ImplementsDirectory
<1>1. Init => Directory!DirectoryInit BY UsersInit
<1>2. IInv /\ [Next]_vars => [Directory!DirectoryNext]_users BY UsersNext
<1> QED BY <1>1, <1>2, IInvCorrect, PTL DEF Spec, ImplementsDirectory, Directory!DirectorySpec

LEMMA DeactivateStep == IInv /\ [Next]_vars => [PreservesOthers]_vars
<1> SUFFICES ASSUME IInv, NEW p \in Clients, Commit(p), txn[p].op = "deactivate"
             PROVE  LET n == txn[p].name
                    IN /\ Current(n) # NoRow
                       /\ txn[p].attrs = Deactivated(rows[n][Current(n)].attrs)
  BY DEF PreservesOthers
<1> DEFINE n == txn[p].name
           id == txn[p].id
<1>1. txn[p] \in Transaction /\ txn[p].opened BY CommitRows
<1>2. Sound(txn[p]) /\ n \in Names BY <1>1, TxnFields DEF IInv, AllSound
<1>3. /\ id \in DOMAIN rows[n] /\ txn[p].attrs = Deactivated(rows[n][id].attrs)
      /\ txn[p].closed \in {NoRow, id}
  BY <1>2 DEF Sound, Commit
<1>4. Current(n) # NoRow
  <2>1. Len(rows[n]) # 0 BY <1>2, <1>3, RowsType DEF IInv
  <2> QED BY <1>2, <2>1, CurrentIsLast DEF IInv, NoRow
<1>5. Same(n, txn[p].attrs.ext, n, rows[n][Current(n)].attrs.ext) BY DEF Same
<1>6. Current(n) = id BY <1>1, <1>2, <1>3, <1>4, <1>5 DEF IInv, Clear
<1> QED BY <1>3, <1>4, <1>6

\* No deactivation undoes a replacement that was committed while it waited: the row that it
\* copied is the one that is current when it commits, or it does not commit.
THEOREM DeactivatePreservesCorrect == Spec => DeactivatePreserves
<1>1. IInv /\ [Next]_vars => [PreservesOthers]_vars BY DeactivateStep
<1> QED BY <1>1, IInvCorrect, PTL DEF Spec, DeactivatePreserves

=============================================================================
