------------------------------- MODULE ScimUsers -----------------------------
(***************************************************************************)
(* SCIM provisioning: the requests of app.py's /scim/v2/Users over the     *)
(* versioned table scim_user (scim_users.py), several at a time.           *)
(*                                                                         *)
(* No row is changed but to be closed: every change closes the current row *)
(* of a user name and opens another, with an id of its own.  An id is a    *)
(* user name and the number of its row; one id names one row for good.     *)
(* Each request is one READ COMMITTED transaction: `rows' is what is       *)
(* committed, txn[p] holds what p closed and opened and has not.           *)
(***************************************************************************)
EXTENDS Integers, Sequences, FiniteSets

CONSTANTS
  Clients,    \* requests being served at one time
  Names, Exts, Roles, None,
  Asked,      \* bound: the attributes that requests ask for
  MaxRows     \* bound: rows of all the names together

Attributes == [ext: Exts \cup {None}, role: Roles, active: BOOLEAN]
Row        == [attrs: Attributes, open: BOOLEAN]

ASSUME NoneAssumption   == None \notin Names \cup Exts
ASSUME BoundsAssumption == MaxRows \in Nat /\ Asked \subseteq Attributes

VARIABLES
  rows,     \* rows[n]: the committed rows of user name n, oldest first
  txn,      \* txn[p]: the transaction of p
  issued    \* a scim_provisioning_token exists

vars == <<rows, txn, issued>>

\* at: the statement that p is about to execute; "wait": its UPDATE waits for
\* the lock of row `target'.  op: deactivate_user or create_or_replace_user; for
\* PATCH active=true, "reactivate".  name, attrs: what is to be inserted; id: the row that
\* deactivate_user was given; again: the retry; closed, opened: its own changes.
Transaction ==
  [at: {"select", "update", "wait", "insert", "commit"},
   op: {"replace", "reactivate", "deactivate"},
   name: Names, attrs: Attributes, id: Nat, again: BOOLEAN,
   target: Nat, closed: Nat, opened: BOOLEAN]

NoRow == 0

Current(n) == IF rows[n] # <<>> /\ rows[n][Len(rows[n])].open THEN Len(rows[n]) ELSE NoRow

Rest == [at |-> "idle", op |-> None, name |-> None, attrs |-> None, id |-> NoRow,
         again |-> FALSE, target |-> NoRow, closed |-> NoRow, opened |-> FALSE]

Init ==
  /\ rows = [n \in Names |-> <<>>]
  /\ txn = [p \in Clients |-> Rest]
  /\ issued = FALSE

-----------------------------------------------------------------------------
\* issue_tenant_scim_token; without it every request below is answered 401.
IssueToken ==
  /\ ~issued /\ issued' = TRUE
  /\ UNCHANGED <<rows, txn>>

To(p, t) == txn' = [txn EXCEPT ![p] = t] /\ UNCHANGED <<rows, issued>>

\* A transaction as it begins: the first statement, what it is to do.
Begun(at, op, n, id, attrs) ==
  [at |-> at, op |-> op, name |-> n, attrs |-> attrs, id |-> id, again |-> FALSE,
   target |-> NoRow, closed |-> NoRow, opened |-> FALSE]

Ready(p) == issued /\ txn[p].at = "idle"

Replacement(p) ==
  \E n \in Names, attrs \in Asked : To(p, Begun("update", "replace", n, NoRow, attrs))

\* scim_create_user.
Create(p) == Ready(p) /\ Replacement(p)

\* scim_put_user only asks that its id has a row: the user name that it replaces is the
\* one in its body.
Put(p) == Ready(p) /\ (\E n \in Names : rows[n] # <<>>) /\ Replacement(p)

\* scim_patch_user.  get_user_by_id finds a row by its id whether it is current or not,
\* and what it reads of one (all but valid_to) never changes: it is read at the start.
PatchActive(p) ==
  /\ Ready(p)
  /\ \E n \in Names : \E id \in 1..Len(rows[n]) :
       To(p, Begun("update", "reactivate", n, NoRow,
                   [rows[n][id].attrs EXCEPT !.active = TRUE]))

Deactivated(attrs) == [attrs EXCEPT !.active = FALSE]

PatchInactive(p) ==
  /\ Ready(p)
  /\ \E n \in Names : \E id \in 1..Len(rows[n]) :
       To(p, Begun("select", "deactivate", n, id,
                   Deactivated(rows[n][id].attrs)))

\* deactivate_user's SELECT: of a row that is no longer current it says None, which is
\* answered 404.
Select(p) ==
  /\ txn[p].at = "select"
  /\ To(p, IF rows[txn[p].name][txn[p].id].open THEN [txn[p] EXCEPT !.at = "update"]
           ELSE Rest)

-----------------------------------------------------------------------------
(* The close and open, _do.  PostgreSQL: an UPDATE takes the rows that match  *)
(* when it starts, waits for the lock of each, and leaves out one that by     *)
(* then has been closed, without looking for its successor.                   *)
Locked(p, n, r) == \E q \in Clients \ {p} : txn[q].name = n /\ txn[q].closed = r

\* Mutant: deactivate_user closes by user name too.
MatchingByName(t) == Current(t.name)

\* By name for a replacement, by id for a deactivation.
Matching(t) ==
  IF t.op = "deactivate"
  THEN IF rows[t.name][t.id].open THEN t.id ELSE NoRow
  ELSE Current(t.name)

Closing(t, r) == [t EXCEPT !.at = "insert", !.closed = r]

Update(p) ==
  LET t == txn[p]
      r == Matching(t)
  IN /\ t.at = "update"
     /\ To(p, IF r # NoRow /\ Locked(p, t.name, r)
              THEN [t EXCEPT !.at = "wait", !.target = r]
              ELSE Closing(t, r))

Wake(p) ==
  LET t == txn[p]
  IN /\ t.at = "wait" /\ ~Locked(p, t.name, t.target)
     /\ To(p, [Closing(t, IF rows[t.name][t.target].open THEN t.target ELSE NoRow)
                 EXCEPT !.target = NoRow])

\* scim_user_current_username and scim_user_current_external_id.
Same(n, e, m, f) == n = m \/ (e # None /\ e = f)

\* A committed row that nobody is closing stands in the way of p's INSERT.
Violates(p) ==
  \E n \in Names :
    LET r == Current(n)
    IN /\ r # NoRow /\ Same(txn[p].name, txn[p].attrs.ext, n, rows[n][r].attrs.ext)
       /\ ~\E q \in Clients : txn[q].name = n /\ txn[q].closed = r

\* Whether one does depends on how another transaction ends.
InDoubt(p) ==
  \E q \in Clients \ {p} :
    \/ /\ txn[q].opened
       /\ Same(txn[p].name, txn[p].attrs.ext, txn[q].name, txn[q].attrs.ext)
    \/ /\ txn[q].closed # NoRow
       /\ Same(txn[p].name, txn[p].attrs.ext, txn[q].name,
               rows[txn[q].name][txn[q].closed].attrs.ext)

\* Mutant: the second violation is answered, and the transaction goes on to its end with
\* the close.
ViolationCloses(p) ==
  /\ txn[p].at = "insert" /\ Violates(p)
  /\ To(p, IF txn[p].again THEN [txn[p] EXCEPT !.at = "commit"]
           ELSE [txn[p] EXCEPT !.at = "update", !.closed = NoRow, !.again = TRUE])

\* The first violation rolls back to the savepoint, and _do is called again; the
\* second is the caller's, and ends the transaction (409, or 500 for PATCH).
Violation(p) ==
  /\ txn[p].at = "insert" /\ Violates(p)
  /\ To(p, IF txn[p].again THEN Rest
           ELSE [txn[p] EXCEPT !.at = "update", !.closed = NoRow, !.again = TRUE])

AllRows == UNION {{n} \X DOMAIN rows[n] : n \in Names}

Insert(p) ==
  /\ txn[p].at = "insert" /\ ~Violates(p) /\ ~InDoubt(p)
  /\ Cardinality(AllRows) < MaxRows
  /\ To(p, [txn[p] EXCEPT !.at = "commit", !.opened = TRUE])

\* What the table holds once p's changes are in it.
Applied(t) ==
  LET closed == [r \in DOMAIN rows[t.name] |->
                   IF r = t.closed THEN [rows[t.name][r] EXCEPT !.open = FALSE]
                   ELSE rows[t.name][r]]
  IN [rows EXCEPT ![t.name] =
        IF t.opened THEN Append(closed, [attrs |-> t.attrs, open |-> TRUE]) ELSE closed]

Commit(p) ==
  /\ txn[p].at = "commit"
  /\ rows' = Applied(txn[p])
  /\ txn' = [txn EXCEPT ![p] = Rest]
  /\ UNCHANGED issued

\* Any statement may fail: a lost connection, a deadlock victim, a server stopped.
Fail(p) == txn[p].at # "idle" /\ To(p, Rest)

Step(p) ==
  \/ Create(p) \/ Put(p) \/ PatchActive(p) \/ PatchInactive(p)
  \/ Select(p) \/ Update(p) \/ Wake(p) \/ Insert(p) \/ Violation(p) \/ Commit(p) \/ Fail(p)

Next == IssueToken \/ \E p \in Clients : Step(p)

Spec == Init /\ [][Next]_vars

-----------------------------------------------------------------------------
TypeOK ==
  /\ rows \in [Names -> Seq(Row)]
  /\ txn \in [Clients -> Transaction \cup {Rest}]
  /\ issued \in BOOLEAN

\* What the rest of the system reads of the table.
users == [n \in Names |-> IF Current(n) = NoRow THEN None ELSE rows[n][Current(n)].attrs]

Directory == INSTANCE UserDirectory

\* The table implements the directory that the rest of the system reads: whatever is
\* committed replaces one user's current row as a whole.  A user name that once had a current
\* row never loses it, and no external id is on two of them, whichever writers race
\* (create_or_replace_user, deactivate_user and their retries).
ImplementsDirectory == Directory!DirectorySpec

PreservesOthers ==
  \A p \in Clients : Commit(p) /\ txn[p].op = "deactivate" =>
    LET n == txn[p].name
    IN Current(n) # NoRow /\ txn[p].attrs = Deactivated(rows[n][Current(n)].attrs)

\* A deactivation changes nothing but `active' of the row that was current when it is
\* committed, though it copies what it read before its locks (deactivate_user: "preserving
\* other attributes"): a replacement committed meanwhile is never undone by it.
DeactivatePreserves == [][PreservesOthers]_vars

=============================================================================
