----------------------------- MODULE UserDirectory ---------------------------
(***************************************************************************)
(* What scim_user promises to the rest of the system: per user name the    *)
(* current row, which a change replaces as a whole and never takes away,   *)
(* and no external id on two current rows.  ScimUsers implements it;       *)
(* Access reads it.                                                        *)
(***************************************************************************)
CONSTANTS
  Names,    \* user names, each of one tenant
  Exts,     \* external ids
  Roles,    \* Role
  None      \* no row; no external id

VARIABLE users   \* users[n]: what the current row of n says

Entry == [ext: Exts \cup {None}, role: Roles, active: BOOLEAN]

Taken(n, e) ==
  e # None /\ \E o \in Names \ {n} : users[o] # None /\ users[o].ext = e

DirectoryInit == users = [n \in Names |-> None]

\* create_or_replace_user and deactivate_user, once committed.
Replace(n, row) ==
  /\ ~Taken(n, row.ext)
  /\ users' = [users EXCEPT ![n] = row]

DirectoryNext == \E n \in Names, row \in Entry : Replace(n, row)

DirectorySpec == DirectoryInit /\ [][DirectoryNext]_users

=============================================================================
