-------------------------------- MODULE Access -------------------------------
(***************************************************************************)
(* Admission to the API (auth.py): a request presents an API key or an     *)
(* OIDC token, is resolved to a principal of one tenant, is checked        *)
(* against its role and its tenant's monthly quota, and leaves an audit    *)
(* row before it is answered.  Each step below is one transaction or one   *)
(* READ COMMITTED statement; workers serve requests at the same time,      *)
(* while tenants, their identity providers and their SCIM users change.    *)
(* The users are a UserDirectory, which ScimUsers implements.              *)
(***************************************************************************)
EXTENDS Integers, FiniteSets

CONSTANTS
  Workers,       \* requests being served at one time
  Tenants, Subjects, Roles, None,
  Configs,       \* tenant_idp_config of one issuer and audience: [map, default]
  Tokens,        \* verifiable OIDC tokens for them: [subject, claim]
  Provisions,    \* bound: the [role, quota] that tenants are created with
  Exts,          \* external ids
  Entries,       \* bound: what SCIM makes of a user
  MaxMonth,      \* bound: the last month
  MaxRequests    \* bound: requests served

ASSUME TypeAssumption ==
  /\ {"viewer", "editor"} \subseteq Roles
  /\ None \notin Tenants \cup Subjects \cup Roles /\ None \notin Tokens
  /\ \A c \in Configs : c.default \in Roles
                        /\ \A k \in DOMAIN c.map : c.map[k] \in Roles
  /\ \A k \in Tokens : k.subject \in Subjects \cup {None}
ASSUME BoundsAssumption ==
  /\ Provisions \subseteq [role: Roles, quota: Nat]
  /\ Entries \subseteq [ext: Exts \cup {None}, role: Roles, active: BOOLEAN]
  /\ MaxMonth \in Nat /\ MaxRequests \in Nat
  /\ IsFiniteSet(Workers)

Names == Tenants \X Subjects

VARIABLES
  month,       \* the calendar month of the clock
  begun,       \* requests served so far
  key,         \* key[t]: the role of t's API key; None: no such tenant yet
  quota,       \* quota[t]: monthly_request_quota
  config,      \* config[t]: its enabled tenant_idp_config
  users,       \* the current scim_user rows
  usage,       \* usage[t][m]: usage_event rows that occurred since month m began
  audit,       \* audit[t][s]: audit_log rows with status s
  req,         \* req[w]: the request that w serves
  answered     \* history: answered[t][s]: principals that have had answer s

Directory == INSTANCE UserDirectory

admin   == <<key, quota, config>>
records == <<usage, audit, answered>>
vars == <<month, begun, admin, users, records, req>>

Months   == 0..MaxMonth
Statuses == {200, 403, 429}    \* any declared success is 200
Perms    == {"read", "write"}

\* barred: history: the users that have been deactivated ever since a token came.
\* since: the start of the window that usage is counted in, by the process; stamp: the month
\* in which the metering transaction began, by the database.
Request ==
  [at: {"resolve", "lookup", "permit", "begin", "meter", "record", "deny",
        "answer"},
   token: Tokens \cup {None}, perm: Perms, tenant: Tenants \cup {None}, role: Roles \cup {None},
   since: Months, stamp: Months, status: Statuses, barred: SUBSET Names]
Idle ==
  [at |-> "idle", token |-> None, perm |-> "read", tenant |-> None, role |-> None,
   since |-> 0, stamp |-> 0, status |-> 200, barred |-> {}]

Inactive == {n \in Names : users[n] # None /\ ~users[n].active}

TypeOK ==
  /\ month \in Months /\ begun \in 0..MaxRequests
  /\ key \in [Tenants -> Roles \cup {None}]
  /\ quota \in [Tenants -> Nat]
  /\ config \in [Tenants -> Configs \cup {None}]
  /\ users \in [Names -> Directory!Entry \cup {None}]
  /\ usage \in [Tenants -> [Months \cup {MaxMonth + 1} -> Nat]]
  /\ audit \in [Tenants -> [Statuses -> Nat]]
  /\ answered \in [Tenants -> [Statuses -> Nat]]
  /\ req \in [Workers -> Request \cup {Idle}]

Init ==
  /\ month = 0 /\ begun = 0
  /\ key = [t \in Tenants |-> None]
  /\ quota = [t \in Tenants |-> 0]
  /\ config = [t \in Tenants |-> None]
  /\ Directory!DirectoryInit
  /\ usage = [t \in Tenants |-> [m \in Months \cup {MaxMonth + 1} |-> 0]]
  /\ audit = [t \in Tenants |-> [s \in Statuses |-> 0]]
  /\ answered = [t \in Tenants |-> [s \in Statuses |-> 0]]
  /\ req = [w \in Workers |-> Idle]

-----------------------------------------------------------------------------
NextMonth ==
  /\ month < MaxMonth /\ month' = month + 1
  /\ UNCHANGED <<begun, admin, users, records, req>>

\* The tenant and its API key, in one transaction.
ProvisionTenant(t, role, limit) ==
  /\ key' = [key EXCEPT ![t] = role]
  /\ quota' = [quota EXCEPT ![t] = limit]

CreateTenant(t) ==
  /\ key[t] = None
  /\ \E p \in Provisions : ProvisionTenant(t, p.role, p.quota)
  /\ UNCHANGED <<month, begun, config, users, records, req>>

\* Nothing stops two tenants from naming one issuer and audience.
UpsertIdpConfig(t, c) == config' = [config EXCEPT ![t] = c]

PutIdpConfig(t) ==
  /\ key[t] # None
  /\ \E c \in Configs : UpsertIdpConfig(t, c)
  /\ UNCHANGED <<month, begun, key, quota, users, records, req>>

\* A SCIM request commits.
ChangeUser ==
  /\ \E n \in Names : key[n[1]] # None
                      /\ \E row \in Entries : Directory!Replace(n, row)
  /\ req' = [w \in Workers |-> [req[w] EXCEPT !.barred = @ \cap Inactive']]
  /\ UNCHANGED <<month, begun, admin, records>>

-----------------------------------------------------------------------------
To(w, r) == req' = [req EXCEPT ![w] = r]
Kept == UNCHANGED <<month, begun, admin, users>>

Arrival(token, tenant, perm, barred) ==
  [at |-> "resolve", token |-> token, perm |-> perm, tenant |-> tenant, role |-> None,
   since |-> 0, stamp |-> 0, status |-> 200, barred |-> barred]

\* A request with an API key (token = None), which its tenant has, or with a token.
Arrive(w) ==
  /\ req[w].at = "idle" /\ begun < MaxRequests
  /\ begun' = begun + 1
  /\ \E p \in Perms : \/ \E k \in Tokens : To(w, Arrival(k, None, p, Inactive))
                      \/ \E t \in Tenants : To(w, Arrival(None, t, p, {}))
  /\ UNCHANGED <<month, admin, users, records>>

\* api_keys.resolve: of a tenant's key, the tenant and the role; 401 if there is none.
ResolveKey(w) ==
  LET t == req[w].tenant
  IN /\ req[w].at = "resolve" /\ req[w].token = None
     /\ To(w, IF key[t] = None THEN Idle
              ELSE [req[w] EXCEPT !.at = "permit", !.role = key[t]])
     /\ Kept /\ UNCHANGED records

\* The role of a verified token: by the tenant's role_claim_map, or default_role.
MappedRole(c, k) == IF k.claim \in DOMAIN c.map THEN c.map[k.claim] ELSE c.default

\* find_idp_config: of several tenants none is taken.
FindIdpConfig == LET found == {t \in Tenants : config[t] # None}
                 IN IF Cardinality(found) = 1 THEN found ELSE {}

\* verify_oidc_token: 401 unless a tenant is found.
ResolveToken(w) ==
  LET k == req[w].token
  IN /\ req[w].at = "resolve" /\ k # None
     /\ \/ /\ FindIdpConfig = {}
           /\ To(w, Idle)
        \/ \E t \in FindIdpConfig :
             To(w, [req[w] EXCEPT !.at = IF k.subject = None THEN "permit" ELSE "lookup",
                                  !.tenant = t, !.role = MappedRole(config[t], k)])
     /\ Kept /\ UNCHANGED records

\* Mutant: the query asks for active rows only, and a deactivated user is one that SCIM
\* does not know.
LookUpActive(w) ==
  LET row == users[<<req[w].tenant, req[w].token.subject>>]
  IN /\ req[w].at = "lookup"
     /\ To(w, [req[w] EXCEPT !.at = "permit",
                             !.role = IF row # None /\ row.active THEN row.role ELSE @])
     /\ Kept /\ UNCHANGED records

\* get_current_user_by_username, in a session of its own: a deactivated user is refused
\* (401), and an active one has the role that SCIM gave it.
LookUp(w) ==
  LET row == users[<<req[w].tenant, req[w].token.subject>>]
  IN /\ req[w].at = "lookup"
     /\ To(w, IF row = None THEN [req[w] EXCEPT !.at = "permit"]
              ELSE IF ~row.active THEN Idle
              ELSE [req[w] EXCEPT !.at = "permit", !.role = row.role])
     /\ Kept /\ UNCHANGED records

\* _role_grants.
Grants(role, perm) == perm = "read" \/ role = "editor"

\* Neither the role nor the permission matters once they have been compared.
Allowed(r, since)  == [r EXCEPT !.at = "begin", !.perm = "read", !.role = None, !.since = since]
Refused(r, status) == [r EXCEPT !.at = "deny", !.perm = "read", !.role = None, !.status = status]

\* require_permission: 403, or current_calendar_month_start() before the transaction.
Permit(w) ==
  /\ req[w].at = "permit"
  /\ To(w, IF Grants(req[w].role, req[w].perm)
           THEN Allowed(req[w], month)
           ELSE Refused(req[w], 403))
  /\ Kept /\ UNCHANGED records

\* tenant_session: the transaction begins; a row that it inserts has the time of this.
BeginMetering(w) ==
  /\ req[w].at = "begin"
  /\ To(w, [req[w] EXCEPT !.at = "meter", !.stamp = month])
  /\ Kept /\ UNCHANGED records

CountUsage(t, since) == usage[t][since]

\* Mutant: used > quota.
MeterOffByOne(w) ==
  LET exhausted == CountUsage(req[w].tenant, req[w].since) > quota[req[w].tenant]
  IN /\ req[w].at = "meter"
     /\ To(w, [req[w] EXCEPT !.at = IF exhausted THEN "deny" ELSE "record",
                             !.status = IF exhausted THEN 429 ELSE 200])
     /\ Kept /\ UNCHANGED records

\* _meter_and_audit_allow: the transaction counts what is committed by now.
Meter(w) ==
  LET exhausted == CountUsage(req[w].tenant, req[w].since) >= quota[req[w].tenant]
  IN /\ req[w].at = "meter"
     /\ To(w, [req[w] EXCEPT !.at = IF exhausted THEN "deny" ELSE "record",
                             !.status = IF exhausted THEN 429 ELSE 200])
     /\ Kept /\ UNCHANGED records

\* All that matters of a request from here on.
Decided(w) == [req[w] EXCEPT !.at = "answer", !.since = 0, !.stamp = 0]

\* A row of the month `stamp' is in every window that starts no later.
RecordUsage(t, stamp) ==
  usage' = [usage EXCEPT ![t] = [m \in DOMAIN @ |-> @[m] + (IF m <= stamp THEN 1 ELSE 0)]]

RecordAccess(t, s) == audit' = [audit EXCEPT ![t][s] = @ + 1]

\* The rest of the metering transaction, and its COMMIT.
Record(w) ==
  /\ req[w].at = "record"
  /\ RecordUsage(req[w].tenant, req[w].stamp)
  /\ RecordAccess(req[w].tenant, 200)
  /\ To(w, Decided(w))
  /\ Kept /\ UNCHANGED answered

\* Mutant: the row is written in the session that the HTTPException then leaves.
DenyInSession(w) ==
  /\ req[w].at = "deny"
  /\ To(w, Decided(w))
  /\ Kept /\ UNCHANGED records

\* _audit of a refusal, committed before the exception is raised.
Deny(w) ==
  /\ req[w].at = "deny"
  /\ RecordAccess(req[w].tenant, req[w].status)
  /\ To(w, Decided(w))
  /\ Kept /\ UNCHANGED <<usage, answered>>

\* The answer: the exception, or the tenant, which the handler of the route then serves.
Answer(w) ==
  /\ req[w].at = "answer"
  /\ answered' = [answered EXCEPT ![req[w].tenant][req[w].status] = @ + 1]
  /\ To(w, Idle)
  /\ Kept /\ UNCHANGED <<usage, audit>>

\* A statement fails (500), or the process stops.
Fail(w) ==
  /\ req[w].at # "idle"
  /\ To(w, Idle)
  /\ Kept /\ UNCHANGED records

Serve(w) ==
  \/ Arrive(w) \/ ResolveKey(w) \/ ResolveToken(w) \/ LookUp(w) \/ Permit(w)
  \/ BeginMetering(w) \/ Meter(w) \/ Record(w) \/ Deny(w) \/ Answer(w) \/ Fail(w)

Next ==
  \/ NextMonth \/ ChangeUser
  \/ \E t \in Tenants : CreateTenant(t) \/ PutIdpConfig(t)
  \/ \E w \in Workers : Serve(w)

Spec == Init /\ [][Next]_vars

-----------------------------------------------------------------------------
\* usage_event rows that occurred in month m.
Rows(t, m) == usage[t][m] - usage[t][m + 1]

\* A month's quota is overrun by no more than the requests that were counting at the same
\* time as the one that used it up: _meter_and_audit_allow counts and inserts without a lock.
QuotaOverrun ==
  \A t \in Tenants, m \in Months :
    Rows(t, m) > 0 => Rows(t, m) <= quota[t] + Cardinality(Workers) - 1

\* What was answered to a principal can be accounted for, whatever failed: its audit row was
\* committed first, and usage has one row per request allowed (make_permission_dependency).
Accountable ==
  \A t \in Tenants :
    /\ \A s \in Statuses : answered[t][s] <= audit[t][s]
    /\ usage[t][0] = audit[t][200]

\* A user that was deactivated before its request came, and is so still, is not let in: not
\* by another tenant's provider, nor by a role that its token carries (the SCIM lookup of
\* _resolve_principal_or_401).
DeactivatedKeptOut ==
  \A w \in Workers :
    req[w].at \notin {"idle", "resolve", "lookup"} /\ req[w].token # None =>
      <<req[w].tenant, req[w].token.subject>> \notin req[w].barred

=============================================================================
