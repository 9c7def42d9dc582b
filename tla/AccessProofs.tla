----------------------------- MODULE AccessProofs ----------------------------
(***************************************************************************)
(* Proofs about Access for any number of workers, tenants, users and       *)
(* months: how far a quota can be overrun, that what is answered is        *)
(* accounted for, and that a deactivated user is kept out.                 *)
(***************************************************************************)
EXTENDS Access, FiniteSetTheorems, TLAPS

Clocks  == Months \cup {MaxMonth + 1}
Req     == Request \cup {Idle}

\* Past the resolution of its credential.
Admitted == {"lookup", "permit", "begin", "meter", "record", "deny", "answer"}

\* What a request carries at each of its steps.
Carries(r) ==
  /\ r.at \in Admitted => r.tenant \in Tenants /\ key[r.tenant] # None
  /\ (r.at = "resolve" /\ r.token = None) => r.tenant \in Tenants
  /\ r.at = "lookup" => r.token # None /\ r.token.subject \in Subjects
  /\ r.at = "begin" => r.since <= month
  /\ r.at = "meter" => r.since <= r.stamp
  /\ r.at = "record" => r.status = 200
  /\ r.at = "deny" => r.status # 200
ServeInv == \A w \in Workers : Carries(req[w])

\* A tenant that does not exist has no provider and no usage; the earlier a window
\* starts, the more rows are in it.
UsageInv ==
  \A t \in Tenants :
    /\ key[t] = None => config[t] = None /\ \A m \in Clocks : usage[t][m] = 0
    /\ \A a, b \in Clocks : a <= b => usage[t][b] <= usage[t][a]

\* Requests of t that were counted in month m and have no row yet.
Pending(t, m) ==
  {w \in Workers : req[w].at = "record" /\ req[w].tenant = t /\ req[w].stamp = m}

\* With them, the rows of a month are within the bound of QuotaOverrun.
Taken(t, m) == Rows(t, m) + Cardinality(Pending(t, m))
QuotaInv ==
  \A t \in Tenants, m \in Months :
    Taken(t, m) > 0 => Taken(t, m) <= quota[t] + Cardinality(Workers) - 1

\* Requests of t that are to be answered s.
Owed(t, s) ==
  {w \in Workers : req[w].at = "answer" /\ req[w].tenant = t /\ req[w].status = s}

AuditInv ==
  \A t \in Tenants :
    /\ \A s \in Statuses : answered[t][s] + Cardinality(Owed(t, s)) <= audit[t][s]
    /\ usage[t][0] = audit[t][200]

BarredInv == \A w \in Workers : req[w].barred \subseteq Inactive

-----------------------------------------------------------------------------
(* Sets of workers.                                                        *)

LEMMA Counted ==
  ASSUME NEW A, A \subseteq Workers
  PROVE  IsFiniteSet(A) /\ Cardinality(A) \in Nat /\ Cardinality(A) <= Cardinality(Workers)
         /\ Cardinality(Workers) \in Nat
BY BoundsAssumption, FS_Subset, FS_CardinalityType

LEMMA Fewer ==
  ASSUME NEW A, A \subseteq Workers, NEW B, B \subseteq A
  PROVE  Cardinality(B) <= Cardinality(A)
BY Counted, FS_Subset

LEMMA OneFewer ==
  ASSUME NEW A, A \subseteq Workers, NEW w \in A, NEW B, B \subseteq A \ {w}
  PROVE  Cardinality(B) + 1 <= Cardinality(A)
<1>1. IsFiniteSet(A) BY Counted
<1>2. Cardinality(A \ {w}) = Cardinality(A) - 1 BY <1>1, FS_RemoveElement
<1>3. A \ {w} \subseteq Workers OBVIOUS
<1>4. Cardinality(B) <= Cardinality(A \ {w}) BY <1>3, Fewer
<1>5. B \subseteq Workers OBVIOUS
<1> QED BY <1>2, <1>3, <1>4, <1>5, Counted

LEMMA OneMore ==
  ASSUME NEW A, A \subseteq Workers, NEW w \in Workers, NEW B, B \subseteq A \cup {w}
  PROVE  Cardinality(B) <= Cardinality(A) + 1
<1>1. CASE w \in B
  <2>1. B \subseteq Workers OBVIOUS
  <2>2. B \ {w} \subseteq A OBVIOUS
  <2>3. Cardinality(B \ {w}) <= Cardinality(A) BY <2>2, Fewer
  <2>4. Cardinality(B \ {w}) = Cardinality(B) - 1 BY <1>1, <2>1, Counted, FS_RemoveElement
  <2> QED BY <2>1, <2>3, <2>4, Counted
<1>2. CASE w \notin B
  <2>1. B \subseteq A BY <1>2
  <2>2. B \subseteq Workers OBVIOUS
  <2> QED BY <2>1, <2>2, Fewer, Counted
<1> QED BY <1>1, <1>2

-----------------------------------------------------------------------------
(* Types.                                                                  *)

LEMMA Defaults == 0 \in Months /\ 200 \in Statuses /\ Idle \in Req /\ Idle.at = "idle"
BY BoundsAssumption DEF Months, Statuses, Req, Idle

LEMMA InitType == Init => TypeOK
<1> SUFFICES ASSUME Init PROVE TypeOK OBVIOUS
<1>1. 0 \in Months /\ 0 \in 0..MaxRequests /\ 0 \in Nat
  BY BoundsAssumption DEF Months
<1>2. users \in [Names -> Directory!Entry \cup {None}]
  BY DEF Init, Directory!DirectoryInit
<1>3. req \in [Workers -> Request \cup {Idle}] BY DEF Init
<1> QED BY <1>1, <1>2, <1>3 DEF Init, TypeOK

\* A worker's step leaves a request of the right type.
LEMMA ServedType ==
  ASSUME TypeOK, NEW w \in Workers, NEW r \in Req, To(w, r)
  PROVE  /\ req' \in [Workers -> Request \cup {Idle}]
         /\ req'[w] = r /\ \A v \in Workers \ {w} : req'[v] = req[v]
BY DEF TypeOK, To, Req

LEMMA RequestFields ==
  ASSUME NEW r \in Req, r.at # "idle"
  PROVE  r \in Request
BY DEF Req, Idle

LEMMA Movable ==
  ASSUME NEW r \in Request
  PROVE  /\ r.token \in Tokens \cup {None} /\ r.tenant \in Tenants \cup {None}
         /\ r.role \in Roles \cup {None} /\ r.since \in Months /\ r.stamp \in Months
         /\ r.status \in Statuses /\ r.barred \in SUBSET Names /\ r.perm \in Perms
BY DEF Request

\* Of each step of a worker: what becomes of its request, which is a request again.
LEMMA ArriveMoves ==
  ASSUME TypeOK, NEW w \in Workers, Arrive(w)
  PROVE  \E r \in Request :
           /\ To(w, r) /\ r.at = "resolve" /\ r.barred \subseteq Inactive
           /\ r.token = None => r.tenant \in Tenants
<1>1. PICK p \in Perms : \/ \E k \in Tokens : To(w, Arrival(k, None, p, Inactive))
                         \/ \E t \in Tenants : To(w, Arrival(None, t, p, {}))
  BY DEF Arrive
<1>2. Inactive \subseteq Names BY DEF Inactive
<1>3. ASSUME NEW k \in Tokens \cup {None}, NEW t \in Tenants \cup {None}, NEW b \in SUBSET Names
      PROVE  Arrival(k, t, p, b) \in Request /\ Arrival(k, t, p, b).at = "resolve"
             /\ Arrival(k, t, p, b).barred = b /\ Arrival(k, t, p, b).token = k
             /\ Arrival(k, t, p, b).tenant = t
  BY <1>1, Defaults DEF Arrival, Request
<1>4. CASE \E k \in Tokens : To(w, Arrival(k, None, p, Inactive))
  <2>1. PICK k \in Tokens : To(w, Arrival(k, None, p, Inactive)) BY <1>4
  <2>2. k # None BY TypeAssumption
  <2> QED BY <2>1, <2>2, <1>2, <1>3
<1>5. CASE \E t \in Tenants : To(w, Arrival(None, t, p, {}))
  BY <1>5, <1>3
<1> QED BY <1>1, <1>4, <1>5

\* What no later step changes.
Same(r, q) == r.tenant = q.tenant /\ r.token = q.token /\ r.barred = q.barred

LEMMA ResolveKeyMoves ==
  ASSUME TypeOK, ServeInv, NEW w \in Workers, ResolveKey(w)
  PROVE  \E r \in Req :
           /\ To(w, r)
           /\ \/ r = Idle
              \/ /\ r \in Request /\ r.at = "permit" /\ Same(r, req[w]) /\ r.token = None
                 /\ r.tenant \in Tenants /\ key[r.tenant] # None
<1>1. req[w] \in Request BY Defaults, RequestFields DEF ResolveKey, TypeOK, Req
<1>2. req[w].tenant \in Tenants /\ req[w].token = None
  BY DEF ResolveKey, ServeInv, Carries
<1>3. CASE key[req[w].tenant] = None
  BY <1>3, Defaults DEF ResolveKey
<1>4. CASE key[req[w].tenant] # None
  <2> DEFINE role == key[req[w].tenant]
             r == [req[w] EXCEPT !.at = "permit", !.role = role]
  <2>1. role \in Roles \cup {None} BY <1>2 DEF TypeOK
  <2> HIDE DEF role
  <2>2. r \in Request /\ r.at = "permit" /\ Same(r, req[w]) BY <1>1, <2>1 DEF Request, Same
  <2>3. To(w, r) BY <1>4 DEF ResolveKey, role
  <2>4. r.tenant \in Tenants /\ key[r.tenant] # None /\ r.token = None
    BY <1>2, <1>4, <2>2 DEF Same
  <2> QED BY <2>2, <2>3, <2>4 DEF Req
<1> QED BY <1>3, <1>4

LEMMA MappedRoleType ==
  ASSUME NEW c \in Configs, NEW k \in Tokens PROVE MappedRole(c, k) \in Roles
BY TypeAssumption DEF MappedRole

LEMMA ResolveTokenMoves ==
  ASSUME TypeOK, NEW w \in Workers, ResolveToken(w)
  PROVE  \E r \in Req :
           /\ To(w, r)
           /\ \/ r = Idle
              \/ /\ r \in Request /\ r.tenant \in Tenants /\ config[r.tenant] # None
                 /\ r.token = req[w].token /\ r.barred = req[w].barred /\ r.token \in Tokens
                 /\ \/ r.at = "permit" /\ r.token.subject = None
                    \/ r.at = "lookup" /\ r.token.subject \in Subjects
<1> DEFINE k == req[w].token
<1>1. req[w] \in Request BY Defaults, RequestFields DEF ResolveToken, TypeOK, Req
<1>2. k \in Tokens BY <1>1 DEF ResolveToken, Request
<1>3. CASE To(w, Idle) BY <1>3, Defaults
<1>4. CASE \E t \in FindIdpConfig :
             To(w, [req[w] EXCEPT !.at = IF k.subject = None THEN "permit" ELSE "lookup",
                                  !.tenant = t, !.role = MappedRole(config[t], k)])
  <2>1. PICK t \in FindIdpConfig :
             To(w, [req[w] EXCEPT !.at = IF k.subject = None THEN "permit" ELSE "lookup",
                                  !.tenant = t, !.role = MappedRole(config[t], k)])
    BY <1>4
  <2>2. t \in Tenants /\ config[t] # None BY DEF FindIdpConfig
  <2> DEFINE role == MappedRole(config[t], k)
             at   == IF k.subject = None THEN "permit" ELSE "lookup"
             r    == [req[w] EXCEPT !.at = at, !.tenant = t, !.role = role]
  <2>3. role \in Roles BY <1>2, <2>2, MappedRoleType DEF TypeOK
  <2>4. k.subject \in Subjects \cup {None} BY <1>2, TypeAssumption
  <2>5. at \in {"permit", "lookup"} /\ (at = "permit" <=> k.subject = None) OBVIOUS
  <2> HIDE DEF role, at
  <2>6. r \in Request /\ r.at = at /\ r.tenant = t /\ r.token = k /\ r.barred = req[w].barred
    BY <1>1, <2>2, <2>3, <2>5 DEF Request
  <2>7. To(w, r) BY <2>1 DEF role, at
  <2> HIDE DEF r
  <2> QED BY <1>2, <2>2, <2>4, <2>5, <2>6, <2>7 DEF Req
<1> QED BY <1>3, <1>4 DEF ResolveToken

LEMMA LookUpMoves ==
  ASSUME TypeOK, ServeInv, NEW w \in Workers, LookUp(w)
  PROVE  \E r \in Req :
           /\ To(w, r)
           /\ \/ r = Idle
              \/ /\ r \in Request /\ r.at = "permit" /\ Same(r, req[w])
                 /\ <<r.tenant, r.token.subject>> \notin Inactive
<1> DEFINE n   == <<req[w].tenant, req[w].token.subject>>
           row == users[n]
<1>1. req[w] \in Request BY Defaults, RequestFields DEF LookUp, TypeOK, Req
<1>2. n \in Names BY DEF LookUp, ServeInv, Carries, Admitted, Names
<1>3. row \in Directory!Entry \cup {None} BY <1>2 DEF TypeOK
<1>4. CASE To(w, Idle) BY <1>4, Defaults
<1>5. ASSUME NEW role \in Roles \cup {None}, n \notin Inactive,
             To(w, [req[w] EXCEPT !.at = "permit", !.role = role])
      PROVE  \E r \in Req : /\ To(w, r)
                            /\ r \in Request /\ r.at = "permit" /\ Same(r, req[w])
                            /\ <<r.tenant, r.token.subject>> \notin Inactive
  <2> DEFINE r == [req[w] EXCEPT !.at = "permit", !.role = role]
  <2>1. r \in Request /\ r.at = "permit" /\ Same(r, req[w]) BY <1>1 DEF Request, Same
  <2>2. <<r.tenant, r.token.subject>> = n BY <2>1 DEF Same
  <2>3. To(w, r) BY <1>5
  <2> HIDE DEF r
  <2> QED BY <1>5, <2>1, <2>2, <2>3 DEF Req
<1>6. CASE row = None
  <2>1. n \notin Inactive BY <1>6 DEF Inactive
  <2> DEFINE role == req[w].role
  <2>2. role \in Roles \cup {None} BY <1>1 DEF Request
  <2>3. [req[w] EXCEPT !.at = "permit"] = [req[w] EXCEPT !.at = "permit", !.role = role]
    BY <1>1 DEF Request
  <2>4. To(w, [req[w] EXCEPT !.at = "permit"]) BY <1>6 DEF LookUp
  <2>5. To(w, [req[w] EXCEPT !.at = "permit", !.role = role]) BY <2>3, <2>4
  <2> HIDE DEF role
  <2> QED BY <1>5, <2>1, <2>2, <2>5
<1>7. CASE row # None /\ row.active
  <2>1. n \notin Inactive BY <1>7 DEF Inactive
  <2> DEFINE role == row.role
  <2>2. role \in Roles BY <1>3, <1>7 DEF Directory!Entry
  <2>3. To(w, [req[w] EXCEPT !.at = "permit", !.role = role]) BY <1>7 DEF LookUp
  <2> HIDE DEF role
  <2> QED BY <1>5, <2>1, <2>2, <2>3
<1>8. CASE row # None /\ ~row.active
  BY <1>4, <1>8 DEF LookUp
<1> QED BY <1>6, <1>7, <1>8

LEMMA RefusedFields ==
  ASSUME NEW q \in Request, NEW s \in Statuses
  PROVE  /\ Refused(q, s) \in Request /\ Refused(q, s).at = "deny"
         /\ Refused(q, s).status = s /\ Same(Refused(q, s), q)
BY Defaults DEF Refused, Request, Same, Perms

LEMMA PermitMoves ==
  ASSUME TypeOK, NEW w \in Workers, Permit(w)
  PROVE  \E r \in Request :
           /\ To(w, r) /\ Same(r, req[w])
           /\ \/ r.at = "begin" /\ r.since = month
              \/ r.at = "deny" /\ r.status = 403
<1>1. req[w] \in Request BY Defaults, RequestFields DEF Permit, TypeOK, Req
<1>2. month \in Months /\ 403 \in Statuses BY DEF TypeOK, Statuses
<1>3. CASE Grants(req[w].role, req[w].perm)
  <2> DEFINE r == Allowed(req[w], month)
  <2>1. r \in Request /\ r.at = "begin" /\ r.since = month /\ Same(r, req[w])
    BY <1>1, <1>2 DEF Allowed, Request, Same, Perms
  <2>2. To(w, r) BY <1>3 DEF Permit
  <2> QED BY <2>1, <2>2
<1>4. CASE ~Grants(req[w].role, req[w].perm)
  <2>1. To(w, Refused(req[w], 403)) BY <1>4 DEF Permit
  <2> QED BY <1>1, <1>2, <2>1, RefusedFields
<1> QED BY <1>3, <1>4

LEMMA BeginMeteringMoves ==
  ASSUME TypeOK, ServeInv, NEW w \in Workers, BeginMetering(w)
  PROVE  \E r \in Request :
           To(w, r) /\ Same(r, req[w]) /\ r.at = "meter" /\ r.since <= r.stamp
<1> DEFINE r == [req[w] EXCEPT !.at = "meter", !.stamp = month]
<1>1. req[w] \in Request BY Defaults, RequestFields DEF BeginMetering, TypeOK, Req
<1>2. month \in Months BY DEF TypeOK
<1>3. r \in Request /\ r.at = "meter" /\ r.since = req[w].since /\ r.stamp = month
      /\ Same(r, req[w])
  BY <1>1, <1>2 DEF Request, Same
<1>4. req[w].since <= month BY DEF BeginMetering, ServeInv, Carries
<1>5. To(w, r) BY DEF BeginMetering
<1> HIDE DEF r
<1> QED BY <1>3, <1>4, <1>5

LEMMA MeterMoves ==
  ASSUME TypeOK, NEW w \in Workers, Meter(w)
  PROVE  \E r \in Request :
           /\ To(w, r) /\ Same(r, req[w])
           /\ \/ r.at = "deny" /\ r.status = 429
              \/ /\ r.at = "record" /\ r.status = 200 /\ r.stamp = req[w].stamp
                 /\ ~(usage[r.tenant][req[w].since] >= quota[r.tenant])
<1> DEFINE exhausted == CountUsage(req[w].tenant, req[w].since) >= quota[req[w].tenant]
           at     == IF exhausted THEN "deny" ELSE "record"
           status == IF exhausted THEN 429 ELSE 200
           r == [req[w] EXCEPT !.at = at, !.status = status]
<1>1. req[w] \in Request BY Defaults, RequestFields DEF Meter, TypeOK, Req
<1>2. status \in Statuses BY DEF Statuses
<1>3. \/ exhausted /\ at = "deny" /\ status = 429
      \/ ~exhausted /\ at = "record" /\ status = 200
  OBVIOUS
<1>4. To(w, r) BY DEF Meter
<1>6. at \in {"deny", "record"} BY <1>3
<1> HIDE DEF exhausted, at, status
<1>5. r \in Request /\ r.at = at /\ r.status = status /\ r.stamp = req[w].stamp
      /\ Same(r, req[w])
  BY <1>1, <1>2, <1>6 DEF Request, Same
<1> HIDE DEF r
<1> QED BY <1>3, <1>4, <1>5 DEF Same, CountUsage, exhausted

LEMMA DecidedFields ==
  ASSUME NEW w \in Workers, req[w] \in Request
  PROVE  /\ Decided(w) \in Request /\ Decided(w).at = "answer"
         /\ Decided(w).status = req[w].status /\ Same(Decided(w), req[w])
BY Defaults DEF Decided, Request, Same, Perms

LEMMA RecordMoves ==
  ASSUME TypeOK, ServeInv, NEW w \in Workers, Record(w)
  PROVE  /\ req[w] \in Request /\ req[w].tenant \in Tenants /\ req[w].status = 200
         /\ \E r \in Request : To(w, r) /\ r.at = "answer" /\ r.status = 200 /\ Same(r, req[w])
<1>1. req[w] \in Request BY Defaults, RequestFields DEF Record, TypeOK, Req
<1>2. req[w].tenant \in Tenants /\ req[w].status = 200
  BY DEF Record, ServeInv, Carries, Admitted
<1> QED BY <1>1, <1>2, DecidedFields DEF Record

LEMMA DenyMoves ==
  ASSUME TypeOK, ServeInv, NEW w \in Workers, Deny(w)
  PROVE  /\ req[w] \in Request /\ req[w].tenant \in Tenants /\ req[w].status # 200
         /\ \E r \in Request : /\ To(w, r) /\ r.at = "answer" /\ r.status = req[w].status
                               /\ Same(r, req[w])
<1>1. req[w] \in Request BY Defaults, RequestFields DEF Deny, TypeOK, Req
<1>2. req[w].tenant \in Tenants /\ req[w].status # 200
  BY DEF Deny, ServeInv, Carries, Admitted
<1> QED BY <1>1, <1>2, DecidedFields DEF Deny

LEMMA UsageMoves ==
  ASSUME TypeOK, NEW t \in Tenants, NEW s \in Months, RecordUsage(t, s)
  PROVE  /\ usage' \in [Tenants -> [Clocks -> Nat]]
         /\ \A m \in Clocks : usage'[t][m] = usage[t][m] + (IF m <= s THEN 1 ELSE 0)
         /\ \A u \in Tenants \ {t} : usage'[u] = usage[u]
<1> DEFINE old == usage[t]
           new == [m \in DOMAIN old |-> old[m] + (IF m <= s THEN 1 ELSE 0)]
<1>1. usage \in [Tenants -> [Clocks -> Nat]] BY DEF TypeOK, Clocks
<1>2. old \in [Clocks -> Nat] BY <1>1
<1>3. usage' = [usage EXCEPT ![t] = new] BY DEF RecordUsage
<1> HIDE DEF old
<1>4. Clocks \subseteq Int BY BoundsAssumption DEF Clocks, Months
<1>5. s \in Int BY DEF Months
<1>6. new \in [Clocks -> Nat] BY <1>2, <1>4, <1>5
<1>7. \A m \in Clocks : new[m] = old[m] + (IF m <= s THEN 1 ELSE 0) BY <1>2
<1> HIDE DEF new
<1> QED BY <1>1, <1>3, <1>6, <1>7 DEF old

LEMMA AuditMoves ==
  ASSUME TypeOK, NEW t \in Tenants, NEW s \in Statuses, RecordAccess(t, s)
  PROVE  /\ audit' \in [Tenants -> [Statuses -> Nat]]
         /\ audit'[t][s] = audit[t][s] + 1
         /\ \A u \in Tenants, q \in Statuses : u # t \/ q # s => audit'[u][q] = audit[u][q]
BY DEF TypeOK, RecordAccess

LEMMA AnsweredMoves ==
  ASSUME TypeOK, NEW t \in Tenants, NEW s \in Statuses,
         answered' = [answered EXCEPT ![t][s] = @ + 1]
  PROVE  /\ answered' \in [Tenants -> [Statuses -> Nat]]
         /\ answered'[t][s] = answered[t][s] + 1
         /\ \A u \in Tenants, q \in Statuses : u # t \/ q # s => answered'[u][q] = answered[u][q]
BY DEF TypeOK

\* A step of a worker leaves the requests of the others as they are, and either ends its
\* own or takes it one step further.
LEMMA WorkerMoves ==
  ASSUME TypeOK, ServeInv, NEW w \in Workers, Serve(w)
  PROVE  /\ req' \in [Workers -> Request \cup {Idle}]
         /\ \A v \in Workers \ {w} : req'[v] = req[v]
         /\ UNCHANGED <<month, key, quota, config, users>>
<1>1. \E r \in Req : To(w, r)
  <2>1. CASE Arrive(w) BY <2>1, ArriveMoves DEF Req
  <2>2. CASE ResolveKey(w) BY <2>2, ResolveKeyMoves
  <2>3. CASE ResolveToken(w) BY <2>3, ResolveTokenMoves
  <2>4. CASE LookUp(w) BY <2>4, LookUpMoves
  <2>5. CASE Permit(w) BY <2>5, PermitMoves DEF Req
  <2>6. CASE BeginMetering(w) \/ Meter(w) BY <2>6, BeginMeteringMoves, MeterMoves DEF Req
  <2>7. CASE Record(w) BY <2>7, RecordMoves DEF Req
  <2>8. CASE Deny(w) BY <2>8, DenyMoves DEF Req
  <2>9. CASE Answer(w) \/ Fail(w) BY <2>9, Defaults DEF Answer, Fail
  <2> QED BY <2>1, <2>2, <2>3, <2>4, <2>5, <2>6, <2>7, <2>8, <2>9 DEF Serve
<1>2. UNCHANGED <<month, key, quota, config, users>>
  BY DEF Serve, Arrive, ResolveKey, ResolveToken, LookUp, Permit, BeginMetering, Meter, Record, Deny,
         Answer, Fail, Kept, admin
<1> QED BY <1>1, <1>2, ServedType

LEMMA TypeStep == ASSUME TypeOK, ServeInv, [Next]_vars PROVE TypeOK'
<1>1. CASE UNCHANGED vars
  BY <1>1 DEF vars, admin, records, TypeOK
<1>2. CASE NextMonth
  <2>1. month' \in Months BY <1>2, BoundsAssumption DEF NextMonth, TypeOK, Months
  <2>2. UNCHANGED <<begun, key, quota, config, users, usage, audit, answered, req>>
    BY <1>2 DEF NextMonth, admin, records
  <2> QED BY <2>1, <2>2 DEF TypeOK
<1>3. ASSUME NEW t \in Tenants, CreateTenant(t) PROVE TypeOK'
  <2>1. PICK p \in Provisions : ProvisionTenant(t, p.role, p.quota)
    BY <1>3 DEF CreateTenant
  <2>2. p.role \in Roles /\ p.quota \in Nat BY BoundsAssumption
  <2>3. key' \in [Tenants -> Roles \cup {None}] /\ quota' \in [Tenants -> Nat]
    BY <2>1, <2>2 DEF ProvisionTenant, TypeOK
  <2> QED BY <1>3, <2>3 DEF CreateTenant, records, TypeOK
<1>4. ASSUME NEW t \in Tenants, PutIdpConfig(t) PROVE TypeOK'
  BY <1>4 DEF PutIdpConfig, UpsertIdpConfig, records, TypeOK
<1>5. CASE ChangeUser
  <2>1. PICK n \in Names, row \in Entries : Directory!Replace(n, row)
    BY <1>5 DEF ChangeUser
  <2>2. row \in Directory!Entry BY BoundsAssumption DEF Directory!Entry
  <2>3. users' \in [Names -> Directory!Entry \cup {None}]
    BY <2>1, <2>2 DEF Directory!Replace, TypeOK
  <2>4. \A w \in Workers : [req[w] EXCEPT !.barred = @ \cap Inactive'] \in Request \cup {Idle}
    <3> SUFFICES ASSUME NEW w \in Workers
                 PROVE  [req[w] EXCEPT !.barred = @ \cap Inactive'] \in Request \cup {Idle}
      OBVIOUS
    <3>1. CASE req[w] \in Request BY <3>1 DEF Request
    <3>2. CASE req[w] = Idle BY <3>2 DEF Idle
    <3> QED BY <3>1, <3>2 DEF TypeOK
  <2>5. req' \in [Workers -> Request \cup {Idle}] BY <1>5, <2>4 DEF ChangeUser
  <2> QED BY <1>5, <2>3, <2>5 DEF ChangeUser, admin, records, TypeOK
<1>6. ASSUME NEW w \in Workers, Serve(w) PROVE TypeOK'
  <2>1. /\ req' \in [Workers -> Request \cup {Idle}]
        /\ UNCHANGED <<month, key, quota, config, users>>
    BY <1>6, WorkerMoves
  <2>2. begun' \in 0..MaxRequests
    <3>1. begun' = begun \/ (begun < MaxRequests /\ begun' = begun + 1)
      BY <1>6 DEF Serve, Arrive, ResolveKey, ResolveToken, LookUp, Permit, BeginMetering, Meter,
                  Record, Deny, Answer, Fail, Kept
    <3> QED BY <3>1, BoundsAssumption DEF TypeOK
  <2>3. CASE UNCHANGED records
    BY <2>1, <2>2, <2>3 DEF records, TypeOK
  <2>4. CASE Record(w)
    <3>1. req[w].tenant \in Tenants /\ req[w].stamp \in Months BY <2>4, RecordMoves, Movable
    <3>2. usage' \in [Tenants -> [Clocks -> Nat]] BY <2>4, <3>1, UsageMoves DEF Record
    <3>3. audit' \in [Tenants -> [Statuses -> Nat]] BY <2>4, <3>1, Defaults, AuditMoves DEF Record
    <3> QED BY <2>1, <2>2, <2>4, <3>2, <3>3 DEF Record, TypeOK, Clocks
  <2>5. CASE Deny(w)
    <3>1. req[w].tenant \in Tenants /\ req[w].status \in Statuses BY <2>5, DenyMoves, Movable
    <3>2. audit' \in [Tenants -> [Statuses -> Nat]] BY <2>5, <3>1, AuditMoves DEF Deny
    <3> QED BY <2>1, <2>2, <2>5, <3>2 DEF Deny, TypeOK
  <2>6. CASE Answer(w)
    <3>1. req[w].tenant \in Tenants BY <2>6 DEF Answer, ServeInv, Carries, Admitted
    <3>2. req[w].status \in Statuses
      BY <2>6, Defaults, RequestFields, Movable DEF Answer, TypeOK, Req
    <3>3. answered' \in [Tenants -> [Statuses -> Nat]]
      BY <2>6, <3>1, <3>2, AnsweredMoves DEF Answer
    <3> QED BY <2>1, <2>2, <2>6, <3>3 DEF Answer, TypeOK
  <2> QED BY <1>6, <2>3, <2>4, <2>5, <2>6
      DEF Serve, Arrive, ResolveKey, ResolveToken, LookUp, Permit, BeginMetering, Meter, Fail
<1> QED BY <1>1, <1>2, <1>3, <1>4, <1>5, <1>6 DEF Next

-----------------------------------------------------------------------------
(* What a request carries, and what usage counts.                          *)

\* A request that a step leaves alone carries what it did: tenants are not taken away,
\* and the clock does not go back.
LEMMA StillCarries ==
  ASSUME TypeOK, month' \in Months, month <= month', NEW v \in Workers, Carries(req[v]),
         req'[v] = req[v], \A t \in Tenants : key[t] # None => key'[t] # None
  PROVE  Carries(req[v])'
<1> DEFINE r == req[v]
<1>1. r.at = "begin" => r.since \in Months
  <2> SUFFICES ASSUME r.at = "begin" PROVE r.since \in Months OBVIOUS
  <2>1. r \in Request BY RequestFields DEF TypeOK, Req
  <2> QED BY <2>1, Movable
<1>2. Months \subseteq Int BY DEF Months
<1>3. r.at = "begin" => r.since <= month BY DEF Carries
<1>4. r.at = "begin" => r.since <= month'
  <2> SUFFICES ASSUME r.at = "begin" PROVE r.since <= month' OBVIOUS
  <2> DEFINE since == r.since
  <2>1. since \in Int /\ since <= month BY <1>1, <1>2, <1>3
  <2>2. month \in Int /\ month' \in Int BY <1>2 DEF TypeOK
  <2> HIDE DEF since
  <2>3. since <= month' BY <2>1, <2>2
  <2> QED BY <2>3 DEF since
<1> QED BY <1>4 DEF Carries

\* The clock does not go back, and a tenant is not taken away.
LEMMA Grows ==
  ASSUME TypeOK, ServeInv, [Next]_vars
  PROVE  /\ month' \in Months /\ month <= month'
         /\ \A t \in Tenants : key[t] # None => key'[t] # None
<1>1. month' \in Months BY TypeStep DEF TypeOK
<1>2. CASE NextMonth
  <2>1. month \in Int BY DEF TypeOK, Months
  <2> QED BY <1>1, <1>2, <2>1 DEF NextMonth, admin
<1>3. CASE UNCHANGED <<month, key>>
  <2>1. month \in Int BY DEF TypeOK, Months
  <2> QED BY <1>1, <1>3, <2>1
<1>4. ASSUME NEW t \in Tenants, CreateTenant(t) PROVE UNCHANGED month /\
             \A u \in Tenants : key[u] # None => key'[u] # None
  <2>1. PICK p \in Provisions : ProvisionTenant(t, p.role, p.quota)
    BY <1>4 DEF CreateTenant
  <2>2. p.role # None BY BoundsAssumption, TypeAssumption
  <2> QED BY <1>4, <2>1, <2>2 DEF CreateTenant, ProvisionTenant, TypeOK
<1>5. CASE \E t \in Tenants : CreateTenant(t)
  <2>1. month \in Int BY DEF TypeOK, Months
  <2> QED BY <1>1, <1>4, <1>5, <2>1
<1>6. CASE \E w \in Workers : Serve(w)
  <2>1. UNCHANGED <<month, key>> BY <1>6, WorkerMoves
  <2> QED BY <1>3, <2>1
<1>7. CASE UNCHANGED vars \/ ChangeUser \/ \E t \in Tenants : PutIdpConfig(t)
  <2>1. UNCHANGED <<month, key>> BY <1>7 DEF vars, admin, ChangeUser, PutIdpConfig
  <2> QED BY <1>3, <2>1
<1> QED BY <1>2, <1>5, <1>6, <1>7 DEF Next

\* Deactivations change nothing else of a request.
AnyReq ==
  [at: Admitted \cup {"idle", "resolve"}, token: Tokens \cup {None}, perm: Perms,
   tenant: Tenants \cup {None}, role: Roles \cup {None}, since: Months, stamp: Months,
   status: Statuses, barred: SUBSET Names]

LEMMA AnyReqHasAll == Req \subseteq AnyReq
<1>1. Idle \in AnyReq BY Defaults DEF Idle, AnyReq, Perms
<1>2. Request \subseteq AnyReq BY DEF Request, AnyReq, Admitted
<1> QED BY <1>1, <1>2 DEF Req

LEMMA Barring ==
  ASSUME NEW r \in AnyReq, NEW b \in SUBSET Names
  PROVE  /\ [r EXCEPT !.barred = b].at = r.at /\ [r EXCEPT !.barred = b].token = r.token
         /\ [r EXCEPT !.barred = b].tenant = r.tenant /\ [r EXCEPT !.barred = b].since = r.since
         /\ [r EXCEPT !.barred = b].stamp = r.stamp /\ [r EXCEPT !.barred = b].status = r.status
         /\ [r EXCEPT !.barred = b].barred = b
BY DEF AnyReq

LEMMA ChangeUserMoves ==
  ASSUME TypeOK, ChangeUser, NEW v \in Workers
  PROVE  /\ req'[v].at = req[v].at /\ req'[v].token = req[v].token
         /\ req'[v].tenant = req[v].tenant /\ req'[v].since = req[v].since
         /\ req'[v].stamp = req[v].stamp /\ req'[v].status = req[v].status
         /\ req'[v].barred \subseteq Inactive' \cap req[v].barred
<1> DEFINE b == req[v].barred \cap Inactive'
<1>1. req[v] \in AnyReq BY AnyReqHasAll DEF TypeOK, Req
<1>2. b \in SUBSET Names BY <1>1 DEF AnyReq
<1>3. req'[v] = [req[v] EXCEPT !.barred = b] BY DEF ChangeUser
<1>4. b \subseteq Inactive' \cap req[v].barred OBVIOUS
<1> HIDE DEF b
<1> QED BY <1>1, <1>2, <1>3, <1>4, Barring

LEMMA ServeStep == ASSUME TypeOK, ServeInv, UsageInv, [Next]_vars PROVE ServeInv'
<1>1. /\ month' \in Months /\ month <= month'
      /\ \A t \in Tenants : key[t] # None => key'[t] # None
  BY Grows
<1>2. CASE req' = req
  <2>1. \A v \in Workers : Carries(req[v])' BY <1>1, <1>2, StillCarries DEF ServeInv
  <2> QED BY <2>1 DEF ServeInv
<1>3. CASE ChangeUser
  <2>1. UNCHANGED <<month, key>> BY <1>3 DEF ChangeUser, admin
  <2> SUFFICES ASSUME NEW v \in Workers PROVE Carries(req[v])' BY DEF ServeInv
  <2>2. Carries(req[v]) BY DEF ServeInv
  <2>3. /\ req'[v].at = req[v].at /\ req'[v].token = req[v].token
        /\ req'[v].tenant = req[v].tenant /\ req'[v].since = req[v].since
        /\ req'[v].stamp = req[v].stamp /\ req'[v].status = req[v].status
    BY <1>3, ChangeUserMoves
  <2> QED BY <2>1, <2>2, <2>3 DEF Carries
<1>4. ASSUME NEW w \in Workers, Serve(w) PROVE ServeInv'
  <2>1. /\ \A v \in Workers \ {w} : req'[v] = req[v]
        /\ UNCHANGED <<month, key, quota, config, users>>
    BY <1>4, WorkerMoves
  <2>2. \A v \in Workers \ {w} : Carries(req[v])'
    BY <1>1, <2>1, StillCarries DEF ServeInv
  <2>3. ASSUME NEW r, To(w, r), Carries(r) PROVE Carries(req[w])'
    <3>1. req'[w] = r BY <2>3 DEF To, TypeOK
    <3> QED BY <2>1, <2>3, <3>1 DEF Carries
  <2>4. \E r : To(w, r) /\ Carries(r)
    <3>0. Carries(Idle) BY Defaults DEF Carries, Admitted
    <3>1. CASE Arrive(w) BY <3>1, ArriveMoves DEF Carries, Admitted
    <3>a. ASSUME NEW r, Same(r, req[w]), req[w].at \in Admitted, r.at \in Admitted \ {"lookup"},
                 r.at = "begin" => r.since = month, r.at = "meter" => r.since <= r.stamp,
                 r.at = "record" => r.status = 200, r.at = "deny" => r.status # 200
          PROVE  Carries(r)
      <4>1. r.tenant \in Tenants /\ key[r.tenant] # None
        BY <3>a DEF ServeInv, Carries, Same
      <4>2. r.at = "begin" => r.since <= month
        <5>1. month <= month BY DEF TypeOK, Months
        <5> QED BY <3>a, <5>1
      <4>3. r.at # "lookup" /\ r.at # "resolve" BY <3>a DEF Admitted
      <4> QED BY <3>a, <4>1, <4>2, <4>3 DEF Carries
    <3>2. CASE ResolveKey(w)
      <4>1. PICK r \in Req :
               /\ To(w, r)
               /\ \/ r = Idle
                  \/ /\ r \in Request /\ r.at = "permit" /\ Same(r, req[w]) /\ r.token = None
                     /\ r.tenant \in Tenants /\ key[r.tenant] # None
        BY <3>2, ResolveKeyMoves
      <4>2. Carries(r) BY <3>0, <4>1 DEF Carries
      <4> QED BY <4>1, <4>2
    <3>3. CASE ResolveToken(w)
      <4>1. PICK r \in Req :
               /\ To(w, r)
               /\ \/ r = Idle
                  \/ /\ r \in Request /\ r.tenant \in Tenants /\ config[r.tenant] # None
                     /\ r.token = req[w].token /\ r.barred = req[w].barred /\ r.token \in Tokens
                     /\ \/ r.at = "permit" /\ r.token.subject = None
                        \/ r.at = "lookup" /\ r.token.subject \in Subjects
        BY <3>3, ResolveTokenMoves
      <4>2. CASE r # Idle
        <5>1. r.tenant \in Tenants /\ key[r.tenant] # None BY <4>1, <4>2 DEF UsageInv
        <5>2. r.token # None BY <4>1, <4>2, TypeAssumption
        <5> QED BY <4>1, <4>2, <5>1, <5>2 DEF Carries
      <4> QED BY <3>0, <4>1, <4>2
    <3>4. CASE LookUp(w)
      <4>1. req[w].at \in Admitted BY <3>4 DEF LookUp, Admitted
      <4>2. PICK r \in Req : /\ To(w, r)
                             /\ \/ r = Idle
                                \/ r.at = "permit" /\ Same(r, req[w])
        BY <3>4, LookUpMoves
      <4>3. Carries(r) BY <3>0, <3>a, <4>1, <4>2 DEF Admitted
      <4> QED BY <4>2, <4>3
    <3>5. CASE Permit(w)
      <4>1. req[w].at \in Admitted BY <3>5 DEF Permit, Admitted
      <4>2. PICK r \in Request : /\ To(w, r) /\ Same(r, req[w])
                                 /\ \/ r.at = "begin" /\ r.since = month
                                    \/ r.at = "deny" /\ r.status = 403
        BY <3>5, PermitMoves
      <4>3. Carries(r) BY <3>a, <4>1, <4>2 DEF Admitted
      <4> QED BY <4>2, <4>3
    <3>8. CASE BeginMetering(w)
      <4>1. req[w].at \in Admitted BY <3>8 DEF BeginMetering, Admitted
      <4>2. PICK r \in Request : /\ To(w, r) /\ Same(r, req[w])
                                 /\ r.at = "meter" /\ r.since <= r.stamp
        BY <3>8, BeginMeteringMoves
      <4>3. Carries(r) BY <3>a, <4>1, <4>2 DEF Admitted
      <4> QED BY <4>2, <4>3
    <3>6. CASE Meter(w)
      <4>1. req[w].at \in Admitted BY <3>6 DEF Meter, Admitted
      <4>2. PICK r \in Request : /\ To(w, r) /\ Same(r, req[w])
                                 /\ \/ r.at = "deny" /\ r.status = 429
                                    \/ r.at = "record" /\ r.status = 200
        BY <3>6, MeterMoves
      <4>3. Carries(r) BY <3>a, <4>1, <4>2 DEF Admitted
      <4> QED BY <4>2, <4>3
    <3>7. CASE Record(w) \/ Deny(w)
      <4>1. req[w].at \in Admitted BY <3>7 DEF Record, Deny, Admitted
      <4>2. PICK r \in Request : To(w, r) /\ r.at = "answer" /\ Same(r, req[w])
        BY <3>7, RecordMoves, DenyMoves
      <4>3. Carries(r) BY <3>a, <4>1, <4>2 DEF Admitted
      <4> QED BY <4>2, <4>3
    <3>9. CASE Answer(w) \/ Fail(w) BY <3>0, <3>9 DEF Answer, Fail
    <3> QED BY <1>4, <3>1, <3>2, <3>3, <3>4, <3>5, <3>6, <3>7, <3>8, <3>9 DEF Serve
  <2>5. Carries(req[w])' BY <2>3, <2>4
  <2> QED BY <2>2, <2>5 DEF ServeInv
<1> QED BY <1>2, <1>3, <1>4 DEF Next, vars, NextMonth, records, CreateTenant, PutIdpConfig

LEMMA UsageStep == ASSUME TypeOK, ServeInv, UsageInv, [Next]_vars PROVE UsageInv'
<1>1. CASE UNCHANGED <<key, config, usage>>
  BY <1>1 DEF UsageInv
<1>2. ASSUME NEW t \in Tenants, CreateTenant(t) PROVE UsageInv'
  <2>1. UNCHANGED <<config, usage>> BY <1>2 DEF CreateTenant, records
  <2>2. \A u \in Tenants : key[u] # None => key'[u] # None BY <1>2, Grows DEF Next
  <2> QED BY <2>1, <2>2 DEF UsageInv
<1>3. ASSUME NEW t \in Tenants, PutIdpConfig(t) PROVE UsageInv'
  <2>1. UNCHANGED <<key, usage>> BY <1>3 DEF PutIdpConfig, records
  <2>2. \A u \in Tenants : key[u] = None => config'[u] = config[u]
    BY <1>3 DEF PutIdpConfig, UpsertIdpConfig, TypeOK
  <2> QED BY <2>1, <2>2 DEF UsageInv
<1>4. ASSUME NEW w \in Workers, Record(w) PROVE UsageInv'
  <2> DEFINE t == req[w].tenant
             s == req[w].stamp
  <2>1. UNCHANGED <<key, config>> BY <1>4 DEF Record, Kept, admin
  <2>2. t \in Tenants /\ s \in Months BY <1>4, RecordMoves, Movable
  <2>3. key[t] # None BY <1>4 DEF Record, ServeInv, Carries, Admitted
  <2>4. /\ \A m \in Clocks : usage'[t][m] = usage[t][m] + (IF m <= s THEN 1 ELSE 0)
        /\ \A u \in Tenants \ {t} : usage'[u] = usage[u]
    BY <1>4, <2>2, UsageMoves DEF Record
  <2> HIDE DEF t, s
  <2>5. ASSUME NEW a \in Clocks, NEW b \in Clocks, a <= b
        PROVE  usage'[t][b] <= usage'[t][a]
    <3>1. usage[t][a] \in Nat /\ usage[t][b] \in Nat BY <2>2 DEF TypeOK, Clocks
    <3>2. usage[t][b] <= usage[t][a] BY <2>2, <2>5 DEF UsageInv
    <3>3. a \in Int /\ b \in Int /\ s \in Int BY <2>2, BoundsAssumption DEF Clocks, Months
    <3> QED BY <2>4, <2>5, <3>1, <3>2, <3>3
  <2> QED BY <2>1, <2>3, <2>4, <2>5 DEF UsageInv
<1>5. ASSUME NEW w \in Workers, Serve(w), ~Record(w) PROVE UNCHANGED <<key, config, usage>>
  <2>1. UNCHANGED <<key, config>> BY <1>5, WorkerMoves
  <2>2. UNCHANGED usage
    BY <1>5 DEF Serve, Arrive, ResolveKey, ResolveToken, LookUp, Permit, BeginMetering, Meter, Deny, Answer,
                Fail, records
  <2> QED BY <2>1, <2>2
<1>6. CASE UNCHANGED vars \/ NextMonth \/ ChangeUser
  BY <1>1, <1>6 DEF vars, NextMonth, ChangeUser, admin, records
<1> QED BY <1>1, <1>2, <1>3, <1>4, <1>5, <1>6 DEF Next

-----------------------------------------------------------------------------
(* Who is counted, and who is owed an answer.                              *)

\* Only the worker that steps can join a set of them.
LEMMA Joins ==
  ASSUME NEW w \in Workers, \A v \in Workers \ {w} : req'[v] = req[v],
         NEW t \in Tenants, NEW m \in Months, NEW s \in Statuses
  PROVE  /\ Pending(t, m)' \subseteq Pending(t, m) \cup {w}
         /\ Owed(t, s)' \subseteq Owed(t, s) \cup {w}
         /\ w \notin Pending(t, m)' => Pending(t, m)' \subseteq Pending(t, m) \ {w}
         /\ w \notin Owed(t, s)' => Owed(t, s)' \subseteq Owed(t, s) \ {w}
BY DEF Pending, Owed

\* Where no worker steps, none joins.
LEMMA NoneJoin ==
  ASSUME TypeOK, [Next]_vars, ~\E w \in Workers : Serve(w),
         NEW t \in Tenants, NEW m \in Months, NEW s \in Statuses
  PROVE  Pending(t, m)' = Pending(t, m) /\ Owed(t, s)' = Owed(t, s)
<1>1. CASE UNCHANGED req BY <1>1 DEF Pending, Owed
<1>2. CASE ChangeUser
  <2>1. \A v \in Workers : /\ req'[v].at = req[v].at /\ req'[v].tenant = req[v].tenant
                           /\ req'[v].stamp = req[v].stamp /\ req'[v].status = req[v].status
    BY <1>2, ChangeUserMoves
  <2> QED BY <2>1 DEF Pending, Owed
<1> QED BY <1>1, <1>2 DEF Next, vars, NextMonth, CreateTenant, PutIdpConfig

LEMMA QuietMoves ==
  ASSUME TypeOK, ServeInv, NEW w \in Workers,
         Arrive(w) \/ ResolveKey(w) \/ ResolveToken(w) \/ LookUp(w) \/ Permit(w)
           \/ BeginMetering(w) \/ Fail(w)
  PROVE  UNCHANGED records /\ req'[w].at \notin {"record", "answer"}
<1>1. UNCHANGED records
  BY DEF Arrive, ResolveKey, ResolveToken, LookUp, Permit, BeginMetering, Fail
<1>2. \E r : To(w, r) /\ r.at \notin {"record", "answer"}
  <2>1. CASE Arrive(w) BY <2>1, ArriveMoves
  <2>2. CASE ResolveKey(w) BY <2>2, ResolveKeyMoves, Defaults
  <2>3. CASE ResolveToken(w) BY <2>3, ResolveTokenMoves, Defaults
  <2>4. CASE LookUp(w) BY <2>4, LookUpMoves, Defaults
  <2>5. CASE Permit(w) BY <2>5, PermitMoves
  <2>6. CASE Fail(w) BY <2>6, Defaults DEF Fail
  <2>7. CASE BeginMetering(w) BY <2>7, BeginMeteringMoves
  <2> QED BY <2>1, <2>2, <2>3, <2>4, <2>5, <2>6, <2>7
<1> QED BY <1>1, <1>2 DEF To, TypeOK

LEMMA TakenType ==
  ASSUME TypeOK, NEW t \in Tenants, NEW m \in Months
  PROVE  /\ m \in Clocks /\ m + 1 \in Clocks
         /\ usage[t][m] \in Nat /\ usage[t][m + 1] \in Nat /\ quota[t] \in Nat
         /\ Cardinality(Pending(t, m)) \in Nat /\ Cardinality(Workers) \in Nat
         /\ Cardinality(Pending(t, m)) <= Cardinality(Workers)
<1>1. m \in Clocks /\ m + 1 \in Clocks BY BoundsAssumption DEF Clocks, Months
<1>2. Pending(t, m) \subseteq Workers BY DEF Pending
<1> QED BY <1>1, <1>2, Counted DEF TypeOK, Clocks

-----------------------------------------------------------------------------
(* The quota.                                                              *)

LEMMA NoMoreTaken ==
  ASSUME TypeOK, TypeOK', QuotaInv, NEW t \in Tenants, NEW m \in Months,
         usage'[t] = usage[t], quota'[t] = quota[t], Pending(t, m)' \subseteq Pending(t, m)
  PROVE  Taken(t, m)' > 0 => Taken(t, m)' <= quota'[t] + Cardinality(Workers) - 1
<1>1. Cardinality(Pending(t, m)') <= Cardinality(Pending(t, m))
  BY Fewer DEF Pending
<1>2. Pending(t, m)' \subseteq Workers BY DEF Pending
<1>3. Cardinality(Pending(t, m)') \in Nat BY <1>2, Counted
<1>4. Rows(t, m)' = Rows(t, m) BY DEF Rows
<1>5. Rows(t, m) \in Int BY TakenType DEF Rows
<1>6. Taken(t, m) > 0 => Taken(t, m) <= quota[t] + Cardinality(Workers) - 1 BY DEF QuotaInv
<1> QED BY <1>1, <1>3, <1>4, <1>5, <1>6, TakenType DEF Taken

LEMMA QuotaStep ==
  ASSUME TypeOK, ServeInv, UsageInv, QuotaInv, [Next]_vars PROVE QuotaInv'
<1> USE TypeStep
<1> SUFFICES ASSUME NEW t \in Tenants, NEW m \in Months
             PROVE  Taken(t, m)' > 0 => Taken(t, m)' <= quota'[t] + Cardinality(Workers) - 1
  BY DEF QuotaInv
<1>1. CASE usage' = usage /\ quota'[t] = quota[t] /\ Pending(t, m)' \subseteq Pending(t, m)
  BY <1>1, NoMoreTaken
<1>2. CASE ~\E w \in Workers : Serve(w)
  <2>1. Pending(t, m)' = Pending(t, m)
    BY <1>2, NoneJoin, Defaults
  <2>2. CASE CreateTenant(t)
    <3>1. \A c \in Clocks : usage[t][c] = 0 BY <2>2 DEF CreateTenant, UsageInv
    <3>2. Rows(t, m) = 0 BY <3>1, TakenType DEF Rows
    <3>3. Pending(t, m) = {}
      BY <2>2 DEF CreateTenant, Pending, ServeInv, Carries, Admitted
    <3>4. Rows(t, m)' = Rows(t, m) BY <2>2 DEF CreateTenant, records, Rows
    <3>5. Taken(t, m)' = 0 BY <2>1, <3>2, <3>3, <3>4, FS_EmptySet DEF Taken
    <3> QED BY <3>5
  <2>3. CASE ~CreateTenant(t)
    <3>1. usage' = usage /\ quota'[t] = quota[t]
      BY <1>2, <2>3 DEF Next, vars, NextMonth, ChangeUser, CreateTenant, PutIdpConfig,
         ProvisionTenant, admin, records, TypeOK
    <3> QED BY <1>1, <2>1, <3>1
  <2> QED BY <2>2, <2>3
<1>3. ASSUME NEW w \in Workers, Serve(w)
      PROVE  Taken(t, m)' > 0 => Taken(t, m)' <= quota'[t] + Cardinality(Workers) - 1
  <2>1. \A v \in Workers \ {w} : req'[v] = req[v] BY <1>3, WorkerMoves
  <2>2. quota' = quota BY <1>3, WorkerMoves
  <2>3. CASE w \notin Pending(t, m)' /\ usage' = usage
    BY <1>1, <2>1, <2>2, <2>3, Joins, Defaults
  <2>4. CASE Meter(w)
    <3>1. PICK r \in Request :
            /\ To(w, r) /\ Same(r, req[w])
            /\ \/ r.at = "deny" /\ r.status = 429
               \/ /\ r.at = "record" /\ r.status = 200 /\ r.stamp = req[w].stamp
                  /\ ~(usage[r.tenant][req[w].since] >= quota[r.tenant])
      BY <2>4, MeterMoves
    <3>2. req'[w] = r BY <3>1 DEF To, TypeOK
    <3>3. usage' = usage BY <2>4 DEF Meter, records
    <3>4. CASE r.at = "record" /\ r.tenant = t /\ r.stamp = m
      <4> DEFINE since == req[w].since
      <4>1. m = req[w].stamp /\ ~(usage[t][since] >= quota[t]) BY <3>1, <3>4
      <4>2. req[w] \in Request /\ since <= req[w].stamp
        BY <2>4, Defaults, RequestFields DEF Meter, TypeOK, Req, ServeInv, Carries
      <4>3. since \in Months BY <4>2, Movable
      <4> HIDE DEF since
      <4>4. since \in Clocks BY <4>3, TakenType
      <4>5. usage[t][m] <= usage[t][since]
        BY <4>1, <4>2, <4>4, TakenType DEF UsageInv
      <4>6. usage[t][since] \in Nat BY <4>3, TakenType
      <4>7. Rows(t, m) < quota[t] BY <4>1, <4>5, <4>6, TakenType DEF Rows
      <4>8. Rows(t, m)' = Rows(t, m) BY <3>3 DEF Rows
      <4>9. Pending(t, m)' \subseteq Workers BY DEF Pending
      <4>10. Cardinality(Pending(t, m)') <= Cardinality(Workers)
             /\ Cardinality(Pending(t, m)') \in Nat BY <4>9, Counted
      <4>11. Rows(t, m) \in Int BY TakenType DEF Rows
      <4> QED BY <2>2, <4>7, <4>8, <4>10, <4>11, TakenType DEF Taken
    <3>5. CASE ~(r.at = "record" /\ r.tenant = t /\ r.stamp = m)
      <4>1. w \notin Pending(t, m)' BY <3>2, <3>5 DEF Pending
      <4> QED BY <2>3, <3>3, <4>1
    <3> QED BY <3>4, <3>5
  <2>5. CASE Record(w)
    <3> DEFINE u == req[w].tenant
               s == req[w].stamp
    <3>1. u \in Tenants /\ s \in Months BY <2>5, RecordMoves, Movable
    <3>2. /\ \A c \in Clocks : usage'[u][c] = usage[u][c] + (IF c <= s THEN 1 ELSE 0)
          /\ \A v \in Tenants \ {u} : usage'[v] = usage[v]
      BY <2>5, <3>1, UsageMoves DEF Record
    <3>3. req'[w].at = "answer"
      <4>1. PICK r \in Request : To(w, r) /\ r.at = "answer" BY <2>5, RecordMoves
      <4> QED BY <4>1 DEF To, TypeOK
    <3>4. w \notin Pending(t, m)' BY <3>3 DEF Pending
    <3>5. Pending(t, m)' \subseteq Pending(t, m) \ {w} BY <2>1, <3>4, Joins, Defaults
    <3>6. CASE u = t /\ s = m
      <4>1. w \in Pending(t, m) BY <2>5, <3>6 DEF Pending, Record
      <4>2. Pending(t, m) \subseteq Workers BY DEF Pending
      <4>3. Cardinality(Pending(t, m)') + 1 <= Cardinality(Pending(t, m))
        BY <3>5, <4>1, <4>2, OneFewer
      <4>4. m \in Int BY DEF Months
      <4>5. usage'[t][m] = usage[t][m] + 1 /\ usage'[t][m + 1] = usage[t][m + 1]
        BY <3>2, <3>6, <4>4, TakenType
      <4>6. Rows(t, m)' = Rows(t, m) + 1 BY <4>5, TakenType DEF Rows
      <4>7. Pending(t, m)' \subseteq Workers BY DEF Pending
      <4>8. Cardinality(Pending(t, m)') \in Nat BY <4>7, Counted
      <4>9. Rows(t, m) \in Int BY TakenType DEF Rows
      <4>10. Taken(t, m) > 0 => Taken(t, m) <= quota[t] + Cardinality(Workers) - 1
        BY DEF QuotaInv
      <4> QED BY <2>2, <4>3, <4>6, <4>8, <4>9, <4>10, TakenType DEF Taken
    <3>7. CASE u = t /\ s # m
      <4>1. m \in Int /\ s \in Int BY <3>1 DEF Months
      <4>2. usage'[t][m] - usage'[t][m + 1] = usage[t][m] - usage[t][m + 1]
        BY <3>2, <3>7, <4>1, TakenType
      <4>3. Rows(t, m)' = Rows(t, m) BY <4>2 DEF Rows
      <4>4. Cardinality(Pending(t, m)') <= Cardinality(Pending(t, m))
        BY <3>5, Fewer DEF Pending
      <4>5. Pending(t, m)' \subseteq Workers BY DEF Pending
      <4>6. Cardinality(Pending(t, m)') \in Nat BY <4>5, Counted
      <4>7. Rows(t, m) \in Int BY TakenType DEF Rows
      <4>8. Taken(t, m) > 0 => Taken(t, m) <= quota[t] + Cardinality(Workers) - 1
        BY DEF QuotaInv
      <4> QED BY <2>2, <4>3, <4>4, <4>6, <4>7, <4>8, TakenType DEF Taken
    <3>8. CASE u # t
      <4>1. usage'[t] = usage[t] BY <3>2, <3>8
      <4> QED BY <2>2, <3>5, <4>1, NoMoreTaken
    <3> QED BY <3>6, <3>7, <3>8
  <2>6. CASE Deny(w)
    <3>1. PICK r \in Request : To(w, r) /\ r.at = "answer" BY <2>6, DenyMoves
    <3>2. req'[w].at = "answer" BY <3>1 DEF To, TypeOK
    <3> QED BY <2>3, <2>6, <3>2 DEF Deny, Pending
  <2>7. CASE Answer(w)
    <3>1. req'[w].at = "idle" BY <2>7, Defaults DEF Answer, To, TypeOK
    <3> QED BY <2>3, <2>7, <3>1 DEF Answer, Pending
  <2>8. CASE Arrive(w) \/ ResolveKey(w) \/ ResolveToken(w) \/ LookUp(w) \/ Permit(w)
             \/ BeginMetering(w) \/ Fail(w)
    <3>1. usage' = usage /\ req'[w].at \notin {"record", "answer"}
      BY <2>8, QuietMoves DEF records
    <3> QED BY <2>3, <3>1 DEF Pending
  <2> QED BY <1>3, <2>4, <2>5, <2>6, <2>7, <2>8 DEF Serve
<1> QED BY <1>2, <1>3

-----------------------------------------------------------------------------
(* The books.                                                              *)

LEMMA NoMoreOwed ==
  ASSUME TypeOK, TypeOK', AuditInv, NEW t \in Tenants, NEW s \in Statuses,
         audit'[t][s] = audit[t][s], answered'[t][s] = answered[t][s],
         Owed(t, s)' \subseteq Owed(t, s)
  PROVE  answered'[t][s] + Cardinality(Owed(t, s)') <= audit'[t][s]
<1>1. Owed(t, s) \subseteq Workers /\ Owed(t, s)' \subseteq Workers BY DEF Owed
<1>2. Cardinality(Owed(t, s)') <= Cardinality(Owed(t, s)) BY <1>1, Fewer
<1>3. Cardinality(Owed(t, s)') \in Nat /\ Cardinality(Owed(t, s)) \in Nat BY <1>1, Counted
<1>4. answered[t][s] + Cardinality(Owed(t, s)) <= audit[t][s] BY DEF AuditInv
<1>5. answered[t][s] \in Nat /\ audit[t][s] \in Nat BY DEF TypeOK
<1> QED BY <1>2, <1>3, <1>4, <1>5

\* An audit row pays for one more answer.
LEMMA OneMoreOwed ==
  ASSUME TypeOK, TypeOK', AuditInv, NEW t \in Tenants, NEW s \in Statuses, NEW w \in Workers,
         audit'[t][s] = audit[t][s] + 1, answered'[t][s] = answered[t][s],
         Owed(t, s)' \subseteq Owed(t, s) \cup {w}
  PROVE  answered'[t][s] + Cardinality(Owed(t, s)') <= audit'[t][s]
<1>1. Owed(t, s) \subseteq Workers /\ Owed(t, s)' \subseteq Workers BY DEF Owed
<1>2. Cardinality(Owed(t, s)') <= Cardinality(Owed(t, s)) + 1 BY <1>1, OneMore
<1>3. Cardinality(Owed(t, s)') \in Nat /\ Cardinality(Owed(t, s)) \in Nat BY <1>1, Counted
<1>4. answered[t][s] + Cardinality(Owed(t, s)) <= audit[t][s] BY DEF AuditInv
<1>5. answered[t][s] \in Nat /\ audit[t][s] \in Nat BY DEF TypeOK
<1> QED BY <1>2, <1>3, <1>4, <1>5

LEMMA AuditStep ==
  ASSUME TypeOK, ServeInv, AuditInv, [Next]_vars PROVE AuditInv'
<1>t. TypeOK' BY TypeStep
<1> DEFINE Paid(t, s) == answered'[t][s] + Cardinality(Owed(t, s)') <= audit'[t][s]
<1> SUFFICES ASSUME NEW t \in Tenants
             PROVE  (\A s \in Statuses : Paid(t, s)) /\ usage'[t][0] = audit'[t][200]
  BY DEF AuditInv
<1>0. usage[t][0] = audit[t][200] BY DEF AuditInv
<1>1. ASSUME UNCHANGED records, \A s \in Statuses : Owed(t, s)' \subseteq Owed(t, s)
      PROVE  (\A s \in Statuses : Paid(t, s)) /\ usage'[t][0] = audit'[t][200]
  <2>1. UNCHANGED <<usage, audit, answered>> BY <1>1 DEF records
  <2> QED BY <1>t, <1>0, <1>1, <2>1, NoMoreOwed
<1>2. CASE ~\E w \in Workers : Serve(w)
  <2>1. UNCHANGED records
    BY <1>2 DEF Next, vars, NextMonth, ChangeUser, CreateTenant, PutIdpConfig
  <2>2. \A s \in Statuses : Owed(t, s)' \subseteq Owed(t, s) BY <1>2, NoneJoin, Defaults
  <2> QED BY <1>1, <2>1, <2>2
<1>3. ASSUME NEW w \in Workers, Serve(w)
      PROVE  (\A s \in Statuses : Paid(t, s)) /\ usage'[t][0] = audit'[t][200]
  <2>1. \A v \in Workers \ {w} : req'[v] = req[v] BY <1>3, WorkerMoves
  <2>2. ASSUME req'[w].at # "answer", NEW s \in Statuses
        PROVE  Owed(t, s)' \subseteq Owed(t, s) \ {w}
    <3>1. w \notin Owed(t, s)' BY <2>2 DEF Owed
    <3> QED BY <2>1, <3>1, Joins, Defaults
  <2>3. CASE UNCHANGED records /\ req'[w].at # "answer"
    BY <1>1, <2>2, <2>3
  <2>4. CASE Meter(w)
    <3>1. PICK r \in Request : To(w, r) /\ r.at \in {"deny", "record"} BY <2>4, MeterMoves
    <3>2. req'[w].at # "answer" BY <3>1 DEF To, TypeOK
    <3> QED BY <2>3, <2>4, <3>2 DEF Meter
  <2>5. CASE Arrive(w) \/ ResolveKey(w) \/ ResolveToken(w) \/ LookUp(w) \/ Permit(w)
             \/ BeginMetering(w) \/ Fail(w)
    BY <2>3, <2>5, QuietMoves
  <2>6. ASSUME NEW u \in Tenants, NEW q \in Statuses, RecordAccess(u, q), UNCHANGED answered,
               NEW r \in Request, To(w, r), r.status = q, r.tenant = u
        PROVE  \A s \in Statuses : Paid(t, s)
    <3> SUFFICES ASSUME NEW s \in Statuses PROVE Paid(t, s) OBVIOUS
    <3>1. /\ audit'[u][q] = audit[u][q] + 1
          /\ \A v \in Tenants, p \in Statuses : v # u \/ p # q => audit'[v][p] = audit[v][p]
      BY <2>6, AuditMoves
    <3>2. CASE u = t /\ q = s
      <4>1. Owed(t, s)' \subseteq Owed(t, s) \cup {w} BY <2>1, Joins, Defaults
      <4> QED BY <1>t, <2>6, <3>1, <3>2, <4>1, OneMoreOwed
    <3>3. CASE ~(u = t /\ q = s)
      <4>1. req'[w] = r BY <2>6 DEF To, TypeOK
      <4>2. w \notin Owed(t, s)' BY <2>6, <3>3, <4>1 DEF Owed
      <4>3. Owed(t, s)' \subseteq Owed(t, s) BY <2>1, <4>2, Joins, Defaults
      <4> QED BY <1>t, <2>6, <3>1, <3>3, <4>3, NoMoreOwed
    <3> QED BY <3>2, <3>3
  <2>7. CASE Record(w)
    <3> DEFINE u == req[w].tenant
               c == req[w].stamp
    <3>1. u \in Tenants /\ c \in Months BY <2>7, RecordMoves, Movable
    <3>2. PICK r \in Request : To(w, r) /\ r.status = 200 /\ r.tenant = u
      BY <2>7, RecordMoves DEF Same
    <3>3. RecordAccess(u, 200) /\ RecordUsage(u, c) /\ UNCHANGED answered BY <2>7 DEF Record
    <3> HIDE DEF u, c
    <3>4. \A s \in Statuses : Paid(t, s) BY <2>6, <3>1, <3>2, <3>3, Defaults
    <3>5. /\ audit'[u][200] = audit[u][200] + 1
          /\ u # t => audit'[t][200] = audit[t][200]
      BY <3>1, <3>3, Defaults, AuditMoves
    <3>6. /\ \A m \in Clocks : usage'[u][m] = usage[u][m] + (IF m <= c THEN 1 ELSE 0)
          /\ \A v \in Tenants \ {u} : usage'[v] = usage[v]
      BY <3>1, <3>3, UsageMoves
    <3>7. 0 \in Clocks /\ 0 <= c BY <3>1, BoundsAssumption DEF Clocks, Months
    <3>8. usage'[u][0] = usage[u][0] + 1 BY <3>6, <3>7
    <3> QED BY <1>0, <3>1, <3>4, <3>5, <3>6, <3>8
  <2>8. CASE Deny(w)
    <3> DEFINE u == req[w].tenant
               q == req[w].status
    <3>1. u \in Tenants /\ q \in Statuses /\ q # 200 BY <2>8, DenyMoves, Movable
    <3>2. PICK r \in Request : To(w, r) /\ r.status = q /\ r.tenant = u
      BY <2>8, DenyMoves DEF Same
    <3>3. RecordAccess(u, q) /\ UNCHANGED <<usage, answered>> BY <2>8 DEF Deny
    <3> HIDE DEF u, q
    <3>4. \A s \in Statuses : Paid(t, s) BY <2>6, <3>1, <3>2, <3>3
    <3>5. audit'[t][200] = audit[t][200] BY <3>1, <3>3, Defaults, AuditMoves
    <3> QED BY <1>0, <3>3, <3>4, <3>5
  <2>9. CASE Answer(w)
    <3> DEFINE u == req[w].tenant
               q == req[w].status
    <3>1. u \in Tenants BY <2>9 DEF Answer, ServeInv, Carries, Admitted
    <3>2. q \in Statuses BY <2>9, Defaults, RequestFields, Movable DEF Answer, TypeOK, Req
    <3>3. req'[w].at # "answer" BY <2>9, Defaults DEF Answer, To, TypeOK
    <3>4. /\ answered'[u][q] = answered[u][q] + 1
          /\ \A v \in Tenants, p \in Statuses : v # u \/ p # q => answered'[v][p] = answered[v][p]
      BY <2>9, <3>1, <3>2, AnsweredMoves DEF Answer
    <3>5. UNCHANGED <<usage, audit>> BY <2>9 DEF Answer
    <3>6. w \in Owed(u, q) BY <2>9 DEF Answer, Owed
    <3> HIDE DEF u, q
    <3>7. ASSUME NEW s \in Statuses PROVE Paid(t, s)
      <4>1. Owed(t, s)' \subseteq Owed(t, s) \ {w} BY <2>2, <3>3
      <4>2. CASE u = t /\ q = s
        <5>1. Owed(t, s) \subseteq Workers /\ Owed(t, s)' \subseteq Workers BY DEF Owed
        <5>2. Cardinality(Owed(t, s)') + 1 <= Cardinality(Owed(t, s))
          BY <3>6, <4>1, <4>2, <5>1, OneFewer
        <5>3. Cardinality(Owed(t, s)') \in Nat /\ Cardinality(Owed(t, s)) \in Nat
          BY <5>1, Counted
        <5>4. answered[t][s] + Cardinality(Owed(t, s)) <= audit[t][s] BY DEF AuditInv
        <5>5. answered[t][s] \in Nat /\ audit[t][s] \in Nat BY DEF TypeOK
        <5> QED BY <3>4, <3>5, <4>2, <5>2, <5>3, <5>4, <5>5
      <4>3. CASE ~(u = t /\ q = s)
        <5>1. Owed(t, s)' \subseteq Owed(t, s) BY <4>1
        <5>2. answered'[t][s] = answered[t][s] BY <3>4, <4>3
        <5> QED BY <1>t, <3>5, <5>1, <5>2, NoMoreOwed
      <4> QED BY <4>2, <4>3
    <3> QED BY <1>0, <3>5, <3>7
  <2> QED BY <1>3, <2>4, <2>5, <2>7, <2>8, <2>9 DEF Serve
<1> QED BY <1>2, <1>3

-----------------------------------------------------------------------------
(* The deactivated.                                                        *)

KeptOut(r) ==
  r.at \notin {"idle", "resolve", "lookup"} /\ r.token # None =>
    <<r.tenant, r.token.subject>> \notin r.barred

LEMMA BarredStep ==
  ASSUME TypeOK, ServeInv, BarredInv, DeactivatedKeptOut, [Next]_vars
  PROVE  BarredInv' /\ DeactivatedKeptOut'
<1> SUFFICES ASSUME NEW v \in Workers
             PROVE  req'[v].barred \subseteq Inactive' /\ KeptOut(req'[v])
  BY DEF BarredInv, DeactivatedKeptOut, KeptOut
<1>0. req[v].barred \subseteq Inactive /\ KeptOut(req[v])
  BY DEF BarredInv, DeactivatedKeptOut, KeptOut
<1>1. CASE req'[v] = req[v] /\ users' = users
  BY <1>0, <1>1 DEF Inactive
<1>2. CASE ChangeUser
  <2>1. /\ req'[v].at = req[v].at /\ req'[v].token = req[v].token
        /\ req'[v].tenant = req[v].tenant
        /\ req'[v].barred \subseteq Inactive' \cap req[v].barred
    BY <1>2, ChangeUserMoves
  <2> QED BY <1>0, <2>1 DEF KeptOut
<1>3. ASSUME NEW w \in Workers, Serve(w)
      PROVE  req'[v].barred \subseteq Inactive' /\ KeptOut(req'[v])
  <2>1. users' = users /\ \A x \in Workers \ {w} : req'[x] = req[x] BY <1>3, WorkerMoves
  <2>2. CASE v # w BY <1>1, <2>1, <2>2
  <2>3. CASE v = w
    <3>1. ASSUME NEW r, To(w, r), r.barred \subseteq Inactive, KeptOut(r)
          PROVE  req'[v].barred \subseteq Inactive' /\ KeptOut(req'[v])
      <4>1. req'[v] = r BY <2>3, <3>1 DEF To, TypeOK
      <4> QED BY <2>1, <3>1, <4>1 DEF Inactive
    <3>2. Idle.barred \subseteq Inactive /\ KeptOut(Idle) BY Defaults DEF Idle, KeptOut
    <3>3. ASSUME NEW r, Same(r, req[w]), req[w].at \notin {"idle", "resolve", "lookup"}
          PROVE  r.barred \subseteq Inactive /\ KeptOut(r)
      BY <1>0, <2>3, <3>3 DEF Same, KeptOut
    <3>4. CASE Arrive(w)
      <4>1. PICK r \in Request : To(w, r) /\ r.at = "resolve" /\ r.barred \subseteq Inactive
        BY <3>4, ArriveMoves
      <4> QED BY <3>1, <4>1 DEF KeptOut
    <3>5. CASE ResolveKey(w)
      <4>1. PICK r \in Req : To(w, r) /\ (r = Idle \/ (Same(r, req[w]) /\ r.token = None))
        BY <3>5, ResolveKeyMoves
      <4>2. CASE r = Idle BY <3>1, <3>2, <4>1, <4>2
      <4>3. CASE Same(r, req[w]) /\ r.token = None
        <5>1. r.barred \subseteq Inactive /\ KeptOut(r) BY <1>0, <2>3, <4>3 DEF Same, KeptOut
        <5> QED BY <3>1, <4>1, <5>1
      <4> QED BY <4>1, <4>2, <4>3
    <3>6. CASE ResolveToken(w)
      <4>1. PICK r \in Req :
              /\ To(w, r)
              /\ \/ r = Idle
                 \/ /\ r \in Request /\ r.barred = req[w].barred
                    /\ \/ r.at = "permit" /\ r.token.subject = None
                       \/ r.at = "lookup"
        BY <3>6, ResolveTokenMoves
      <4>2. CASE r = Idle BY <3>1, <3>2, <4>1, <4>2
      <4>3. CASE r.barred = req[w].barred /\ r.at = "lookup"
        BY <1>0, <2>3, <3>1, <4>1, <4>3 DEF KeptOut
      <4>4. CASE r \in Request /\ r.barred = req[w].barred /\ r.token.subject = None
        <5>1. <<r.tenant, r.token.subject>> \notin Names BY <4>4, TypeAssumption DEF Names
        <5>2. r.barred \subseteq Names BY <4>4, Movable
        <5>3. KeptOut(r) BY <5>1, <5>2 DEF KeptOut
        <5> QED BY <1>0, <2>3, <3>1, <4>1, <4>4, <5>3
      <4> QED BY <4>1, <4>2, <4>3, <4>4
    <3>7. CASE LookUp(w)
      <4>1. PICK r \in Req :
              /\ To(w, r)
              /\ \/ r = Idle
                 \/ Same(r, req[w]) /\ <<r.tenant, r.token.subject>> \notin Inactive
        BY <3>7, LookUpMoves
      <4>2. CASE r = Idle BY <3>1, <3>2, <4>1, <4>2
      <4>3. CASE Same(r, req[w]) /\ <<r.tenant, r.token.subject>> \notin Inactive
        <5>1. r.barred \subseteq Inactive BY <1>0, <2>3, <4>3 DEF Same
        <5>2. KeptOut(r) BY <4>3, <5>1 DEF KeptOut
        <5> QED BY <3>1, <4>1, <5>1, <5>2
      <4> QED BY <4>1, <4>2, <4>3
    <3>8. CASE Permit(w) \/ BeginMetering(w) \/ Meter(w) \/ Record(w) \/ Deny(w)
      <4>1. PICK r \in Request : To(w, r) /\ Same(r, req[w])
        BY <3>8, PermitMoves, BeginMeteringMoves, MeterMoves, RecordMoves, DenyMoves
      <4>2. req[w].at \notin {"idle", "resolve", "lookup"}
        BY <3>8 DEF Permit, BeginMetering, Meter, Record, Deny
      <4> QED BY <3>1, <3>3, <4>1, <4>2
    <3>9. CASE Answer(w) \/ Fail(w)
      <4>1. To(w, Idle) BY <3>9 DEF Answer, Fail
      <4> QED BY <3>1, <3>2, <4>1
    <3> QED BY <1>3, <3>4, <3>5, <3>6, <3>7, <3>8, <3>9 DEF Serve
  <2> QED BY <2>2, <2>3
<1> QED BY <1>1, <1>2, <1>3
    DEF Next, vars, NextMonth, CreateTenant, PutIdpConfig, admin, records

-----------------------------------------------------------------------------
(* Theorems.                                                               *)

IInv == TypeOK /\ ServeInv /\ UsageInv /\ QuotaInv /\ AuditInv /\ BarredInv /\ DeactivatedKeptOut

LEMMA InitIInv == Init => IInv
<1> SUFFICES ASSUME Init PROVE IInv OBVIOUS
<1>1. TypeOK BY InitType
<1>2. \A w \in Workers : req[w] = Idle BY DEF Init
<1>3. Idle.at = "idle" /\ Idle.barred = {} BY DEF Idle
<1>4. ServeInv BY <1>2, <1>3 DEF ServeInv, Carries, Admitted
<1>5. BarredInv /\ DeactivatedKeptOut BY <1>2, <1>3 DEF BarredInv, DeactivatedKeptOut
<1>6. \A t \in Tenants, m \in Clocks : usage[t][m] = 0 BY DEF Init, Clocks
<1>7. UsageInv
  <2>1. \A t \in Tenants : config[t] = None BY DEF Init
  <2> QED BY <1>6, <2>1 DEF UsageInv
<1>8. QuotaInv
  <2> SUFFICES ASSUME NEW t \in Tenants, NEW m \in Months PROVE Taken(t, m) = 0
    BY DEF QuotaInv
  <2>1. Pending(t, m) = {} BY <1>2, <1>3 DEF Pending
  <2>2. Rows(t, m) = 0 BY <1>1, <1>6, TakenType DEF Rows
  <2> QED BY <2>1, <2>2, FS_EmptySet DEF Taken
<1>9. AuditInv
  <2> SUFFICES ASSUME NEW t \in Tenants
               PROVE  /\ \A s \in Statuses :
                           answered[t][s] + Cardinality(Owed(t, s)) <= audit[t][s]
                      /\ usage[t][0] = audit[t][200]
    BY DEF AuditInv
  <2>1. \A s \in Statuses : Owed(t, s) = {} BY <1>2, <1>3 DEF Owed
  <2>2. \A s \in Statuses : answered[t][s] = 0 /\ audit[t][s] = 0 BY DEF Init
  <2>3. usage[t][0] = 0 BY <1>6, Defaults DEF Clocks
  <2> QED BY <2>1, <2>2, <2>3, FS_EmptySet, Defaults
<1> QED BY <1>1, <1>4, <1>5, <1>7, <1>8, <1>9 DEF IInv

LEMMA IInvStep == IInv /\ [Next]_vars => IInv'
BY TypeStep, ServeStep, UsageStep, QuotaStep, AuditStep, BarredStep DEF IInv

LEMMA IInvCorrect == Spec => []IInv
BY InitIInv, IInvStep, PTL DEF Spec

\* The types.
THEOREM TypeCorrect == Spec => []TypeOK
<1>1. IInv => TypeOK BY DEF IInv
<1> QED BY <1>1, IInvCorrect, PTL

\* Of any number of workers that count and insert without a lock, those that overrun a
\* month's quota are fewer than the workers, whatever the month, and also where the month
\* changes between the check and the row.
THEOREM QuotaOverrunCorrect == Spec => []QuotaOverrun
<1>1. IInv => QuotaOverrun
  <2> SUFFICES ASSUME IInv, NEW t \in Tenants, NEW m \in Months, Rows(t, m) > 0
               PROVE  Rows(t, m) <= quota[t] + Cardinality(Workers) - 1
    BY DEF QuotaOverrun
  <2>1. Rows(t, m) \in Int BY TakenType DEF IInv, Rows
  <2>2. Taken(t, m) > 0 => Taken(t, m) <= quota[t] + Cardinality(Workers) - 1
    BY DEF IInv, QuotaInv
  <2>3. TypeOK BY DEF IInv
  <2> QED BY <2>1, <2>2, <2>3, TakenType DEF Taken
<1> QED BY <1>1, IInvCorrect, PTL

\* No answer without its audit row, and a usage row per request allowed: whatever fails, and
\* in whatever order the workers commit.
THEOREM AccountableCorrect == Spec => []Accountable
<1>1. IInv => Accountable
  <2> SUFFICES ASSUME IInv, NEW t \in Tenants
               PROVE  /\ \A s \in Statuses : answered[t][s] <= audit[t][s]
                      /\ usage[t][0] = audit[t][200]
    BY DEF Accountable
  <2>1. ASSUME NEW s \in Statuses PROVE answered[t][s] <= audit[t][s]
    <3>1. Owed(t, s) \subseteq Workers BY DEF Owed
    <3>2. Cardinality(Owed(t, s)) \in Nat BY <3>1, Counted
    <3>3. answered[t][s] + Cardinality(Owed(t, s)) <= audit[t][s] BY DEF IInv, AuditInv
    <3>4. answered[t][s] \in Nat /\ audit[t][s] \in Nat BY DEF IInv, TypeOK
    <3> QED BY <3>2, <3>3, <3>4
  <2>2. usage[t][0] = audit[t][200] BY DEF IInv, AuditInv
  <2> QED BY <2>1, <2>2
<1> QED BY <1>1, IInvCorrect, PTL

\* A deactivated user stays out, however its request and the SCIM requests interleave.
THEOREM DeactivatedKeptOutCorrect == Spec => []DeactivatedKeptOut
<1>1. IInv => DeactivatedKeptOut BY DEF IInv
<1> QED BY <1>1, IInvCorrect, PTL

=============================================================================
