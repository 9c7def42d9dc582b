----------------------------- MODULE FindingsProofs ---------------------------
(***************************************************************************)
(* Proofs about Findings for any number of evaluations, CIs, findings and  *)
(* subscriptions: there is one open finding of a rule about a subject,     *)
(* none is half told, and an evaluation that nothing disturbs leaves       *)
(* exactly those that its rules call for.                                  *)
(***************************************************************************)
EXTENDS Findings, TLAPS

\* The rows of a delivery: a series of failures is as long as MAX_ATTEMPTS exactly if the
\* dead letter ends it.
Series(o) ==
  \A s \in Subs : IF o.end[s] = "dead_letter" THEN o.failed[s] = MaxAttempts
                  ELSE o.failed[s] < MaxAttempts

\* Nobody is still to be told, but by an evaluation that is at it, or that has failed.
TellInv ==
  \A e \in Evaluators :
    /\ \A o \in opened[e] : Series(o)
    /\ pc[e] \notin {"tell", "failed"} => \A o \in opened[e] : Pending(o) = {}

Single(F) == \A f, g \in F : Same(f, g) => f = g

\* Of what an evaluation sees, no two are the same; nor is what two have inserted.
OneInv ==
  /\ Single(findings)
  /\ \A e \in Evaluators : Single(Visible(e))
  /\ \A e, u \in Evaluators : e # u => \A f \in Mine(e), g \in Mine(u) : ~Same(f, g)

IInv == TypeOK /\ TellInv /\ OneInv

-----------------------------------------------------------------------------
(* Types.                                                                  *)

LEMMA OpenedFields ==
  ASSUME NEW o \in Opened
  PROVE  /\ o.finding \in Finding /\ o.owed \subseteq Subs
         /\ o.failed \in [Subs -> 0..MaxAttempts]
         /\ o.end \in [Subs -> {"none", "delivered", "dead_letter"}]
BY DEF Opened

LEMMA DeliveredFields ==
  ASSUME NEW o \in Opened, NEW s \in Subs, Series(o), s \in Pending(o)
  PROVE  /\ Delivered(o, s) \in Opened /\ Delivered(o, s).finding = o.finding
         /\ Series(Delivered(o, s))
<1> DEFINE q == Delivered(o, s)
           end == [o.end EXCEPT ![s] = "delivered"]
<1>1. q = [o EXCEPT !.end = end] BY DEF Delivered, Opened
<1>2. end \in [Subs -> {"none", "delivered", "dead_letter"}] BY OpenedFields
<1>3. \A x \in Subs : end[x] = IF x = s THEN "delivered" ELSE o.end[x] BY OpenedFields
<1> HIDE DEF end
<1>4. /\ q \in Opened /\ q.finding = o.finding /\ q.failed = o.failed /\ q.end = end
  BY <1>1, <1>2 DEF Opened
<1>5. o.end[s] = "none" BY DEF Pending
<1>6. \A x \in Subs : IF end[x] = "dead_letter" THEN o.failed[x] = MaxAttempts
                      ELSE o.failed[x] < MaxAttempts
  BY <1>3, <1>5 DEF Series
<1> HIDE DEF q
<1>7. Series(q) BY <1>4, <1>6 DEF Series
<1> QED BY <1>4, <1>7 DEF q

LEMMA FailedFields ==
  ASSUME NEW o \in Opened, NEW s \in Subs, Series(o), s \in Pending(o)
  PROVE  /\ Failed(o, s) \in Opened /\ Failed(o, s).finding = o.finding
         /\ Series(Failed(o, s))
<1> DEFINE q == Failed(o, s)
           n == o.failed[s] + 1
           last == IF n = MaxAttempts THEN "dead_letter" ELSE "none"
           failed == [o.failed EXCEPT ![s] = n]
           end == [o.end EXCEPT ![s] = last]
<1>0. o.end[s] = "none" BY DEF Pending
<1>1. q = [o EXCEPT !.failed = failed, !.end = end] BY DEF Failed, Opened
<1>2. n \in 0..MaxAttempts
  <2>1. o.failed[s] \in 0..MaxAttempts BY OpenedFields
  <2>2. o.failed[s] < MaxAttempts BY <1>0 DEF Series
  <2> QED BY <2>1, <2>2, BoundsAssumption
<1>3. last \in {"none", "delivered", "dead_letter"} OBVIOUS
<1>4. IF last = "dead_letter" THEN n = MaxAttempts ELSE n < MaxAttempts
  BY <1>2, BoundsAssumption
<1> HIDE DEF n, last
<1>5. /\ failed \in [Subs -> 0..MaxAttempts]
      /\ \A x \in Subs : failed[x] = IF x = s THEN n ELSE o.failed[x]
  BY <1>2, OpenedFields
<1>6. /\ end \in [Subs -> {"none", "delivered", "dead_letter"}]
      /\ \A x \in Subs : end[x] = IF x = s THEN last ELSE o.end[x]
  BY <1>3, OpenedFields
<1> HIDE DEF failed, end
<1>7. q \in Opened /\ q.finding = o.finding /\ q.failed = failed /\ q.end = end
  BY <1>1, <1>5, <1>6 DEF Opened
<1>8. \A x \in Subs : IF end[x] = "dead_letter" THEN failed[x] = MaxAttempts
                      ELSE failed[x] < MaxAttempts
  BY <1>4, <1>5, <1>6 DEF Series
<1> HIDE DEF q
<1>9. Series(q) BY <1>7, <1>8 DEF Series
<1> QED BY <1>7, <1>9 DEF q

\* An attempt replaces a delivery by one of the same finding.
LEMMA AttemptMoves ==
  ASSUME TypeOK, TellInv, NEW e \in Evaluators, Attempt(e)
  PROVE  \E o \in opened[e] : \E q \in Opened :
           /\ q.finding = o.finding /\ Series(q)
           /\ opened' = [opened EXCEPT ![e] = (@ \ {o}) \cup {q}]
<1>1. PICK o \in opened[e], s \in Subs :
        /\ s \in Pending(o)
        /\ Replace(e, o, Delivered(o, s)) \/ Replace(e, o, Failed(o, s))
  BY DEF Attempt
<1>2. o \in Opened /\ Series(o) BY DEF TypeOK, TellInv
<1>3. CASE Replace(e, o, Delivered(o, s))
  BY <1>1, <1>2, <1>3, DeliveredFields DEF Replace
<1>4. CASE Replace(e, o, Failed(o, s))
  BY <1>1, <1>2, <1>4, FailedFields DEF Replace
<1> QED BY <1>1, <1>3, <1>4

\* An insertion adds a delivery, of which nothing has been sent.
LEMMA InsertMoves ==
  ASSUME TypeOK, NEW e \in Evaluators, NEW s \in Subjects, rule[e] \in Rules, Insert(e, s)
  PROVE  \E q \in Opened :
           /\ q.finding.rule = rule[e] /\ q.finding.subject = s /\ Series(q)
           /\ opened' = [opened EXCEPT ![e] = @ \cup {q}]
           /\ pc'[e] \in {"tell", "judge"}
           /\ pc'[e] = "judge" => Pending(q) = {}
<1>1. PICK n \in Nos \ Used(rule[e], s) :
        /\ opened' = [opened EXCEPT ![e] = @ \cup
             {[finding |-> [rule |-> rule[e], subject |-> s, no |-> n],
               owed |-> IF kind[e] = "announced" THEN enabled ELSE {},
               failed |-> [x \in Subs |-> 0], end |-> [x \in Subs |-> "none"]]}]
        /\ Goto(e, IF kind[e] = "announced" THEN "tell" ELSE "judge")
  BY DEF Insert
<1> DEFINE f == [rule |-> rule[e], subject |-> s, no |-> n]
           owed == IF kind[e] = "announced" THEN enabled ELSE {}
           failed == [x \in Subs |-> 0]
           end == [x \in Subs |-> "none"]
           q == [finding |-> f, owed |-> owed, failed |-> failed, end |-> end]
<1>2. f \in Finding /\ f.rule = rule[e] /\ f.subject = s BY DEF Finding
<1>3. owed \subseteq Subs /\ (kind[e] # "announced" => owed = {}) BY DEF TypeOK
<1>4. failed \in [Subs -> 0..MaxAttempts] /\ \A x \in Subs : failed[x] = 0 BY BoundsAssumption
<1>5. /\ end \in [Subs -> {"none", "delivered", "dead_letter"}]
      /\ \A x \in Subs : end[x] = "none"
  OBVIOUS
<1>6. opened' = [opened EXCEPT ![e] = @ \cup {q}] BY <1>1
<1> HIDE DEF f, owed, failed, end
<1>7. q \in Opened /\ q.finding = f /\ q.owed = owed /\ q.failed = failed /\ q.end = end
  BY <1>2, <1>3, <1>4, <1>5 DEF Opened
<1> HIDE DEF q
<1>8. Series(q) BY <1>4, <1>5, <1>7, BoundsAssumption DEF Series
<1>9. pc'[e] = IF kind[e] = "announced" THEN "tell" ELSE "judge" BY <1>1 DEF Goto, TypeOK
<1>10. kind[e] # "announced" => Pending(q) = {} BY <1>3, <1>7 DEF Pending
<1> QED BY <1>2, <1>6, <1>7, <1>8, <1>9, <1>10

LEMMA OpenedType ==
  ASSUME TypeOK, NEW e \in Evaluators, NEW F \in SUBSET Opened,
         opened' = [opened EXCEPT ![e] = F]
  PROVE  /\ opened' \in [Evaluators -> SUBSET Opened]
         /\ opened'[e] = F /\ \A u \in Evaluators \ {e} : opened'[u] = opened[u]
BY DEF TypeOK

InventoryOK ==
  /\ cur \subseteq Subjects /\ exposed \subseteq Databases
  /\ grants \subseteq Grants /\ events \subseteq Subjects \X Times

LEMMA DiscoverType == ASSUME TypeOK, Discover PROVE TypeOK'
<1>1. changes' \in 0..MaxChanges
  <2>1. MaxChanges \in Nat BY BoundsAssumption
  <2> QED BY <2>1 DEF Discover, Changed, TypeOK
<1>2. InventoryOK BY DEF TypeOK, InventoryOK
<1>3. ASSUME NEW s \in Subjects, NEW at \in Times, Observe(s, at) PROVE InventoryOK'
  BY <1>2, <1>3 DEF Observe, InventoryOK
<1>4. ASSUME NEW s \in Subjects, Retire(s) PROVE InventoryOK'
  BY <1>2, <1>4 DEF Retire, InventoryOK
<1>5. ASSUME NEW d \in Databases, NEW at \in Times, NEW last \in BOOLEAN, Expose(d, at, last)
      PROVE  InventoryOK'
  <2>1. d \in Subjects BY DEF Subjects
  <2> QED BY <1>2, <1>5, <2>1 DEF Expose, InventoryOK
<1>6. ASSUME NEW d \in exposed, Cover(d) PROVE InventoryOK'
  BY <1>2, <1>6 DEF Cover, InventoryOK
<1>7. ASSUME NEW E \in Batches, Connect(E) PROVE InventoryOK'
  <2>1. E \subseteq Grants BY GrantsAssumption
  <2> QED BY <1>2, <1>7, <2>1 DEF Connect, InventoryOK
<1>8. ASSUME NEW s \in Groups, NEW at \in Times, OpenToWorld(s, at) PROVE InventoryOK'
  <2>1. s \in Subjects BY DEF Subjects
  <2> QED BY <1>2, <1>8, <2>1 DEF OpenToWorld, InventoryOK
<1>9. InventoryOK' BY <1>3, <1>4, <1>5, <1>6, <1>7, <1>8 DEF Discover
<1>10. disturbed' \in [Evaluators -> BOOLEAN] BY DEF Discover, Changed, Disturb
<1> QED BY <1>1, <1>9, <1>10 DEF Discover, Changed, TypeOK, InventoryOK, request, reads

LEMMA GotoType ==
  ASSUME TypeOK, NEW e \in Evaluators, NEW l \in PCs, Goto(e, l)
  PROVE  /\ pc' \in [Evaluators -> PCs] /\ pc'[e] = l
         /\ \A u \in Evaluators \ {e} : pc'[u] = pc[u]
BY DEF Goto, TypeOK

LEMMA RulesType == \A k \in Kinds : First(k) \in Rules
BY DEF First, Rules, Kinds

LEMMA BeginType ==
  ASSUME TypeOK, NEW e \in Evaluators, NEW k \in KindsOf[e], NEW since \in Times,
         NEW until \in Times, Begin(e, k, since, until)
  PROVE  TypeOK'
<1>1. k \in Kinds /\ First(k) \in Rules \cup {None} BY KindsAssumption, RulesType
<1>2. /\ kind' \in [Evaluators -> Kinds] /\ rule' \in [Evaluators -> Rules \cup {None}]
  BY <1>1 DEF Begin, TypeOK
<1>3. (IF k = "anomaly" THEN <<since, until>> ELSE NoWindow) \in Window BY DEF Window
<1>4. window' \in [Evaluators -> Window] BY <1>3 DEF Begin, TypeOK
<1>5. pc' \in [Evaluators -> PCs] BY GotoType DEF Begin, PCs
<1>6. /\ opened' \in [Evaluators -> SUBSET Opened] /\ resolved' \in [Evaluators -> SUBSET Finding]
      /\ disturbed' \in [Evaluators -> BOOLEAN]
  BY DEF Begin, TypeOK
<1> QED BY <1>2, <1>4, <1>5, <1>6 DEF Begin, TypeOK, inventory, reads

LEMMA ListType ==
  ASSUME TypeOK, NEW e \in Evaluators, NEW r, NEW X \in SUBSET Subjects, NEW H \in SUBSET Subjects,
         List(e, r, X, H)
  PROVE  TypeOK'
<1>1. pc' \in [Evaluators -> PCs] BY GotoType DEF List, PCs
<1> QED BY <1>1 DEF List, TypeOK, inventory, request

LEMMA ListsType ==
  ASSUME TypeOK, NEW e \in Evaluators,
         ListDatabases(e) \/ ListPrincipals(e) \/ ListExposure(e) \/ ListIngress(e)
  PROVE  TypeOK'
<1>1. \A X : cur \cap X \subseteq Subjects /\ Triggered(window[e]) \cap X \subseteq Subjects
  BY DEF TypeOK, Triggered
<1>2. Triggered(window[e]) \subseteq Subjects /\ {} \subseteq Subjects BY DEF Triggered
<1> QED BY <1>1, <1>2, ListType DEF ListDatabases, ListPrincipals, ListExposure, ListIngress

LEMMA VisibleType ==
  ASSUME TypeOK, NEW e \in Evaluators
  PROVE  Visible(e) \subseteq Finding
BY OpenedFields DEF TypeOK, Visible, Mine

LEMMA IndexType == ASSUME TypeOK, NEW e \in Evaluators, Index(e) PROVE TypeOK'
<1>1. pc' \in [Evaluators -> PCs]
  <2>1. Goto(e, "lookup") \/ Goto(e, "judge") BY DEF Index
  <2> QED BY <2>1, GotoType DEF PCs
<1>2. {f \in Visible(e) : f.rule = rule[e]} \subseteq Finding BY VisibleType
<1>3. index' \in [Evaluators -> SUBSET Finding] BY <1>2 DEF Index, TypeOK
<1>4. todo' \in [Evaluators -> SUBSET Subjects] BY DEF Index, TypeOK
<1> QED BY <1>1, <1>3, <1>4 DEF Index, TypeOK, inventory, request

LEMMA LookUpGroupMoves ==
  ASSUME TypeOK, NEW e \in Evaluators, LookUpGroup(e)
  PROVE  \E s \in triggered[e] :
           /\ listed'[e] = listed[e] \cup ({s} \cap cur)
           /\ todo'[e] = todo[e] \cup ({s} \cap cur)
           /\ triggered'[e] = triggered[e] \ {s}
           /\ pc'[e] = IF triggered[e] = {s} THEN "judge" ELSE "lookup"
           /\ \A u \in Evaluators \ {e} :
                /\ listed'[u] = listed[u] /\ todo'[u] = todo[u]
                /\ triggered'[u] = triggered[u] /\ pc'[u] = pc[u]
BY DEF LookUpGroup, Goto, TypeOK

LEMMA LookUpGroupType == ASSUME TypeOK, NEW e \in Evaluators, LookUpGroup(e) PROVE TypeOK'
<1>1. PICK s \in triggered[e] :
       /\ listed' = [listed EXCEPT ![e] = @ \cup ({s} \cap cur)]
       /\ todo' = [todo EXCEPT ![e] = @ \cup ({s} \cap cur)]
       /\ triggered' = [triggered EXCEPT ![e] = @ \ {s}]
       /\ Goto(e, IF triggered[e] = {s} THEN "judge" ELSE "lookup")
  BY DEF LookUpGroup
<1>2. pc' \in [Evaluators -> PCs] BY <1>1, GotoType DEF PCs
<1>3. /\ listed' \in [Evaluators -> SUBSET Subjects] /\ todo' \in [Evaluators -> SUBSET Subjects]
      /\ triggered' \in [Evaluators -> SUBSET Subjects]
  BY <1>1 DEF TypeOK
<1> QED BY <1>2, <1>3 DEF LookUpGroup, TypeOK, inventory, request

LEMMA SkipType == ASSUME TypeOK, NEW e \in Evaluators, NEW s, Skip(e, s) PROVE TypeOK'
<1>1. todo' \in [Evaluators -> SUBSET Subjects] BY DEF Skip, TypeOK
<1> QED BY <1>1 DEF Skip, TypeOK, inventory, request, reads

LEMMA BreakType == ASSUME TypeOK, NEW e \in Evaluators, Break(e) PROVE TypeOK'
<1>1. pc' \in [Evaluators -> PCs] BY GotoType DEF Break, PCs
<1> QED BY <1>1 DEF Break, TypeOK, inventory, request, reads

LEMMA InsertType ==
  ASSUME TypeOK, NEW e \in Evaluators, NEW s \in Subjects, rule[e] \in Rules, Insert(e, s)
  PROVE  TypeOK'
<1>1. opened' \in [Evaluators -> SUBSET Opened]
  <2>1. PICK q \in Opened : opened' = [opened EXCEPT ![e] = @ \cup {q}] BY InsertMoves
  <2> QED BY <2>1 DEF TypeOK
<1>2. todo' \in [Evaluators -> SUBSET Subjects] BY DEF Insert, TypeOK
<1>3. pc' \in [Evaluators -> PCs]
  <2>1. Goto(e, "tell") \/ Goto(e, "judge") BY DEF Insert
  <2> QED BY <2>1, GotoType DEF PCs
<1>4. UNCHANGED <<inventory, enabled, findings, request, rule, reads, resolved, disturbed>>
  BY DEF Insert
<1> QED BY <1>1, <1>2, <1>3, <1>4 DEF TypeOK, inventory, request, reads

LEMMA ResolveMoves ==
  ASSUME TypeOK, NEW e \in Evaluators, NEW f, Resolve(e, f)
  PROVE  resolved' \in [Evaluators -> SUBSET Finding]
         /\ \A u \in Evaluators : resolved[u] \subseteq resolved'[u]
BY DEF Resolve, TypeOK

LEMMA CloseType == ASSUME TypeOK, NEW e \in Evaluators, NEW s, Close(e, s) PROVE TypeOK'
<1>1. resolved' \in [Evaluators -> SUBSET Finding] BY ResolveMoves DEF Close
<1>2. todo' \in [Evaluators -> SUBSET Subjects] BY DEF Close, TypeOK
<1> QED BY <1>1, <1>2 DEF Close, TypeOK, inventory, request, reads

LEMMA CloseUnlistedType == ASSUME TypeOK, NEW e \in Evaluators, CloseUnlisted(e) PROVE TypeOK'
<1>1. resolved' \in [Evaluators -> SUBSET Finding] BY ResolveMoves DEF CloseUnlisted
<1> QED BY <1>1 DEF CloseUnlisted, TypeOK, inventory, request, reads

LEMMA ProceedType == ASSUME TypeOK, NEW e \in Evaluators, Proceed(e) PROVE TypeOK'
<1>1. After(rule[e]) \in Rules \cup {None} BY DEF After, Rules
<1>2. rule' \in [Evaluators -> Rules \cup {None}] BY <1>1 DEF Proceed, TypeOK
<1>3. Goto(e, "commit") \/ Goto(e, "list") BY DEF Proceed
<1>4. pc' \in [Evaluators -> PCs] BY <1>3, GotoType DEF PCs
<1> QED BY <1>2, <1>4 DEF Proceed, TypeOK, inventory, request

LEMMA AttemptType == ASSUME TypeOK, TellInv, NEW e \in Evaluators, Attempt(e) PROVE TypeOK'
<1>1. opened' \in [Evaluators -> SUBSET Opened]
  <2>1. PICK o \in opened[e], q \in Opened : opened' = [opened EXCEPT ![e] = (@ \ {o}) \cup {q}]
    BY AttemptMoves
  <2> QED BY <2>1 DEF TypeOK
<1> QED BY <1>1 DEF Attempt, TypeOK, inventory, request, reads

LEMMA EndTellingType == ASSUME TypeOK, NEW e \in Evaluators, EndTelling(e) PROVE TypeOK'
<1>1. pc' \in [Evaluators -> PCs] BY GotoType DEF EndTelling, PCs
<1> QED BY <1>1 DEF EndTelling, TypeOK, inventory, request, reads

LEMMA ForgetType ==
  ASSUME TypeOK, NEW e \in Evaluators, Forget(e), findings' \subseteq Finding,
         disturbed' \in [Evaluators -> BOOLEAN]
  PROVE  TypeOK'
<1>1. pc' \in [Evaluators -> PCs] BY GotoType DEF Forget, PCs
<1>2. /\ kind' \in [Evaluators -> Kinds] /\ window' \in [Evaluators -> Window]
      /\ rule' \in [Evaluators -> Rules \cup {None}]
  BY DEF Forget, TypeOK, Kinds, Window
<1>3. /\ opened' \in [Evaluators -> SUBSET Opened] /\ resolved' \in [Evaluators -> SUBSET Finding]
      /\ listed' \in [Evaluators -> SUBSET Subjects] /\ triggered' \in [Evaluators -> SUBSET Subjects]
      /\ index' \in [Evaluators -> SUBSET Finding] /\ todo' \in [Evaluators -> SUBSET Subjects]
  BY DEF Forget, TypeOK
<1> QED BY <1>1, <1>2, <1>3 DEF Forget, TypeOK, inventory

LEMMA EndType ==
  ASSUME TypeOK, NEW e \in Evaluators, Commit(e) \/ Rollback(e) PROVE TypeOK'
<1>1. Forget(e) /\ findings' \subseteq Finding BY VisibleType DEF Commit, Rollback, TypeOK
<1>2. disturbed' \in [Evaluators -> BOOLEAN] BY DEF Commit, Rollback, TypeOK
<1> QED BY <1>1, <1>2, ForgetType

-----------------------------------------------------------------------------
(* One turn of a rule, whatever the rule.                                  *)

Judges(e) ==
  \E s \in Subjects :
    rule[e] \in Rules /\ pc[e] = "judge" /\ (Open(e, s) \/ Skip(e, s) \/ Close(e, s))

LEMMA TurnMoves ==
  ASSUME NEW e \in Evaluators,
         InternetReachableDatabase(e) \/ OverPermissiveIamRole(e)
           \/ PublicIpOnDatabase(e) \/ SecurityGroupOpenedToWorld(e)
  PROVE  Judges(e)
<1>1. ASSUME NEW r \in Rules, NEW s \in Subjects, NEW m, Turn(e, r, s), Judge(e, s, m)
      PROVE  Judges(e)
  BY <1>1 DEF Turn, Judge, Judges
<1>2. CASE InternetReachableDatabase(e)
  <2>1. PICK s \in Databases : Turn(e, Internet, s) /\ Judge(e, s, s \in exposed)
    BY <1>2 DEF InternetReachableDatabase
  <2> QED BY <1>1, <2>1 DEF Rules, Subjects
<1>3. CASE OverPermissiveIamRole(e)
  <2>1. PICK s \in Principals : Turn(e, IAM, s) /\ Judge(e, s, OverPermissive(s))
    BY <1>3 DEF OverPermissiveIamRole
  <2> QED BY <1>1, <2>1 DEF Rules, Subjects
<1>4. CASE PublicIpOnDatabase(e)
  <2>1. PICK s \in Databases :
          Turn(e, PublicIP, s) /\ Judge(e, s, s \in triggered[e] /\ s \in exposed)
    BY <1>4 DEF PublicIpOnDatabase
  <2> QED BY <1>1, <2>1 DEF Rules, Subjects
<1>5. CASE SecurityGroupOpenedToWorld(e)
  <2>1. PICK s \in Groups : Turn(e, World, s) /\ (Open(e, s) \/ Skip(e, s))
    BY <1>5 DEF SecurityGroupOpenedToWorld
  <2> QED BY <2>1 DEF Turn, Judges, Rules, Subjects
<1> QED BY <1>2, <1>3, <1>4, <1>5

-----------------------------------------------------------------------------
(* One open finding.                                                       *)

\* Of less, no two are the same either.
LEMMA FewerInv ==
  ASSUME OneInv, findings' = findings, \A u \in Evaluators : Mine(u)' \subseteq Mine(u),
         \A u \in Evaluators : resolved[u] \subseteq resolved'[u]
  PROVE  OneInv'
<1>1. Single(findings)' BY DEF OneInv, Single
<1>2. \A u \in Evaluators : Visible(u)' \subseteq Visible(u) BY DEF Visible
<1>3. \A u \in Evaluators : Single(Visible(u))' BY <1>2 DEF OneInv, Single
<1> QED BY <1>1, <1>3 DEF OneInv

LEMMA KeptInv ==
  ASSUME OneInv, findings' = findings, opened' = opened,
         \A u \in Evaluators : resolved[u] \subseteq resolved'[u]
  PROVE  OneInv'
<1>1. \A u \in Evaluators : Mine(u)' = Mine(u) BY DEF Mine
<1> QED BY <1>1, FewerInv

LEMMA ResetInv ==
  ASSUME OneInv, NEW e \in Evaluators, findings' = findings \/ findings' = Visible(e),
         opened'[e] = {}, resolved'[e] = {},
         \A u \in Evaluators \ {e} : opened'[u] = opened[u] /\ resolved'[u] = resolved[u]
  PROVE  OneInv'
<1>1. Mine(e)' = {} /\ \A u \in Evaluators \ {e} : Mine(u)' = Mine(u) BY DEF Mine
<1>2. Single(findings)' BY DEF OneInv, Single
<1>3. ASSUME NEW u \in Evaluators PROVE Single(Visible(u))'
  <2>1. CASE u = e
    <3>1. Visible(e)' = findings' BY <1>1 DEF Visible
    <3> QED BY <1>2, <2>1, <3>1 DEF Single
  <2>2. CASE u # e
    <3>1. Visible(u)' = (findings' \ resolved[u]) \cup Mine(u) BY <1>1, <2>2 DEF Visible
    <3>2. CASE findings' = findings BY <2>2, <3>1, <3>2 DEF OneInv, Single, Visible
    <3>3. CASE findings' = Visible(e)
      <4> SUFFICES ASSUME NEW f \in Visible(u)', NEW g \in Visible(u)', Same(f, g) PROVE f = g
        BY DEF Single, Same
      <4>1. \A x \in Visible(u)' : x \in Mine(u) \/ x \in Mine(e) \/ x \in findings \ resolved[u]
        BY <3>1, <3>3 DEF Visible
      <4>2. Mine(u) \subseteq Visible(u) /\ findings \ resolved[u] \subseteq Visible(u)
        BY DEF Visible
      <4>3. \A x \in Mine(e), y \in Mine(u) : ~Same(x, y) /\ ~Same(y, x)
        BY <2>2 DEF OneInv
      <4>4. \A x \in Visible(u)' : x \in Mine(u) \/ x \in Visible(e) BY <3>1, <3>3
      <4>5. Single(Visible(u)) /\ Single(Visible(e)) BY DEF OneInv
      <4>6. CASE f \in Visible(u) /\ g \in Visible(u) BY <4>5, <4>6 DEF Single
      <4>7. CASE f \in Visible(e) /\ g \in Visible(e) BY <4>5, <4>7 DEF Single
      <4> QED BY <4>1, <4>2, <4>3, <4>4, <4>6, <4>7
    <3> QED BY <3>2, <3>3
  <2> QED BY <2>1, <2>2
<1>4. \A v, u \in Evaluators : v # u => \A f \in Mine(v)', g \in Mine(u)' : ~Same(f, g)
  BY <1>1 DEF OneInv
<1> QED BY <1>2, <1>3, <1>4 DEF OneInv, Same

LEMMA OpenInv ==
  ASSUME TypeOK, OneInv, NEW e \in Evaluators, NEW s \in Subjects, rule[e] \in Rules,
         Open(e, s), ~Break(e)
  PROVE  OneInv'
<1>1. /\ Inserters(e, rule[e], s) = {} /\ Insert(e, s)
      /\ ~\E f \in Visible(e) : f.rule = rule[e] /\ f.subject = s
  BY DEF Open
<1>2. PICK q \in Opened : /\ q.finding.rule = rule[e] /\ q.finding.subject = s
                          /\ opened' = [opened EXCEPT ![e] = @ \cup {q}]
  BY <1>1, InsertMoves
<1>3. UNCHANGED <<findings, resolved>> BY <1>1 DEF Insert
<1>4. /\ opened'[e] = opened[e] \cup {q}
      /\ \A u \in Evaluators \ {e} : opened'[u] = opened[u]
  BY <1>2 DEF TypeOK
<1> DEFINE h == q.finding
<1>5. Mine(e)' = Mine(e) \cup {h} /\ \A u \in Evaluators \ {e} : Mine(u)' = Mine(u)
  BY <1>4 DEF Mine
<1>6. Single(findings)' BY <1>3 DEF OneInv, Single
<1>7. \A f \in Visible(e) : ~Same(f, h) /\ ~Same(h, f) BY <1>1, <1>2 DEF Same
<1>8. \A u \in Evaluators \ {e} : \A f \in Mine(u) : ~Same(f, h) /\ ~Same(h, f)
  BY <1>1, <1>2 DEF Inserters, Same
<1> HIDE DEF h
<1>9. ASSUME NEW u \in Evaluators PROVE Single(Visible(u))'
  <2>1. CASE u # e
    <3>1. Visible(u)' = Visible(u) BY <1>3, <1>5, <2>1 DEF Visible
    <3> QED BY <3>1 DEF OneInv, Single, Same
  <2>2. CASE u = e
    <3>1. Visible(e)' = Visible(e) \cup {h} BY <1>3, <1>5 DEF Visible
    <3> QED BY <1>7, <2>2, <3>1 DEF OneInv, Single
  <2> QED BY <2>1, <2>2
<1>10. \A v, u \in Evaluators : v # u => \A f \in Mine(v)', g \in Mine(u)' : ~Same(f, g)
  BY <1>5, <1>8 DEF OneInv
<1> QED BY <1>6, <1>9, <1>10 DEF OneInv, Same

-----------------------------------------------------------------------------
(* None half told.                                                         *)

\* An evaluation that leaves its deliveries alone may go on telling, or fail.
LEMMA StillTold ==
  ASSUME TellInv, opened' = opened, NEW e \in Evaluators,
         \A u \in Evaluators \ {e} : pc'[u] = pc[u],
         pc'[e] \in {"tell", "failed"} \/ pc[e] \notin {"tell", "failed"}
           \/ \A o \in opened[e] : Pending(o) = {}
  PROVE  TellInv'
BY DEF TellInv, Series, Pending

LEMMA ToldOthers ==
  ASSUME TellInv, NEW e \in Evaluators,
         \A u \in Evaluators \ {e} : opened'[u] = opened[u] /\ pc'[u] = pc[u],
         \A o \in opened'[e] : Series(o),
         pc'[e] \notin {"tell", "failed"} => \A o \in opened'[e] : Pending(o) = {}
  PROVE  TellInv'
BY DEF TellInv, Series, Pending

-----------------------------------------------------------------------------
(* Every step.                                                             *)

LEMMA JudgesInv ==
  ASSUME IInv, NEW e \in Evaluators, Judges(e) PROVE IInv'
<1> USE DEF IInv
<1>1. PICK s \in Subjects : /\ rule[e] \in Rules /\ pc[e] = "judge"
                            /\ Open(e, s) \/ Skip(e, s) \/ Close(e, s)
  BY DEF Judges
<1>2. CASE Skip(e, s)
  <2>1. TypeOK' BY <1>2, SkipType
  <2>2. UNCHANGED <<findings, opened, resolved, pc>> BY <1>2 DEF Skip
  <2>3. OneInv' BY <2>2, KeptInv
  <2>4. TellInv' BY <2>2, StillTold, <1>1
  <2> QED BY <2>1, <2>3, <2>4
<1>3. CASE Close(e, s)
  <2>1. TypeOK' BY <1>3, CloseType
  <2>2. UNCHANGED <<findings, opened, pc>> BY <1>3 DEF Close
  <2>3. PICK f : Resolve(e, f) BY <1>3 DEF Close
  <2>4. \A u \in Evaluators : resolved[u] \subseteq resolved'[u] BY <2>3, ResolveMoves
  <2>5. OneInv' BY <2>2, <2>4, KeptInv
  <2>6. TellInv' BY <2>2, StillTold, <1>1
  <2> QED BY <2>1, <2>5, <2>6
<1>4. CASE Break(e)
  <2>1. TypeOK' BY <1>4, BreakType
  <2>2. UNCHANGED <<findings, opened, resolved>> BY <1>4 DEF Break
  <2>3. pc'[e] = "failed" /\ \A u \in Evaluators \ {e} : pc'[u] = pc[u]
    BY <1>4, GotoType DEF Break, PCs
  <2>4. OneInv' BY <2>2, KeptInv
  <2>5. TellInv' BY <2>2, <2>3, StillTold
  <2> QED BY <2>1, <2>4, <2>5
<1>5. CASE Open(e, s) /\ ~Break(e)
  <2>1. Insert(e, s) BY <1>5 DEF Open
  <2>2. TypeOK' BY <1>1, <2>1, InsertType
  <2>3. OneInv' BY <1>1, <1>5, OpenInv
  <2>4. PICK q \in Opened : /\ Series(q) /\ opened' = [opened EXCEPT ![e] = @ \cup {q}]
                            /\ pc'[e] \in {"tell", "judge"}
                            /\ pc'[e] = "judge" => Pending(q) = {}
    BY <1>1, <2>1, InsertMoves
  <2>5. opened'[e] = opened[e] \cup {q} /\ \A u \in Evaluators \ {e} : opened'[u] = opened[u]
    BY <2>4 DEF TypeOK
  <2>6. \A u \in Evaluators \ {e} : pc'[u] = pc[u]
    <3>1. Goto(e, "tell") \/ Goto(e, "judge") BY <2>1 DEF Insert
    <3> QED BY <3>1, GotoType DEF PCs
  <2>7. \A o \in opened[e] : Series(o) /\ Pending(o) = {} BY <1>1 DEF TellInv
  <2>8. \A o \in opened'[e] : Series(o) BY <2>4, <2>5, <2>7
  <2>9. pc'[e] \notin {"tell", "failed"} => \A o \in opened'[e] : Pending(o) = {}
    BY <2>4, <2>5, <2>7
  <2>10. TellInv' BY <2>5, <2>6, <2>8, <2>9, ToldOthers
  <2> QED BY <2>2, <2>3, <2>10
<1> QED BY <1>1, <1>2, <1>3, <1>4, <1>5

LEMMA AttemptInv ==
  ASSUME IInv, NEW e \in Evaluators, Attempt(e) PROVE IInv'
<1> USE DEF IInv
<1>1. TypeOK' BY AttemptType
<1>2. PICK o \in opened[e], q \in Opened :
        /\ q.finding = o.finding /\ Series(q)
        /\ opened' = [opened EXCEPT ![e] = (@ \ {o}) \cup {q}]
  BY AttemptMoves
<1>3. UNCHANGED <<findings, resolved, pc>> BY DEF Attempt
<1>4. /\ opened'[e] = (opened[e] \ {o}) \cup {q}
      /\ \A u \in Evaluators \ {e} : opened'[u] = opened[u]
  BY <1>2 DEF TypeOK
<1>5. \A u \in Evaluators : Mine(u)' \subseteq Mine(u) BY <1>2, <1>4 DEF Mine
<1>6. OneInv' BY <1>3, <1>5, FewerInv
<1>7. \A x \in opened'[e] : Series(x) BY <1>2, <1>4 DEF TellInv
<1>8. pc'[e] = "tell" BY <1>3 DEF Attempt
<1>9. TellInv' BY <1>3, <1>4, <1>7, <1>8, ToldOthers
<1> QED BY <1>1, <1>6, <1>9

LEMMA ResetTell ==
  ASSUME TypeOK, TellInv, NEW e \in Evaluators, opened'[e] = {}, NEW l \in PCs, Goto(e, l),
         \A u \in Evaluators \ {e} : opened'[u] = opened[u]
  PROVE  TellInv'
<1>1. \A u \in Evaluators \ {e} : pc'[u] = pc[u] BY GotoType
<1> QED BY <1>1, ToldOthers

LEMMA BeginInv ==
  ASSUME IInv, NEW e \in Evaluators, NEW k \in KindsOf[e], NEW since \in Times,
         NEW until \in Times, Begin(e, k, since, until)
  PROVE  IInv'
<1> USE DEF IInv
<1>1. TypeOK' BY BeginType
<1>2. /\ findings' = findings /\ opened'[e] = {} /\ resolved'[e] = {}
      /\ \A u \in Evaluators \ {e} : opened'[u] = opened[u] /\ resolved'[u] = resolved[u]
  BY DEF Begin, TypeOK
<1>3. OneInv' BY <1>2, ResetInv
<1>4. Goto(e, "list") /\ "list" \in PCs BY DEF Begin, PCs
<1>5. TellInv' BY <1>2, <1>4, ResetTell
<1> QED BY <1>1, <1>3, <1>5

LEMMA EndInv ==
  ASSUME IInv, NEW e \in Evaluators, Commit(e) \/ Rollback(e)
  PROVE  IInv'
<1> USE DEF IInv
<1>1. TypeOK' BY EndType
<1>2. /\ findings' = findings \/ findings' = Visible(e)
      /\ Forget(e)
  BY DEF Commit, Rollback
<1>3. /\ opened'[e] = {} /\ resolved'[e] = {}
      /\ \A u \in Evaluators \ {e} : opened'[u] = opened[u] /\ resolved'[u] = resolved[u]
  BY <1>2 DEF Forget, TypeOK
<1>4. OneInv' BY <1>2, <1>3, ResetInv
<1>5. Goto(e, "idle") /\ "idle" \in PCs BY <1>2 DEF Forget, PCs
<1>6. TellInv' BY <1>3, <1>5, ResetTell
<1> QED BY <1>1, <1>4, <1>6

\* The reads, and what follows a rule.
LEMMA OtherInv ==
  ASSUME IInv, NEW e \in Evaluators,
         \/ ListDatabases(e) \/ ListPrincipals(e) \/ ListExposure(e) \/ ListIngress(e)
         \/ Index(e) \/ LookUpGroup(e) \/ CloseUnlisted(e) \/ Proceed(e) \/ EndTelling(e)
         \/ AppendFails(e)
  PROVE  IInv'
<1> USE DEF IInv
<1>1. CASE ListDatabases(e) \/ ListPrincipals(e) \/ ListExposure(e) \/ ListIngress(e)
  <2>1. TypeOK' BY <1>1, ListsType
  <2>2. UNCHANGED <<findings, opened, resolved>> /\ Goto(e, "index") /\ pc[e] = "list"
    BY <1>1 DEF ListDatabases, ListPrincipals, ListExposure, ListIngress, List
  <2>3. OneInv' BY <2>2, KeptInv
  <2>4. \A u \in Evaluators \ {e} : pc'[u] = pc[u] BY <2>2, GotoType DEF PCs
  <2>5. TellInv' BY <2>2, <2>4, StillTold
  <2> QED BY <2>1, <2>3, <2>5
<1>2. CASE Index(e) \/ LookUpGroup(e)
  <2>1. TypeOK' BY <1>2, IndexType, LookUpGroupType
  <2>2. /\ UNCHANGED <<findings, opened, resolved>> /\ pc[e] \in {"index", "lookup"}
        /\ Goto(e, "judge") \/ Goto(e, "lookup")
    BY <1>2 DEF Index, LookUpGroup
  <2>3. OneInv' BY <2>2, KeptInv
  <2>4. \A u \in Evaluators \ {e} : pc'[u] = pc[u] BY <2>2, GotoType DEF PCs
  <2>5. TellInv' BY <2>2, <2>4, StillTold
  <2> QED BY <2>1, <2>3, <2>5
<1>3. CASE CloseUnlisted(e)
  <2>1. TypeOK' BY <1>3, CloseUnlistedType
  <2>2. UNCHANGED <<findings, opened, pc>> /\ pc[e] = "judge" BY <1>3 DEF CloseUnlisted
  <2>3. PICK f : Resolve(e, f) BY <1>3 DEF CloseUnlisted
  <2>4. \A u \in Evaluators : resolved[u] \subseteq resolved'[u] BY <2>3, ResolveMoves
  <2>5. OneInv' BY <2>2, <2>4, KeptInv
  <2>6. TellInv' BY <2>2, StillTold
  <2> QED BY <2>1, <2>5, <2>6
<1>4. CASE Proceed(e)
  <2>1. TypeOK' BY <1>4, ProceedType
  <2>2. /\ UNCHANGED <<findings, opened, resolved>> /\ pc[e] = "judge"
        /\ Goto(e, "commit") \/ Goto(e, "list")
    BY <1>4 DEF Proceed
  <2>3. OneInv' BY <2>2, KeptInv
  <2>4. \A u \in Evaluators \ {e} : pc'[u] = pc[u] BY <2>2, GotoType DEF PCs
  <2>5. TellInv' BY <2>2, <2>4, StillTold
  <2> QED BY <2>1, <2>3, <2>5
<1>5. CASE EndTelling(e)
  <2>1. TypeOK' BY <1>5, EndTellingType
  <2>2. /\ UNCHANGED <<findings, opened, resolved>> /\ Goto(e, "judge")
        /\ \A o \in opened[e] : Pending(o) = {}
    BY <1>5 DEF EndTelling
  <2>3. OneInv' BY <2>2, KeptInv
  <2>4. \A u \in Evaluators \ {e} : pc'[u] = pc[u] BY <2>2, GotoType DEF PCs
  <2>5. TellInv' BY <2>2, <2>4, StillTold
  <2> QED BY <2>1, <2>3, <2>5
<1>6. CASE AppendFails(e)
  <2>1. Break(e) BY <1>6 DEF AppendFails
  <2>2. TypeOK' BY <2>1, BreakType
  <2>3. UNCHANGED <<findings, opened, resolved>> /\ Goto(e, "failed") BY <2>1 DEF Break
  <2>4. OneInv' BY <2>3, KeptInv
  <2>5. pc'[e] = "failed" /\ \A u \in Evaluators \ {e} : pc'[u] = pc[u]
    BY <2>3, GotoType DEF PCs
  <2>6. TellInv' BY <2>3, <2>5, StillTold
  <2> QED BY <2>2, <2>4, <2>6
<1> QED BY <1>1, <1>2, <1>3, <1>4, <1>5, <1>6

LEMMA AllKept ==
  ASSUME IInv, TypeOK', UNCHANGED <<findings, opened, resolved, pc>> PROVE IInv'
<1>1. OneInv' BY KeptInv DEF IInv
<1>2. TellInv' BY DEF IInv, TellInv, Series, Pending
<1> QED BY <1>1, <1>2 DEF IInv

LEMMA IInvStep == IInv /\ [Next]_vars => IInv'
<1> SUFFICES ASSUME IInv, [Next]_vars PROVE IInv' OBVIOUS
<1>1. CASE UNCHANGED vars
  <2>1. TypeOK' BY <1>1 DEF IInv, TypeOK, vars, inventory, request, reads
  <2> QED BY <1>1, <2>1, AllKept DEF vars
<1>2. CASE Discover
  <2>1. TypeOK' BY <1>2, DiscoverType DEF IInv
  <2> QED BY <1>2, <2>1, AllKept DEF Discover, Changed
<1>3. ASSUME NEW s \in Subs, Subscribe(s) PROVE IInv'
  <2>1. TypeOK' BY <1>3 DEF Subscribe, IInv, TypeOK, inventory, request, reads
  <2> QED BY <1>3, <2>1, AllKept DEF Subscribe
<1>4. ASSUME NEW e \in Evaluators, Step(e) PROVE IInv'
  <2>1. CASE \/ InternetReachableDatabase(e) \/ OverPermissiveIamRole(e)
             \/ PublicIpOnDatabase(e) \/ SecurityGroupOpenedToWorld(e)
    BY <2>1, TurnMoves, JudgesInv
  <2> QED BY <1>4, <2>1, OtherInv, AttemptInv, EndInv DEF Step
<1>5. ASSUME NEW e \in Evaluators, AppendFails(e) \/ Rollback(e) PROVE IInv'
  BY <1>5, OtherInv, EndInv
<1> QED BY <1>1, <1>2, <1>3, <1>4, <1>5, BeginInv DEF Next

LEMMA InitIInv == Init => IInv
<1> SUFFICES ASSUME Init PROVE IInv OBVIOUS
<1>1. 0 \in 0..MaxChanges /\ 0 \in Times
  <2>1. MaxChanges \in Nat BY BoundsAssumption
  <2> QED BY <2>1, BoundsAssumption
<1>2. /\ cur \subseteq Subjects /\ exposed \subseteq Databases /\ grants \subseteq Grants
      /\ events \subseteq Subjects \X Times
  BY <1>1 DEF Init, Subjects
<1>3. /\ pc \in [Evaluators -> PCs] /\ kind \in [Evaluators -> Kinds]
      /\ window \in [Evaluators -> Window] /\ rule \in [Evaluators -> Rules \cup {None}]
  BY DEF Init, PCs, Kinds, Window
<1>4. TypeOK BY <1>1, <1>2, <1>3 DEF Init, TypeOK
<1>5. \A e \in Evaluators : opened[e] = {} /\ Mine(e) = {} BY DEF Init, Mine
<1>6. TellInv BY <1>5 DEF TellInv
<1>7. \A e \in Evaluators : Visible(e) = {} BY <1>5 DEF Visible, Init
<1>8. OneInv BY <1>5, <1>7 DEF OneInv, Single, Init
<1> QED BY <1>4, <1>6, <1>8 DEF IInv

LEMMA IInvCorrect == Spec => []IInv
BY InitIInv, IInvStep, PTL DEF Spec

-----------------------------------------------------------------------------
(* A quiet evaluation.                                                     *)

Running == {"list", "index", "lookup", "judge", "tell", "commit"}
Judging(e) == pc[e] \in {"judge", "tell"}

\* The rules that the evaluation is done with.
Past(e) == RulesOf(kind[e]) \ {rule[e], After(rule[e])}

\* The subjects that a rule looks at.
Scope(r, w) ==
  IF r = IAM THEN cur \cap Principals
  ELSE IF r = World THEN cur \cap Groups \cap Triggered(w) ELSE cur \cap Databases

\* What it sees of a rule about a subject.
At(e, r, s) == {f \in Visible(e) : f.rule = r /\ f.subject = s}

Right(e, r, s) == At(e, r, s) # {} <=> s \in Risky(r, window[e])

RuleInv(e) == IF pc[e] = "commit" THEN rule[e] = None ELSE rule[e] \in RulesOf(kind[e])
PastInv(e) == \A r \in Past(e), s \in Subjects : Right(e, r, s)
MineInv(e) ==
  \A f \in Mine(e) :
    \/ f.rule \in Past(e)
    \/ (Judging(e) /\ f.rule = rule[e] /\ f.subject \in listed[e] \ todo[e])
ListedInv(e) ==
  /\ pc[e] = "index" => listed[e] = IF rule[e] = World THEN {} ELSE Scope(rule[e], window[e])
  /\ Judging(e) => listed[e] = Scope(rule[e], window[e])
  /\ rule[e] = PublicIP /\ (pc[e] = "index" \/ Judging(e)) => triggered[e] = Triggered(window[e])
  /\ rule[e] = World /\ pc[e] = "index" => triggered[e] = Triggered(window[e]) \cap Groups
LookUpInv(e) == pc[e] = "lookup" =>
  /\ rule[e] = World /\ todo[e] = listed[e]
  /\ Scope(World, window[e]) = listed[e] \cup (triggered[e] \cap cur)
  /\ index[e] \subseteq findings /\ \A f \in index[e] : f.rule = rule[e]
  /\ \A s : At(e, rule[e], s) = Held(e, s)
TodoInv(e) == Judging(e) =>
  /\ todo[e] \subseteq listed[e] /\ index[e] \subseteq findings
  /\ \A f \in index[e] : f.rule = rule[e]
  /\ \A s \in todo[e] : At(e, rule[e], s) = Held(e, s)
  /\ \A s \in listed[e] \ todo[e] : Right(e, rule[e], s)
  /\ \A s \in Subjects \ listed[e] : At(e, rule[e], s) \subseteq index[e]

\* While nothing else commits, the rules that are done are right, and so is the rule at
\* hand about every subject that has had its turn.
QuietAt(e) ==
  RuleInv(e) /\ PastInv(e) /\ MineInv(e) /\ ListedInv(e) /\ LookUpInv(e) /\ TodoInv(e)
Unhurried(e) == pc[e] \in Running /\ ~disturbed[e]
QInv == exposed \subseteq cur /\ \A e \in Evaluators : Unhurried(e) => QuietAt(e)

LEMMA RuleNames ==
  /\ Internet # IAM /\ Internet # PublicIP /\ Internet # World /\ IAM # PublicIP
  /\ IAM # World /\ PublicIP # World
  /\ None # Internet /\ None # IAM /\ None # PublicIP /\ None # World
BY NoneAssumption DEF Internet, IAM, PublicIP, World, Rules

LEMMA PastMoves ==
  ASSUME NEW k \in Kinds, NEW r \in RulesOf(k)
  PROVE  /\ r \in Rules /\ After(r) \in RulesOf(k) \cup {None}
         /\ RulesOf(k) \ {After(r), After(After(r))} = (RulesOf(k) \ {r, After(r)}) \cup {r}
BY RuleNames DEF Kinds, RulesOf, After, Rules

LEMMA FirstPast ==
  ASSUME NEW k \in Kinds
  PROVE  First(k) \in RulesOf(k) /\ RulesOf(k) \ {First(k), After(First(k))} = {}
BY RuleNames DEF Kinds, RulesOf, After, First

LEMMA LastPast ==
  ASSUME NEW k \in Kinds
  PROVE  RulesOf(k) \ {None, After(None)} = RulesOf(k) /\ RulesOf(k) \subseteq Rules
BY RuleNames DEF Kinds, RulesOf, After, Rules

LEMMA OverPermissiveStays ==
  ASSUME grants' = grants, NEW p PROVE OverPermissive(p)' <=> OverPermissive(p)
<1> DEFINE of == {x \in grants : x.from = p}
           to == {g.to : g \in of}
<1>1. of' = of OBVIOUS
<1> HIDE DEF of
<1>2. to' = to BY <1>1
<1> HIDE DEF to
<1>3. Cardinality(to)' = Cardinality(to) BY <1>2
<1> QED BY <1>3 DEF OverPermissive, to, of

LEMMA RiskyStays ==
  ASSUME UNCHANGED inventory, NEW r, NEW w
  PROVE  Risky(r, w)' = Risky(r, w) /\ Scope(r, w)' = Scope(r, w)
         /\ Triggered(w)' = Triggered(w)
<1>1. UNCHANGED <<cur, exposed, grants, events>> BY DEF inventory
<1>2. Triggered(w)' = Triggered(w) BY <1>1 DEF Triggered
<1>3. \A p : OverPermissive(p)' <=> OverPermissive(p) BY <1>1, OverPermissiveStays
<1>4. {p \in cur \cap Principals : OverPermissive(p)}'
        = {p \in cur \cap Principals : OverPermissive(p)}
  BY <1>1, <1>3
<1>5. Risky(r, w)' = Risky(r, w) BY <1>1, <1>2, <1>4 DEF Risky
<1> QED BY <1>1, <1>2, <1>5 DEF Scope

LEMMA ReadsStay ==
  ASSUME UNCHANGED inventory, NEW e, window'[e] = window[e]
  PROVE  \A r : Risky(r, window[e])' = Risky(r, window[e])
                /\ Scope(r, window[e])' = Scope(r, window[e])
                /\ Triggered(window[e])' = Triggered(window[e])
<1>1. PICK w : w = window[e] OBVIOUS
<1> QED BY <1>1, RiskyStays

\* A step that leaves alone all that an evaluation has to do with.
LEMMA QuietStays ==
  ASSUME UNCHANGED <<inventory, findings>>, NEW e \in Evaluators,
         pc'[e] = pc[e], kind'[e] = kind[e], window'[e] = window[e], rule'[e] = rule[e],
         listed'[e] = listed[e], triggered'[e] = triggered[e], index'[e] = index[e],
         todo'[e] = todo[e], Mine(e)' = Mine(e), resolved'[e] = resolved[e], QuietAt(e)
  PROVE  QuietAt(e)'
<1>2. \A r : Risky(r, window[e])' = Risky(r, window[e]) /\ Scope(r, window[e])' = Scope(r, window[e])
             /\ Triggered(window[e])' = Triggered(window[e])
  BY ReadsStay
<1>3. Visible(e)' = Visible(e) BY DEF Visible
<1>4. \A r, s : At(e, r, s)' = At(e, r, s) BY <1>3 DEF At
<1>5. \A r, s : Right(e, r, s)' <=> Right(e, r, s) BY <1>2, <1>4 DEF Right
<1>6. \A s : Held(e, s)' = Held(e, s) BY DEF Held
<1>7. Past(e)' = Past(e) BY DEF Past
<1>8. Judging(e)' <=> Judging(e) BY DEF Judging
<1>9. RuleInv(e)' BY DEF QuietAt, RuleInv
<1>10. PastInv(e)' BY <1>5, <1>7 DEF QuietAt, PastInv
<1>11. MineInv(e)' BY <1>7, <1>8 DEF QuietAt, MineInv
<1>12. ListedInv(e)' BY <1>2, <1>8 DEF QuietAt, ListedInv
<1>14. \A s : At(e, rule[e], s)' = At(e, rule[e], s) BY <1>4, <1>3 DEF At
<1>13. TodoInv(e)'
  <2>1. \A s : Right(e, rule[e], s)' <=> Right(e, rule[e], s) BY <1>2, <1>4 DEF Right
  <2> QED BY <1>6, <1>8, <1>14, <2>1 DEF QuietAt, TodoInv
<1>15. LookUpInv(e)'
  <2>1. cur' = cur /\ findings' = findings BY DEF inventory
  <2> QED BY <1>2, <1>6, <1>14, <2>1 DEF QuietAt, LookUpInv
<1> QED BY <1>9, <1>10, <1>11, <1>12, <1>13, <1>15 DEF QuietAt

LEMMA RiskyScope ==
  ASSUME TypeOK, exposed \subseteq cur, NEW r \in Rules, NEW w
  PROVE  Risky(r, w) \subseteq Scope(r, w) /\ Scope(r, w) \subseteq Subjects
BY RuleNames DEF Risky, Scope, Subjects, Rules, TypeOK

\* The four readings of what a rule looks at.
LEMMA ListQuiet ==
  ASSUME TypeOK, NEW e \in Evaluators, QuietAt(e), NEW r \in Rules, NEW X, NEW H, List(e, r, X, H),
         X = IF r = World THEN {} ELSE Scope(r, window[e]),
         r = PublicIP => H = Triggered(window[e]),
         r = World => H = Triggered(window[e]) \cap Groups
  PROVE  QuietAt(e)'
<1>1. /\ UNCHANGED <<inventory, findings, request, rule, index, todo, opened, resolved>>
      /\ pc[e] = "list" /\ rule[e] = r
  BY DEF List
<1>2. pc'[e] = "index" BY GotoType DEF List, PCs
<1>3. listed'[e] = X /\ triggered'[e] = H BY DEF List, TypeOK
<1>4. kind' = kind /\ window' = window BY <1>1 DEF request
<1>5. \A v : Scope(v, window[e])' = Scope(v, window[e]) /\ Triggered(window[e])' = Triggered(window[e])
             /\ Risky(v, window[e])' = Risky(v, window[e])
  BY <1>1, <1>4, ReadsStay
<1>6. Mine(e)' = Mine(e) /\ Visible(e)' = Visible(e) BY <1>1 DEF Mine, Visible
<1>7. \A v, s : Right(e, v, s)' <=> Right(e, v, s) BY <1>5, <1>6 DEF Right, At
<1>8. Past(e)' = Past(e) BY <1>1, <1>4 DEF Past
<1>9. ~Judging(e) /\ ~Judging(e)' BY <1>1, <1>2 DEF Judging
<1>10. RuleInv(e)' BY <1>1, <1>2, <1>4 DEF RuleInv, QuietAt
<1>11. PastInv(e)' BY <1>7, <1>8 DEF PastInv, QuietAt
<1>12. MineInv(e)' BY <1>6, <1>8, <1>9 DEF MineInv, QuietAt
<1>13. ListedInv(e)' BY <1>1, <1>2, <1>3, <1>5, <1>9 DEF ListedInv
<1>14. LookUpInv(e)' /\ TodoInv(e)' BY <1>2, <1>9 DEF LookUpInv, TodoInv
<1> QED BY <1>10, <1>11, <1>12, <1>13, <1>14 DEF QuietAt

LEMMA ListsQuiet ==
  ASSUME TypeOK, NEW e \in Evaluators, QuietAt(e),
         ListDatabases(e) \/ ListPrincipals(e) \/ ListExposure(e) \/ ListIngress(e)
  PROVE  QuietAt(e)'
<1>1. Internet \in Rules /\ IAM \in Rules /\ PublicIP \in Rules /\ World \in Rules BY DEF Rules
<1>2. PICK w : w = window[e] OBVIOUS
<1>3. /\ Scope(Internet, w) = cur \cap Databases /\ Scope(PublicIP, w) = cur \cap Databases
      /\ Scope(IAM, w) = cur \cap Principals
  BY RuleNames DEF Scope
<1>4. CASE ListDatabases(e) BY <1>1, <1>2, <1>3, <1>4, RuleNames, ListQuiet DEF ListDatabases
<1>5. CASE ListPrincipals(e) BY <1>1, <1>2, <1>3, <1>5, RuleNames, ListQuiet DEF ListPrincipals
<1>6. CASE ListExposure(e) BY <1>1, <1>2, <1>3, <1>6, RuleNames, ListQuiet DEF ListExposure
<1>7. CASE ListIngress(e) BY <1>1, <1>7, RuleNames, ListQuiet DEF ListIngress
<1> QED BY <1>4, <1>5, <1>6, <1>7

LEMMA PastNotNow == ASSUME NEW e, rule[e] \in Past(e) PROVE FALSE
BY DEF Past

\* The findings are read, after the subjects or, of security groups, before them.
LEMMA IndexQuiet ==
  ASSUME TypeOK, NEW e \in Evaluators, QuietAt(e), Index(e) PROVE QuietAt(e)'
<1> DEFINE I == {f \in Visible(e) : f.rule = rule[e]}
           looks == rule[e] = World /\ triggered[e] # {}
<1>1. /\ UNCHANGED <<inventory, findings, request, rule, listed, triggered, opened, resolved>>
      /\ pc[e] = "index"
  BY DEF Index
<1>2. pc'[e] = IF looks THEN "lookup" ELSE "judge" BY DEF Index, Goto, TypeOK
<1>3. todo'[e] = listed[e] /\ index'[e] = I BY DEF Index, TypeOK
<1>4. kind' = kind /\ window' = window BY <1>1 DEF request
<1>5. \A v : Scope(v, window[e])' = Scope(v, window[e]) /\ Triggered(window[e])' = Triggered(window[e])
             /\ Risky(v, window[e])' = Risky(v, window[e])
  BY <1>1, <1>4, ReadsStay
<1>6. Mine(e)' = Mine(e) /\ Visible(e)' = Visible(e) BY <1>1 DEF Mine, Visible
<1>7. \A v, s : Right(e, v, s)' <=> Right(e, v, s) BY <1>5, <1>6 DEF Right, At
<1>8. Past(e)' = Past(e) BY <1>1, <1>4 DEF Past
<1>9. ~Judging(e) /\ (Judging(e)' <=> ~looks) BY <1>1, <1>2 DEF Judging
<1>10. RuleInv(e)' BY <1>1, <1>2, <1>4 DEF RuleInv, QuietAt
<1>11. PastInv(e)' BY <1>7, <1>8 DEF PastInv, QuietAt
<1>12. MineInv(e)' BY <1>6, <1>8, <1>9 DEF MineInv, QuietAt
<1>13. Scope(rule[e], window[e]) =
         IF rule[e] = World THEN triggered[e] \cap cur ELSE listed[e]
  <2>1. rule[e] = World => triggered[e] = Triggered(window[e]) \cap Groups
    BY <1>1 DEF ListedInv, QuietAt
  <2>2. CASE rule[e] = World BY <2>1, <2>2, RuleNames DEF Scope
  <2>3. CASE rule[e] # World BY <1>1, <2>3 DEF ListedInv, QuietAt
  <2> QED BY <2>2, <2>3
<1>14. rule[e] = World => listed[e] = {} BY <1>1 DEF ListedInv, QuietAt
<1>15. ListedInv(e)'
  <2>1. ~looks => listed[e] = Scope(rule[e], window[e]) BY <1>13, <1>14
  <2>2. rule' = rule /\ triggered' = triggered /\ listed' = listed BY <1>1
  <2>3. pc'[e] # "index" BY <1>2
  <2>4. rule[e] = PublicIP => triggered[e] = Triggered(window[e]) BY <1>1 DEF ListedInv, QuietAt
  <2>5. listed'[e] = Scope(rule[e], window[e])' \/ ~Judging(e)' BY <1>5, <1>9, <2>1, <2>2
  <2> QED BY <1>5, <2>2, <2>3, <2>4, <2>5 DEF ListedInv
<1>16. I \subseteq findings
  <2>1. \A f \in Mine(e) : f.rule # rule[e] BY <1>9, PastNotNow DEF MineInv, QuietAt
  <2> QED BY <2>1 DEF Visible
<1>17. \A s : At(e, rule[e], s)' = {f \in I : f.subject = s} BY <1>1, <1>6 DEF At
<1>18. \A s : Held(e, s)' = {f \in I : f.subject = s} BY <1>3 DEF Held
<1>19. TodoInv(e)' BY <1>1, <1>3, <1>16, <1>17, <1>18 DEF TodoInv
<1>20. LookUpInv(e)'
  <2> SUFFICES ASSUME pc'[e] = "lookup" PROVE LookUpInv(e)' BY DEF LookUpInv
  <2>1. looks BY <1>2
  <2>2. rule'[e] = World /\ todo'[e] = listed'[e] BY <1>1, <1>3, <2>1
  <2>3. cur' = cur /\ triggered' = triggered /\ listed' = listed BY <1>1 DEF inventory
  <2>4. Scope(World, window[e])' = listed'[e] \cup (triggered'[e] \cap cur')
    BY <1>5, <1>13, <1>14, <2>1, <2>3
  <2>5. index'[e] \subseteq findings' /\ \A f \in index'[e] : f.rule = rule'[e]
    BY <1>1, <1>3, <1>16
  <2>6. \A s : At(e, rule[e], s)' = Held(e, s)' BY <1>17, <1>18
  <2> QED BY <2>2, <2>4, <2>5, <2>6 DEF LookUpInv
<1> QED BY <1>10, <1>11, <1>12, <1>15, <1>19, <1>20 DEF QuietAt

\* The security groups are looked up one by one, and flagged as long as they are current.
LEMMA LookUpGroupQuiet ==
  ASSUME TypeOK, NEW e \in Evaluators, QuietAt(e), LookUpGroup(e) PROVE QuietAt(e)'
<1>1. /\ UNCHANGED <<inventory, findings, request, rule, index, opened, resolved>>
      /\ pc[e] = "lookup"
  BY DEF LookUpGroup
<1>2. PICK s \in triggered[e] :
        /\ listed'[e] = listed[e] \cup ({s} \cap cur)
        /\ todo'[e] = todo[e] \cup ({s} \cap cur)
        /\ triggered'[e] = triggered[e] \ {s}
        /\ pc'[e] = IF triggered[e] = {s} THEN "judge" ELSE "lookup"
  BY LookUpGroupMoves
<1>3. kind' = kind /\ window' = window BY <1>1 DEF request
<1>4. \A v : Scope(v, window[e])' = Scope(v, window[e]) /\ Triggered(window[e])' = Triggered(window[e])
             /\ Risky(v, window[e])' = Risky(v, window[e])
  BY <1>1, <1>3, ReadsStay
<1>5. Mine(e)' = Mine(e) /\ Visible(e)' = Visible(e) BY <1>1 DEF Mine, Visible
<1>6. \A v, x : Right(e, v, x)' <=> Right(e, v, x) BY <1>4, <1>5 DEF Right, At
<1>7. Past(e)' = Past(e) BY <1>1, <1>3 DEF Past
<1>8. ~Judging(e) /\ pc'[e] # "commit" /\ pc'[e] # "index" BY <1>1, <1>2 DEF Judging
<1>9. RuleInv(e)' BY <1>1, <1>3, <1>8 DEF RuleInv, QuietAt
<1>10. PastInv(e)' BY <1>6, <1>7 DEF PastInv, QuietAt
<1>11. MineInv(e)' BY <1>5, <1>7, <1>8 DEF MineInv, QuietAt
<1>12. /\ rule[e] = World /\ todo[e] = listed[e]
       /\ Scope(World, window[e]) = listed[e] \cup (triggered[e] \cap cur)
       /\ index[e] \subseteq findings /\ \A f \in index[e] : f.rule = rule[e]
       /\ \A x : At(e, rule[e], x) = Held(e, x)
  BY <1>1 DEF LookUpInv, QuietAt
<1>13. cur' = cur /\ index' = index /\ rule' = rule /\ findings' = findings
  BY <1>1 DEF inventory
<1>14. Scope(World, window[e])' = listed'[e] \cup (triggered'[e] \cap cur')
  BY <1>2, <1>4, <1>12, <1>13
<1>15. \A x : At(e, rule[e], x)' = Held(e, x)'
  BY <1>5, <1>12, <1>13 DEF At, Held
<1>16. todo'[e] = listed'[e] BY <1>2, <1>12
<1>17. Judging(e)' => listed'[e] = Scope(rule[e], window[e])'
  <2>1. Judging(e)' => triggered'[e] = {} BY <1>2 DEF Judging
  <2> QED BY <1>12, <1>13, <1>14, <2>1
<1>18. ListedInv(e)' BY <1>8, <1>12, <1>13, <1>17, RuleNames DEF ListedInv
<1>19. LookUpInv(e)' BY <1>12, <1>13, <1>14, <1>15, <1>16 DEF LookUpInv
<1>20. TodoInv(e)'
  <2>1. index'[e] \subseteq findings' /\ \A f \in index'[e] : f.rule = rule'[e]
    BY <1>12, <1>13
  <2>2. \A x : At(e, rule[e], x)' \subseteq index'[e] BY <1>15 DEF Held
  <2> QED BY <1>15, <1>16, <2>1, <2>2 DEF TodoInv
<1> QED BY <1>9, <1>10, <1>11, <1>18, <1>19, <1>20 DEF QuietAt

\* What a turn does, by what it finds: the rule's verdict is that of Risky.
Turned(e, s) ==
  /\ pc[e] = "judge" /\ rule[e] \in Rules /\ s \in todo[e]
  /\ IF Held(e, s) = {} <=> s \in Risky(rule[e], window[e])
     THEN IF Held(e, s) = {} THEN Open(e, s) ELSE Close(e, s)
     ELSE Skip(e, s)

LEMMA TurnQuiet ==
  ASSUME TypeOK, exposed \subseteq cur, NEW e \in Evaluators, QuietAt(e),
         InternetReachableDatabase(e) \/ OverPermissiveIamRole(e)
           \/ PublicIpOnDatabase(e) \/ SecurityGroupOpenedToWorld(e)
  PROVE  \E s \in Subjects : Turned(e, s)
<1>0. /\ pc[e] = "judge" => listed[e] = Scope(rule[e], window[e]) /\ todo[e] \subseteq listed[e]
      /\ pc[e] = "judge" /\ rule[e] = PublicIP => triggered[e] = Triggered(window[e])
  BY DEF QuietAt, ListedInv, TodoInv, Judging
<1>1. ASSUME NEW r \in Rules, NEW s \in Subjects, Turn(e, r, s), Judge(e, s, s \in Risky(r, window[e]))
      PROVE  Turned(e, s)
  BY <1>1 DEF Turn, Judge, Turned
<1>2. CASE InternetReachableDatabase(e)
  <2>1. PICK s \in Databases : Turn(e, Internet, s) /\ Judge(e, s, s \in exposed)
    BY <1>2 DEF InternetReachableDatabase
  <2>2. Risky(Internet, window[e]) = exposed BY RuleNames DEF Risky
  <2> QED BY <1>1, <2>1, <2>2 DEF Rules, Subjects
<1>3. CASE OverPermissiveIamRole(e)
  <2>1. PICK s \in Principals : Turn(e, IAM, s) /\ Judge(e, s, OverPermissive(s))
    BY <1>3 DEF OverPermissiveIamRole
  <2>2. Risky(IAM, window[e]) = {p \in cur \cap Principals : OverPermissive(p)}
    BY RuleNames DEF Risky
  <2>3. s \in cur BY <1>0, <2>1 DEF Turn, Scope
  <2>4. OverPermissive(s) <=> s \in Risky(IAM, window[e]) BY <2>1, <2>2, <2>3
  <2>5. Judge(e, s, s \in Risky(IAM, window[e])) BY <2>1, <2>4 DEF Judge
  <2> QED BY <1>1, <2>1, <2>5 DEF Rules, Subjects
<1>4. CASE PublicIpOnDatabase(e)
  <2>1. PICK s \in Databases :
          Turn(e, PublicIP, s) /\ Judge(e, s, s \in triggered[e] /\ s \in exposed)
    BY <1>4 DEF PublicIpOnDatabase
  <2>2. Risky(PublicIP, window[e]) = exposed \cap Triggered(window[e]) BY RuleNames DEF Risky
  <2>3. (s \in triggered[e] /\ s \in exposed) <=> s \in Risky(PublicIP, window[e])
    BY <1>0, <2>1, <2>2 DEF Turn
  <2>4. Judge(e, s, s \in Risky(PublicIP, window[e])) BY <2>1, <2>3 DEF Judge
  <2> QED BY <1>1, <2>1, <2>4 DEF Rules, Subjects
<1>5. CASE SecurityGroupOpenedToWorld(e)
  <2>1. PICK s \in Groups : Turn(e, World, s)
                            /\ IF Held(e, s) = {} /\ s \in cur THEN Open(e, s) ELSE Skip(e, s)
    BY <1>5 DEF SecurityGroupOpenedToWorld
  <2>2. Risky(World, window[e]) = cur \cap Groups \cap Triggered(window[e]) BY RuleNames DEF Risky
  <2>3. Scope(World, window[e]) = cur \cap Groups \cap Triggered(window[e]) BY RuleNames DEF Scope
  <2>4. s \in cur /\ s \in Risky(World, window[e]) BY <1>0, <2>1, <2>2, <2>3 DEF Turn
  <2> QED BY <2>1, <2>4 DEF Turn, Turned, Rules, Subjects
<1> QED BY <1>2, <1>3, <1>4, <1>5

\* A subject has had its turn: what is seen of it is right now, and of no other subject and of no
\* other rule is anything else seen than before.
LEMMA TurnedQuiet ==
  ASSUME TypeOK, NEW e \in Evaluators, NEW s, QuietAt(e), pc[e] = "judge", s \in todo[e],
         UNCHANGED <<inventory, findings, request, rule, reads>>, Judging(e)',
         todo'[e] = todo[e] \ {s},
         \A r, x : r # rule[e] \/ x # s => At(e, r, x)' = At(e, r, x),
         Right(e, rule[e], s)',
         \A f \in Mine(e)' : f \in Mine(e) \/ (f.rule = rule[e] /\ f.subject = s)
  PROVE  QuietAt(e)'
<1>1. kind' = kind /\ window' = window /\ listed' = listed /\ triggered' = triggered /\ index' = index
      /\ rule' = rule
  BY DEF request, reads
<1>2. \A v : Scope(v, window[e])' = Scope(v, window[e]) /\ Triggered(window[e])' = Triggered(window[e])
             /\ Risky(v, window[e])' = Risky(v, window[e])
  BY <1>1, ReadsStay
<1>3. \A r, x : r # rule[e] \/ x # s => (Right(e, r, x)' <=> Right(e, r, x)) BY <1>2 DEF Right
<1>4. Past(e)' = Past(e) BY <1>1 DEF Past
<1>5. Judging(e) BY DEF Judging
<1>6. rule[e] \notin Past(e) BY PastNotNow
<1>7. RuleInv(e)' BY <1>1 DEF Judging, RuleInv, QuietAt
<1>8. PastInv(e)' BY <1>3, <1>4, <1>6 DEF PastInv, QuietAt
<1>9. s \in listed[e] BY <1>5 DEF QuietAt, TodoInv
<1>10. MineInv(e)' BY <1>1, <1>4, <1>5, <1>9 DEF MineInv, QuietAt
<1>14. pc'[e] # "index" /\ pc'[e] # "lookup" BY DEF Judging
<1>11. ListedInv(e)' BY <1>1, <1>2, <1>5, <1>14 DEF ListedInv, QuietAt
<1>12. TodoInv(e)'
  <2>1. \A x : x # s => (Right(e, rule[e], x)' <=> Right(e, rule[e], x)) BY <1>1, <1>3
  <2>2. \A x : x # s => At(e, rule[e], x)' = At(e, rule[e], x) BY <1>1
  <2>3. \A x : Held(e, x)' = Held(e, x) BY <1>1 DEF Held
  <2>4. /\ todo'[e] \subseteq listed'[e] /\ index'[e] \subseteq findings'
        /\ \A f \in index'[e] : f.rule = rule'[e]
    BY <1>1, <1>5 DEF QuietAt, TodoInv
  <2>5. ASSUME NEW x \in todo'[e] PROVE At(e, rule[e], x)' = Held(e, x)'
    BY <1>5, <2>2, <2>3, <2>5 DEF QuietAt, TodoInv
  <2>6. ASSUME NEW x \in listed'[e] \ todo'[e] PROVE Right(e, rule[e], x)'
    BY <1>1, <1>5, <2>1, <2>6 DEF QuietAt, TodoInv
  <2>7. ASSUME NEW x \in Subjects \ listed'[e] PROVE At(e, rule[e], x)' \subseteq index'[e]
    BY <1>1, <1>5, <1>9, <2>2, <2>7 DEF QuietAt, TodoInv
  <2> QED BY <2>4, <2>5, <2>6, <2>7 DEF TodoInv
<1>13. LookUpInv(e)' BY <1>14 DEF LookUpInv
<1> QED BY <1>7, <1>8, <1>10, <1>11, <1>12, <1>13 DEF QuietAt

LEMMA TurnsQuiet ==
  ASSUME TypeOK, OneInv, exposed \subseteq cur, NEW e \in Evaluators, QuietAt(e), NEW s \in Subjects,
         Turned(e, s), pc'[e] # "failed"
  PROVE  QuietAt(e)'
<1>1. pc[e] = "judge" /\ rule[e] \in Rules /\ s \in todo[e] /\ Judging(e) BY DEF Turned, Judging
<1>2. /\ At(e, rule[e], s) = Held(e, s) /\ index[e] \subseteq findings
      /\ \A f \in index[e] : f.rule = rule[e]
  BY <1>1 DEF QuietAt, TodoInv
<1>3. ~Break(e) BY GotoType DEF Break, PCs
<1>4. Skip(e, s) \/ (Open(e, s) /\ Insert(e, s)) \/ Close(e, s) BY <1>3 DEF Turned, Open
<1>5. UNCHANGED <<inventory, findings, request, rule, reads>> BY <1>4 DEF Skip, Insert, Close
<1>6. todo'[e] = todo[e] \ {s} BY <1>4 DEF Skip, Insert, Close, TypeOK
<1>7. window' = window /\ rule' = rule BY <1>5 DEF request
<1>8. \A v : Risky(v, window[e])' = Risky(v, window[e]) BY <1>5, <1>7, ReadsStay
<1>9. CASE Skip(e, s)
  <2>1. UNCHANGED <<opened, resolved, pc>> BY <1>9 DEF Skip
  <2>2. Mine(e)' = Mine(e) /\ Visible(e)' = Visible(e) BY <1>5, <2>1 DEF Mine, Visible
  <2>3. \A v, x : At(e, v, x)' = At(e, v, x) BY <2>2 DEF At
  <2>4. ~(Held(e, s) = {} <=> s \in Risky(rule[e], window[e]))
    <3>1. CASE Held(e, s) = {} /\ s \in Risky(rule[e], window[e])
      <4>1. Open(e, s) BY <3>1 DEF Turned
      <4>2. Insert(e, s) BY <1>3, <4>1 DEF Open
      <4>3. PICK q \in Opened : /\ q.finding.rule = rule[e] /\ q.finding.subject = s
                                /\ opened' = [opened EXCEPT ![e] = @ \cup {q}]
        BY <1>1, <4>2, InsertMoves
      <4>4. q.finding \in Mine(e)' BY <4>3 DEF Mine, TypeOK
      <4>5. q.finding \in At(e, rule[e], s) BY <2>2, <4>3, <4>4 DEF At, Visible
      <4> QED BY <1>2, <3>1, <4>5
    <3>2. CASE Held(e, s) # {} /\ s \notin Risky(rule[e], window[e])
      <4>1. Close(e, s) BY <3>2 DEF Turned
      <4>2. PICK f \in Held(e, s) : Resolve(e, f) BY <4>1 DEF Close
      <4>3. f \in findings /\ f \in index[e] BY <1>2 DEF Held
      <4>4. f \in resolved'[e] BY <4>2, <4>3 DEF Resolve, TypeOK
      <4>5. f \in Mine(e) BY <1>2, <2>1, <4>4 DEF At, Visible
      <4> QED BY <1>1, <1>2, <4>5, PastNotNow DEF QuietAt, MineInv, At
    <3> QED BY <3>1, <3>2
  <2>5. Right(e, rule[e], s)' BY <1>2, <1>7, <1>8, <2>3, <2>4 DEF Right
  <2>6. Judging(e)' BY <1>1, <2>1 DEF Judging
  <2> QED BY <1>1, <1>5, <1>6, <2>2, <2>3, <2>5, <2>6, TurnedQuiet
<1>10. CASE Insert(e, s) /\ Held(e, s) = {} /\ s \in Risky(rule[e], window[e])
  <2>1. PICK q \in Opened : /\ q.finding.rule = rule[e] /\ q.finding.subject = s
                            /\ opened' = [opened EXCEPT ![e] = @ \cup {q}]
                            /\ pc'[e] \in {"tell", "judge"}
    BY <1>1, <1>10, InsertMoves
  <2> DEFINE h == q.finding
  <2>2. Mine(e)' = Mine(e) \cup {h} BY <2>1 DEF Mine, TypeOK
  <2>3. h.rule = rule[e] /\ h.subject = s BY <2>1
  <2> HIDE DEF h
  <2>4. resolved' = resolved BY <1>10 DEF Insert
  <2>5. Visible(e)' = Visible(e) \cup {h} BY <1>5, <2>2, <2>4 DEF Visible
  <2>6. \A v, x : v # rule[e] \/ x # s => At(e, v, x)' = At(e, v, x) BY <2>3, <2>5 DEF At
  <2>7. h \in At(e, rule[e], s)' BY <1>7, <2>3, <2>5 DEF At
  <2>8. Right(e, rule[e], s)' BY <1>7, <1>8, <1>10, <2>7 DEF Right
  <2>9. Judging(e)' BY <2>1 DEF Judging
  <2> QED BY <1>1, <1>5, <1>6, <2>2, <2>3, <2>6, <2>8, <2>9, TurnedQuiet
<1>11. CASE Close(e, s) /\ Held(e, s) # {} /\ s \notin Risky(rule[e], window[e])
  <2>1. PICK f \in Held(e, s) : Resolve(e, f) BY <1>11 DEF Close
  <2>2. f \in findings /\ f \in At(e, rule[e], s) BY <1>2 DEF Held
  <2>3. resolved'[e] = resolved[e] \cup {f} BY <2>1, <2>2 DEF Resolve, TypeOK
  <2>4. UNCHANGED <<opened, pc>> BY <1>11 DEF Close
  <2>5. Mine(e)' = Mine(e) BY <2>4 DEF Mine
  <2>6. f \notin Mine(e) BY <1>1, <2>2, PastNotNow DEF QuietAt, MineInv, At
  <2>7. Visible(e)' = Visible(e) \ {f} BY <1>5, <2>3, <2>5, <2>6 DEF Visible
  <2>8. \A g \in At(e, rule[e], s) : g = f BY <2>2 DEF At, OneInv, Single, Same
  <2>9. \A v, x : v # rule[e] \/ x # s => At(e, v, x)' = At(e, v, x) BY <2>2, <2>7 DEF At
  <2>10. At(e, rule[e], s)' = {} BY <1>7, <2>7, <2>8 DEF At
  <2>11. Right(e, rule[e], s)' BY <1>7, <1>8, <1>11, <2>10 DEF Right
  <2>12. Judging(e)' BY <1>1, <2>4 DEF Judging
  <2> QED BY <1>1, <1>5, <1>6, <2>5, <2>9, <2>11, <2>12, TurnedQuiet
<1> QED BY <1>3, <1>9, <1>10, <1>11 DEF Turned, Open

\* What is left of the findings read are those whose subject was not listed.
LEMMA CloseUnlistedQuiet ==
  ASSUME TypeOK, NEW e \in Evaluators, QuietAt(e), CloseUnlisted(e) PROVE QuietAt(e)'
<1>1. PICK f \in Unlisted(e) : Resolve(e, f) BY DEF CloseUnlisted
<1>2. /\ UNCHANGED <<inventory, findings, pc, request, rule, reads, todo, opened>>
      /\ pc[e] = "judge" /\ todo[e] = {} /\ Judging(e)
  BY DEF CloseUnlisted, Judging
<1>3. kind' = kind /\ window' = window /\ listed' = listed /\ triggered' = triggered /\ index' = index
  BY <1>2 DEF request, reads
<1>4. \A v : Scope(v, window[e])' = Scope(v, window[e]) /\ Triggered(window[e])' = Triggered(window[e])
             /\ Risky(v, window[e])' = Risky(v, window[e])
  BY <1>2, <1>3, ReadsStay
<1>5. /\ f.rule = rule[e] /\ f.subject \notin listed[e] /\ f \in findings
      /\ resolved'[e] = resolved[e] \cup {f}
  BY <1>1, <1>2 DEF Unlisted, QuietAt, TodoInv, Resolve, TypeOK
<1>6. Mine(e)' = Mine(e) BY <1>2 DEF Mine
<1>7. Visible(e)' \subseteq Visible(e) /\ Visible(e) \subseteq Visible(e)' \cup {f}
  BY <1>2, <1>5, <1>6 DEF Visible
<1>8. \A v, x : v # rule[e] \/ x \in listed[e] => At(e, v, x)' = At(e, v, x)
  BY <1>5, <1>7 DEF At
<1>9. \A v, x : v # rule[e] \/ x \in listed[e] => (Right(e, v, x)' <=> Right(e, v, x))
  BY <1>4, <1>8 DEF Right
<1>10. Past(e)' = Past(e) /\ rule[e] \notin Past(e) BY <1>2, <1>3, PastNotNow DEF Past
<1>11. RuleInv(e)' BY <1>2, <1>3 DEF RuleInv, QuietAt
<1>12. PastInv(e)' BY <1>9, <1>10 DEF PastInv, QuietAt
<1>13. MineInv(e)' BY <1>2, <1>3, <1>6, <1>10 DEF MineInv, QuietAt, Judging
<1>14. ListedInv(e)' BY <1>2, <1>3, <1>4 DEF ListedInv, QuietAt, Judging
<1>15. TodoInv(e)'
  <2>1. \A x \in listed[e] : Right(e, rule[e], x)' <=> Right(e, rule[e], x)
    BY <1>2, <1>9
  <2>2. \A x : At(e, rule[e], x)' \subseteq At(e, rule[e], x) BY <1>2, <1>7 DEF At
  <2>3. /\ todo'[e] = {} /\ index'[e] \subseteq findings' /\ \A g \in index'[e] : g.rule = rule'[e]
    BY <1>2, <1>3 DEF QuietAt, TodoInv
  <2>4. ASSUME NEW x \in listed'[e] \ todo'[e] PROVE Right(e, rule[e], x)'
    BY <1>2, <1>3, <2>1, <2>4 DEF QuietAt, TodoInv
  <2>5. ASSUME NEW x \in Subjects \ listed'[e] PROVE At(e, rule[e], x)' \subseteq index'[e]
    BY <1>2, <1>3, <2>2, <2>5 DEF QuietAt, TodoInv
  <2> QED BY <2>3, <2>4, <2>5 DEF TodoInv
<1>16. LookUpInv(e)' BY <1>2 DEF LookUpInv
<1> QED BY <1>11, <1>12, <1>13, <1>14, <1>15, <1>16 DEF QuietAt

\* Then the rule is done, and right about every subject.
LEMMA ProceedQuiet ==
  ASSUME TypeOK, exposed \subseteq cur, NEW e \in Evaluators, QuietAt(e), Proceed(e)
  PROVE  QuietAt(e)'
<1>1. /\ UNCHANGED <<inventory, findings, request, opened, resolved>>
      /\ pc[e] = "judge" /\ todo[e] = {} /\ Unlisted(e) = {} /\ Judging(e)
  BY DEF Proceed, Judging
<1>2. /\ rule'[e] = After(rule[e])
      /\ pc'[e] = IF After(rule[e]) = None THEN "commit" ELSE "list"
  BY DEF Proceed, Goto, TypeOK
<1>3. kind' = kind /\ window' = window /\ kind[e] \in Kinds BY <1>1 DEF request, TypeOK
<1>4. \A v : Risky(v, window[e])' = Risky(v, window[e]) BY <1>1, <1>3, ReadsStay
<1>5. Mine(e)' = Mine(e) /\ Visible(e)' = Visible(e) BY <1>1 DEF Mine, Visible
<1>6. \A v, s : Right(e, v, s)' <=> Right(e, v, s) BY <1>4, <1>5 DEF Right, At
<1>7. rule[e] \in RulesOf(kind[e]) BY <1>1 DEF RuleInv, QuietAt
<1>8. /\ rule[e] \in Rules /\ After(rule[e]) \in RulesOf(kind[e]) \cup {None}
      /\ Past(e)' = Past(e) \cup {rule[e]}
  BY <1>2, <1>3, <1>7, PastMoves DEF Past
<1>9. ~Judging(e)' /\ pc'[e] # "index" BY <1>2 DEF Judging
<1>10. RuleInv(e)' BY <1>2, <1>3, <1>8 DEF RuleInv
<1>11. ASSUME NEW s \in Subjects PROVE Right(e, rule[e], s)
  <2>1. CASE s \in listed[e] BY <1>1, <2>1 DEF QuietAt, TodoInv
  <2>2. CASE s \notin listed[e]
    <3>1. listed[e] = Scope(rule[e], window[e]) BY <1>1 DEF QuietAt, ListedInv
    <3>2. s \notin Risky(rule[e], window[e]) BY <1>8, <2>2, <3>1, RiskyScope
    <3>3. At(e, rule[e], s) = {}
      <4> SUFFICES ASSUME NEW f \in At(e, rule[e], s) PROVE FALSE OBVIOUS
      <4>1. f \in index[e] /\ f \in findings BY <1>1, <2>2 DEF QuietAt, TodoInv
      <4>2. f.rule = rule[e] /\ f.subject = s /\ f \in Visible(e) BY DEF At
      <4>3. f \in resolved[e] BY <1>1, <2>2, <4>1, <4>2 DEF Unlisted
      <4>4. f \in Mine(e) BY <4>2, <4>3 DEF Visible
      <4> QED BY <2>2, <4>2, <4>4, PastNotNow DEF QuietAt, MineInv
    <3> QED BY <3>2, <3>3 DEF Right
  <2> QED BY <2>1, <2>2
<1>12. PastInv(e)'
  <2>1. \A v \in Past(e) \cup {rule[e]}, s \in Subjects : Right(e, v, s)
    BY <1>11 DEF QuietAt, PastInv
  <2> QED BY <1>6, <1>8, <2>1 DEF PastInv
<1>13. MineInv(e)' BY <1>5, <1>8, <1>9 DEF MineInv, QuietAt
<1>14. ListedInv(e)' /\ LookUpInv(e)' /\ TodoInv(e)'
  BY <1>2, <1>9 DEF ListedInv, LookUpInv, TodoInv
<1> QED BY <1>10, <1>12, <1>13, <1>14 DEF QuietAt

\* An evaluation that tells, or has told: its findings are what they were.
LEMMA TellQuiet ==
  ASSUME TypeOK, TellInv, NEW e \in Evaluators, QuietAt(e), Attempt(e) \/ EndTelling(e)
  PROVE  QuietAt(e)'
<1>1. /\ UNCHANGED <<inventory, findings, request, rule, reads, todo, resolved>>
      /\ Judging(e)
  BY DEF Attempt, EndTelling, Judging
<1>2. Mine(e)' = Mine(e)
  <2>1. CASE Attempt(e)
    <3>1. PICK o \in opened[e], q \in Opened :
            /\ q.finding = o.finding
            /\ opened' = [opened EXCEPT ![e] = (@ \ {o}) \cup {q}]
      BY <2>1, AttemptMoves
    <3>2. opened'[e] = (opened[e] \ {o}) \cup {q} BY <3>1 DEF TypeOK
    <3> QED BY <3>1, <3>2 DEF Mine
  <2>2. CASE EndTelling(e) BY <2>2 DEF EndTelling, Mine
  <2> QED BY <2>1, <2>2
<1>3. Judging(e)'
  <2>1. CASE Attempt(e) BY <1>1, <2>1 DEF Attempt, Judging
  <2>2. CASE EndTelling(e) BY <2>2, GotoType DEF EndTelling, Judging, PCs
  <2> QED BY <2>1, <2>2
<1>4. /\ kind' = kind /\ window' = window /\ rule' = rule /\ listed' = listed
      /\ triggered' = triggered /\ index' = index /\ todo' = todo
  BY <1>1 DEF request, reads
<1>5. \A v : Scope(v, window[e])' = Scope(v, window[e]) /\ Triggered(window[e])' = Triggered(window[e])
             /\ Risky(v, window[e])' = Risky(v, window[e])
  BY <1>1, <1>4, ReadsStay
<1>6. Visible(e)' = Visible(e) BY <1>1, <1>2 DEF Visible
<1>7. \A v, s : At(e, v, s)' = At(e, v, s) /\ (Right(e, v, s)' <=> Right(e, v, s))
  BY <1>5, <1>6 DEF Right, At
<1>8. Past(e)' = Past(e) BY <1>4 DEF Past
<1>9. RuleInv(e)' BY <1>1, <1>3, <1>4 DEF RuleInv, QuietAt, Judging
<1>10. PastInv(e)' BY <1>7, <1>8 DEF PastInv, QuietAt
<1>11. MineInv(e)' BY <1>1, <1>2, <1>3, <1>4, <1>8 DEF MineInv, QuietAt
<1>15. pc'[e] # "index" /\ pc'[e] # "lookup" BY <1>3 DEF Judging
<1>12. ListedInv(e)' BY <1>1, <1>3, <1>4, <1>5, <1>15 DEF ListedInv, QuietAt
<1>13. TodoInv(e)'
  <2>1. \A s : Held(e, s)' = Held(e, s) BY <1>4 DEF Held
  <2>2. \A s : /\ At(e, rule[e], s)' = At(e, rule[e], s)
               /\ Right(e, rule[e], s)' <=> Right(e, rule[e], s)
    BY <1>4, <1>7
  <2> QED BY <1>1, <1>4, <2>1, <2>2 DEF TodoInv, QuietAt
<1>14. LookUpInv(e)' BY <1>15 DEF LookUpInv
<1> QED BY <1>9, <1>10, <1>11, <1>12, <1>13, <1>14 DEF QuietAt

LEMMA BeginQuiet ==
  ASSUME TypeOK, NEW e \in Evaluators, NEW k \in KindsOf[e], NEW since \in Times,
         NEW until \in Times, Begin(e, k, since, until)
  PROVE  QuietAt(e)'
<1>1. k \in Kinds /\ kind'[e] = k /\ rule'[e] = First(k) /\ opened'[e] = {} /\ pc'[e] = "list"
  <2>1. k \in Kinds BY KindsAssumption
  <2> QED BY <2>1, GotoType DEF Begin, TypeOK, PCs
<1>2. Mine(e)' = {} BY <1>1 DEF Mine
<1>3. First(k) \in RulesOf(k) /\ Past(e)' = {} BY <1>1, FirstPast DEF Past
<1>4. ~Judging(e)' BY <1>1 DEF Judging
<1>5. RuleInv(e)' BY <1>1, <1>3 DEF RuleInv
<1>6. PastInv(e)' /\ MineInv(e)' BY <1>2, <1>3 DEF PastInv, MineInv
<1>7. ListedInv(e)' /\ LookUpInv(e)' /\ TodoInv(e)'
  BY <1>1, <1>4 DEF ListedInv, LookUpInv, TodoInv
<1> QED BY <1>5, <1>6, <1>7 DEF QuietAt

\* A step of one evaluation is a step of one evaluation.
LEMMA OthersStay ==
  ASSUME TypeOK, NEW u \in Evaluators, NEW e \in Evaluators \ {u},
         \/ \E k \in KindsOf[u], since, until \in Times : Begin(u, k, since, until)
         \/ Step(u) \/ AppendFails(u) \/ Rollback(u)
  PROVE  /\ pc'[e] = pc[e] /\ kind'[e] = kind[e] /\ window'[e] = window[e] /\ rule'[e] = rule[e]
         /\ listed'[e] = listed[e] /\ triggered'[e] = triggered[e] /\ index'[e] = index[e]
         /\ todo'[e] = todo[e] /\ opened'[e] = opened[e] /\ resolved'[e] = resolved[e]
         /\ UNCHANGED inventory
         /\ ~disturbed'[e] => ~disturbed[e] /\ UNCHANGED findings
<1> USE DEF TypeOK
<1>1. CASE \E k \in KindsOf[u], since, until \in Times : Begin(u, k, since, until)
  BY <1>1 DEF Begin, Goto, reads
<1>2. CASE ListDatabases(u) \/ ListPrincipals(u) \/ ListExposure(u) \/ ListIngress(u)
  BY <1>2 DEF ListDatabases, ListPrincipals, ListExposure, ListIngress, List, Goto, request
<1>3. CASE Index(u) \/ LookUpGroup(u) BY <1>3 DEF Index, LookUpGroup, Goto, request
<1>4. CASE \/ InternetReachableDatabase(u) \/ OverPermissiveIamRole(u)
           \/ PublicIpOnDatabase(u) \/ SecurityGroupOpenedToWorld(u)
  <2>1. PICK s \in Subjects : Open(u, s) \/ Skip(u, s) \/ Close(u, s)
    BY <1>4, TurnMoves DEF Judges
  <2>2. CASE Skip(u, s) BY <2>2 DEF Skip, request, reads
  <2>3. CASE Close(u, s) BY <2>3 DEF Close, Resolve, request, reads
  <2>4. CASE Break(u) BY <2>4 DEF Break, Goto, request, reads
  <2>5. CASE Insert(u, s) BY <2>5 DEF Insert, Goto, request, reads
  <2> QED BY <2>1, <2>2, <2>3, <2>4, <2>5 DEF Open
<1>5. CASE CloseUnlisted(u) BY <1>5 DEF CloseUnlisted, Resolve, request, reads
<1>6. CASE Proceed(u) BY <1>6 DEF Proceed, Goto, request
<1>7. CASE Attempt(u) BY <1>7 DEF Attempt, Replace, request, reads
<1>8. CASE EndTelling(u) BY <1>8 DEF EndTelling, Goto, request, reads
<1>9. CASE Commit(u) BY <1>9 DEF Commit, Forget, Goto
<1>10. CASE AppendFails(u) BY <1>10 DEF AppendFails, Break, Goto, request, reads
<1>11. CASE Rollback(u) BY <1>11 DEF Rollback, Forget, Goto
<1> QED BY <1>1, <1>2, <1>3, <1>4, <1>5, <1>6, <1>7, <1>8, <1>9, <1>10, <1>11 DEF Step

\* A step of its own, unless it ends the evaluation.
LEMMA OwnQuiet ==
  ASSUME IInv, QInv, NEW e \in Evaluators, Step(e) \/ AppendFails(e) \/ Rollback(e),
         Unhurried(e)'
  PROVE  QuietAt(e)'
<1> USE DEF IInv
<1>1. ~(Commit(e) \/ Rollback(e) \/ AppendFails(e))
  BY GotoType DEF Commit, Rollback, Forget, AppendFails, Break, Unhurried, Running, PCs
<1>2. pc[e] \in Running
  BY <1>1 DEF Step, ListDatabases, ListPrincipals, ListExposure, ListIngress, List, Index,
     LookUpGroup, InternetReachableDatabase, OverPermissiveIamRole, PublicIpOnDatabase,
     SecurityGroupOpenedToWorld, Turn, CloseUnlisted, Proceed, Attempt, EndTelling, Running
<1>3. UNCHANGED disturbed
  <2>1. CASE \/ InternetReachableDatabase(e) \/ OverPermissiveIamRole(e)
             \/ PublicIpOnDatabase(e) \/ SecurityGroupOpenedToWorld(e)
    <3>1. PICK s \in Subjects : Open(e, s) \/ Skip(e, s) \/ Close(e, s)
      BY <2>1, TurnMoves DEF Judges
    <3> QED BY <3>1 DEF Open, Insert, Break, Skip, Close
  <2> QED
    BY <1>1, <2>1 DEF Step, ListDatabases, ListPrincipals, ListExposure, ListIngress, List, Index,
       LookUpGroup, CloseUnlisted, Proceed, Attempt, EndTelling
<1>4. QuietAt(e) BY <1>2, <1>3 DEF QInv, Unhurried
<1>5. exposed \subseteq cur BY DEF QInv
<1>6. CASE \/ InternetReachableDatabase(e) \/ OverPermissiveIamRole(e)
           \/ PublicIpOnDatabase(e) \/ SecurityGroupOpenedToWorld(e)
  <2>1. PICK s \in Subjects : Turned(e, s) BY <1>4, <1>5, <1>6, TurnQuiet
  <2>2. pc'[e] # "failed" BY DEF Unhurried, Running
  <2> QED BY <1>4, <1>5, <2>1, <2>2, TurnsQuiet
<1> QED
  BY <1>1, <1>4, <1>5, <1>6, ListsQuiet, IndexQuiet, LookUpGroupQuiet, CloseUnlistedQuiet, ProceedQuiet,
     TellQuiet
  DEF Step

LEMMA DiscoverExposed == ASSUME TypeOK, exposed \subseteq cur, Discover PROVE (exposed \subseteq cur)'
BY DEF Discover, Observe, Retire, Expose, Cover, Connect, OpenToWorld

LEMMA QInvStep == IInv /\ QInv /\ [Next]_vars => QInv'
<1> SUFFICES ASSUME IInv, QInv, [Next]_vars PROVE QInv' OBVIOUS
<1> USE DEF IInv
<1>1. ASSUME UNCHANGED <<inventory, findings, pc, request, rule, reads, todo, opened, resolved,
                         disturbed>>
      PROVE  QInv'
  <2>1. (exposed \subseteq cur)' BY <1>1 DEF QInv, inventory
  <2>2. ASSUME NEW e \in Evaluators, Unhurried(e)' PROVE QuietAt(e)'
    <3>1. QuietAt(e) BY <1>1, <2>2 DEF QInv, Unhurried
    <3>2. Mine(e)' = Mine(e) BY <1>1 DEF Mine
    <3> QED BY <1>1, <3>1, <3>2, QuietStays DEF request, reads
  <2> QED BY <2>1, <2>2 DEF QInv
<1>2. CASE UNCHANGED vars BY <1>1, <1>2 DEF vars
<1>3. ASSUME NEW s \in Subs, Subscribe(s) PROVE QInv' BY <1>1, <1>3 DEF Subscribe
<1>4. CASE Discover
  <2>1. \A e \in Evaluators : ~Unhurried(e)' BY <1>4 DEF Discover, Changed, Disturb, Unhurried
  <2>2. (exposed \subseteq cur)' BY <1>4, DiscoverExposed DEF QInv
  <2> QED BY <2>1, <2>2 DEF QInv
<1>5. ASSUME NEW u \in Evaluators,
             \/ \E k \in KindsOf[u], since, until \in Times : Begin(u, k, since, until)
             \/ Step(u) \/ AppendFails(u) \/ Rollback(u)
      PROVE  QInv'
  <2>1. ASSUME NEW e \in Evaluators \ {u}, Unhurried(e)' PROVE QuietAt(e)'
    <3>1. /\ pc'[e] = pc[e] /\ kind'[e] = kind[e] /\ window'[e] = window[e] /\ rule'[e] = rule[e]
          /\ listed'[e] = listed[e] /\ triggered'[e] = triggered[e] /\ index'[e] = index[e]
          /\ todo'[e] = todo[e] /\ opened'[e] = opened[e] /\ resolved'[e] = resolved[e]
          /\ UNCHANGED inventory
          /\ ~disturbed[e] /\ UNCHANGED findings
      BY <1>5, <2>1, OthersStay DEF Unhurried
    <3>2. QuietAt(e) BY <2>1, <3>1 DEF QInv, Unhurried
    <3>3. Mine(e)' = Mine(e) BY <3>1 DEF Mine
    <3> QED BY <3>1, <3>2, <3>3, QuietStays
  <2>2. ASSUME Unhurried(u)' PROVE QuietAt(u)' BY <1>5, <2>2, BeginQuiet, OwnQuiet
  <2>3. UNCHANGED inventory
    <3>1. CASE \E k \in KindsOf[u], since, until \in Times : Begin(u, k, since, until)
      BY <3>1 DEF Begin
    <3>2. CASE \/ InternetReachableDatabase(u) \/ OverPermissiveIamRole(u)
               \/ PublicIpOnDatabase(u) \/ SecurityGroupOpenedToWorld(u)
      <4>1. PICK s \in Subjects : Open(u, s) \/ Skip(u, s) \/ Close(u, s)
        BY <3>2, TurnMoves DEF Judges
      <4> QED BY <4>1 DEF Open, Insert, Break, Skip, Close
    <3> QED
      BY <1>5, <3>1, <3>2 DEF Step, ListDatabases, ListPrincipals, ListExposure, ListIngress, List,
         Index, LookUpGroup, CloseUnlisted, Proceed, Attempt, EndTelling, Commit, Forget, AppendFails, Break,
         Rollback
  <2>4. (exposed \subseteq cur)' BY <2>3 DEF QInv, inventory
  <2> QED BY <2>1, <2>2, <2>4 DEF QInv
<1> QED BY <1>2, <1>3, <1>4, <1>5 DEF Next

LEMMA InitQInv == Init => QInv
BY DEF Init, QInv, Unhurried, Running, Subjects

LEMMA QInvCorrect == Spec => [](IInv /\ QInv)
<1>1. Init => IInv /\ QInv BY InitIInv, InitQInv
<1>2. IInv /\ QInv /\ [Next]_vars => (IInv /\ QInv)' BY IInvStep, QInvStep
<1> QED BY <1>1, <1>2, PTL DEF Spec

-----------------------------------------------------------------------------
(* Theorems.                                                               *)

\* The types.
THEOREM TypeCorrect == Spec => []TypeOK
<1>1. IInv => TypeOK BY DEF IInv
<1> QED BY <1>1, IInvCorrect, PTL

\* However many evaluations read that there is no finding of a rule about a subject, and in
\* whatever order they insert, resolve, fail and commit, one of theirs stays open.
THEOREM OneOpenFindingCorrect == Spec => []OneOpenFinding
<1>1. IInv => OneOpenFinding BY DEF IInv, OneInv, Single, OneOpenFinding
<1> QED BY <1>1, IInvCorrect, PTL

LEMMA ToldStep == IInv /\ [Next]_vars => [Settled]_vars
<1> SUFFICES ASSUME IInv, NEW e \in Evaluators, Commit(e), NEW o \in opened[e] PROVE Told(o)
  BY DEF Settled
<1>1. pc[e] \notin {"tell", "failed"} BY DEF Commit
<1>2. Series(o) /\ Pending(o) = {} BY <1>1 DEF IInv, TellInv
<1>3. o \in Opened BY DEF IInv, TypeOK
<1>4. ASSUME NEW s \in o.owed
      PROVE  \/ o.end[s] = "delivered" /\ o.failed[s] < MaxAttempts
             \/ o.end[s] = "dead_letter" /\ o.failed[s] = MaxAttempts
  <2>1. s \in Subs /\ o.end[s] \in {"none", "delivered", "dead_letter"}
    BY <1>3, OpenedFields
  <2>2. o.end[s] # "none" BY <1>2 DEF Pending
  <2> QED BY <1>2, <2>1, <2>2 DEF Series
<1> QED BY <1>4 DEF Told

\* No finding is committed half told, whatever sends or rows failed on the way.
THEOREM ToldOnCommitCorrect == Spec => ToldOnCommit
<1>1. IInv /\ [Next]_vars => [Settled]_vars BY ToldStep
<1> QED BY <1>1, IInvCorrect, PTL DEF Spec, ToldOnCommit

LEMMA ExactStep ==
  ASSUME IInv, QInv, NEW e \in Evaluators, Commit(e), ~disturbed[e], NEW r \in RulesOf(kind[e])
  PROVE  {f.subject : f \in {x \in findings' : x.rule = r}} = Risky(r, window[e])
<1> DEFINE F == {x \in findings' : x.rule = r}
<1>1. pc[e] = "commit" /\ findings' = Visible(e) /\ QuietAt(e)
  BY DEF Commit, QInv, Unhurried, Running
<1>2. kind[e] \in Kinds BY DEF IInv, TypeOK
<1>3. r \in Past(e) /\ r \in Rules BY <1>1, <1>2, LastPast DEF QuietAt, RuleInv, Past
<1>4. \A s \in Subjects : (\E f \in F : f.subject = s) <=> s \in Risky(r, window[e])
  BY <1>1, <1>3 DEF QuietAt, PastInv, Right, At
<1>5. \A f \in F : f.subject \in Subjects BY <1>1, VisibleType DEF IInv, Finding
<1>6. Risky(r, window[e]) \subseteq Subjects BY <1>3, RiskyScope DEF IInv, QInv
<1> HIDE DEF F
<1>7. {f.subject : f \in F} = Risky(r, window[e]) BY <1>4, <1>5, <1>6
<1> QED BY <1>7 DEF F

\* Whatever the evaluations before it left or failed to do, one that nothing disturbs leaves
\* exactly the findings that its rules call for.
THEOREM QuietIsExactCorrect == Spec => QuietIsExact
<1> DEFINE A == \A e \in Evaluators :
                  Commit(e) /\ ~disturbed[e] =>
                    \A r \in RulesOf(kind[e]) :
                      {f.subject : f \in {x \in findings' : x.rule = r}} = Risky(r, window[e])
<1>1. IInv /\ QInv => A BY ExactStep
<1> HIDE DEF A
<1>2. IInv /\ QInv /\ [Next]_vars => [A]_vars BY <1>1
<1>3. Spec => [][A]_vars BY <1>2, QInvCorrect, PTL DEF Spec
<1> QED BY <1>3 DEF QuietIsExact, A

=============================================================================
