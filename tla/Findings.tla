------------------------------- MODULE Findings ------------------------------
(***************************************************************************)
(* Risk findings (findings.py) and anomalies (anomalies.py): evaluations   *)
(* that run at the same time, each in one transaction, over an inventory   *)
(* that changes meanwhile, and the notifications (notifications.py) that   *)
(* an evaluation sends from within its transaction.                        *)
(*                                                                         *)
(* An evaluation takes its rules in turn.  For each it lists the subjects, *)
(* reads the open findings, and then goes through the subjects one by one: *)
(* every one is judged by what the inventory says at that moment, against  *)
(* findings that were read before.  `findings' are the committed open      *)
(* rows; what an evaluation has inserted and resolved is its own until     *)
(* COMMIT.                                                                 *)
(***************************************************************************)
EXTENDS Integers, FiniteSets

CONSTANTS
  Evaluators,
  Databases, Principals, Groups,   \* CIs a rule is about, by type
  Grants,       \* edges HAS_ACCESS_TO: [from: Principals, to, key]
  Threshold,    \* OVER_PERMISSIVE_ACCESS_THRESHOLD
  Subs,         \* notification_subscription
  MaxAttempts,  \* MAX_ATTEMPTS
  None,         \* no rule
  Batches,      \* bound: sets of Grants that a batch may leave
  KindsOf,      \* bound: KindsOf[e]: the evaluations that e is asked for
  Nos,          \* bound: findings of one rule about one subject, in use at once
  Times,        \* bound: the instants of events and windows
  MaxChanges    \* bound: changes of the inventory

ASSUME GrantsAssumption == /\ \A g \in Grants : g.from \in Principals
                           /\ Batches \subseteq SUBSET Grants
Kinds == {"risk", "announced", "anomaly"}    \* announced: risk, with a sender

ASSUME KindsAssumption == KindsOf \in [Evaluators -> SUBSET Kinds]
ASSUME BoundsAssumption == Nos \cup Times \cup {MaxChanges} \subseteq Nat /\ 0 \in Times
                           /\ MaxAttempts \in Nat \ {0}

Subjects == Databases \cup Principals \cup Groups

\* [since, until), of an anomaly evaluation.
NoWindow == <<0, 0>>
Window   == (Times \X Times) \cup {NoWindow}

Internet == "internet_reachable_database"
IAM      == "over_permissive_iam_role"
PublicIP == "anomaly_public_ip_on_database"
World    == "anomaly_security_group_opened_to_world"
Rules    == {Internet, IAM, PublicIP, World}

ASSUME NoneAssumption == None \notin Rules

\* evaluate_findings_with_summary and evaluate_anomalies_with_summary.
RulesOf(k) == IF k = "anomaly" THEN {PublicIP, World} ELSE {Internet, IAM}
First(k)   == IF k = "anomaly" THEN PublicIP ELSE Internet
After(r)   == IF r = Internet THEN IAM ELSE IF r = PublicIP THEN World ELSE None

\* A row of finding; no makes its id, which no other finding ever has.  While its
\* evaluation runs it is kept together with its rows of notification_delivery: owed
\* are the subscriptions enabled when it was opened with a sender; failed and end
\* count the rows 'failed' and name the last row.
Finding == [rule: Rules, subject: Subjects, no: Nos]
Opened  == [finding: Finding, owed: SUBSET Subs, failed: [Subs -> 0..MaxAttempts],
            end: [Subs -> {"none", "delivered", "dead_letter"}]]

VARIABLES
  changes,
  cur,        \* the open CIs among Subjects
  exposed,    \* the databases that reachability finds an internet source for
  grants,     \* the open HAS_ACCESS_TO edges
  events,     \* triggers in the change feed, as <<subject, instant>>
  enabled,    \* the enabled subscriptions
  findings,   \* the committed open findings
  pc, kind, window,             \* per evaluator: where it stands, its request
  rule,       \* rule[e]: the rule it is at; None: all done
  listed,     \* listed[e]: subjects of the rule, as read
  triggered,  \* triggered[e]: those with an event in the window, as read; groups leave
              \* it as they are looked up
  index,      \* index[e]: open findings of the rule, as read
  todo,       \* todo[e]: listed subjects still to be judged
  opened,     \* opened[e]: what it has inserted
  resolved,   \* resolved[e]: the ids it has resolved
  disturbed   \* history: something committed since it began

inventory == <<changes, cur, exposed, grants, events>>
request   == <<kind, window>>
reads     == <<listed, triggered, index>>
vars == <<inventory, enabled, findings, pc, request, rule, reads, todo, opened,
          resolved, disturbed>>

PCs == {"idle", "list", "index", "lookup", "judge", "tell", "commit", "failed"}

TypeOK ==
  /\ changes \in 0..MaxChanges
  /\ cur \subseteq Subjects /\ exposed \subseteq Databases
  /\ grants \subseteq Grants /\ events \subseteq Subjects \X Times
  /\ enabled \subseteq Subs
  /\ findings \subseteq Finding
  /\ pc \in [Evaluators -> PCs]
  /\ kind \in [Evaluators -> Kinds]
  /\ window \in [Evaluators -> Window]
  /\ rule \in [Evaluators -> Rules \cup {None}]
  /\ listed \in [Evaluators -> SUBSET Subjects]
  /\ triggered \in [Evaluators -> SUBSET Subjects]
  /\ index \in [Evaluators -> SUBSET Finding]
  /\ todo \in [Evaluators -> SUBSET Subjects]
  /\ opened \in [Evaluators -> SUBSET Opened]
  /\ resolved \in [Evaluators -> SUBSET Finding]
  /\ disturbed \in [Evaluators -> BOOLEAN]

Init ==
  /\ changes = 0
  /\ cur = Subjects /\ exposed = Databases /\ grants = Grants
  /\ events = (Databases \cup Groups) \X {0}
  /\ enabled = {} /\ findings = {}
  /\ pc = [e \in Evaluators |-> "idle"]
  /\ kind = [e \in Evaluators |-> "risk"]
  /\ window = [e \in Evaluators |-> NoWindow]
  /\ rule = [e \in Evaluators |-> None]
  /\ listed = [e \in Evaluators |-> {}]
  /\ triggered = [e \in Evaluators |-> {}]
  /\ index = [e \in Evaluators |-> {}]
  /\ todo = [e \in Evaluators |-> {}]
  /\ opened = [e \in Evaluators |-> {}]
  /\ resolved = [e \in Evaluators |-> {}]
  /\ disturbed = [e \in Evaluators |-> FALSE]

-----------------------------------------------------------------------------
(* The inventory changes, by transactions that are Reconcile's subject.    *)

Disturb == disturbed' = [e \in Evaluators |-> TRUE]

Changed == /\ changes < MaxChanges /\ changes' = changes + 1
           /\ Disturb
           /\ UNCHANGED <<enabled, findings, pc, request, rule, reads, todo,
                          opened, resolved>>

\* A CI is observed for the first time, or with other attributes.  The event
\* has the instant at which the writing transaction began.  A trigger of a
\* security group is an edge only.
Observe(s, at) ==
  /\ s \in Databases \/ s \notin cur
  /\ cur' = cur \cup {s}
  /\ events' = events \cup (IF s \in Databases THEN {<<s, at>>} ELSE {})
  /\ UNCHANGED <<exposed, grants>>

Retire(s) ==
  /\ s \in cur
  /\ cur' = cur \ {s} /\ exposed' = exposed \ {s}
  /\ grants' = {g \in grants : g.from # s}
  /\ UNCHANGED events

\* A path from the internet to the database appears, whose last edge is new or
\* was there before; or it disappears.
Expose(d, at, last) ==
  /\ d \in cur \cap Databases
  /\ exposed' = exposed \cup {d}
  /\ events' = IF last THEN events \cup {<<d, at>>} ELSE events
  /\ UNCHANGED <<cur, grants>>
Cover(d) ==
  /\ exposed' = exposed \ {d}
  /\ UNCHANGED <<cur, grants, events>>

\* A batch lands, with other edges from the principals.
Connect(E) ==
  /\ \A g \in E : g.from \in cur
  /\ grants' = E
  /\ UNCHANGED <<cur, exposed, events>>

\* A CONNECTS_TO edge from the internet CI to a security group.
OpenToWorld(s, at) ==
  /\ s \in cur \cap Groups
  /\ events' = events \cup {<<s, at>>}
  /\ UNCHANGED <<cur, exposed, grants>>

Discover ==
  /\ Changed
  /\ \/ \E s \in Subjects, at \in Times : Observe(s, at)
     \/ \E s \in Subjects : Retire(s)
     \/ \E d \in Databases, at \in Times, last \in BOOLEAN : Expose(d, at, last)
     \/ \E d \in exposed : Cover(d)
     \/ \E E \in Batches : Connect(E)
     \/ \E s \in Groups, at \in Times : OpenToWorld(s, at)

\* NotificationRepository.create_subscription.
Subscribe(s) ==
  /\ s \notin enabled /\ enabled' = enabled \cup {s}
  /\ UNCHANGED <<inventory, findings, pc, request, rule, reads, todo, opened, resolved,
                 disturbed>>

-----------------------------------------------------------------------------
(* An evaluation.                                                          *)

Goto(e, l) == pc' = [pc EXCEPT ![e] = l]

\* POST /findings/evaluate, which sends nothing, a caller with a sender, or
\* POST /anomalies/evaluate for a window.
Begin(e, k, since, until) ==
  /\ pc[e] = "idle"
  /\ k = "anomaly" => since < until
  /\ kind' = [kind EXCEPT ![e] = k]
  /\ window' = [window EXCEPT ![e] = IF k = "anomaly" THEN <<since, until>> ELSE NoWindow]
  /\ rule' = [rule EXCEPT ![e] = First(k)]
  /\ opened' = [opened EXCEPT ![e] = {}]
  /\ resolved' = [resolved EXCEPT ![e] = {}]
  /\ disturbed' = [disturbed EXCEPT ![e] = FALSE]
  /\ Goto(e, "list")
  /\ UNCHANGED <<inventory, enabled, findings, reads, todo>>

\* change_feed: the subjects with an event in [since, until).
Triggered(w) ==
  {s \in Subjects : \E at \in Times : <<s, at>> \in events /\ w[1] <= at /\ at < w[2]}

\* What a rule reads first: the subjects of ci_repo.get_current, the events.
List(e, r, subjects, hit) ==
  /\ pc[e] = "list" /\ rule[e] = r
  /\ listed' = [listed EXCEPT ![e] = subjects]
  /\ triggered' = [triggered EXCEPT ![e] = hit]
  /\ Goto(e, "index")
  /\ UNCHANGED <<inventory, enabled, findings, request, rule, index, todo, opened,
                 resolved, disturbed>>

ListDatabases(e)  == List(e, Internet, cur \cap Databases, {})
ListPrincipals(e) == List(e, IAM, cur \cap Principals, {})
ListExposure(e)   == List(e, PublicIP, cur \cap Databases, Triggered(window[e]))
ListIngress(e)    == List(e, World, {}, Triggered(window[e]) \cap Groups)

\* What a statement of e sees.
Mine(e)    == {o.finding : o \in opened[e]}
Visible(e) == (findings \ resolved[e]) \cup Mine(e)

\* repo.get_open(rule_id=...).
Index(e) ==
  /\ pc[e] = "index"
  /\ index' = [index EXCEPT ![e] = {f \in Visible(e) : f.rule = rule[e]}]
  /\ todo' = [todo EXCEPT ![e] = listed[e]]
  /\ Goto(e, IF rule[e] = World /\ triggered[e] # {} THEN "lookup" ELSE "judge")
  /\ UNCHANGED <<inventory, enabled, findings, request, rule, listed, triggered, opened,
                 resolved, disturbed>>

\* ci_repo.get_current_by_id of one security group that an event names: it is flagged if it
\* is current by now.
LookUpGroup(e) ==
  /\ pc[e] = "lookup"
  /\ \E s \in triggered[e] :
       /\ listed' = [listed EXCEPT ![e] = @ \cup ({s} \cap cur)]
       /\ todo' = [todo EXCEPT ![e] = @ \cup ({s} \cap cur)]
       /\ triggered' = [triggered EXCEPT ![e] = @ \ {s}]
       /\ Goto(e, IF triggered[e] = {s} THEN "judge" ELSE "lookup")
  /\ UNCHANGED <<inventory, enabled, findings, request, rule, index, opened, resolved,
                 disturbed>>

Held(e, s) == {f \in index[e] : f.subject = s}

\* finding_open_identity.
Same(f, g) == f.rule = g.rule /\ f.subject = g.subject
Used(r, s) == {f.no : f \in {x \in findings \cup UNION {Mine(e) \cup index[e] : e \in Evaluators} :
                               x.rule = r /\ x.subject = s}}

\* The transactions whose outcome an INSERT of (r, s), or an UPDATE of f, waits for.
Inserters(e, r, s) ==
  {u \in Evaluators \ {e} :
     \/ \E f \in Mine(u) : f.rule = r /\ f.subject = s
     \/ \E f \in findings : f.rule = r /\ f.subject = s /\ f \in resolved[u]}
Resolvers(e, f) == {u \in Evaluators \ {e} : f \in resolved[u]}

Skip(e, s) ==
  /\ todo' = [todo EXCEPT ![e] = @ \ {s}]
  /\ UNCHANGED <<inventory, enabled, findings, pc, request, rule, reads, opened,
                 resolved, disturbed>>

\* open_finding, where the unique index lets it: the row is inserted.  With a
\* sender, notify_finding_opened then reads the enabled subscriptions.
Insert(e, s) ==
  \E n \in Nos \ Used(rule[e], s) :
    /\ \A m \in Nos : m < n => m \in Used(rule[e], s)
    /\ opened' = [opened EXCEPT ![e] = @ \cup
         {[finding |-> [rule |-> rule[e], subject |-> s, no |-> n],
           owed |-> IF kind[e] = "announced" THEN enabled ELSE {},
           failed |-> [x \in Subs |-> 0], end |-> [x \in Subs |-> "none"]]}]
    /\ todo' = [todo EXCEPT ![e] = @ \ {s}]
    /\ Goto(e, IF kind[e] = "announced" THEN "tell" ELSE "judge")
    /\ UNCHANGED <<inventory, enabled, findings, request, rule, reads, resolved, disturbed>>

\* UniqueViolation, or any error of a statement: the transaction is aborted.
Break(e) ==
  /\ Goto(e, "failed")
  /\ UNCHANGED <<inventory, enabled, findings, request, rule, reads, todo, opened,
                 resolved, disturbed>>

\* Mutated Open: without the unique index.
OpenUnchecked(e, s) == Insert(e, s)

Open(e, s) ==
  /\ Inserters(e, rule[e], s) = {}
  /\ IF \E f \in Visible(e) : f.rule = rule[e] /\ f.subject = s
     THEN Break(e) ELSE Insert(e, s)

\* resolve: UPDATE finding ... WHERE id = .. AND valid_to IS NULL, which waits for
\* whoever has resolved the row and then finds nothing.
Resolve(e, f) ==
  /\ Resolvers(e, f) = {}
  /\ resolved' = [resolved EXCEPT ![e] = @ \cup ({f} \cap findings)]

Close(e, s) ==
  /\ \E f \in Held(e, s) : Resolve(e, f)
  /\ todo' = [todo EXCEPT ![e] = @ \ {s}]
  /\ UNCHANGED <<inventory, enabled, findings, pc, request, rule, reads, opened, disturbed>>

\* One turn of a rule's loop over its subjects: the findings read before are brought in
\* line with whether the rule matches, by the inventory at this moment.
Judge(e, s, matches) ==
  IF Held(e, s) = {}
  THEN IF matches THEN Open(e, s) ELSE Skip(e, s)
  ELSE IF matches THEN Skip(e, s) ELSE Close(e, s)

Turn(e, r, s) == pc[e] = "judge" /\ rule[e] = r /\ s \in todo[e]

InternetReachableDatabase(e) ==
  \E s \in Databases : Turn(e, Internet, s) /\ Judge(e, s, s \in exposed)

\* A principal counts by its distinct targets.
OverPermissive(p) == Cardinality({g.to : g \in {x \in grants : x.from = p}}) >= Threshold

OverPermissiveIamRole(e) ==
  \E s \in Principals : Turn(e, IAM, s) /\ Judge(e, s, OverPermissive(s))

PublicIpOnDatabase(e) ==
  \E s \in Databases :
    Turn(e, PublicIP, s) /\ Judge(e, s, s \in triggered[e] /\ s \in exposed)

\* A security group that is gone by now is left alone.
SecurityGroupOpenedToWorld(e) ==
  \E s \in Groups :
    /\ Turn(e, World, s)
    /\ IF Held(e, s) = {} /\ s \in cur THEN Open(e, s) ELSE Skip(e, s)

\* Mutated Unlisted: what is no longer listed is forgotten.
UnlistedNever(e) == {}

\* Open findings whose subject was not listed.
Unlisted(e) == {f \in index[e] \cap findings : f.subject \notin listed[e] /\ f \notin resolved[e]}

CloseUnlisted(e) ==
  /\ pc[e] = "judge" /\ todo[e] = {} /\ Unlisted(e) # {}
  /\ \E f \in Unlisted(e) : Resolve(e, f)
  /\ UNCHANGED <<inventory, enabled, findings, pc, request, rule, reads, todo, opened,
                 disturbed>>

\* On to the next rule.
Proceed(e) ==
  /\ pc[e] = "judge" /\ todo[e] = {} /\ Unlisted(e) = {}
  /\ rule' = [rule EXCEPT ![e] = After(@)]
  /\ Goto(e, IF After(rule[e]) = None THEN "commit" ELSE "list")
  /\ listed' = [listed EXCEPT ![e] = {}]
  /\ triggered' = [triggered EXCEPT ![e] = {}]
  /\ index' = [index EXCEPT ![e] = {}]
  /\ UNCHANGED <<inventory, enabled, findings, request, todo, opened, resolved, disturbed>>

-----------------------------------------------------------------------------
(* Notifications: for each subscription in turn up to MaxAttempts POSTs,   *)
(* each recorded, then a dead letter.                                      *)

Pending(o) == {s \in o.owed : o.end[s] = "none"}

\* The row of the delivery table that an attempt adds: on a 2xx answer, on
\* another one or an exception of send.
Delivered(o, s) == [o EXCEPT !.end[s] = "delivered"]
Failed(o, s) ==
  [o EXCEPT !.failed[s] = @ + 1,
            !.end[s] = IF o.failed[s] + 1 = MaxAttempts THEN "dead_letter" ELSE "none"]

Replace(e, o, q) == opened' = [opened EXCEPT ![e] = (@ \ {o}) \cup {q}]

Attempt(e) ==
  /\ pc[e] = "tell"
  /\ \E o \in opened[e], s \in Subs :
       /\ s \in Pending(o)
       /\ \A x \in Pending(o) \ {s} : o.failed[x] = 0
       /\ Replace(e, o, Delivered(o, s)) \/ Replace(e, o, Failed(o, s))
  /\ UNCHANGED <<inventory, enabled, findings, pc, request, rule, reads, todo, resolved,
                 disturbed>>

\* Mutated AppendFails: the next subscription as if nothing had happened.
AppendFailsAlone(e) ==
  /\ pc[e] = "tell" /\ \E o \in opened[e] : Pending(o) # {}
  /\ Goto(e, "judge")
  /\ UNCHANGED <<inventory, enabled, findings, request, rule, reads, todo, opened,
                 resolved, disturbed>>

\* append_delivery fails.  Both handlers swallow it, and that of the others, whose
\* rows an aborted transaction does not take either; the next statement of the
\* evaluation raises.
AppendFails(e) ==
  /\ pc[e] = "tell" /\ \E o \in opened[e] : Pending(o) # {}
  /\ Break(e)

EndTelling(e) ==
  /\ pc[e] = "tell" /\ \A o \in opened[e] : Pending(o) = {}
  /\ Goto(e, "judge")
  /\ UNCHANGED <<inventory, enabled, findings, request, rule, reads, todo, opened,
                 resolved, disturbed>>

-----------------------------------------------------------------------------
Forget(e) ==
  /\ Goto(e, "idle")
  /\ rule' = [rule EXCEPT ![e] = None]
  /\ listed' = [listed EXCEPT ![e] = {}]
  /\ triggered' = [triggered EXCEPT ![e] = {}]
  /\ index' = [index EXCEPT ![e] = {}]
  /\ todo' = [todo EXCEPT ![e] = {}]
  /\ opened' = [opened EXCEPT ![e] = {}]
  /\ resolved' = [resolved EXCEPT ![e] = {}]
  /\ kind' = [kind EXCEPT ![e] = "risk"]
  /\ window' = [window EXCEPT ![e] = NoWindow]
  /\ UNCHANGED <<inventory, enabled>>

Commit(e) ==
  /\ pc[e] = "commit"
  /\ findings' = Visible(e)
  /\ disturbed' = [u \in Evaluators |-> u # e]
  /\ Forget(e)

\* An exception, of the evaluation or of the process, or a deadlock that
\* PostgreSQL breaks: a finding that was announced is forgotten.
Rollback(e) ==
  /\ pc[e] # "idle"
  /\ disturbed' = [disturbed EXCEPT ![e] = FALSE]
  /\ Forget(e)
  /\ UNCHANGED findings

Step(e) ==
  \/ ListDatabases(e) \/ ListPrincipals(e) \/ ListExposure(e) \/ ListIngress(e)
  \/ Index(e) \/ LookUpGroup(e)
  \/ InternetReachableDatabase(e) \/ OverPermissiveIamRole(e)
  \/ PublicIpOnDatabase(e) \/ SecurityGroupOpenedToWorld(e)
  \/ CloseUnlisted(e) \/ Proceed(e) \/ Attempt(e) \/ EndTelling(e) \/ Commit(e)

Next ==
  \/ Discover
  \/ \E s \in Subs : Subscribe(s)
  \/ \E e \in Evaluators :
       \/ \E k \in KindsOf[e], since, until \in Times :
            Begin(e, k, since, until)
       \/ Step(e) \/ AppendFails(e) \/ Rollback(e)

Spec == Init /\ [][Next]_vars

-----------------------------------------------------------------------------
(* Properties.                                                             *)

\* "At most one can exist": concurrent evaluations, each of which read that there
\* was none, leave one open finding of a rule about a subject.
OneOpenFinding == \A f, g \in findings : Same(f, g) => f = g

\* The subjects that the rule is about to report, by the inventory and the window.
Risky(r, w) ==
  CASE r = Internet -> exposed
    [] r = IAM      -> {p \in cur \cap Principals : OverPermissive(p)}
    [] r = PublicIP -> exposed \cap Triggered(w)
    [] OTHER        -> cur \cap Groups \cap Triggered(w)

\* Whatever evaluations before it left or failed to do, an evaluation during which
\* nothing else committed leaves exactly the findings that its rules call for.
QuietIsExact ==
  [][\A e \in Evaluators :
       Commit(e) /\ ~disturbed[e] =>
         \A r \in RulesOf(kind[e]) :
           {f.subject : f \in {x \in findings' : x.rule = r}} = Risky(r, window[e])]_vars

Told(o) == \A s \in o.owed :
  \/ o.end[s] = "delivered" /\ o.failed[s] < MaxAttempts
  \/ o.end[s] = "dead_letter" /\ o.failed[s] = MaxAttempts

Settled == \A e \in Evaluators : Commit(e) => \A o \in opened[e] : Told(o)

\* Whatever failed on the way, a committed finding has, for each subscription it
\* is announced to, a recorded delivery, or the whole series of failures and the
\* dead letter: none is half told.
ToldOnCommit == [][Settled]_vars

=============================================================================
