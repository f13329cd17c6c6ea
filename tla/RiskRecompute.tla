---------------------------- MODULE RiskRecompute ----------------------------
(***************************************************************************)
(* Automatic risk recompute: record writes through the REST views, the     *)
(* on_commit enqueue of apps/risk/signals.py, the Celery task of           *)
(* apps/risk/tasks.py, the on-demand view and the computerisk command, all *)
(* meeting in engine.score_customer and engine.persist.                    *)
(*                                                                         *)
(* The database runs READ COMMITTED: each query is a step of its own and   *)
(* sees what is committed when it runs. persist() holds the customer's row *)
(* lock from its first to its last statement and is one step.              *)
(*                                                                         *)
(* Time is the number of computed_at instants so far, "now". updated_at is *)
(* only ever compared with a computed_at, so an update stamped between the *)
(* k-th persist and the next has updated = k + 1.                          *)
(***************************************************************************)
EXTENDS Integers

CONSTANTS
    Customers, Policies, Claims,   \* primary keys of the three record kinds
    Ages, Covers, Losses,          \* the scored fields of a customer, policy, claim
    Score(_), Scores, Unscored,    \* the rule set, its results, NULL
    Editors,                       \* requests that write records
    Workers,                       \* Celery worker processes
    Managers,                      \* on-demand recomputes and batch items in flight
    MaxRetries,                    \* max_retries of the task
    Faults,                        \* what may go wrong, see below
    MovePolicies,                  \* whether a PATCH may name another customer
    MaxRequests                    \* bound: writes and on-demand recomputes begun

\* "broker": .delay() raises or the web process dies after the commit;
\* "crash": a worker dies, its message acknowledged; "error": a task raises.
FaultKinds == {"broker", "crash", "error"}

Procs == Workers \cup Managers

\* What score_customer reads of a customer: age, live policies, live claims.
Facts == [age    : Ages,
          covers : UNION {[S -> Covers] : S \in SUBSET Policies},
          losses : UNION {[S -> Losses] : S \in SUBSET Claims}]

ASSUME ScoreAssumption == \A f \in Facts : Score(f) \in Scores
ASSUME UnscoredAssumption == Unscored \notin Scores
ASSUME RolesAssumption == Workers \cap Managers = {}
ASSUME BoundsAssumption == MaxRetries \in Nat /\ MaxRequests \in Nat
ASSUME FaultsAssumption == Faults \subseteq FaultKinds /\ MovePolicies \in BOOLEAN

VARIABLES
    customer,     \* rows: status, age, the risk_score mirror, updated_at
    policy,       \* rows: status, owner, cover, updated_at
    claim,        \* rows: status, policy, loss, updated_at
    assessment,   \* RiskAssessment per customer: score (Unscored: no row), computed_at
    draft,        \* per editor: the validated write it has not committed yet
    hooks,        \* per customer: on_commit callbacks not run yet
    queue,        \* per customer and retry count: messages at the broker
    proc,         \* per worker or manager: the computation it is in
    failed,       \* customers with a recompute_failed entry since their last persist
    lost,         \* customers that lost a delivery since their last persist (history)
    now, requests

vars == <<customer, policy, claim, assessment, draft, hooks, queue, proc,
          failed, lost, now, requests>>
-----------------------------------------------------------------------------
Statuses == {"absent", "live", "archived"}

CustomerRow == [status : Statuses, age : Ages, mirror : Scores \cup {Unscored}, updated : Nat]
PolicyRow   == [status : Statuses, owner : Customers, cover : Covers, updated : Nat]
ClaimRow    == [status : Statuses, policy : Policies, loss : Losses, updated : Nat]
Assessment  == [score : Scores \cup {Unscored}, at : Nat]

NoDraft == [kind |-> "none"]
Drafts ==
    {NoDraft}
      \cup [kind : {"customer"}, id : Customers, row : CustomerRow,
            notify : Customers, archive : BOOLEAN, since : Nat]
      \cup [kind : {"policy"}, id : Policies, row : PolicyRow,
            notify : Customers, archive : BOOLEAN, since : Nat]
      \cup [kind : {"claim"}, id : Claims, row : ClaimRow,
            notify : Customers, archive : BOOLEAN, since : Nat]

\* A computation: idle, customer row fetched, policies listed and some of their
\* claims read, or evaluated.
Idle == [pc |-> "idle"]
Fetched == [pc : {"fetched"}, origin : {"task", "web", "batch"}, cust : Customers,
            tries : 0..MaxRetries, age : Ages]
Listed  == [pc : {"listed"}, origin : {"task", "web", "batch"}, cust : Customers,
            tries : 0..MaxRetries, age : Ages,
            covers : UNION {[S -> Covers] : S \in SUBSET Policies},
            unread : SUBSET Policies,     \* listed, their claims not read yet
            losses : UNION {[S -> Losses] : S \in SUBSET Claims}]
Scored  == [pc : {"scored"}, origin : {"task", "web", "batch"}, cust : Customers,
            tries : 0..MaxRetries, score : Scores]
Computations == {Idle} \cup Fetched \cup Listed \cup Scored

TypeOK ==
    /\ customer \in [Customers -> CustomerRow]
    /\ policy \in [Policies -> PolicyRow]
    /\ claim \in [Claims -> ClaimRow]
    /\ assessment \in [Customers -> Assessment]
    /\ draft \in [Editors -> Drafts]
    /\ hooks \in [Customers -> Nat]
    /\ queue \in [Customers -> [0..MaxRetries -> Nat]]
    /\ proc \in [Procs -> Computations]
    /\ failed \subseteq Customers /\ lost \subseteq Customers
    /\ now \in Nat /\ requests \in Nat
-----------------------------------------------------------------------------
Live(row) == row.status = "live"
Assessed(c) == assessment[c].score # Unscored

\* customer.policies.all() and policy.claims.all(), through the live managers.
LivePolicies(c) == {p \in Policies : Live(policy[p]) /\ policy[p].owner = c}
LiveClaims(ps)  == {k \in Claims : Live(claim[k]) /\ claim[k].policy \in ps}

FactsOf(c) ==
    [age    |-> customer[c].age,
     covers |-> [p \in LivePolicies(c) |-> policy[p].cover],
     losses |-> [k \in LiveClaims(LivePolicies(c)) |-> claim[k].loss]]

\* RiskAssessmentSerializer._is_stale, when the customer is live.
IsStale(c) ==
    \/ customer[c].updated > assessment[c].at
    \/ \E p \in LivePolicies(c) : policy[p].updated > assessment[c].at
    \/ \E k \in LiveClaims(LivePolicies(c)) : claim[k].updated > assessment[c].at

\* A message, a callback or a worker still owes customer c a recompute.
Owed(c) ==
    \/ hooks[c] > 0
    \/ \E r \in 0..MaxRetries : queue[c][r] > 0
    \/ \E w \in Workers : proc[w].pc # "idle" /\ proc[w].cust = c
-----------------------------------------------------------------------------
\* A book at rest: every record absent or live, scored customers scored right.
Init ==
    /\ customer \in [Customers -> {r \in [status : {"absent", "live"}, age : Ages,
                                          mirror : Scores \cup {Unscored}, updated : {0}] :
                                     r.status = "absent" => r.mirror = Unscored}]
    /\ policy \in [Policies -> [status : {"absent", "live"}, owner : Customers,
                                cover : Covers, updated : {0}]]
    /\ claim \in [Claims -> [status : {"absent", "live"}, policy : Policies,
                             loss : Losses, updated : {0}]]
    /\ \A p \in Policies : Live(policy[p]) => Live(customer[policy[p].owner])
    /\ \A k \in Claims : Live(claim[k]) => Live(policy[claim[k].policy])
    /\ \A c \in Customers : customer[c].mirror \in {Unscored, Score(FactsOf(c))}
    /\ assessment = [c \in Customers |-> [score |-> customer[c].mirror, at |-> 0]]
    /\ draft = [e \in Editors |-> NoDraft]
    /\ hooks = [c \in Customers |-> 0]
    /\ queue = [c \in Customers |-> [r \in 0..MaxRetries |-> 0]]
    /\ proc = [p \in Procs |-> Idle]
    /\ failed = {} /\ lost = {} /\ now = 0 /\ requests = 0
-----------------------------------------------------------------------------
(* Record writes: a view reads the row and validates outside its           *)
(* transaction (Begin), then saves inside one (Commit). serializer.save()  *)
(* writes every column of the instance it read; a DELETE writes only       *)
(* archived_at and updated_at.                                             *)

Begin(e, d) ==
    /\ draft[e] = NoDraft
    /\ requests < MaxRequests
    /\ draft' = [draft EXCEPT ![e] = d]
    /\ requests' = requests + 1
    /\ UNCHANGED <<customer, policy, claim, assessment, hooks, queue, proc, failed, lost, now>>

\* Primary keys are handed out once: no other request is creating this row.
Fresh(kind, id, row) ==
    /\ row.status = "absent"
    /\ \A e \in Editors : draft[e].kind = kind => draft[e].id # id

\* POST, PATCH or DELETE of a customer.
BeginCustomer(e) ==
    \E c \in Customers, archive \in BOOLEAN :
       /\ Live(customer[c]) \/ (~archive /\ Fresh("customer", c, customer[c]))
       /\ \E a \in Ages :
             /\ archive => a = customer[c].age
             /\ Begin(e, [kind |-> "customer", id |-> c, notify |-> c, archive |-> archive,
                          row |-> [customer[c] EXCEPT !.status = "live", !.age = a],
                          since |-> now + 1])

\* The customers a policy payload may name: the field refuses archived ones;
\* a PATCH that omits it keeps the owner without looking at it.
Nameable(p) ==
    IF Live(policy[p]) /\ ~MovePolicies
      THEN {policy[p].owner}
      ELSE {c \in Customers : Live(customer[c])}
             \cup (IF Live(policy[p]) THEN {policy[p].owner} ELSE {})

\* The rules on dates and on one live policy per type, which only refuse, are
\* left out.
BeginPolicy(e) ==
    \E p \in Policies, archive \in BOOLEAN :
       /\ Live(policy[p]) \/ (~archive /\ Fresh("policy", p, policy[p]))
       /\ \E c \in Nameable(p), v \in Covers :
             /\ archive => c = policy[p].owner /\ v = policy[p].cover
             /\ Begin(e, [kind |-> "policy", id |-> p, notify |-> c, archive |-> archive,
                          row |-> [policy[p] EXCEPT !.status = "live", !.owner = c, !.cover = v],
                          since |-> now + 1])

\* A claim names its policy once, at creation. The customer its save will
\* notify is the owner of the policy instance read here (select_related).
BeginClaim(e) ==
    \E k \in Claims, archive \in BOOLEAN, p \in Policies, v \in Losses :
       /\ \/ Live(claim[k]) /\ p = claim[k].policy
          \/ ~archive /\ Fresh("claim", k, claim[k]) /\ Live(policy[p])
       /\ archive => v = claim[k].loss
       /\ Begin(e, [kind |-> "claim", id |-> k, notify |-> policy[p].owner, archive |-> archive,
                    row |-> [claim[k] EXCEPT !.status = "live", !.policy = p, !.loss = v],
                    since |-> now + 1])

\* What the UPDATE or INSERT of draft d leaves of the stored row.
Saved(d, stored, t) ==
    IF d.archive THEN [stored EXCEPT !.status = "archived", !.updated = t]
                 ELSE [d.row EXCEPT !.updated = t]

\* Fault variant: no receiver is connected for post_save of Customer.
NotifyNotCustomer(d) ==
    IF d.kind = "customer" THEN hooks ELSE [hooks EXCEPT ![d.notify] = @ + 1]

\* Fault variant: archive() writes without sending post_save.
NotifySilentArchive(d) ==
    IF d.archive THEN hooks ELSE [hooks EXCEPT ![d.notify] = @ + 1]

\* The post_save receivers: one on_commit callback, whatever was written.
Notify(d) == [hooks EXCEPT ![d.notify] = @ + 1]

\* The transaction of a write. auto_now stamps the row at some instant since
\* it was read.
Commit(e) ==
    /\ draft[e] # NoDraft
    /\ LET d == draft[e] IN
         /\ \E t \in d.since .. now + 1 :
               /\ customer' = IF d.kind = "customer"
                                THEN [customer EXCEPT ![d.id] = Saved(d, @, t)] ELSE customer
               /\ policy' = IF d.kind = "policy"
                              THEN [policy EXCEPT ![d.id] = Saved(d, @, t)] ELSE policy
               /\ claim' = IF d.kind = "claim"
                             THEN [claim EXCEPT ![d.id] = Saved(d, @, t)] ELSE claim
         /\ hooks' = Notify(d)
    /\ draft' = [draft EXCEPT ![e] = NoDraft]
    /\ UNCHANGED <<assessment, queue, proc, failed, lost, now, requests>>

\* apply_async: one more message for c, with r retries behind it.
Enqueue(c, r) == queue' = [queue EXCEPT ![c][r] = @ + 1]

\* Fault variant: no second message while a worker is on the customer.
RunHookDeduplicated(c) ==
    /\ hooks[c] > 0
    /\ hooks' = [hooks EXCEPT ![c] = @ - 1]
    /\ IF \E w \in Workers : proc[w].pc # "idle" /\ proc[w].cust = c
         THEN UNCHANGED queue ELSE Enqueue(c, 0)
    /\ UNCHANGED <<customer, policy, claim, assessment, draft, proc, failed, lost, now, requests>>

\* The callback enqueues the task.
RunHook(c) ==
    /\ hooks[c] > 0
    /\ hooks' = [hooks EXCEPT ![c] = @ - 1]
    /\ Enqueue(c, 0)
    /\ UNCHANGED <<customer, policy, claim, assessment, draft, proc, failed, lost, now, requests>>

\* The callback raises, or never runs: the write stays, the message is lost.
LoseHook(c) ==
    /\ "broker" \in Faults
    /\ hooks[c] > 0
    /\ hooks' = [hooks EXCEPT ![c] = @ - 1]
    /\ lost' = lost \cup {c}
    /\ UNCHANGED <<customer, policy, claim, assessment, draft, queue, proc, failed, now, requests>>
-----------------------------------------------------------------------------
(* engine.score_customer and engine.persist, shared by every caller.       *)

\* The second query, customer.policies.all().
List(p) ==
    proc' = [proc EXCEPT ![p] =
               [pc |-> "listed", origin |-> @.origin, cust |-> @.cust, tries |-> @.tries,
                age |-> @.age,
                covers |-> [q \in LivePolicies(@.cust) |-> policy[q].cover],
                unread |-> LivePolicies(@.cust), losses |-> [k \in {} |-> 0]]]

\* The queries policy.claims.all(), one after another in any order; the batch
\* has prefetched the claims of all policies in one.
ReadClaims(p) ==
    /\ proc[p].pc = "listed"
    /\ \E q \in proc[p].unread :
          LET qs   == IF proc[p].origin = "batch" THEN proc[p].unread ELSE {q}
              read == LiveClaims(qs)
              old  == proc[p].losses
          IN  proc' = [proc EXCEPT
                 ![p].unread = @ \ qs,
                 ![p].losses = [k \in DOMAIN old \cup read |->
                                  IF k \in read THEN claim[k].loss ELSE old[k]]]
    /\ UNCHANGED <<customer, policy, claim, assessment, draft, hooks, queue,
                   failed, lost, now, requests>>

\* All is read, and the rules are applied.
EvaluateRules(p) ==
    /\ proc[p].pc = "listed" /\ proc[p].unread = {}
    /\ LET facts == [age |-> proc[p].age, covers |-> proc[p].covers, losses |-> proc[p].losses]
       IN  proc' = [proc EXCEPT ![p] =
                      [pc |-> "scored", origin |-> @.origin, cust |-> @.cust,
                       tries |-> @.tries, score |-> Score(facts)]]
    /\ UNCHANGED <<customer, policy, claim, assessment, draft, hooks, queue,
                   failed, lost, now, requests>>

\* Fault variant: the mirror's updated_at is a later instant than computed_at.
PersistTwoClocks(p) ==
    LET c == proc[p].cust
        s == proc[p].score
    IN  /\ customer' = [customer EXCEPT ![c].mirror = s, ![c].updated = now + 2]
        /\ assessment' = [assessment EXCEPT ![c] = [score |-> s, at |-> now + 1]]
        /\ now' = now + 1
        /\ failed' = failed \ {c} /\ lost' = lost \ {c}

\* persist() under the customer's row lock: mirror, updated_at and assessment
\* carry one timestamp. The update() of the mirror sends no signal.
Persist(p) ==
    LET c == proc[p].cust
        s == proc[p].score
    IN  /\ customer' = [customer EXCEPT ![c].mirror = s, ![c].updated = now + 1]
        /\ assessment' = [assessment EXCEPT ![c] = [score |-> s, at |-> now + 1]]
        /\ now' = now + 1
        /\ failed' = failed \ {c} /\ lost' = lost \ {c}

\* Fault variant: persist locks the row through the manager that sees archived rows.
PersistableArchived(p) == proc[p].pc = "scored"

\* objects.select_for_update().get() finds no live customer otherwise.
Persistable(p) == proc[p].pc = "scored" /\ Live(customer[proc[p].cust])
-----------------------------------------------------------------------------
(* The Celery task. Messages are acknowledged when taken.                  *)

\* Customer.objects.get: no live customer, nothing to do.
TaskStart(w, c, r) ==
    /\ proc[w] = Idle
    /\ queue[c][r] > 0
    /\ queue' = [queue EXCEPT ![c][r] = @ - 1]
    /\ proc' = IF Live(customer[c])
                 THEN [proc EXCEPT ![w] = [pc |-> "fetched", origin |-> "task", cust |-> c,
                                           tries |-> r, age |-> customer[c].age]]
                 ELSE proc
    /\ UNCHANGED <<customer, policy, claim, assessment, draft, hooks, failed, lost, now, requests>>

\* Fault variant: the task does not ask whether an assessment exists.
TaskListUnchecked(w) ==
    /\ proc[w].pc = "fetched"
    /\ List(w)
    /\ UNCHANGED <<customer, policy, claim, assessment, draft, hooks, queue,
                   failed, lost, now, requests>>

\* A task never creates an assessment; then score_customer starts reading.
TaskList(w) ==
    /\ proc[w].pc = "fetched"
    /\ IF Assessed(proc[w].cust) THEN List(w) ELSE proc' = [proc EXCEPT ![w] = Idle]
    /\ UNCHANGED <<customer, policy, claim, assessment, draft, hooks, queue,
                   failed, lost, now, requests>>

TaskPersist(w) ==
    /\ Persistable(w)
    /\ Persist(w)
    /\ proc' = [proc EXCEPT ![w] = Idle]
    /\ UNCHANGED <<policy, claim, draft, hooks, queue, requests>>

\* Fault variant: the message is sent again with the retry count it had.
RetryForever(w) ==
    /\ Enqueue(proc[w].cust, proc[w].tries)
    /\ proc' = [proc EXCEPT ![w] = Idle]
    /\ UNCHANGED failed

\* Fault variant: the task has no on_failure, and gives up without a word.
RetryUnrecorded(w) ==
    /\ IF proc[w].tries < MaxRetries THEN Enqueue(proc[w].cust, proc[w].tries + 1)
                                     ELSE UNCHANGED queue
    /\ proc' = [proc EXCEPT ![w] = Idle]
    /\ UNCHANGED failed

\* Fault variant: a retry acknowledges the message a second time.
RetryAcknowledgedTwice(w) ==
    LET c == proc[w].cust
        r == proc[w].tries
    IN  /\ \/ /\ r < MaxRetries
              /\ queue' = [queue EXCEPT ![c][r] = @ - 1, ![c][r + 1] = @ + 1]
              /\ UNCHANGED failed
           \/ /\ r = MaxRetries
              /\ failed' = failed \cup {c}
              /\ UNCHANGED queue
        /\ proc' = [proc EXCEPT ![w] = Idle]

\* autoretry_for: the message again with one more retry, or on_failure.
Retry(w) ==
    LET c == proc[w].cust
        r == proc[w].tries
    IN  /\ \/ /\ r < MaxRetries
              /\ Enqueue(c, r + 1)
              /\ UNCHANGED failed
           \/ /\ r = MaxRetries
              /\ failed' = failed \cup {c}
              /\ UNCHANGED queue
        /\ proc' = [proc EXCEPT ![w] = Idle]

\* Any exception of the body, among them persist() finding no live customer.
TaskRaises(w) ==
    /\ \/ proc[w].pc # "idle" /\ "error" \in Faults
       \/ proc[w].pc = "scored" /\ ~Live(customer[proc[w].cust])
    /\ Retry(w)
    /\ UNCHANGED <<customer, policy, claim, assessment, draft, hooks, lost, now, requests>>

WorkerCrash(w) ==
    /\ "crash" \in Faults
    /\ proc[w].pc # "idle"
    /\ lost' = lost \cup {proc[w].cust}
    /\ proc' = [proc EXCEPT ![w] = Idle]
    /\ UNCHANGED <<customer, policy, claim, assessment, draft, hooks, queue, failed, now, requests>>
-----------------------------------------------------------------------------
(* POST /recompute/, and one customer's turn in computerisk, whose         *)
(* prefetched reads all precede its first persist.                         *)

\* The view fetches the customer and answers 422 without a live policy.
ManualStart(m, origin) ==
    /\ proc[m] = Idle
    /\ requests < MaxRequests
    /\ \E c \in Customers :
          /\ Live(customer[c])
          /\ origin = "web" => LivePolicies(c) # {}
          /\ proc' = [proc EXCEPT ![m] = [pc |-> "fetched", origin |-> origin, cust |-> c,
                                          tries |-> 0, age |-> customer[c].age]]
    /\ requests' = requests + 1
    /\ UNCHANGED <<customer, policy, claim, assessment, draft, hooks, queue, failed, lost, now>>

\* The batch skips a customer whose prefetched policies are empty.
ManualList(m) ==
    /\ proc[m].pc = "fetched"
    /\ IF proc[m].origin = "batch" /\ LivePolicies(proc[m].cust) = {}
         THEN proc' = [proc EXCEPT ![m] = Idle]
         ELSE List(m)
    /\ UNCHANGED <<customer, policy, claim, assessment, draft, hooks, queue,
                   failed, lost, now, requests>>

ManualPersist(m) ==
    /\ Persistable(m)
    /\ Persist(m)
    /\ proc' = [proc EXCEPT ![m] = Idle]
    /\ UNCHANGED <<policy, claim, draft, hooks, queue, requests>>

\* The customer was archived meanwhile: a 500, or one more "failed" in the batch.
ManualRefused(m) ==
    /\ proc[m].pc = "scored" /\ ~Live(customer[proc[m].cust])
    /\ proc' = [proc EXCEPT ![m] = Idle]
    /\ UNCHANGED <<customer, policy, claim, assessment, draft, hooks, queue,
                   failed, lost, now, requests>>
-----------------------------------------------------------------------------
Write(e) == BeginCustomer(e) \/ BeginPolicy(e) \/ BeginClaim(e) \/ Commit(e)

Run(w) ==
    \/ \E c \in Customers, r \in 0..MaxRetries : TaskStart(w, c, r)
    \/ TaskList(w) \/ ReadClaims(w) \/ EvaluateRules(w) \/ TaskPersist(w)
    \/ TaskRaises(w)

Task(w) == Run(w) \/ WorkerCrash(w)

Manual(m) ==
    \/ ManualStart(m, "web") \/ ManualStart(m, "batch")
    \/ ManualList(m) \/ ReadClaims(m) \/ EvaluateRules(m)
    \/ ManualPersist(m) \/ ManualRefused(m)

Next ==
    \/ \E e \in Editors : Write(e)
    \/ \E c \in Customers : RunHook(c) \/ LoseHook(c)
    \/ \E w \in Workers : Task(w)
    \/ \E m \in Managers : Manual(m)

Spec == Init /\ [][Next]_vars

\* The same while no delivery is lost.
LosslessNext ==
    \/ \E e \in Editors : Write(e)
    \/ \E c \in Customers : RunHook(c)
    \/ \E w \in Workers : Run(w)
    \/ \E m \in Managers : Manual(m)

\* Callbacks run and workers take and finish messages; nobody must write, and
\* no fault must happen.
Progress(w) ==
    \/ \E c \in Customers, r \in 0..MaxRetries : TaskStart(w, c, r)
    \/ TaskList(w) \/ ReadClaims(w) \/ EvaluateRules(w) \/ TaskPersist(w)
    \/ proc[w].pc = "scored" /\ TaskRaises(w)

FairSpec ==
    /\ Init /\ [][LosslessNext]_vars
    /\ \A c \in Customers : WF_vars(RunHook(c))
    /\ \A w \in Workers : WF_vars(Progress(w))
-----------------------------------------------------------------------------
\* The risk_score mirror of a live customer shows the assessed score, unless
\* the recompute that repairs a PATCH over an old copy of the row is still
\* owed, was recorded as failed, or was lost on its way.
MirrorKept ==
    \A c \in Customers :
       Live(customer[c]) /\ Assessed(c) /\ customer[c].mirror # assessment[c].score
         => Owed(c) \/ c \in failed \/ c \in lost

\* "A customer's finally-computed score is never provably wrong": once nothing
\* is owed and nothing failed or got lost, a stored score is the score of the
\* customer's current data (specs/006 edge cases).
SettledIsCurrent ==
    \A c \in Customers :
       Live(customer[c]) /\ Assessed(c) /\ ~Owed(c) /\ c \notin failed \cup lost
         => assessment[c].score = Score(FactsOf(c))

\* What the code promises as a whole. A recompute recorded as failed, or lost, is
\* still due.
Book == INSTANCE ScoreBook
          WITH live  <- {c \in Customers : Live(customer[c])},
               facts <- [c \in Customers |-> FactsOf(c)],
               score <- [c \in Customers |-> assessment[c].score],
               due   <- {c \in Customers : Owed(c)} \cup failed \cup lost

\* Automatic recompute implements that promise: data change only by making a
\* recompute due, scores change only when one is, and nothing but the score of
\* the current data settles it (signals.py, recompute_customer_risk, persist).
ImplementsScoreBook == Book!Spec

\* An assessment that no longer matches the data is flagged is_stale, the
\* "safe direction" of RiskAssessmentSerializer, at least when no recompute is
\* under way to replace it.
NoStaleAsFresh ==
    \A c \in Customers :
       Live(customer[c]) /\ Assessed(c) /\ ~Owed(c) /\ assessment[c].score # Score(FactsOf(c))
         => IsStale(c)

\* Archiving wins over a computation under way: no assessment of a customer
\* that is not live is ever written (Customer.objects in persist).
ArchivedUntouched ==
    [][\A c \in Customers : assessment'[c] # assessment[c] => Live(customer[c])]_vars

\* Automatic recompute never scores a customer for the first time: only an
\* on-demand or batch computation creates an assessment, and none is removed.
FirstScoreIsManual ==
    [][\A c \in Customers :
          /\ Assessed(c) => Assessed(c)'
          /\ ~Assessed(c) /\ Assessed(c)' =>
                \E m \in Managers : proc[m].pc = "scored" /\ proc[m].cust = c /\ proc'[m] = Idle]_vars

\* One worker: whatever the interleaving of writes, callbacks, tasks and their
\* retries, scores end up at the current data and stay there, or the failure of
\* the last recompute is on record.
EventuallyCurrent ==
    \A c \in Customers :
       <>[](Live(customer[c]) /\ Assessed(c) /\ c \notin failed
              => assessment[c].score = Score(FactsOf(c)))

\* Retries end: with errors, no customer is owed a recompute for ever.
EventuallySettled == \A c \in Customers : <>[](~Owed(c))
=============================================================================
