------------------------- MODULE RiskRecomputeProofs -------------------------
(***************************************************************************)
(* Proofs about RiskRecompute and RiskFreshness for every set of records,  *)
(* rule set, number of workers, faults and bounds the assumptions allow.   *)
(***************************************************************************)
EXTENDS RiskFreshness, TLAPS

\* A process in a computation is past idle and its fields have their types.
LEMMA ComputationFields ==
    ASSUME NEW x \in Computations
    PROVE  /\ x.pc \in {"idle", "fetched", "listed", "scored"}
           /\ x.pc = "idle" => x = Idle
           /\ x.pc = "fetched" => x \in Fetched
           /\ x.pc = "listed" => x \in Listed
           /\ x.pc = "scored" => x \in Scored
           /\ x.pc # "idle" => x.cust \in Customers /\ x.tries \in 0..MaxRetries
BY DEF Computations, Idle, Fetched, Listed, Scored

\* A draft that is not NoDraft writes one row and notifies one customer.
LEMMA DraftFields ==
    ASSUME NEW d \in Drafts, d # NoDraft
    PROVE  /\ d.kind \in {"customer", "policy", "claim"}
           /\ d.notify \in Customers /\ d.archive \in BOOLEAN /\ d.since \in Nat
           /\ d.kind = "customer" => d.id \in Customers /\ d.row \in CustomerRow
           /\ d.kind = "policy" => d.id \in Policies /\ d.row \in PolicyRow
           /\ d.kind = "claim" => d.id \in Claims /\ d.row \in ClaimRow
BY DEF Drafts, NoDraft

\* The initial book is well typed.
LEMMA InitTypeOK == Init => TypeOK
<1> SUFFICES ASSUME Init PROVE TypeOK
  OBVIOUS
<1> USE BoundsAssumption
<1>1. customer \in [Customers -> CustomerRow]
  BY DEF Init, CustomerRow, Statuses
<1>2. policy \in [Policies -> PolicyRow] /\ claim \in [Claims -> ClaimRow]
  BY DEF Init, PolicyRow, ClaimRow, Statuses
<1>3. assessment \in [Customers -> Assessment]
  BY <1>1 DEF Init, Assessment, CustomerRow
<1>4. draft \in [Editors -> Drafts] /\ proc \in [Procs -> Computations]
  BY DEF Init, Drafts, Computations
<1>5. queue \in [Customers -> [0..MaxRetries -> Nat]]
  BY DEF Init
<1> QED
  BY <1>1, <1>2, <1>3, <1>4, <1>5 DEF Init, TypeOK

\* A request that begins stores a well typed draft and changes no row.
LEMMA BeginTypeOK ==
    ASSUME TypeOK, NEW e \in Editors
    PROVE  /\ BeginCustomer(e) => TypeOK'
           /\ BeginPolicy(e) => TypeOK'
           /\ BeginClaim(e) => TypeOK'
<1>1. ASSUME NEW d \in Drafts, Begin(e, d)
      PROVE  TypeOK'
  BY <1>1 DEF TypeOK, Begin
<1>2. ASSUME BeginCustomer(e) PROVE TypeOK'
  <2>1. PICK c \in Customers, archive \in BOOLEAN, a \in Ages :
            Begin(e, [kind |-> "customer", id |-> c, notify |-> c, archive |-> archive,
                      row |-> [customer[c] EXCEPT !.status = "live", !.age = a],
                      since |-> now + 1])
    BY <1>2 DEF BeginCustomer
  <2>2. [customer[c] EXCEPT !.status = "live", !.age = a] \in CustomerRow
    BY DEF TypeOK, CustomerRow, Statuses
  <2>3. now + 1 \in Nat
    BY DEF TypeOK
  <2> QED
    BY <1>1, <2>1, <2>2, <2>3 DEF Drafts
<1>3. ASSUME BeginPolicy(e) PROVE TypeOK'
  <2>0. \A p \in Policies : Nameable(p) \subseteq Customers
    BY DEF Nameable, TypeOK, PolicyRow
  <2>1. PICK p \in Policies, archive \in BOOLEAN, c \in Customers, v \in Covers :
            Begin(e, [kind |-> "policy", id |-> p, notify |-> c, archive |-> archive,
                      row |-> [policy[p] EXCEPT !.status = "live", !.owner = c, !.cover = v],
                      since |-> now + 1])
    BY <1>3, <2>0 DEF BeginPolicy
  <2>3. [policy[p] EXCEPT !.status = "live", !.owner = c, !.cover = v] \in PolicyRow
    BY DEF TypeOK, PolicyRow, Statuses
  <2>4. now + 1 \in Nat
    BY DEF TypeOK
  <2> QED
    BY <1>1, <2>1, <2>3, <2>4 DEF Drafts
<1>4. ASSUME BeginClaim(e) PROVE TypeOK'
  <2>1. PICK k \in Claims, archive \in BOOLEAN, p \in Policies, v \in Losses :
            Begin(e, [kind |-> "claim", id |-> k, notify |-> policy[p].owner,
                      archive |-> archive,
                      row |-> [claim[k] EXCEPT !.status = "live", !.policy = p, !.loss = v],
                      since |-> now + 1])
    BY <1>4 DEF BeginClaim
  <2>2. policy[p].owner \in Customers
    BY DEF TypeOK, PolicyRow
  <2>3. [claim[k] EXCEPT !.status = "live", !.policy = p, !.loss = v] \in ClaimRow
    BY DEF TypeOK, ClaimRow, Statuses
  <2>4. now + 1 \in Nat
    BY DEF TypeOK
  <2> QED
    BY <1>1, <2>1, <2>2, <2>3, <2>4 DEF Drafts
<1> QED
  BY <1>2, <1>3, <1>4

\* A committed write leaves well typed rows and one more callback.
LEMMA CommitTypeOK ==
    ASSUME TypeOK, NEW e \in Editors, Commit(e)
    PROVE  TypeOK'
<1> DEFINE d == draft[e]
<1>1. d \in Drafts /\ d # NoDraft
  BY DEF TypeOK, Commit
<1>2. PICK t \in d.since .. now + 1 :
         /\ customer' = IF d.kind = "customer"
                          THEN [customer EXCEPT ![d.id] = Saved(d, @, t)] ELSE customer
         /\ policy' = IF d.kind = "policy"
                        THEN [policy EXCEPT ![d.id] = Saved(d, @, t)] ELSE policy
         /\ claim' = IF d.kind = "claim"
                       THEN [claim EXCEPT ![d.id] = Saved(d, @, t)] ELSE claim
  BY DEF Commit
<1>3. t \in Nat
  BY <1>1, DraftFields DEF TypeOK
<1> HIDE DEF d
<1>4. customer' \in [Customers -> CustomerRow]
  <2>1. CASE d.kind = "customer"
    <3>1. d.id \in Customers /\ d.row \in CustomerRow /\ customer[d.id] \in CustomerRow
      BY <1>1, <2>1, DraftFields DEF TypeOK
    <3>2. Saved(d, customer[d.id], t) \in CustomerRow
      BY <1>3, <3>1 DEF Saved, CustomerRow, Statuses
    <3> QED
      BY <1>2, <2>1, <3>1, <3>2 DEF TypeOK
  <2> QED
    BY <1>2, <2>1 DEF TypeOK
<1>5. policy' \in [Policies -> PolicyRow]
  <2>1. CASE d.kind = "policy"
    <3>1. d.id \in Policies /\ d.row \in PolicyRow /\ policy[d.id] \in PolicyRow
      BY <1>1, <2>1, DraftFields DEF TypeOK
    <3>2. Saved(d, policy[d.id], t) \in PolicyRow
      BY <1>3, <3>1 DEF Saved, PolicyRow, Statuses
    <3> QED
      BY <1>2, <2>1, <3>1, <3>2 DEF TypeOK
  <2> QED
    BY <1>2, <2>1 DEF TypeOK
<1>6. claim' \in [Claims -> ClaimRow]
  <2>1. CASE d.kind = "claim"
    <3>1. d.id \in Claims /\ d.row \in ClaimRow /\ claim[d.id] \in ClaimRow
      BY <1>1, <2>1, DraftFields DEF TypeOK
    <3>2. Saved(d, claim[d.id], t) \in ClaimRow
      BY <1>3, <3>1 DEF Saved, ClaimRow, Statuses
    <3> QED
      BY <1>2, <2>1, <3>1, <3>2 DEF TypeOK
  <2> QED
    BY <1>2, <2>1 DEF TypeOK
<1>7. hooks' \in [Customers -> Nat]
  BY <1>1, DraftFields DEF TypeOK, Commit, Notify, d
<1>8. draft' \in [Editors -> Drafts]
  BY DEF TypeOK, Commit, Drafts
<1> QED
  BY <1>4, <1>5, <1>6, <1>7, <1>8 DEF TypeOK, Commit
-----------------------------------------------------------------------------
\* One more message leaves a table of counts, with that message in it.
LEMMA OneMoreMessage ==
    ASSUME TypeOK, NEW c \in Customers, NEW r \in 0..MaxRetries, Enqueue(c, r)
    PROVE  /\ queue' \in [Customers -> [0..MaxRetries -> Nat]]
           /\ queue'[c][r] > 0
           /\ \A b \in Customers \ {c} : queue'[b] = queue[b]
<1> DEFINE J == 0..MaxRetries
<1>1. queue \in [Customers -> [J -> Nat]] /\ r \in J
  BY DEF TypeOK
<1> HIDE DEF J
<1>2. queue[c] \in [J -> Nat] /\ queue[c][r] + 1 \in Nat /\ queue[c][r] + 1 > 0
  BY <1>1
<1>3. [queue[c] EXCEPT ![r] = queue[c][r] + 1] \in [J -> Nat]
  BY <1>2
<1>4. queue' = [queue EXCEPT ![c] = [queue[c] EXCEPT ![r] = queue[c][r] + 1]]
  BY DEF Enqueue
<1> QED
  BY <1>1, <1>2, <1>3, <1>4 DEF J

\* A callback that runs or is lost leaves counts natural and c a customer.
LEMMA HookTypeOK ==
    ASSUME TypeOK, NEW c \in Customers, RunHook(c) \/ LoseHook(c)
    PROVE  TypeOK'
<1>0. 0 \in 0..MaxRetries
  BY BoundsAssumption
<1>1. CASE RunHook(c)
  <2>1. hooks' \in [Customers -> Nat]
    BY <1>1 DEF RunHook, TypeOK
  <2>2. queue' \in [Customers -> [0..MaxRetries -> Nat]]
    BY <1>0, <1>1, OneMoreMessage DEF RunHook
  <2> QED
    BY <1>1, <2>1, <2>2 DEF RunHook, TypeOK
<1>2. CASE LoseHook(c)
  <2>1. hooks' \in [Customers -> Nat]
    BY <1>2 DEF LoseHook, TypeOK
  <2> QED
    BY <1>2, <2>1 DEF LoseHook, TypeOK
<1> QED
  BY <1>1, <1>2

\* What score_customer has read has the type of its arguments.
LEMMA ListTypeOK ==
    ASSUME TypeOK, NEW p \in Procs, proc[p].pc = "fetched", List(p)
    PROVE  proc' \in [Procs -> Computations]
<1> DEFINE x == proc[p]
           cs == [q \in LivePolicies(x.cust) |-> policy[q].cover]
           ls == [k \in {} |-> 0]
           y == [pc |-> "listed", origin |-> x.origin, cust |-> x.cust, tries |-> x.tries,
                 age |-> x.age, covers |-> cs, unread |-> LivePolicies(x.cust), losses |-> ls]
<1>1. x \in Fetched
  BY ComputationFields DEF TypeOK
<1>2. LivePolicies(x.cust) \in SUBSET Policies
  BY DEF LivePolicies
<1>3. cs \in [LivePolicies(x.cust) -> Covers]
  BY <1>2 DEF TypeOK, PolicyRow
<1>4. cs \in UNION {[S -> Covers] : S \in SUBSET Policies}
  BY <1>2, <1>3
<1>5. ls \in UNION {[S -> Losses] : S \in SUBSET Claims}
  <2>1. ls \in [{} -> Losses] /\ {} \in SUBSET Claims
    OBVIOUS
  <2> HIDE DEF ls
  <2> QED BY <2>1
<1>6. y \in Listed
  <2> HIDE DEF cs, ls
  <2> QED BY <1>1, <1>2, <1>4, <1>5 DEF Listed, Fetched
<1>7. proc' = [proc EXCEPT ![p] = y]
  BY DEF List
<1> QED
  BY <1>6, <1>7 DEF TypeOK, Computations

\* Reading claims adds those of the policies read, with their losses as they are.
LEMMA ReadFields ==
    ASSUME TypeOK, NEW p \in Procs, ReadClaims(p)
    PROVE  LET x == proc[p]
               y == proc'[p]
               read == LiveClaims(x.unread \ y.unread)
           IN  /\ x \in Listed /\ y \in Listed
               /\ proc' = [proc EXCEPT ![p] = y]
               /\ y.cust = x.cust /\ y.age = x.age /\ y.covers = x.covers
               /\ y.unread \subseteq x.unread
               /\ y.losses = [k \in DOMAIN x.losses \cup read |->
                                 IF k \in read THEN claim[k].loss ELSE x.losses[k]]
<1> DEFINE x == proc[p]
<1>1. x \in Listed /\ proc \in [Procs -> Computations]
  BY ComputationFields DEF TypeOK, ReadClaims
<1>2. PICK q \in x.unread :
       LET qs   == IF x.origin = "batch" THEN x.unread ELSE {q}
           read == LiveClaims(qs)
           old  == x.losses
       IN  proc' = [proc EXCEPT
              ![p].unread = @ \ qs,
              ![p].losses = [k \in DOMAIN old \cup read |->
                               IF k \in read THEN claim[k].loss ELSE old[k]]]
  BY DEF ReadClaims
<1> DEFINE qs   == IF x.origin = "batch" THEN x.unread ELSE {q}
           read == LiveClaims(qs)
           ls   == [k \in DOMAIN x.losses \cup read |->
                      IF k \in read THEN claim[k].loss ELSE x.losses[k]]
           y    == [x EXCEPT !.unread = x.unread \ qs, !.losses = ls]
<1>3. proc' = [proc EXCEPT ![p] = y]
  <2>1. proc' = [proc EXCEPT ![p].unread = x.unread \ qs, ![p].losses = ls]
    BY <1>2
  <2> HIDE DEF ls, qs
  <2> QED BY <1>1, <2>1
<1>4. qs \subseteq x.unread
  OBVIOUS
<1>5. ls \in UNION {[T -> Losses] : T \in SUBSET Claims}
  <2>1. read \subseteq Claims /\ \A k \in read : claim[k].loss \in Losses
    BY DEF LiveClaims, TypeOK, ClaimRow
  <2>2. PICK S \in SUBSET Claims : x.losses \in [S -> Losses]
    BY <1>1 DEF Listed
  <2>3. ls \in [S \cup read -> Losses] /\ S \cup read \in SUBSET Claims
    <3> HIDE DEF read, x
    <3> QED BY <2>1, <2>2
  <2> HIDE DEF ls, read
  <2> QED BY <2>3
<1>6. /\ y \in Listed
      /\ y.cust = x.cust /\ y.age = x.age /\ y.covers = x.covers
      /\ y.unread = x.unread \ qs /\ y.losses = ls
  <2> HIDE DEF ls, qs, x
  <2> QED BY <1>1, <1>4, <1>5 DEF Listed
<1> HIDE DEF x, y
<1>7. proc'[p] = y
  BY <1>1, <1>3
<1>8. x.unread \ y.unread = qs
  BY <1>4, <1>6
<1> QED
  BY <1>1, <1>3, <1>6, <1>7, <1>8 DEF x

\* It keeps the types.
LEMMA ReadTypeOK ==
    ASSUME TypeOK, NEW p \in Procs, ReadClaims(p)
    PROVE  TypeOK'
<1>1. proc' \in [Procs -> Computations]
  BY ReadFields DEF TypeOK, Computations
<1> QED
  BY <1>1 DEF ReadClaims, TypeOK

\* The rule set is applied to facts it is defined on.
LEMMA EvaluateTypeOK ==
    ASSUME TypeOK, NEW p \in Procs, EvaluateRules(p)
    PROVE  TypeOK'
<1> DEFINE x == proc[p]
           facts == [age |-> x.age, covers |-> x.covers, losses |-> x.losses]
           y == [pc |-> "scored", origin |-> x.origin, cust |-> x.cust, tries |-> x.tries,
                 score |-> Score(facts)]
<1>1. x \in Listed
  BY ComputationFields DEF TypeOK, EvaluateRules
<1>2. facts \in Facts
  BY <1>1 DEF Facts, Listed
<1>3. Score(facts) \in Scores
  BY <1>2, ScoreAssumption
<1>4. y \in Scored
  <2> HIDE DEF facts
  <2> QED BY <1>1, <1>3 DEF Scored, Listed
<1>5. proc' = [proc EXCEPT ![p] = y]
  BY DEF EvaluateRules
<1>6. proc' \in [Procs -> Computations]
  BY <1>4, <1>5 DEF TypeOK, Computations
<1> QED
  BY <1>6 DEF EvaluateRules, TypeOK

\* persist() stores a score of the rule set in both places.
LEMMA PersistTypeOK ==
    ASSUME TypeOK, NEW p \in Procs, proc[p].pc = "scored", Persist(p),
           proc' = [proc EXCEPT ![p] = Idle],
           UNCHANGED <<policy, claim, draft, hooks, queue, requests>>
    PROVE  TypeOK'
<1> DEFINE c == proc[p].cust
           s == proc[p].score
<1>1. c \in Customers /\ s \in Scores
  BY ComputationFields DEF TypeOK, Scored
<1> HIDE DEF c, s
<1>2. customer' = [customer EXCEPT ![c].mirror = s, ![c].updated = now + 1]
  BY DEF Persist, c, s
<1>3. assessment' = [assessment EXCEPT ![c] = [score |-> s, at |-> now + 1]]
  BY DEF Persist, c, s
<1>4. now' \in Nat /\ now + 1 \in Nat
  BY DEF Persist, TypeOK
<1>5. customer' \in [Customers -> CustomerRow]
  BY <1>1, <1>2, <1>4 DEF TypeOK, CustomerRow
<1>6. assessment' \in [Customers -> Assessment]
  BY <1>1, <1>3, <1>4 DEF TypeOK, Assessment
<1>7. proc' \in [Procs -> Computations]
  BY DEF TypeOK, Computations
<1>8. failed' \subseteq Customers /\ lost' \subseteq Customers
  BY DEF Persist, TypeOK
<1> QED
  BY <1>4, <1>5, <1>6, <1>7, <1>8 DEF TypeOK

\* The worker's steps.
LEMMA TaskTypeOK ==
    ASSUME TypeOK, NEW w \in Workers, Task(w)
    PROVE  TypeOK'
<1>0. w \in Procs /\ Idle \in Computations
  BY DEF Procs, Computations
<1>1. ASSUME NEW c \in Customers, NEW r \in 0..MaxRetries, TaskStart(w, c, r)
      PROVE  TypeOK'
  <2> DEFINE y == [pc |-> "fetched", origin |-> "task", cust |-> c, tries |-> r,
                   age |-> customer[c].age]
  <2>1. y \in Fetched
    BY DEF Fetched, TypeOK, CustomerRow
  <2>2. proc' = proc \/ proc' = [proc EXCEPT ![w] = y]
    BY <1>1 DEF TaskStart
  <2>3. proc' \in [Procs -> Computations]
    BY <1>0, <2>1, <2>2 DEF TypeOK, Computations
  <2>4. queue' \in [Customers -> [0..MaxRetries -> Nat]]
    <3>1. queue[c][r] \in Nat /\ queue[c][r] > 0
      BY <1>1 DEF TaskStart, TypeOK
    <3>2. queue[c][r] - 1 \in Nat
      BY <3>1
    <3> QED
      BY <1>1, <3>2 DEF TaskStart, TypeOK
  <2> QED
    BY <1>1, <2>3, <2>4 DEF TaskStart, TypeOK
<1>2. CASE TaskList(w)
  <2>1. proc' \in [Procs -> Computations]
    <3>1. CASE Assessed(proc[w].cust)
      BY <1>0, <1>2, <3>1, ListTypeOK DEF TaskList
    <3>2. CASE ~Assessed(proc[w].cust)
      BY <1>0, <1>2, <3>2 DEF TaskList, TypeOK
    <3> QED
      BY <3>1, <3>2
  <2> QED
    BY <1>2, <2>1 DEF TaskList, TypeOK
<1>3. CASE EvaluateRules(w)
  BY <1>0, <1>3, EvaluateTypeOK
<1>4. CASE TaskPersist(w)
  BY <1>0, <1>4, PersistTypeOK DEF TaskPersist, Persistable
<1>5. CASE TaskRaises(w)
  <2> DEFINE c == proc[w].cust
             r == proc[w].tries
  <2>1. c \in Customers /\ r \in 0..MaxRetries
    BY <1>0, <1>5, ComputationFields DEF TaskRaises, TypeOK
  <2>2. proc' \in [Procs -> Computations]
    BY <1>0, <1>5 DEF TaskRaises, Retry, TypeOK
  <2>3. queue' \in [Customers -> [0..MaxRetries -> Nat]]
    <3>1. CASE r < MaxRetries
      <4>1. r + 1 \in 0..MaxRetries
        BY <2>1, <3>1, BoundsAssumption
      <4>2. queue' = queue \/ Enqueue(c, r + 1)
        BY <1>5 DEF TaskRaises, Retry
      <4> QED
        BY <2>1, <4>1, <4>2, OneMoreMessage DEF TypeOK
    <3>2. CASE ~(r < MaxRetries)
      BY <1>5, <3>2 DEF TaskRaises, Retry, TypeOK
    <3> QED
      BY <3>1, <3>2
  <2>4. failed' \subseteq Customers
    BY <1>5, <2>1 DEF TaskRaises, Retry, TypeOK
  <2> QED
    BY <1>5, <2>2, <2>3, <2>4 DEF TaskRaises, TypeOK
<1>6. CASE WorkerCrash(w)
  <2>1. proc[w].cust \in Customers
    BY <1>0, <1>6, ComputationFields DEF WorkerCrash, TypeOK
  <2> QED
    BY <1>0, <1>6, <2>1 DEF WorkerCrash, TypeOK
<1>7. CASE ReadClaims(w)
  BY <1>0, <1>7, ReadTypeOK
<1> QED
  BY <1>1, <1>2, <1>3, <1>4, <1>5, <1>6, <1>7 DEF Task, Run

\* The on-demand and batch steps.
LEMMA ManualTypeOK ==
    ASSUME TypeOK, NEW m \in Managers, Manual(m)
    PROVE  TypeOK'
<1>0. m \in Procs /\ Idle \in Computations
  BY DEF Procs, Computations
<1>1. ASSUME NEW origin \in {"web", "batch"}, ManualStart(m, origin)
      PROVE  TypeOK'
  <2>1. PICK c \in Customers :
            proc' = [proc EXCEPT ![m] = [pc |-> "fetched", origin |-> origin, cust |-> c,
                                         tries |-> 0, age |-> customer[c].age]]
    BY <1>1 DEF ManualStart
  <2>2. [pc |-> "fetched", origin |-> origin, cust |-> c, tries |-> 0,
         age |-> customer[c].age] \in Fetched
    BY BoundsAssumption DEF Fetched, TypeOK, CustomerRow
  <2>3. proc' \in [Procs -> Computations]
    BY <1>0, <2>1, <2>2 DEF TypeOK, Computations
  <2> QED
    BY <1>1, <2>3 DEF ManualStart, TypeOK
<1>2. CASE ManualList(m)
  <2>1. proc' = [proc EXCEPT ![m] = Idle] \/ (proc[m].pc = "fetched" /\ List(m))
    BY <1>2 DEF ManualList
  <2>2. proc' \in [Procs -> Computations]
    BY <1>0, <2>1, ListTypeOK DEF TypeOK
  <2> QED
    BY <1>2, <2>2 DEF ManualList, TypeOK
<1>3. CASE EvaluateRules(m)
  BY <1>0, <1>3, EvaluateTypeOK
<1>4. CASE ManualPersist(m)
  BY <1>0, <1>4, PersistTypeOK DEF ManualPersist, Persistable
<1>5. CASE ManualRefused(m)
  BY <1>0, <1>5 DEF ManualRefused, TypeOK
<1>6. CASE ReadClaims(m)
  BY <1>0, <1>6, ReadTypeOK
<1> QED
  BY <1>1, <1>2, <1>3, <1>4, <1>5, <1>6 DEF Manual

\* Every step keeps the types.
LEMMA NextTypeOK == TypeOK /\ [Next]_vars => TypeOK'
<1> SUFFICES ASSUME TypeOK, [Next]_vars PROVE TypeOK'
  OBVIOUS
<1>1. CASE UNCHANGED vars
  BY <1>1 DEF vars, TypeOK
<1>2. ASSUME NEW e \in Editors, Write(e) PROVE TypeOK'
  BY <1>2, BeginTypeOK, CommitTypeOK DEF Write
<1>3. ASSUME NEW c \in Customers, RunHook(c) \/ LoseHook(c) PROVE TypeOK'
  BY <1>3, HookTypeOK
<1>4. ASSUME NEW w \in Workers, Task(w) PROVE TypeOK'
  BY <1>4, TaskTypeOK
<1>5. ASSUME NEW m \in Managers, Manual(m) PROVE TypeOK'
  BY <1>5, ManualTypeOK
<1> QED
  BY <1>1, <1>2, <1>3, <1>4, <1>5 DEF Next

\* Every reachable state is well typed: counts of callbacks and messages never
\* go negative, retry counts never pass MaxRetries, stored scores are scores.
THEOREM TypeCorrect == Spec => []TypeOK
BY InitTypeOK, NextTypeOK, PTL DEF Spec
-----------------------------------------------------------------------------
\* The step that writes an assessment, for a task, a request or a batch item.
PersistStep(p) ==
    /\ Persistable(p) /\ Persist(p)
    /\ proc' = [proc EXCEPT ![p] = Idle]
    /\ UNCHANGED <<policy, claim, draft, hooks, queue, requests>>

\* Every other step leaves the assessments alone.
LEMMA AssessmentSteps ==
    ASSUME [Next]_vars
    PROVE  \/ assessment' = assessment
           \/ \E p \in Procs : PersistStep(p)
<1>1. CASE UNCHANGED vars
  BY <1>1 DEF vars
<1>2. ASSUME NEW e \in Editors, Write(e) PROVE assessment' = assessment
  BY <1>2 DEF Write, BeginCustomer, BeginPolicy, BeginClaim, Begin, Commit
<1>3. ASSUME NEW c \in Customers, RunHook(c) \/ LoseHook(c) PROVE assessment' = assessment
  BY <1>3 DEF RunHook, LoseHook
<1>4. ASSUME NEW w \in Workers, Task(w)
      PROVE  assessment' = assessment \/ PersistStep(w)
  BY <1>4 DEF Task, Run, TaskStart, TaskList, ReadClaims, EvaluateRules, TaskPersist,
              TaskRaises, WorkerCrash, PersistStep
<1>5. ASSUME NEW m \in Managers, Manual(m)
      PROVE  assessment' = assessment \/ PersistStep(m)
  BY <1>5 DEF Manual, ManualStart, ManualList, ReadClaims, EvaluateRules, ManualPersist,
              ManualRefused, PersistStep
<1> QED
  BY <1>1, <1>2, <1>3, <1>4, <1>5 DEF Next, Procs

\* What a persist writes: one customer's assessment and mirror, with a score.
LEMMA PersistWrites ==
    ASSUME TypeOK, NEW p \in Procs, PersistStep(p)
    PROVE  LET c == proc[p].cust IN
           /\ c \in Customers /\ Live(customer[c])
           /\ assessment'[c].score \in Scores /\ assessment'[c].at = now + 1
           /\ customer'[c].mirror = assessment'[c].score
           /\ customer'[c].updated = now + 1
           /\ \A d \in Customers \ {c} : /\ assessment'[d] = assessment[d]
                                         /\ customer'[d] = customer[d]
           /\ now' = now + 1
<1> DEFINE c == proc[p].cust
           s == proc[p].score
<1>1. c \in Customers /\ s \in Scores
  BY ComputationFields DEF PersistStep, Persistable, TypeOK, Scored
<1>2. Live(customer[c])
  BY DEF PersistStep, Persistable
<1> HIDE DEF c, s
<1>3. /\ customer' = [customer EXCEPT ![c].mirror = s, ![c].updated = now + 1]
      /\ assessment' = [assessment EXCEPT ![c] = [score |-> s, at |-> now + 1]]
      /\ now' = now + 1
  BY DEF PersistStep, Persist, c, s
<1>4. customer \in [Customers -> CustomerRow] /\ assessment \in [Customers -> Assessment]
  BY DEF TypeOK
<1> QED
  BY <1>1, <1>2, <1>3, <1>4 DEF CustomerRow, c

\* An assessment once made stays: persist replaces it, nothing deletes it.
LEMMA AssessedStays ==
    ASSUME TypeOK, [Next]_vars, NEW c \in Customers, Assessed(c)
    PROVE  Assessed(c)'
<1>1. CASE assessment' = assessment
  BY <1>1 DEF Assessed
<1>2. ASSUME NEW p \in Procs, PersistStep(p) PROVE Assessed(c)'
  BY <1>2, PersistWrites, UnscoredAssumption DEF Assessed
<1> QED
  BY <1>1, <1>2, AssessmentSteps

\* A computation under way never writes over an archived customer, whoever runs
\* it and however long ago it read the row: archiving wins the race.
THEOREM ArchivedCustomerUntouched == Spec => ArchivedUntouched
<1>1. ASSUME TypeOK, [Next]_vars, NEW c \in Customers, assessment'[c] # assessment[c]
      PROVE  Live(customer[c])
  <2>1. PICK p \in Procs : PersistStep(p)
    BY <1>1, AssessmentSteps
  <2> QED
    BY <1>1, <2>1, PersistWrites
<1>2. TypeOK /\ [Next]_vars =>
        [\A c \in Customers : assessment'[c] # assessment[c] => Live(customer[c])]_vars
  BY <1>1
<1> QED
  BY <1>2, TypeCorrect, PTL DEF Spec, ArchivedUntouched
-----------------------------------------------------------------------------
\* A worker that has begun to read a customer found an assessment first.
TaskHasAssessment ==
    \A w \in Workers : proc[w].pc \in {"listed", "scored"} => Assessed(proc[w].cust)

\* A step changes at most one process, and a manager's step no worker.
LEMMA WorkerSteps ==
    ASSUME TypeOK, [Next]_vars, NEW w \in Workers
    PROVE  proc'[w] = proc[w] \/ Task(w)
<1>0. Procs = Workers \cup Managers /\ proc \in [Procs -> Computations]
  BY DEF Procs, TypeOK
<1>1. CASE UNCHANGED vars
  BY <1>1 DEF vars
<1>2. ASSUME NEW e \in Editors, Write(e) PROVE proc' = proc
  BY <1>2 DEF Write, BeginCustomer, BeginPolicy, BeginClaim, Begin, Commit
<1>3. ASSUME NEW c \in Customers, RunHook(c) \/ LoseHook(c) PROVE proc' = proc
  BY <1>3 DEF RunHook, LoseHook
<1>4. ASSUME NEW v \in Workers, v # w, Task(v) PROVE proc'[w] = proc[w]
  BY <1>0, <1>4 DEF Task, Run, TaskStart, TaskList, List, ReadClaims, EvaluateRules, TaskPersist,
                    TaskRaises, Retry, WorkerCrash
<1>5. ASSUME NEW m \in Managers, Manual(m) PROVE proc'[w] = proc[w]
  <2>1. m # w
    BY RolesAssumption
  <2> QED
    BY <1>0, <1>5, <2>1 DEF Manual, ManualStart, ManualList, List, ReadClaims, EvaluateRules,
                            ManualPersist, ManualRefused
<1> QED
  BY <1>1, <1>2, <1>3, <1>4, <1>5 DEF Next

\* No worker computes a score for a customer that has none.
LEMMA TaskHasAssessmentStep ==
    ASSUME TypeOK, TaskHasAssessment, [Next]_vars
    PROVE  TaskHasAssessment'
<1> SUFFICES ASSUME NEW w \in Workers, proc'[w].pc \in {"listed", "scored"}
             PROVE  Assessed(proc[w].cust) /\ proc'[w].cust = proc[w].cust
                      /\ proc[w].cust \in Customers
  BY AssessedStays DEF TaskHasAssessment, Assessed
<1>0. proc \in [Procs -> Computations] /\ w \in Procs
  BY DEF TypeOK, Procs
<1>1. CASE proc'[w] = proc[w]
  BY <1>0, <1>1, ComputationFields DEF TaskHasAssessment
<1>2. CASE Task(w)
  <2>1. TaskList(w) \/ ReadClaims(w) \/ EvaluateRules(w)
    BY <1>0, <1>2 DEF Task, Run, TaskStart, TaskPersist, TaskRaises, Retry, WorkerCrash, Idle
  <2>2. CASE TaskList(w)
    BY <1>0, <2>2, ComputationFields DEF TaskList, List, Idle
  <2>3. CASE EvaluateRules(w)
    BY <1>0, <2>3, ComputationFields DEF EvaluateRules, TaskHasAssessment
  <2>4. CASE ReadClaims(w)
    BY <1>0, <2>4, ReadFields, ComputationFields DEF ReadClaims, Listed, TaskHasAssessment
  <2> QED
    BY <2>1, <2>2, <2>3, <2>4
<1> QED
  BY <1>1, <1>2, WorkerSteps

\* Only an on-demand or batch computation gives a customer its first score, and
\* no step takes a score away.
THEOREM FirstScoreNeverAutomatic == Spec => FirstScoreIsManual
<1>1. Init => TaskHasAssessment
  BY DEF Init, TaskHasAssessment, Procs, Idle
<1>2. TypeOK /\ TaskHasAssessment /\ [Next]_vars => TaskHasAssessment'
  BY TaskHasAssessmentStep
<1>3. ASSUME TypeOK, TaskHasAssessment, [Next]_vars, NEW c \in Customers
      PROVE  /\ Assessed(c) => Assessed(c)'
             /\ ~Assessed(c) /\ Assessed(c)' =>
                   \E m \in Managers :
                      proc[m].pc = "scored" /\ proc[m].cust = c /\ proc'[m] = Idle
  <2>1. Assessed(c) => Assessed(c)'
    BY <1>3, AssessedStays
  <2>2. ASSUME ~Assessed(c), Assessed(c)'
        PROVE  \E m \in Managers :
                  proc[m].pc = "scored" /\ proc[m].cust = c /\ proc'[m] = Idle
    <3>1. PICK p \in Procs : PersistStep(p)
      BY <1>3, <2>2, AssessmentSteps DEF Assessed
    <3>2. proc[p].cust = c
      BY <1>3, <2>2, <3>1, PersistWrites DEF Assessed
    <3>3. p \notin Workers
      BY <1>3, <2>2, <3>1, <3>2 DEF TaskHasAssessment, PersistStep, Persistable
    <3> QED
      BY <1>3, <3>1, <3>2, <3>3 DEF Procs, PersistStep, Persistable, TypeOK
  <2> QED
    BY <2>1, <2>2
<1>4. TypeOK /\ TaskHasAssessment /\ [Next]_vars =>
        [\A c \in Customers :
            /\ Assessed(c) => Assessed(c)'
            /\ ~Assessed(c) /\ Assessed(c)' =>
                  \E m \in Managers :
                     proc[m].pc = "scored" /\ proc[m].cust = c /\ proc'[m] = Idle]_vars
  BY <1>3
<1> QED
  BY <1>1, <1>2, <1>4, TypeCorrect, PTL DEF Spec, FirstScoreIsManual
-----------------------------------------------------------------------------
\* A write of a customer notifies that customer.
DraftsNotifyOwn ==
    \A e \in Editors : draft[e].kind = "customer" => draft[e].notify = draft[e].id

\* The mirror of c shows its score.
Mirrored(c) ==
    Live(customer[c]) /\ Assessed(c) => customer[c].mirror = assessment[c].score

\* A difference is owed a recompute or accounted for.
Accounted(c) == Owed(c) \/ c \in failed \/ c \in lost

\* MirrorKept, one customer at a time.
LEMMA MirrorKeptEach == MirrorKept <=> \A c \in Customers : Mirrored(c) \/ Accounted(c)
BY DEF MirrorKept, Mirrored, Accounted

\* Drafts are made by the three Begin actions, and only notify their own.
LEMMA DraftsNotifyOwnStep ==
    ASSUME TypeOK, DraftsNotifyOwn, [Next]_vars
    PROVE  DraftsNotifyOwn'
<1>0. draft \in [Editors -> Drafts]
  BY DEF TypeOK
<1>1. CASE UNCHANGED vars
  BY <1>1 DEF vars, DraftsNotifyOwn
<1>2. ASSUME NEW e \in Editors, Write(e) PROVE DraftsNotifyOwn'
  <2>1. CASE BeginCustomer(e)
    BY <1>0, <2>1 DEF BeginCustomer, Begin, DraftsNotifyOwn
  <2>2. CASE BeginPolicy(e)
    BY <1>0, <2>2 DEF BeginPolicy, Begin, DraftsNotifyOwn
  <2>3. CASE BeginClaim(e)
    BY <1>0, <2>3 DEF BeginClaim, Begin, DraftsNotifyOwn
  <2>4. CASE Commit(e)
    BY <1>0, <2>4 DEF Commit, NoDraft, DraftsNotifyOwn
  <2> QED
    BY <1>2, <2>1, <2>2, <2>3, <2>4 DEF Write
<1>3. ASSUME NEW c \in Customers, RunHook(c) \/ LoseHook(c) PROVE draft' = draft
  BY <1>3 DEF RunHook, LoseHook
<1>4. ASSUME NEW w \in Workers, Task(w) PROVE draft' = draft
  BY <1>4 DEF Task, Run, TaskStart, TaskList, ReadClaims, EvaluateRules, TaskPersist,
              TaskRaises, WorkerCrash
<1>5. ASSUME NEW m \in Managers, Manual(m) PROVE draft' = draft
  BY <1>5 DEF Manual, ManualStart, ManualList, ReadClaims, EvaluateRules, ManualPersist, ManualRefused
<1> QED
  BY <1>1, <1>2, <1>3, <1>4, <1>5 DEF Next, DraftsNotifyOwn

\* A write that changes a customer's row registers a callback for it.
LEMMA WriteKeepsMirror ==
    ASSUME TypeOK, DraftsNotifyOwn, NEW e \in Editors, Write(e),
           NEW c \in Customers, Mirrored(c) \/ Accounted(c)
    PROVE  Mirrored(c)' \/ Accounted(c)'
<1>1. CASE BeginCustomer(e) \/ BeginPolicy(e) \/ BeginClaim(e)
  <2>1. UNCHANGED <<customer, assessment, hooks, queue, proc, failed, lost>>
    BY <1>1 DEF BeginCustomer, BeginPolicy, BeginClaim, Begin
  <2> QED
    BY <2>1 DEF Mirrored, Accounted, Owed, Assessed
<1>2. CASE Commit(e)
  <2> DEFINE d == draft[e]
  <2>1. d \in Drafts /\ d # NoDraft /\ hooks \in [Customers -> Nat]
    BY <1>2 DEF TypeOK, Commit
  <2>2. hooks' = [hooks EXCEPT ![d.notify] = @ + 1]
    BY <1>2 DEF Commit, Notify
  <2>3. CASE c = d.notify
    BY <2>1, <2>2, <2>3 DEF Accounted, Owed
  <2>4. CASE c # d.notify
    <3>1. customer'[c] = customer[c]
      <4>1. CASE d.kind = "customer"
        <5>1. d.id # c
          BY <2>4, <4>1 DEF DraftsNotifyOwn
        <5> QED
          BY <1>2, <4>1, <5>1 DEF Commit, TypeOK
      <4> QED
        BY <1>2, <4>1 DEF Commit
    <3>2. hooks'[c] = hooks[c]
      BY <2>1, <2>2, <2>4
    <3>3. UNCHANGED <<assessment, queue, proc, failed, lost>>
      BY <1>2 DEF Commit
    <3> QED
      BY <3>1, <3>2, <3>3 DEF Mirrored, Accounted, Owed, Assessed
  <2> QED
    BY <2>3, <2>4
<1> QED
  BY <1>1, <1>2 DEF Write

\* A callback becomes a message or a recorded loss.
LEMMA HookKeepsMirror ==
    ASSUME TypeOK, NEW b \in Customers, RunHook(b) \/ LoseHook(b),
           NEW c \in Customers, Mirrored(c) \/ Accounted(c)
    PROVE  Mirrored(c)' \/ Accounted(c)'
<1>0. 0 \in 0..MaxRetries
  BY BoundsAssumption
<1>1. CASE RunHook(b)
  <2>1. UNCHANGED <<customer, assessment, proc, failed, lost>>
    BY <1>1 DEF RunHook
  <2>2. CASE b = c
    <3>1. queue'[c][0] > 0
      BY <1>0, <1>1, <2>2, OneMoreMessage DEF RunHook
    <3>2. \E r \in 0..MaxRetries : queue'[c][r] > 0
      BY <1>0, <3>1
    <3> QED
      BY <3>2 DEF Accounted, Owed
  <2>3. CASE b # c
    <3>1. hooks'[c] = hooks[c]
      BY <1>1, <2>3 DEF RunHook, TypeOK
    <3>2. queue'[c] = queue[c]
      BY <1>0, <1>1, <2>3, OneMoreMessage DEF RunHook
    <3> QED
      BY <2>1, <3>1, <3>2 DEF Mirrored, Accounted, Owed, Assessed
  <2> QED
    BY <2>2, <2>3
<1>2. CASE LoseHook(b)
  <2>1. UNCHANGED <<customer, assessment, queue, proc, failed>> /\ lost' = lost \cup {b}
    BY <1>2 DEF LoseHook
  <2>2. b # c => hooks'[c] = hooks[c]
    BY <1>2 DEF LoseHook, TypeOK
  <2> QED
    BY <2>1, <2>2 DEF Mirrored, Accounted, Owed, Assessed
<1> QED
  BY <1>1, <1>2

\* A persist makes the mirror and the score of its customer equal, and takes
\* nothing from the others.
LEMMA PersistKeepsMirror ==
    ASSUME TypeOK, NEW p \in Procs, PersistStep(p),
           NEW c \in Customers, Mirrored(c) \/ Accounted(c)
    PROVE  Mirrored(c)' \/ Accounted(c)'
<1>1. CASE c = proc[p].cust
  BY <1>1, PersistWrites DEF Mirrored
<1>2. CASE c # proc[p].cust
  <2>1. /\ assessment'[c] = assessment[c] /\ customer'[c] = customer[c]
        /\ UNCHANGED <<hooks, queue>>
    BY <1>2, PersistWrites DEF PersistStep
  <2>2. (c \in failed => c \in failed') /\ (c \in lost => c \in lost')
    BY <1>2 DEF PersistStep, Persist
  <2>3. ASSUME NEW w \in Workers, proc[w].pc # "idle", proc[w].cust = c
        PROVE  proc'[w] = proc[w]
    BY <1>2, <2>3 DEF PersistStep, TypeOK, Procs
  <2>4. Owed(c) => Owed(c)'
    BY <2>1, <2>3 DEF Owed
  <2> QED
    BY <2>1, <2>2, <2>4 DEF Mirrored, Accounted, Assessed
<1> QED
  BY <1>1, <1>2

\* Taking a message, computing, retrying, giving up or dying: the debt to c is
\* carried by the worker, the next message, failed or lost until a persist.
LEMMA TaskKeepsMirror ==
    ASSUME TypeOK, NEW w \in Workers, Task(w),
           NEW c \in Customers, Mirrored(c) \/ Accounted(c)
    PROVE  Mirrored(c)' \/ Accounted(c)'
<1>0. /\ w \in Procs /\ Workers \subseteq Procs
      /\ proc \in [Procs -> Computations]
      /\ queue \in [Customers -> [0..MaxRetries -> Nat]]
  BY DEF TypeOK, Procs
<1>1. ASSUME NEW b \in Customers, NEW r \in 0..MaxRetries, TaskStart(w, b, r)
      PROVE  Mirrored(c)' \/ Accounted(c)'
  <2>0. UNCHANGED <<customer, assessment, hooks, failed, lost>> /\ proc[w].pc = "idle"
    BY <1>1 DEF TaskStart, Idle
  <2>1. CASE b = c /\ Live(customer[c])
    <3>1. proc'[w].pc = "fetched" /\ proc'[w].cust = c
      BY <1>0, <1>1, <2>1 DEF TaskStart
    <3> QED
      BY <3>1 DEF Accounted, Owed
  <2>2. CASE b = c /\ ~Live(customer[c])
    BY <2>0, <2>2 DEF Mirrored
  <2>3. CASE b # c
    <3>1. queue'[c] = queue[c]
      BY <1>0, <1>1, <2>3 DEF TaskStart
    <3>2. ASSUME NEW v \in Workers, proc[v].pc # "idle" PROVE proc'[v] = proc[v]
      BY <1>0, <1>1, <2>0, <3>2 DEF TaskStart
    <3>3. Owed(c) => Owed(c)'
      BY <2>0, <3>1, <3>2 DEF Owed
    <3> QED
      BY <2>0, <3>3 DEF Mirrored, Accounted, Assessed
  <2> QED
    BY <2>1, <2>2, <2>3
<1>2. CASE TaskList(w) \/ ReadClaims(w) \/ EvaluateRules(w)
  <2>1. /\ UNCHANGED <<customer, assessment, hooks, queue, failed, lost>>
        /\ \A v \in Workers \ {w} : proc'[v] = proc[v]
        /\ proc[w].pc \in {"fetched", "listed"}
    BY <1>0, <1>2 DEF TaskList, List, ReadClaims, EvaluateRules
  <2>2. CASE TaskList(w) /\ ~Assessed(proc[w].cust)
    <3>1. CASE proc[w].cust = c
      BY <2>1, <2>2, <3>1 DEF Mirrored, Assessed
    <3>2. CASE proc[w].cust # c
      <4>1. Owed(c) => Owed(c)'
        BY <2>1, <3>2 DEF Owed
      <4> QED
        BY <2>1, <4>1 DEF Mirrored, Accounted, Assessed
    <3> QED
      BY <3>1, <3>2
  <2>3. CASE (TaskList(w) /\ Assessed(proc[w].cust)) \/ ReadClaims(w) \/ EvaluateRules(w)
    <3>1. proc'[w].pc # "idle" /\ proc'[w].cust = proc[w].cust
      <4>1. CASE ReadClaims(w)
        BY <1>0, <4>1, ReadFields DEF Listed
      <4> QED
        BY <1>0, <2>3, <4>1 DEF TaskList, List, EvaluateRules
    <3>2. Owed(c) => Owed(c)'
      BY <2>1, <3>1 DEF Owed
    <3> QED
      BY <2>1, <3>2 DEF Mirrored, Accounted, Assessed
  <2> QED
    BY <1>2, <2>2, <2>3
<1>3. CASE TaskPersist(w)
  BY <1>0, <1>3, PersistKeepsMirror DEF TaskPersist, PersistStep
<1>4. CASE TaskRaises(w)
  <2>0. PICK b \in Customers, r \in 0..MaxRetries : b = proc[w].cust /\ r = proc[w].tries
    BY <1>0, <1>4, ComputationFields DEF TaskRaises
  <2>1. /\ UNCHANGED <<customer, assessment, hooks, lost>>
        /\ proc' = [proc EXCEPT ![w] = Idle]
        /\ failed \subseteq failed'
    BY <1>4 DEF TaskRaises, Retry
  <2>2. CASE r < MaxRetries /\ Enqueue(b, r + 1)
    <3>0. r + 1 \in 0..MaxRetries
      BY <2>2, BoundsAssumption
    <3>1. CASE b = c
      <4>1. queue'[c][r + 1] > 0
        BY <2>2, <3>0, <3>1, OneMoreMessage
      <4>2. \E n \in 0..MaxRetries : queue'[c][n] > 0
        BY <3>0, <4>1
      <4> QED
        BY <4>2 DEF Accounted, Owed
    <3>2. CASE b # c
      <4>1. queue'[c] = queue[c]
        BY <2>2, <3>0, <3>2, OneMoreMessage
      <4>2. \A v \in Workers : proc[v].pc # "idle" /\ proc[v].cust = c => proc'[v] = proc[v]
        BY <1>0, <2>0, <2>1, <3>2
      <4>3. Owed(c) => Owed(c)'
        BY <2>1, <4>1, <4>2 DEF Owed
      <4> QED
        BY <2>1, <4>3 DEF Mirrored, Accounted, Assessed
    <3> QED
      BY <3>1, <3>2
  <2>3. CASE queue' = queue /\ failed' = failed \cup {b}
    <3>1. CASE b = c
      BY <2>3, <3>1 DEF Accounted
    <3>2. CASE b # c
      <4>1. \A v \in Workers : proc[v].pc # "idle" /\ proc[v].cust = c => proc'[v] = proc[v]
        BY <1>0, <2>0, <2>1, <3>2
      <4>2. Owed(c) => Owed(c)'
        BY <2>1, <2>3, <4>1 DEF Owed
      <4> QED
        BY <2>1, <4>2 DEF Mirrored, Accounted, Assessed
    <3> QED
      BY <3>1, <3>2
  <2> QED
    BY <1>4, <2>0, <2>2, <2>3 DEF TaskRaises, Retry
<1>5. CASE WorkerCrash(w)
  <2>1. /\ UNCHANGED <<customer, assessment, hooks, queue, failed>>
        /\ lost' = lost \cup {proc[w].cust}
        /\ \A v \in Workers \ {w} : proc'[v] = proc[v]
    BY <1>0, <1>5 DEF WorkerCrash
  <2>2. CASE proc[w].cust = c
    BY <2>1, <2>2 DEF Accounted
  <2>3. CASE proc[w].cust # c
    <3>1. Owed(c) => Owed(c)'
      BY <2>1, <2>3 DEF Owed
    <3> QED
      BY <2>1, <3>1 DEF Mirrored, Accounted, Assessed
  <2> QED
    BY <2>2, <2>3
<1> QED
  BY <1>1, <1>2, <1>3, <1>4, <1>5 DEF Task, Run

\* Managers carry no debt: their steps short of a persist change nothing the
\* statement mentions.
LEMMA ManualKeepsMirror ==
    ASSUME TypeOK, NEW m \in Managers, Manual(m),
           NEW c \in Customers, Mirrored(c) \/ Accounted(c)
    PROVE  Mirrored(c)' \/ Accounted(c)'
<1>0. m \in Procs /\ m \notin Workers /\ Workers \subseteq Procs
  BY RolesAssumption DEF Procs
<1>1. CASE ManualPersist(m)
  BY <1>0, <1>1, PersistKeepsMirror DEF ManualPersist, PersistStep
<1>2. CASE ~ManualPersist(m)
  <2>1. UNCHANGED <<customer, assessment, hooks, queue, failed, lost>>
    BY <1>2 DEF Manual, ManualStart, ManualList, ReadClaims, EvaluateRules, ManualRefused
  <2>2. \A w \in Workers : proc'[w] = proc[w]
    BY <1>0, <1>2 DEF Manual, ManualStart, ManualList, List, ReadClaims, EvaluateRules,
                      ManualRefused, TypeOK
  <2> QED
    BY <2>1, <2>2 DEF Mirrored, Accounted, Owed, Assessed
<1> QED
  BY <1>1, <1>2

\* The risk_score mirror of a live customer never silently disagrees with its
\* assessment: whatever the interleaving of full-row saves, archives, tasks,
\* faults and on-demand recomputes, a difference has a recompute owed to it, a
\* recompute_failed entry, or a delivery that was lost.
THEOREM MirrorAlwaysKept == Spec => []MirrorKept
<1> DEFINE IInv == MirrorKept /\ DraftsNotifyOwn
<1>1. Init => IInv
  BY DEF Init, MirrorKept, Assessed, DraftsNotifyOwn, NoDraft
<1>2. ASSUME TypeOK, IInv, [Next]_vars PROVE MirrorKept'
  <2> SUFFICES ASSUME NEW c \in Customers PROVE Mirrored(c)' \/ Accounted(c)'
    BY DEF MirrorKept, Mirrored, Accounted
  <2>0. Mirrored(c) \/ Accounted(c)
    BY <1>2, MirrorKeptEach
  <2>1. CASE UNCHANGED vars
    BY <2>0, <2>1 DEF vars, Mirrored, Accounted, Owed, Assessed
  <2>2. ASSUME NEW e \in Editors, Write(e) PROVE Mirrored(c)' \/ Accounted(c)'
    BY <1>2, <2>0, <2>2, WriteKeepsMirror
  <2>3. ASSUME NEW b \in Customers, RunHook(b) \/ LoseHook(b)
        PROVE  Mirrored(c)' \/ Accounted(c)'
    BY <1>2, <2>0, <2>3, HookKeepsMirror
  <2>4. ASSUME NEW w \in Workers, Task(w) PROVE Mirrored(c)' \/ Accounted(c)'
    BY <1>2, <2>0, <2>4, TaskKeepsMirror
  <2>5. ASSUME NEW m \in Managers, Manual(m) PROVE Mirrored(c)' \/ Accounted(c)'
    BY <1>2, <2>0, <2>5, ManualKeepsMirror
  <2> QED
    BY <1>2, <2>1, <2>2, <2>3, <2>4, <2>5 DEF Next
<1>3. TypeOK /\ IInv /\ [Next]_vars => IInv'
  BY <1>2, DraftsNotifyOwnStep
<1>4. IInv => MirrorKept
  OBVIOUS
<1> HIDE DEF IInv
<1> QED
  BY <1>1, <1>3, <1>4, TypeCorrect, PTL DEF Spec
-----------------------------------------------------------------------------
\* No row carries a stamp from after the next computation.
TimesBounded ==
    /\ \A c \in Customers : customer[c].updated <= now + 1
    /\ \A p \in Policies : policy[p].updated <= now + 1
    /\ \A k \in Claims : claim[k].updated <= now + 1

\* A row a write does not touch keeps its stamp, the one it does is stamped by
\* the clock of its own transaction.
LEMMA CommitTimes ==
    ASSUME TypeOK, TimesBounded, NEW e \in Editors, Commit(e)
    PROVE  TimesBounded'
<1> DEFINE d == draft[e]
<1>1. d \in Drafts /\ d # NoDraft
  BY DEF TypeOK, Commit
<1>2. PICK t \in d.since .. now + 1 :
         /\ customer' = IF d.kind = "customer"
                          THEN [customer EXCEPT ![d.id] = Saved(d, @, t)] ELSE customer
         /\ policy' = IF d.kind = "policy"
                        THEN [policy EXCEPT ![d.id] = Saved(d, @, t)] ELSE policy
         /\ claim' = IF d.kind = "claim"
                       THEN [claim EXCEPT ![d.id] = Saved(d, @, t)] ELSE claim
  BY DEF Commit
<1>3. t <= now + 1 /\ now' = now
  BY <1>1, DraftFields DEF TypeOK, Commit
<1> HIDE DEF d
<1>4. /\ customer \in [Customers -> CustomerRow] /\ policy \in [Policies -> PolicyRow]
      /\ claim \in [Claims -> ClaimRow]
  BY DEF TypeOK
<1>5. ASSUME NEW c \in Customers PROVE customer'[c].updated <= now + 1
  <2>1. CASE d.kind = "customer" /\ d.id = c
    <3>1. customer'[c] = Saved(d, customer[c], t) /\ d.row \in CustomerRow
      BY <1>1, <1>2, <1>4, <2>1, DraftFields
    <3> QED
      BY <1>3, <1>4, <3>1 DEF Saved, CustomerRow
  <2>2. CASE ~(d.kind = "customer" /\ d.id = c)
    <3>1. customer'[c] = customer[c]
      BY <1>2, <1>4, <2>2
    <3> QED
      BY <3>1 DEF TimesBounded
  <2> QED
    BY <2>1, <2>2
<1>6. ASSUME NEW p \in Policies PROVE policy'[p].updated <= now + 1
  <2>1. CASE d.kind = "policy" /\ d.id = p
    <3>1. policy'[p] = Saved(d, policy[p], t) /\ d.row \in PolicyRow
      BY <1>1, <1>2, <1>4, <2>1, DraftFields
    <3> QED
      BY <1>3, <1>4, <3>1 DEF Saved, PolicyRow
  <2>2. CASE ~(d.kind = "policy" /\ d.id = p)
    <3>1. policy'[p] = policy[p]
      BY <1>2, <1>4, <2>2
    <3> QED
      BY <3>1 DEF TimesBounded
  <2> QED
    BY <2>1, <2>2
<1>7. ASSUME NEW k \in Claims PROVE claim'[k].updated <= now + 1
  <2>1. CASE d.kind = "claim" /\ d.id = k
    <3>1. claim'[k] = Saved(d, claim[k], t) /\ d.row \in ClaimRow
      BY <1>1, <1>2, <1>4, <2>1, DraftFields
    <3> QED
      BY <1>3, <1>4, <3>1 DEF Saved, ClaimRow
  <2>2. CASE ~(d.kind = "claim" /\ d.id = k)
    <3>1. claim'[k] = claim[k]
      BY <1>2, <1>4, <2>2
    <3> QED
      BY <3>1 DEF TimesBounded
  <2> QED
    BY <2>1, <2>2
<1> QED
  BY <1>3, <1>5, <1>6, <1>7 DEF TimesBounded

\* A persist moves the clock to the stamp it leaves.
LEMMA PersistTimes ==
    ASSUME TypeOK, TimesBounded, NEW p \in Procs, PersistStep(p)
    PROVE  TimesBounded'
<1>1. now \in Nat /\ now' = now + 1 /\ policy' = policy /\ claim' = claim
  BY PersistWrites DEF TypeOK, PersistStep
<1>2. ASSUME NEW c \in Customers PROVE customer'[c].updated <= now + 2
  <2>1. CASE c = proc[p].cust
    BY <1>1, <2>1, PersistWrites
  <2>2. CASE c # proc[p].cust
    BY <1>1, <2>2, PersistWrites DEF TimesBounded, TypeOK, CustomerRow
  <2> QED
    BY <2>1, <2>2
<1>3. /\ \A q \in Policies : policy[q].updated <= now + 2
      /\ \A k \in Claims : claim[k].updated <= now + 2
  BY <1>1 DEF TimesBounded, TypeOK, PolicyRow, ClaimRow
<1> QED
  BY <1>1, <1>2, <1>3 DEF TimesBounded

\* The remaining steps stamp nothing.
LEMMA NextTimes ==
    ASSUME TypeOK, TimesBounded, [Next]_vars
    PROVE  TimesBounded'
<1>0. Workers \subseteq Procs /\ Managers \subseteq Procs
  BY DEF Procs
<1>1. CASE UNCHANGED <<customer, policy, claim, now>>
  BY <1>1 DEF TimesBounded
<1>2. CASE UNCHANGED vars
  BY <1>1, <1>2 DEF vars
<1>3. ASSUME NEW e \in Editors, Write(e) PROVE TimesBounded'
  <2>1. CASE Commit(e)
    BY <2>1, CommitTimes
  <2>2. CASE BeginCustomer(e) \/ BeginPolicy(e) \/ BeginClaim(e)
    BY <1>1, <2>2 DEF BeginCustomer, BeginPolicy, BeginClaim, Begin
  <2> QED
    BY <1>3, <2>1, <2>2 DEF Write
<1>4. ASSUME NEW c \in Customers, RunHook(c) \/ LoseHook(c) PROVE TimesBounded'
  BY <1>1, <1>4 DEF RunHook, LoseHook
<1>5. ASSUME NEW w \in Workers, Task(w) PROVE TimesBounded'
  <2>1. CASE TaskPersist(w)
    BY <1>0, <2>1, PersistTimes DEF TaskPersist, PersistStep
  <2>2. CASE ~TaskPersist(w)
    BY <1>1, <1>5, <2>2 DEF Task, Run, TaskStart, TaskList, ReadClaims, EvaluateRules,
                              TaskRaises, WorkerCrash
  <2> QED
    BY <2>1, <2>2
<1>6. ASSUME NEW m \in Managers, Manual(m) PROVE TimesBounded'
  <2>1. CASE ManualPersist(m)
    BY <1>0, <2>1, PersistTimes DEF ManualPersist, PersistStep
  <2>2. CASE ~ManualPersist(m)
    BY <1>1, <1>6, <2>2 DEF Manual, ManualStart, ManualList, ReadClaims, EvaluateRules, ManualRefused
  <2> QED
    BY <2>1, <2>2
<1> QED
  BY <1>2, <1>3, <1>4, <1>5, <1>6 DEF Next

\* A computation's own write never makes its result look outdated: the mirror's
\* updated_at is the assessment's computed_at, and no row _is_stale looks at is
\* stamped later, however long its write has been open.
LEMMA PersistNotStale ==
    ASSUME TypeOK, TimesBounded, NEW p \in Procs, PersistStep(p),
           NEW c \in Customers, c = proc[p].cust
    PROVE  ~IsStale(c)'
<1>1. assessment'[c].at = now + 1 /\ customer'[c].updated = now + 1 /\ now \in Nat
  BY PersistWrites DEF TypeOK
<1>2. policy' = policy /\ claim' = claim
  BY DEF PersistStep
<1>3. /\ \A q \in Policies : policy[q].updated \in Nat /\ policy[q].updated <= now + 1
      /\ \A k \in Claims : claim[k].updated \in Nat /\ claim[k].updated <= now + 1
  BY DEF TypeOK, TimesBounded, PolicyRow, ClaimRow
<1> QED
  BY <1>1, <1>2, <1>3 DEF IsStale, LivePolicies, LiveClaims

\* The flag of an assessment that stays depends on the customer's records only.
LEMMA StaleByRecords ==
    ASSUME NEW c \in Customers, Records(c)' = Records(c), assessment'[c] = assessment[c]
    PROVE  IsStale(c)' <=> IsStale(c)
<1> DEFINE P == [p \in LivePolicies(c) |-> policy[p]]
           K == [k \in LiveClaims(LivePolicies(c)) |-> claim[k]]
<1>1. customer'[c] = customer[c] /\ P' = P /\ K' = K
  BY DEF Records
<1>2. DOMAIN P = LivePolicies(c) /\ DOMAIN P' = LivePolicies(c)'
  OBVIOUS
<1>3. DOMAIN K = LiveClaims(LivePolicies(c)) /\ DOMAIN K' = LiveClaims(LivePolicies(c))'
  OBVIOUS
<1>4. \A p \in LivePolicies(c) : P[p] = policy[p]
  OBVIOUS
<1>5. \A p \in LivePolicies(c)' : P'[p] = policy'[p]
  OBVIOUS
<1>6. \A k \in LiveClaims(LivePolicies(c)) : K[k] = claim[k]
  OBVIOUS
<1>7. \A k \in LiveClaims(LivePolicies(c))' : K'[k] = claim'[k]
  OBVIOUS
<1> HIDE DEF P, K
<1>8. /\ LivePolicies(c)' = LivePolicies(c)
      /\ \A p \in LivePolicies(c) : policy'[p] = policy[p]
  BY <1>1, <1>2, <1>4, <1>5
<1>9. /\ LiveClaims(LivePolicies(c))' = LiveClaims(LivePolicies(c))
      /\ \A k \in LiveClaims(LivePolicies(c)) : claim'[k] = claim[k]
  BY <1>1, <1>3, <1>6, <1>7
<1> QED
  BY <1>1, <1>8, <1>9 DEF IsStale

\* A step that neither commits a request nor stores an assessment writes no row
\* _is_stale looks at.
LEMMA QuietSteps ==
    ASSUME TypeOK, [Next]_vars
    PROVE  \/ \E e \in Editors : Commit(e)
           \/ \E p \in Procs : PersistStep(p)
           \/ UNCHANGED <<customer, policy, claim, assessment>>
<1>1. CASE UNCHANGED vars
  BY <1>1 DEF vars
<1>2. ASSUME NEW e \in Editors, Write(e), ~Commit(e)
      PROVE  UNCHANGED <<customer, policy, claim, assessment>>
  BY <1>2 DEF Write, BeginCustomer, BeginPolicy, BeginClaim, Begin
<1>3. ASSUME NEW c \in Customers, RunHook(c) \/ LoseHook(c)
      PROVE  UNCHANGED <<customer, policy, claim, assessment>>
  BY <1>3 DEF RunHook, LoseHook
<1>4. ASSUME NEW w \in Workers, Task(w)
      PROVE  PersistStep(w) \/ UNCHANGED <<customer, policy, claim, assessment>>
  BY <1>4 DEF Task, Run, TaskStart, TaskList, ReadClaims, EvaluateRules, TaskPersist,
              TaskRaises, WorkerCrash, PersistStep
<1>5. ASSUME NEW m \in Managers, Manual(m)
      PROVE  PersistStep(m) \/ UNCHANGED <<customer, policy, claim, assessment>>
  BY <1>5 DEF Manual, ManualStart, ManualList, ReadClaims, EvaluateRules, ManualPersist,
              ManualRefused, PersistStep
<1> QED
  BY <1>1, <1>2, <1>3, <1>4, <1>5 DEF Next, Procs

\* The parts of FreshnessNext are those of Next.
LEMMA FollowedNext == FreshnessNext => Next /\ Follow
BY DEF FreshnessNext, Next, Task

\* What is said of each customer is kept by every step: a persist leaves a fresh
\* assessment, and what is flagged later a request has written to.
LEMMA UntouchedStep ==
    ASSUME TypeOK, TimesBounded, UntouchedIsFresh, [FreshnessNext]_freshnessVars
    PROVE  UntouchedIsFresh'
<1> SUFFICES ASSUME NEW c \in Customers, Assessed(c)', c \notin touched'
             PROVE  ~IsStale(c)'
  BY DEF UntouchedIsFresh
<1>0. [Next]_vars
  BY FollowedNext DEF freshnessVars
<1>1. CASE UNCHANGED freshnessVars
  BY <1>1 DEF freshnessVars, vars, UntouchedIsFresh, Assessed, IsStale, LivePolicies,
              LiveClaims, Live
<1>2. CASE FreshnessNext
  <2>1. ASSUME NEW p \in Procs, PersistStep(p), c = proc[p].cust
        PROVE  ~IsStale(c)'
    BY <2>1, PersistNotStale
  <2>2. CASE ~\E p \in Procs : PersistStep(p) /\ c = proc[p].cust
    <3>1. assessment'[c] = assessment[c]
      BY <1>0, <2>2, AssessmentSteps, PersistWrites
    <3>2. ~\E p \in Procs : Stores(p, c)
      BY <3>1 DEF Stores
    <3>3. c \notin touched /\ ~Writes(c)
      BY <1>2, <3>2, FollowedNext DEF Follow
    <3>4. Records(c)' = Records(c)
      <4>1. CASE \E e \in Editors : Commit(e)
        <5>1. \E e \in Editors : draft[e] # NoDraft /\ draft'[e] = NoDraft
          BY <4>1 DEF Commit, TypeOK
        <5> QED
          BY <3>3, <5>1 DEF Writes
      <4>2. CASE \E p \in Procs : PersistStep(p)
        <5>1. customer'[c] = customer[c]
          BY <2>2, <4>2, PersistWrites
        <5>2. policy' = policy /\ claim' = claim
          BY <4>2 DEF PersistStep
        <5> QED
          BY <5>1, <5>2 DEF Records, LivePolicies, LiveClaims
      <4>3. CASE UNCHANGED <<customer, policy, claim, assessment>>
        BY <4>3 DEF Records, LivePolicies, LiveClaims
      <4> QED
        BY <1>0, <4>1, <4>2, <4>3, QuietSteps
    <3>5. Assessed(c)
      BY <3>1 DEF Assessed
    <3> QED
      BY <3>1, <3>3, <3>4, <3>5, StaleByRecords DEF UntouchedIsFresh
  <2> QED
    BY <2>1, <2>2
<1> QED
  BY <1>1, <1>2

\* An assessment is flagged is_stale only if a request has written to its
\* customer since the computation that left it began to read: neither that
\* computation's write nor any other's flags it, whichever overlap.
THEOREM UntouchedStaysFresh == FreshnessSpec => []UntouchedIsFresh
<1>1. FreshnessInit => Init /\ TimesBounded /\ UntouchedIsFresh
  <2>1. Init => TimesBounded
    BY DEF Init, TimesBounded
  <2>2. Init => UntouchedIsFresh
    BY DEF Init, UntouchedIsFresh, IsStale, LivePolicies, LiveClaims
  <2> QED
    BY <2>1, <2>2 DEF FreshnessInit
<1>2. [FreshnessNext]_freshnessVars => [Next]_vars
  BY FollowedNext DEF freshnessVars
<1>3. TypeOK /\ TimesBounded /\ [Next]_vars => TimesBounded'
  BY NextTimes
<1>4. TypeOK /\ TimesBounded /\ UntouchedIsFresh /\ [FreshnessNext]_freshnessVars
        => UntouchedIsFresh'
  BY UntouchedStep
<1> QED
  BY <1>1, <1>2, <1>3, <1>4, TypeCorrect, PTL DEF Spec, FreshnessSpec
=============================================================================
