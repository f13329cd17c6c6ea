--------------------------- MODULE RiskSettledProofs ---------------------------
(***************************************************************************)
(* Automatic recompute with one worker implements ScoreBook: what settles  *)
(* the debt to a customer is the score of the data as they then are. The   *)
(* hypothesis OneByOne names what the argument needs, and no more: tasks   *)
(* may raise, be retried and give up, workers may die, and any number of   *)
(* requests may write.                                                     *)
(***************************************************************************)
EXTENDS RiskRecomputeProofs

\* At most one worker, no on-demand recompute or batch, no PATCH that names
\* another customer, no delivery lost between a commit and the broker.
OneByOne ==
    /\ \A v, w \in Workers : v = w
    /\ Managers = {}
    /\ ~MovePolicies
    /\ "broker" \notin Faults

Made(r) == r.status # "absent"

\* A write of a policy notifies its owner, before and after; only a stored
\* policy is archived.
PolicyDraft(d) ==
    /\ Live(d.row) /\ d.row.owner = d.notify
    /\ Made(policy[d.id]) => policy[d.id].owner = d.notify
    /\ d.archive => Made(policy[d.id])

\* A write of a claim notifies the owner of the claim's policy, which is the
\* same before and after.
ClaimDraft(d) ==
    /\ Live(d.row)
    /\ Made(policy[d.row.policy]) /\ policy[d.row.policy].owner = d.notify
    /\ Made(claim[d.id]) => claim[d.id].policy = d.row.policy
    /\ d.archive => Made(claim[d.id])

\* What writes under way know of the rows they write.
DraftsInform ==
    /\ \A e \in Editors : /\ draft[e].kind = "policy" => PolicyDraft(draft[e])
                          /\ draft[e].kind = "claim" => ClaimDraft(draft[e])
    /\ \A e, f \in Editors : e # f /\ draft[e].kind = draft[f].kind =>
          /\ draft[e].kind = "policy" /\ draft[e].id = draft[f].id => Made(policy[draft[e].id])
          /\ draft[e].kind = "claim" /\ draft[e].id = draft[f].id => Made(claim[draft[e].id])
    /\ \A k \in Claims : Made(claim[k]) => Made(policy[claim[k].policy])

\* A recompute of c is still to be taken.
Waiting(c) == hooks[c] > 0 \/ \E r \in 0..MaxRetries : queue[c][r] > 0

\* The claims worker w has read so far, of the policies it has listed, are what
\* is stored.
ClaimsCurrent(w) ==
    LET ps == LivePolicies(proc[w].cust)
    IN  /\ proc[w].unread \subseteq ps
        /\ proc[w].losses = [k \in LiveClaims(ps \ proc[w].unread) |-> claim[k].loss]

\* What worker w has read so far is what is stored.
ReadsCurrent(w) ==
    LET facts == FactsOf(proc[w].cust) IN
      /\ proc[w].pc \in {"fetched", "listed"} => proc[w].age = facts.age
      /\ proc[w].pc = "listed" => proc[w].covers = facts.covers /\ ClaimsCurrent(w)
      /\ proc[w].pc = "scored" => proc[w].score = Score(facts)

\* A worker whose reads are out of date has another recompute waiting behind it.
ReadsCovered ==
    \A w \in Workers :
       proc[w].pc # "idle" => Waiting(proc[w].cust) \/ ReadsCurrent(w)

\* A step changes neither which policies and claims of b are live nor a claim
\* among them.
ClaimsKept(b) ==
    /\ LivePolicies(b)' = LivePolicies(b)
    /\ LiveClaims(LivePolicies(b))' = LiveClaims(LivePolicies(b))
    /\ \A k \in LiveClaims(LivePolicies(b)) : claim'[k] = claim[k]

\* The steps that are left under OneByOne.
LEMMA OneByOneSteps ==
    ASSUME OneByOne, [Next]_vars
    PROVE  \/ UNCHANGED vars
           \/ \E e \in Editors : BeginCustomer(e) \/ BeginPolicy(e) \/ BeginClaim(e)
           \/ \E e \in Editors : Commit(e)
           \/ \E c \in Customers : RunHook(c)
           \/ \E w \in Workers : Task(w)
BY DEF OneByOne, Next, Write, LoseHook
-----------------------------------------------------------------------------
\* What a commit changes: a row of the customer it notifies, and the debt.
LEMMA CommitWrites ==
    ASSUME TypeOK, DraftsNotifyOwn, DraftsInform, NEW e \in Editors, Commit(e)
    PROVE  LET d == draft[e] IN
           /\ d \in Drafts /\ d # NoDraft
           /\ \A c \in Customers : c # d.notify => customer'[c] = customer[c]
           /\ \A p \in Policies :
                 \/ policy'[p] = policy[p]
                 \/ /\ d.kind = "policy" /\ d.id = p
                    /\ Made(policy'[p]) /\ policy'[p].owner = d.notify
                    /\ Made(policy[p]) => policy[p].owner = d.notify
           /\ \A k \in Claims :
                 \/ claim'[k] = claim[k]
                 \/ /\ d.kind = "claim" /\ d.id = k /\ policy' = policy
                    /\ Made(claim'[k]) /\ claim'[k].policy = d.row.policy
                    /\ Made(policy[d.row.policy]) /\ policy[d.row.policy].owner = d.notify
                    /\ Made(claim[k]) => claim[k].policy = d.row.policy
           /\ hooks' = [hooks EXCEPT ![d.notify] = @ + 1]
           /\ draft' = [draft EXCEPT ![e] = NoDraft]
           /\ UNCHANGED <<assessment, queue, proc, failed, lost>>
<1> DEFINE d == draft[e]
<1>1. d \in Drafts /\ d # NoDraft
  BY DEF TypeOK, Commit
<1>2. PICK t \in d.since .. now + 1 :
         /\ customer' = IF d.kind = "customer"
                          THEN [customer EXCEPT ![d.id] = Saved(d, @, t)] ELSE customer
         /\ policy' = IF d.kind = "policy"
                        THEN [policy EXCEPT ![d.id] = Saved(d, @, t)] ELSE policy
         /\ claim' = IF d.kind = "claim"
                       THEN [claim EXCEPT ![d.id] = Saved(d, @, t)] ELSE claim
  BY DEF Commit
<1>3. /\ d.kind = "customer" => d.notify = d.id
      /\ d.kind = "policy" => PolicyDraft(d)
      /\ d.kind = "claim" => ClaimDraft(d)
  BY DEF DraftsNotifyOwn, DraftsInform
<1>4. /\ hooks' = [hooks EXCEPT ![d.notify] = @ + 1]
      /\ draft' = [draft EXCEPT ![e] = NoDraft]
      /\ UNCHANGED <<assessment, queue, proc, failed, lost>>
  BY DEF Commit, Notify
<1> HIDE DEF d
<1>5. /\ customer \in [Customers -> CustomerRow] /\ policy \in [Policies -> PolicyRow]
      /\ claim \in [Claims -> ClaimRow]
  BY DEF TypeOK
<1>6. ASSUME NEW c \in Customers, c # d.notify PROVE customer'[c] = customer[c]
  BY <1>2, <1>3, <1>5, <1>6
<1>7. ASSUME NEW p \in Policies, policy'[p] # policy[p]
      PROVE  /\ d.kind = "policy" /\ d.id = p
             /\ Made(policy'[p]) /\ policy'[p].owner = d.notify
             /\ Made(policy[p]) => policy[p].owner = d.notify
  <2>1. d.kind = "policy" /\ d.id = p
    BY <1>2, <1>5, <1>7
  <2>2. policy'[p] = Saved(d, policy[p], t) /\ d.row \in PolicyRow
    BY <1>1, <1>2, <1>5, <2>1, DraftFields
  <2>3. CASE d.archive
    BY <1>3, <1>5, <2>1, <2>2, <2>3 DEF Saved, PolicyDraft, Made, PolicyRow
  <2>4. CASE ~d.archive
    BY <1>3, <1>5, <2>1, <2>2, <2>4 DEF Saved, PolicyDraft, Made, Live, PolicyRow
  <2> QED
    BY <2>1, <2>3, <2>4
<1>8. ASSUME NEW k \in Claims, claim'[k] # claim[k]
      PROVE  /\ d.kind = "claim" /\ d.id = k /\ policy' = policy
             /\ Made(claim'[k]) /\ claim'[k].policy = d.row.policy
             /\ Made(policy[d.row.policy]) /\ policy[d.row.policy].owner = d.notify
             /\ Made(claim[k]) => claim[k].policy = d.row.policy
  <2>1. d.kind = "claim" /\ d.id = k
    BY <1>2, <1>5, <1>8
  <2>2. claim'[k] = Saved(d, claim[k], t) /\ d.row \in ClaimRow /\ policy' = policy
    BY <1>1, <1>2, <1>5, <2>1, DraftFields
  <2>3. CASE d.archive
    BY <1>3, <1>5, <2>1, <2>2, <2>3 DEF Saved, ClaimDraft, Made, ClaimRow
  <2>4. CASE ~d.archive
    BY <1>3, <1>5, <2>1, <2>2, <2>4 DEF Saved, ClaimDraft, Made, Live, ClaimRow
  <2> QED
    BY <2>1, <2>2, <2>3, <2>4
<1> QED
  BY <1>1, <1>4, <1>6, <1>7, <1>8 DEF d

\* The score of a customer reads nothing a write notified to another changes.
LEMMA CommitLeavesOthers ==
    ASSUME TypeOK, DraftsNotifyOwn, DraftsInform, NEW e \in Editors, Commit(e),
           NEW b \in Customers, b # draft[e].notify
    PROVE  FactsOf(b)' = FactsOf(b) /\ customer'[b] = customer[b] /\ ClaimsKept(b)
<1> DEFINE d == draft[e]
<1>1. customer'[b] = customer[b]
  BY CommitWrites
<1>2. ASSUME NEW p \in Policies
      PROVE  \/ policy'[p] = policy[p]
             \/ /\ ~(Live(policy[p]) /\ policy[p].owner = b)
                /\ ~(Live(policy'[p]) /\ policy'[p].owner = b)
  BY CommitWrites DEF Live, Made
<1>3. LivePolicies(b)' = LivePolicies(b)
  BY <1>2 DEF LivePolicies, Live
<1>4. \A p \in LivePolicies(b) : policy'[p] = policy[p]
  BY <1>2 DEF LivePolicies
<1>5. ASSUME NEW k \in Claims
      PROVE  \/ claim'[k] = claim[k]
             \/ /\ ~(Live(claim[k]) /\ claim[k].policy \in LivePolicies(b))
                /\ ~(Live(claim'[k]) /\ claim'[k].policy \in LivePolicies(b))
  BY CommitWrites DEF Live, Made, LivePolicies
<1>6. LiveClaims(LivePolicies(b))' = LiveClaims(LivePolicies(b))
  BY <1>3, <1>5 DEF LiveClaims, Live
<1>7. \A k \in LiveClaims(LivePolicies(b)) : claim'[k] = claim[k]
  BY <1>5 DEF LiveClaims
<1> QED
  BY <1>1, <1>3, <1>4, <1>6, <1>7 DEF FactsOf, ClaimsKept
-----------------------------------------------------------------------------
\* A request that begins knows the owner the stored rows have.
LEMMA BeginInforms ==
    ASSUME OneByOne, TypeOK, DraftsInform, NEW e \in Editors,
           BeginCustomer(e) \/ BeginPolicy(e) \/ BeginClaim(e)
    PROVE  DraftsInform'
<1> DEFINE n == draft'[e]
<1>0. /\ draft \in [Editors -> Drafts] /\ draft[e] = NoDraft
      /\ policy \in [Policies -> PolicyRow] /\ claim \in [Claims -> ClaimRow]
  BY DEF TypeOK, BeginCustomer, BeginPolicy, BeginClaim, Begin
<1>1. /\ UNCHANGED <<policy, claim>>
      /\ \A f \in Editors \ {e} : draft'[f] = draft[f]
  BY <1>0 DEF BeginCustomer, BeginPolicy, BeginClaim, Begin
<1>2. /\ n.kind = "policy" => /\ PolicyDraft(n)
                              /\ \A f \in Editors \ {e} :
                                    draft[f].kind = "policy" /\ draft[f].id = n.id
                                      => Made(policy[n.id])
      /\ n.kind = "claim" => /\ ClaimDraft(n)
                             /\ \A f \in Editors \ {e} :
                                   draft[f].kind = "claim" /\ draft[f].id = n.id
                                     => Made(claim[n.id])
  <2>0. ASSUME NEW x, Begin(e, x) PROVE n = x
    BY <1>0, <2>0 DEF Begin
  <2>1. CASE BeginCustomer(e)
    <3>1. PICK c \in Customers, archive \in BOOLEAN, a \in Ages :
            Begin(e, [kind |-> "customer", id |-> c, notify |-> c, archive |-> archive,
                      row |-> [customer[c] EXCEPT !.status = "live", !.age = a],
                      since |-> now + 1])
      BY <2>1 DEF BeginCustomer
    <3>2. n.kind = "customer"
      BY <2>0, <3>1
    <3> QED
      BY <3>2
  <2>2. CASE BeginPolicy(e)
    <3>1. PICK p \in Policies, archive \in BOOLEAN :
            /\ Live(policy[p]) \/ (~archive /\ Fresh("policy", p, policy[p]))
            /\ \E c \in Nameable(p), v \in Covers :
                  Begin(e, [kind |-> "policy", id |-> p, notify |-> c, archive |-> archive,
                            row |-> [policy[p] EXCEPT !.status = "live", !.owner = c,
                                                      !.cover = v],
                            since |-> now + 1])
      BY <2>2 DEF BeginPolicy
    <3>2. PICK c \in Nameable(p), v \in Covers :
            n = [kind |-> "policy", id |-> p, notify |-> c, archive |-> archive,
                 row |-> [policy[p] EXCEPT !.status = "live", !.owner = c, !.cover = v],
                 since |-> now + 1]
      BY <2>0, <3>1
    <3>3. Live(policy[p]) => c = policy[p].owner
      BY DEF Nameable, OneByOne
    <3>4. policy[p] \in PolicyRow
      BY <1>0
    <3>5. n.kind = "policy" /\ n.id = p /\ n.notify = c /\ n.archive = archive
            /\ n.row.status = "live" /\ n.row.owner = c
      <4> DEFINE r == [policy[p] EXCEPT !.status = "live", !.owner = c, !.cover = v]
      <4>1. r.status = "live" /\ r.owner = c
        BY <3>4 DEF PolicyRow
      <4> HIDE DEF r
      <4>2. n = [kind |-> "policy", id |-> p, notify |-> c, archive |-> archive,
                 row |-> r, since |-> now + 1]
        BY <3>2 DEF r
      <4> QED
        BY <4>1, <4>2
    <3> HIDE DEF n
    <3>6. CASE Live(policy[p])
      BY <3>3, <3>5, <3>6 DEF PolicyDraft, Live, Made
    <3>7. CASE ~Live(policy[p])
      BY <3>1, <3>5, <3>7 DEF PolicyDraft, Live, Made, Fresh
    <3> QED
      BY <3>6, <3>7
  <2>3. CASE BeginClaim(e)
    <3>1. PICK k \in Claims, archive \in BOOLEAN, p \in Policies, v \in Losses :
            /\ \/ Live(claim[k]) /\ p = claim[k].policy
               \/ ~archive /\ Fresh("claim", k, claim[k]) /\ Live(policy[p])
            /\ Begin(e, [kind |-> "claim", id |-> k, notify |-> policy[p].owner,
                         archive |-> archive,
                         row |-> [claim[k] EXCEPT !.status = "live", !.policy = p, !.loss = v],
                         since |-> now + 1])
      BY <2>3 DEF BeginClaim
    <3>2. claim[k] \in ClaimRow
      BY <1>0
    <3>3. n.kind = "claim" /\ n.id = k /\ n.notify = policy[p].owner /\ n.archive = archive
            /\ n.row.status = "live" /\ n.row.policy = p
      <4> DEFINE r == [claim[k] EXCEPT !.status = "live", !.policy = p, !.loss = v]
      <4>1. r.status = "live" /\ r.policy = p
        BY <3>2 DEF ClaimRow
      <4> HIDE DEF r
      <4>2. n = [kind |-> "claim", id |-> k, notify |-> policy[p].owner,
                 archive |-> archive, row |-> r, since |-> now + 1]
        BY <2>0, <3>1 DEF r
      <4> QED
        BY <4>1, <4>2
    <3> HIDE DEF n
    <3>4. CASE Live(claim[k]) /\ p = claim[k].policy
      BY <3>3, <3>4 DEF ClaimDraft, Live, Made, DraftsInform
    <3>5. CASE ~archive /\ Fresh("claim", k, claim[k]) /\ Live(policy[p])
      BY <3>3, <3>5 DEF ClaimDraft, Live, Made, Fresh
    <3> QED
      BY <3>1, <3>4, <3>5
  <2> QED
    BY <2>1, <2>2, <2>3
<1> HIDE DEF n
<1>3. ASSUME NEW f \in Editors
      PROVE  /\ draft'[f].kind = "policy" => PolicyDraft(draft'[f])
             /\ draft'[f].kind = "claim" => ClaimDraft(draft'[f])
  BY <1>1, <1>2 DEF DraftsInform, n
<1>4. ASSUME NEW f \in Editors, NEW g \in Editors, f # g, draft'[f].kind = draft'[g].kind,
             draft'[f].id = draft'[g].id
      PROVE  /\ draft'[f].kind = "policy" => Made(policy[draft'[f].id])
             /\ draft'[f].kind = "claim" => Made(claim[draft'[f].id])
  BY <1>1, <1>2, <1>4 DEF DraftsInform, n
<1> QED
  BY <1>1, <1>3, <1>4 DEF DraftsInform, PolicyDraft, ClaimDraft

\* A commit does not give a stored policy another owner, or a claim another
\* policy, so what the other writes under way know stays true.
LEMMA CommitInforms ==
    ASSUME TypeOK, DraftsNotifyOwn, DraftsInform, NEW e \in Editors, Commit(e)
    PROVE  DraftsInform'
<1> DEFINE d == draft[e]
<1>1. /\ \A p \in Policies :
            \/ policy'[p] = policy[p]
            \/ /\ d.kind = "policy" /\ d.id = p
               /\ Made(policy'[p]) /\ policy'[p].owner = d.notify
               /\ Made(policy[p]) => policy[p].owner = d.notify
      /\ \A k \in Claims :
            \/ claim'[k] = claim[k]
            \/ /\ d.kind = "claim" /\ d.id = k
               /\ Made(claim'[k]) /\ claim'[k].policy = d.row.policy
               /\ Made(policy[d.row.policy])
               /\ Made(claim[k]) => claim[k].policy = d.row.policy
      /\ draft' = [draft EXCEPT ![e] = NoDraft]
  BY CommitWrites
<1>2. draft \in [Editors -> Drafts]
  BY DEF TypeOK
<1>3. \A f \in Editors : draft'[f].kind \in {"policy", "claim"} =>
                            f # e /\ draft'[f] = draft[f] /\ draft[f] \in Drafts \ {NoDraft}
  BY <1>1, <1>2 DEF NoDraft
<1>4. /\ \A p \in Policies : Made(policy[p]) => /\ Made(policy'[p])
                                                /\ policy'[p].owner = policy[p].owner
      /\ \A k \in Claims : Made(claim[k]) => /\ Made(claim'[k])
                                             /\ claim'[k].policy = claim[k].policy
  BY <1>1
<1>5. ASSUME NEW f \in Editors, draft'[f].kind = "policy" PROVE PolicyDraft(draft[f])'
  <2>1. /\ f # e /\ draft'[f] = draft[f] /\ draft[f].kind = "policy"
        /\ draft[f].id \in Policies /\ PolicyDraft(draft[f])
    BY <1>3, <1>5, DraftFields DEF DraftsInform
  <2>2. policy'[draft[f].id] # policy[draft[f].id] => Made(policy[draft[f].id])
    BY <1>1, <2>1 DEF DraftsInform
  <2> QED
    BY <1>4, <2>1, <2>2 DEF PolicyDraft
<1>6. ASSUME NEW f \in Editors, draft'[f].kind = "claim" PROVE ClaimDraft(draft[f])'
  <2>1. /\ f # e /\ draft'[f] = draft[f] /\ draft[f].kind = "claim"
        /\ draft[f].id \in Claims /\ draft[f].row \in ClaimRow /\ ClaimDraft(draft[f])
    BY <1>3, <1>6, DraftFields DEF DraftsInform
  <2>2. draft[f].row.policy \in Policies
    BY <2>1 DEF ClaimRow
  <2>3. claim'[draft[f].id] # claim[draft[f].id] => Made(claim[draft[f].id])
    BY <1>1, <2>1 DEF DraftsInform
  <2> QED
    BY <1>4, <2>1, <2>2, <2>3 DEF ClaimDraft
<1>7. ASSUME NEW f \in Editors, NEW g \in Editors, f # g, draft'[f].kind = draft'[g].kind,
             draft'[f].id = draft'[g].id
      PROVE  /\ draft'[f].kind = "policy" => Made(policy'[draft'[f].id])
             /\ draft'[f].kind = "claim" => Made(claim'[draft'[f].id])
  <2>1. ASSUME draft'[f].kind = "policy" PROVE Made(policy'[draft'[f].id])
    <3>1. draft'[f] = draft[f] /\ draft'[g] = draft[g] /\ draft[f].id \in Policies
      BY <1>3, <1>7, <2>1, DraftFields
    <3>2. f # g /\ draft[f].kind = draft[g].kind /\ draft[f].kind = "policy"
            /\ draft[f].id = draft[g].id
      BY <1>7, <2>1, <3>1
    <3>3. Made(policy[draft[f].id])
      BY <3>2 DEF DraftsInform
    <3> QED
      BY <1>4, <3>1, <3>3
  <2>2. ASSUME draft'[f].kind = "claim" PROVE Made(claim'[draft'[f].id])
    <3>1. draft'[f] = draft[f] /\ draft'[g] = draft[g] /\ draft[f].id \in Claims
      BY <1>3, <1>7, <2>2, DraftFields
    <3>2. f # g /\ draft[f].kind = draft[g].kind /\ draft[f].kind = "claim"
            /\ draft[f].id = draft[g].id
      BY <1>7, <2>2, <3>1
    <3>3. Made(claim[draft[f].id])
      BY <3>2 DEF DraftsInform
    <3> QED
      BY <1>4, <3>1, <3>3
  <2> QED
    BY <2>1, <2>2
<1>8. ASSUME NEW k \in Claims, Made(claim'[k]) PROVE Made(policy'[claim'[k].policy])
  <2>1. claim'[k] \in ClaimRow
    BY CommitTypeOK DEF TypeOK
  <2>2. Made(policy[claim'[k].policy])
    BY <1>1, <1>8 DEF DraftsInform
  <2> QED
    BY <1>4, <2>1, <2>2 DEF ClaimRow
<1> QED
  BY <1>5, <1>6, <1>7, <1>8 DEF DraftsInform

\* Every step keeps it.
LEMMA DraftsInformStep ==
    ASSUME OneByOne, TypeOK, DraftsNotifyOwn, DraftsInform, [Next]_vars
    PROVE  DraftsInform'
<1>1. CASE UNCHANGED <<policy, claim, draft>>
  BY <1>1 DEF DraftsInform, PolicyDraft, ClaimDraft
<1>2. CASE UNCHANGED vars
  BY <1>1, <1>2 DEF vars
<1>3. ASSUME NEW c \in Customers, RunHook(c) PROVE DraftsInform'
  BY <1>1, <1>3 DEF RunHook
<1>4. ASSUME NEW w \in Workers, Task(w) PROVE DraftsInform'
  BY <1>1, <1>4 DEF Task, Run, TaskStart, TaskList, ReadClaims, EvaluateRules, TaskPersist,
                    TaskRaises, WorkerCrash
<1> QED
  BY <1>2, <1>3, <1>4, BeginInforms, CommitInforms, OneByOneSteps
-----------------------------------------------------------------------------
\* The facts of a customer are facts the rule set is defined on.
FactsScorable == \A c \in Customers : FactsOf(c) \in Facts

\* They are, in every well typed state.
LEMMA FactsTyped == TypeOK => FactsScorable
<1> SUFFICES ASSUME TypeOK, NEW c \in Customers PROVE FactsOf(c) \in Facts
  BY DEF FactsScorable
<1> DEFINE cs == [p \in LivePolicies(c) |-> policy[p].cover]
           ls == [k \in LiveClaims(LivePolicies(c)) |-> claim[k].loss]
<1>1. LivePolicies(c) \in SUBSET Policies /\ LiveClaims(LivePolicies(c)) \in SUBSET Claims
  BY DEF LivePolicies, LiveClaims
<1>2. cs \in [LivePolicies(c) -> Covers]
  BY <1>1 DEF TypeOK, PolicyRow
<1>3. ls \in [LiveClaims(LivePolicies(c)) -> Losses]
  BY <1>1 DEF TypeOK, ClaimRow
<1>4. /\ cs \in UNION {[S -> Covers] : S \in SUBSET Policies}
      /\ ls \in UNION {[S -> Losses] : S \in SUBSET Claims}
  BY <1>1, <1>2, <1>3
<1>5. customer[c].age \in Ages
  BY DEF TypeOK, CustomerRow
<1>6. FactsOf(c) = [age |-> customer[c].age, covers |-> cs, losses |-> ls]
  BY DEF FactsOf
<1> HIDE DEF cs, ls
<1> QED
  BY <1>4, <1>5, <1>6 DEF Facts

\* A persist changes no fact it was computed from.
LEMMA PersistKeepsFacts ==
    ASSUME TypeOK, NEW p \in Procs, PersistStep(p), NEW b \in Customers
    PROVE  FactsOf(b)' = FactsOf(b) /\ (Live(customer[b])' <=> Live(customer[b]))
<1> DEFINE c == proc[p].cust
           s == proc[p].score
<1>1. customer' = [customer EXCEPT ![c].mirror = s, ![c].updated = now + 1]
  BY DEF PersistStep, Persist
<1>2. policy' = policy /\ claim' = claim /\ customer \in [Customers -> CustomerRow]
  BY DEF PersistStep, TypeOK
<1> HIDE DEF c, s
<1>3. customer'[b].age = customer[b].age /\ customer'[b].status = customer[b].status
  BY <1>1, <1>2 DEF CustomerRow
<1> QED
  BY <1>2, <1>3 DEF FactsOf, LivePolicies, LiveClaims, Live

\* Facts are made of the three tables.
LEMMA SameFacts ==
    ASSUME UNCHANGED <<customer, policy, claim>>, NEW b \in Customers
    PROVE  /\ FactsOf(b)' = FactsOf(b)
           /\ Live(customer[b])' <=> Live(customer[b])
           /\ ClaimsKept(b)
BY DEF FactsOf, ClaimsKept, LivePolicies, LiveClaims, Live

\* Claims read stay current over a step that keeps them.
LEMMA ClaimsStay ==
    ASSUME NEW w \in Workers, NEW c \in Customers, c = proc[w].cust, proc'[w] = proc[w],
           ClaimsKept(c), ClaimsCurrent(w)
    PROVE  ClaimsCurrent(w)'
<1>1. PICK S : S = LivePolicies(c) \ proc[w].unread
  OBVIOUS
<1>2. S = LivePolicies(c)' \ proc'[w].unread
  BY <1>1 DEF ClaimsKept
<1>3. \A k \in Claims : Live(claim[k])' /\ claim'[k].policy \in S <=>
                        Live(claim[k]) /\ claim[k].policy \in S
  BY <1>1 DEF ClaimsKept, LiveClaims, Live
<1>4. LiveClaims(S)' = LiveClaims(S)
  BY <1>3 DEF LiveClaims
<1>5. \A k \in LiveClaims(S) : claim'[k] = claim[k]
  BY <1>1 DEF ClaimsKept, LiveClaims
<1>6. proc[w].losses = [k \in LiveClaims(S) |-> claim[k].loss]
  BY <1>1 DEF ClaimsCurrent
<1>7. proc'[w].losses = [k \in LiveClaims(S)' |-> claim'[k].loss]
  BY <1>4, <1>5, <1>6
<1> QED
  BY <1>2, <1>7 DEF ClaimsCurrent, ClaimsKept

\* They are still current when the claims of more policies have been read.
LEMMA MoreClaimsCurrent ==
    ASSUME TypeOK, NEW w \in Workers, w \in Procs, ReadClaims(w), NEW c \in Customers,
           c = proc[w].cust, c = proc'[w].cust, ClaimsCurrent(w)
    PROVE  ClaimsCurrent(w)'
<1>1. PICK ps, U, V : ps = LivePolicies(c) /\ U = proc[w].unread /\ V = proc'[w].unread
  OBVIOUS
<1>2. /\ V \subseteq U /\ U \subseteq ps
      /\ proc[w].losses = [k \in LiveClaims(ps \ U) |-> claim[k].loss]
      /\ proc'[w].losses =
            [k \in DOMAIN proc[w].losses \cup LiveClaims(U \ V) |->
               IF k \in LiveClaims(U \ V) THEN claim[k].loss ELSE proc[w].losses[k]]
  <2>1. V \subseteq U
    BY <1>1, ReadFields
  <2>2. /\ U \subseteq ps
        /\ proc[w].losses = [k \in LiveClaims(ps \ U) |-> claim[k].loss]
    BY <1>1 DEF ClaimsCurrent
  <2>3. proc'[w].losses =
          [k \in DOMAIN proc[w].losses \cup LiveClaims(proc[w].unread \ proc'[w].unread) |->
             IF k \in LiveClaims(proc[w].unread \ proc'[w].unread)
               THEN claim[k].loss ELSE proc[w].losses[k]]
    BY ReadFields
  <2> QED
    BY <1>1, <2>1, <2>2, <2>3
<1>3. LiveClaims(ps \ V) = LiveClaims(ps \ U) \cup LiveClaims(U \ V)
  <2>1. ps \ V = (ps \ U) \cup (U \ V)
    BY <1>2
  <2>2. \A S, T : LiveClaims(S \cup T) = LiveClaims(S) \cup LiveClaims(T)
    BY DEF LiveClaims
  <2> QED
    BY <2>1, <2>2
<1>4. proc'[w].losses = [k \in LiveClaims(ps \ V) |-> claim[k].loss]
  BY <1>2, <1>3
<1>5. claim' = claim /\ policy' = policy
  BY DEF ReadClaims
<1>6. LivePolicies(c)' = ps /\ LiveClaims(ps \ V)' = LiveClaims(ps \ V)
  BY <1>1, <1>5 DEF LivePolicies, LiveClaims, Live
<1>7. PICK S : S = ps \ V
  OBVIOUS
<1>8. proc'[w].losses = [k \in LiveClaims(S)' |-> claim'[k].loss]
  BY <1>4, <1>5, <1>6, <1>7
<1>9. S = LivePolicies(c)' \ proc'[w].unread
  BY <1>1, <1>6, <1>7
<1>10. proc'[w].unread \subseteq LivePolicies(c)'
  BY <1>1, <1>2, <1>6
<1> QED
  BY <1>8, <1>9, <1>10 DEF ClaimsCurrent

\* A customer no message or callback is about before and after waits the same.
LEMMA SameWaiting ==
    ASSUME NEW b \in Customers, hooks'[b] = hooks[b], queue'[b] = queue[b]
    PROVE  Waiting(b)' <=> Waiting(b)
BY DEF Waiting

\* A commit leaves a recompute of the customer it notifies waiting, a callback
\* that runs still does.
LEMMA WaitingMade ==
    ASSUME TypeOK, NEW c \in Customers
    PROVE  /\ hooks' = [hooks EXCEPT ![c] = @ + 1] =>
                Waiting(c)' /\ \A b \in Customers \ {c} : hooks'[b] = hooks[b]
           /\ RunHook(c) => /\ Waiting(c) /\ Waiting(c)'
                            /\ \A b \in Customers \ {c} :
                                  hooks'[b] = hooks[b] /\ queue'[b] = queue[b]
<1>0. hooks \in [Customers -> Nat] /\ 0 \in 0..MaxRetries
  BY BoundsAssumption DEF TypeOK
<1>1. ASSUME hooks' = [hooks EXCEPT ![c] = @ + 1]
      PROVE  Waiting(c)' /\ \A b \in Customers \ {c} : hooks'[b] = hooks[b]
  BY <1>0, <1>1 DEF Waiting
<1>2. ASSUME RunHook(c)
      PROVE  /\ Waiting(c) /\ Waiting(c)'
             /\ \A b \in Customers \ {c} : hooks'[b] = hooks[b] /\ queue'[b] = queue[b]
  <2>1. Enqueue(c, 0) /\ hooks[c] > 0 /\ hooks' = [hooks EXCEPT ![c] = @ - 1]
    BY <1>2 DEF RunHook
  <2>2. queue'[c][0] > 0 /\ \A b \in Customers \ {c} : queue'[b] = queue[b]
    BY <1>0, <2>1, OneMoreMessage
  <2>3. \E r \in 0..MaxRetries : queue'[c][r] > 0
    BY <1>0, <2>2
  <2> QED
    BY <1>0, <2>1, <2>2, <2>3 DEF Waiting
<1> QED
  BY <1>1, <1>2

\* What the worker has read stays current, is read current, or has another
\* recompute waiting behind it.
LEMMA ReadsCoveredStep ==
    ASSUME OneByOne, TypeOK, DraftsNotifyOwn, DraftsInform, ReadsCovered, [Next]_vars
    PROVE  ReadsCovered'
<1> SUFFICES ASSUME NEW w \in Workers, proc'[w].pc # "idle"
             PROVE  Waiting(proc[w].cust)' \/ ReadsCurrent(w)'
  BY DEF ReadsCovered
<1>0. /\ w \in Procs /\ proc \in [Procs -> Computations]
      /\ proc[w].pc # "idle" => \E c \in Customers : c = proc[w].cust
  BY ComputationFields DEF TypeOK, Procs
<1>1. ASSUME NEW c \in Customers, c = proc[w].cust, proc'[w] = proc[w],
             FactsOf(c)' = FactsOf(c), ClaimsKept(c),
             hooks'[c] = hooks[c], queue'[c] = queue[c]
      PROVE  Waiting(proc[w].cust)' \/ ReadsCurrent(w)'
  <2>1. Waiting(c)' <=> Waiting(c)
    BY <1>1, SameWaiting
  <2> QED
    BY <1>1, <2>1, ClaimsStay DEF ReadsCovered, ReadsCurrent
<1>2. CASE UNCHANGED <<customer, policy, claim, hooks, queue, proc>>
  BY <1>0, <1>1, <1>2, SameFacts
<1>3. CASE UNCHANGED vars
  BY <1>2, <1>3 DEF vars
<1>4. ASSUME NEW e \in Editors, BeginCustomer(e) \/ BeginPolicy(e) \/ BeginClaim(e)
      PROVE  Waiting(proc[w].cust)' \/ ReadsCurrent(w)'
  <2>1. BeginCustomer(e) => UNCHANGED <<customer, policy, claim, hooks, queue, proc>>
    BY DEF BeginCustomer, Begin
  <2>2. BeginPolicy(e) => UNCHANGED <<customer, policy, claim, hooks, queue, proc>>
    BY DEF BeginPolicy, Begin
  <2>3. BeginClaim(e) => UNCHANGED <<customer, policy, claim, hooks, queue, proc>>
    BY DEF BeginClaim, Begin
  <2> QED
    BY <1>2, <1>4, <2>1, <2>2, <2>3
<1>5. ASSUME NEW e \in Editors, Commit(e)
      PROVE  Waiting(proc[w].cust)' \/ ReadsCurrent(w)'
  <2>1. /\ draft[e].notify \in Customers /\ proc' = proc /\ queue' = queue
        /\ hooks' = [hooks EXCEPT ![draft[e].notify] = @ + 1]
    BY <1>5, CommitWrites, DraftFields
  <2>0. PICK c \in Customers : c = proc[w].cust
    BY <1>0, <2>1
  <2>2. CASE c = draft[e].notify
    BY <2>0, <2>1, <2>2, WaitingMade
  <2>3. CASE c # draft[e].notify
    BY <1>1, <1>5, <2>0, <2>1, <2>3, WaitingMade, CommitLeavesOthers
  <2> QED
    BY <2>2, <2>3
<1>6. ASSUME NEW b \in Customers, RunHook(b)
      PROVE  Waiting(proc[w].cust)' \/ ReadsCurrent(w)'
  <2>1. UNCHANGED <<customer, policy, claim, proc>>
    BY <1>6 DEF RunHook
  <2>0. PICK c \in Customers : c = proc[w].cust
    BY <1>0, <2>1
  <2>2. CASE c = b
    BY <1>6, <2>0, <2>1, <2>2, WaitingMade
  <2>3. CASE c # b
    BY <1>1, <1>6, <2>0, <2>1, <2>3, WaitingMade, SameFacts
  <2> QED
    BY <2>2, <2>3
<1>7. ASSUME Task(w)
      PROVE  Waiting(proc[w].cust)' \/ ReadsCurrent(w)'
  <2>1. ASSUME NEW b \in Customers, NEW r \in 0..MaxRetries, TaskStart(w, b, r)
        PROVE  ReadsCurrent(w)'
    <3>1. UNCHANGED <<customer, policy, claim>>
      BY <2>1 DEF TaskStart
    <3>2. proc'[w] = [pc |-> "fetched", origin |-> "task", cust |-> b,
                      tries |-> r, age |-> customer[b].age]
      BY <1>0, <2>1 DEF TaskStart, Idle
    <3> QED
      BY <3>1, <3>2 DEF ReadsCurrent, FactsOf
  <2>2. CASE TaskList(w)
    <3>1. UNCHANGED <<customer, policy, claim, hooks, queue>> /\ proc[w].pc = "fetched"
            /\ List(w)
      BY <1>0, <2>2 DEF TaskList, Idle
    <3>0. PICK c \in Customers : c = proc[w].cust
      BY <1>0, <3>1
    <3>2. /\ proc'[w].pc = "listed" /\ proc'[w].cust = c /\ proc'[w].age = proc[w].age
          /\ proc'[w].covers = [q \in LivePolicies(c) |-> policy[q].cover]
          /\ proc'[w].unread = LivePolicies(c) /\ proc'[w].losses = [k \in {} |-> 0]
      BY <1>0, <3>0, <3>1 DEF List
    <3>3. FactsOf(c)' = FactsOf(c) /\ (Waiting(c)' <=> Waiting(c))
      BY <3>1, SameFacts, SameWaiting
    <3>4. Waiting(c) \/ proc[w].age = FactsOf(c).age
      BY <3>0, <3>1 DEF ReadsCovered, ReadsCurrent
    <3>5. FactsOf(c).covers = [q \in LivePolicies(c) |-> policy[q].cover]
      BY DEF FactsOf
    <3>6. ClaimsCurrent(w)'
      <4>1. LivePolicies(c)' = LivePolicies(c)
        BY <3>1 DEF LivePolicies, Live
      <4>2. LivePolicies(c)' \ proc'[w].unread = {}
        BY <3>2, <4>1
      <4>3. LiveClaims({})' = {}
        BY DEF LiveClaims
      <4>4. proc'[w].losses = [k \in LiveClaims({})' |-> claim'[k].loss]
        BY <3>2, <4>3
      <4> QED
        BY <3>2, <4>1, <4>2, <4>4 DEF ClaimsCurrent
    <3> QED
      BY <3>2, <3>3, <3>4, <3>5, <3>6 DEF ReadsCurrent
  <2>3. CASE EvaluateRules(w)
    <3> DEFINE facts == [age |-> proc[w].age, covers |-> proc[w].covers,
                         losses |-> proc[w].losses]
    <3>1. /\ UNCHANGED <<customer, policy, claim, hooks, queue>>
          /\ proc[w].pc = "listed" /\ proc[w].unread = {}
      BY <2>3 DEF EvaluateRules
    <3>0. PICK c \in Customers : c = proc[w].cust
      BY <1>0, <3>1
    <3>2. /\ proc'[w].pc = "scored" /\ proc'[w].cust = c
          /\ proc'[w].score = Score(facts)
      BY <1>0, <2>3, <3>0 DEF EvaluateRules
    <3>3. FactsOf(c)' = FactsOf(c) /\ (Waiting(c)' <=> Waiting(c))
      BY <3>1, SameFacts, SameWaiting
    <3>4. CASE Waiting(c)
      BY <3>2, <3>3, <3>4
    <3>5. CASE ReadsCurrent(w)
      <4>1. /\ proc[w].age = FactsOf(c).age /\ proc[w].covers = FactsOf(c).covers
            /\ ClaimsCurrent(w)
        BY <3>0, <3>1, <3>5 DEF ReadsCurrent
      <4>2. proc[w].losses = [k \in LiveClaims(LivePolicies(c)) |-> claim[k].loss]
        <5>1. LivePolicies(c) \ {} = LivePolicies(c)
          OBVIOUS
        <5> QED
          BY <3>0, <3>1, <4>1, <5>1 DEF ClaimsCurrent
      <4>3. facts = FactsOf(c)
        BY <4>1, <4>2 DEF FactsOf
      <4> QED
        BY <3>2, <3>3, <4>3 DEF ReadsCurrent
    <3> QED
      BY <3>0, <3>1, <3>4, <3>5 DEF ReadsCovered
  <2>4. CASE TaskPersist(w) \/ TaskRaises(w) \/ WorkerCrash(w)
    BY <1>0, <2>4 DEF TaskPersist, TaskRaises, Retry, WorkerCrash, Idle
  <2>5. CASE ReadClaims(w)
    <3>1. UNCHANGED <<customer, policy, claim, hooks, queue>> /\ proc[w].pc = "listed"
      BY <2>5 DEF ReadClaims
    <3>0. PICK c \in Customers : c = proc[w].cust
      BY <1>0, <3>1
    <3>2. /\ proc'[w].pc = "listed" /\ proc'[w].cust = c
          /\ proc'[w].age = proc[w].age /\ proc'[w].covers = proc[w].covers
      BY <1>0, <2>5, <3>0, ReadFields DEF Listed
    <3>3. FactsOf(c)' = FactsOf(c) /\ (Waiting(c)' <=> Waiting(c))
      BY <3>1, SameFacts, SameWaiting
    <3>4. CASE Waiting(c)
      BY <3>2, <3>3, <3>4
    <3>5. CASE ReadsCurrent(w)
      <4>1. ClaimsCurrent(w)'
        BY <1>0, <2>5, <3>0, <3>1, <3>2, <3>5, MoreClaimsCurrent DEF ReadsCurrent
      <4> QED
        BY <3>0, <3>1, <3>2, <3>3, <3>5, <4>1 DEF ReadsCurrent
    <3> QED
      BY <3>0, <3>1, <3>4, <3>5 DEF ReadsCovered
  <2> QED
    BY <1>7, <2>1, <2>2, <2>3, <2>4, <2>5 DEF Task, Run
<1> QED
  BY <1>3, <1>4, <1>5, <1>6, <1>7, OneByOneSteps DEF OneByOne
-----------------------------------------------------------------------------
\* The customers Book counts as due are those whose debt is accounted for.
LEMMA DueAccounted ==
    TypeOK => {c \in Customers : Owed(c)} \cup failed \cup lost = {c \in Customers : Accounted(c)}
BY DEF TypeOK, Accounted

\* A step that shows in nothing Book speaks of.
LEMMA BookStutters ==
    ASSUME TypeOK, TypeOK', assessment' = assessment,
           \A b \in Customers : /\ FactsOf(b)' = FactsOf(b)
                                /\ Live(customer[b])' <=> Live(customer[b])
                                /\ Accounted(b)' <=> Accounted(b)
    PROVE  UNCHANGED Book!vars
<1>1. ({c \in Customers : Owed(c)} \cup failed \cup lost)' = {c \in Customers : Accounted(c)'}
  BY DEF TypeOK, Accounted
<1>2. ({c \in Customers : Owed(c)} \cup failed \cup lost)'
        = {c \in Customers : Owed(c)} \cup failed \cup lost
  BY <1>1, DueAccounted
<1>3. {c \in Customers : Live(customer[c])}' = {c \in Customers : Live(customer[c])}
  OBVIOUS
<1>4. [c \in Customers |-> FactsOf(c)]' = [c \in Customers |-> FactsOf(c)]
  OBVIOUS
<1>5. [c \in Customers |-> assessment[c].score]' = [c \in Customers |-> assessment[c].score]
  OBVIOUS
<1> QED
  BY <1>2, <1>3, <1>4, <1>5 DEF Book!vars

\* A write of one customer's data that leaves the customer due.
LEMMA BookEdits ==
    ASSUME TypeOK, TypeOK', assessment' = assessment, NEW c \in Customers, Accounted(c)',
           \A b \in Customers \ {c} : /\ FactsOf(b)' = FactsOf(b)
                                      /\ Live(customer[b])' <=> Live(customer[b])
                                      /\ Accounted(b)' <=> Accounted(b)
    PROVE  Book!Edit(c)
<1> DEFINE L == {b \in Customers : Live(customer[b])}
           F == [b \in Customers |-> FactsOf(b)]
           D == {b \in Customers : Owed(b)} \cup failed \cup lost
<1>1. \E f \in Facts : F' = [F EXCEPT ![c] = f]
  <2>1. FactsOf(c)' \in Facts
    <3>1. FactsScorable'
      BY FactsTyped, PTL
    <3> QED
      BY <3>1 DEF FactsScorable
  <2>2. F' = [F EXCEPT ![c] = FactsOf(c)']
    OBVIOUS
  <2> QED
    BY <2>1, <2>2
<1>2. L' \in {L, L \cup {c}, L \ {c}}
  OBVIOUS
<1>3. D' = D \cup {c}
  <2>1. D' = {b \in Customers : Accounted(b)'}
    BY DEF TypeOK, Accounted
  <2> QED
    BY <2>1, DueAccounted
<1>4. [b \in Customers |-> assessment[b].score]' = [b \in Customers |-> assessment[b].score]
  OBVIOUS
<1> QED
  BY <1>1, <1>2, <1>3, <1>4 DEF Book!Edit

\* A recompute that stores a score, and settles the debt only if it is right.
LEMMA BookRescores ==
    ASSUME TypeOK, TypeOK', NEW c \in Customers, Live(customer[c]), Accounted(c), Assessed(c),
           assessment'[c].score \in Scores,
           \A b \in Customers : /\ FactsOf(b)' = FactsOf(b)
                                /\ Live(customer[b])' <=> Live(customer[b]),
           \A b \in Customers \ {c} : /\ Accounted(b)' <=> Accounted(b)
                                      /\ assessment'[b] = assessment[b],
           Accounted(c)' \/ assessment'[c].score = Score(FactsOf(c))
    PROVE  Book!Rescore(c)
<1> DEFINE L == {b \in Customers : Live(customer[b])}
           F == [b \in Customers |-> FactsOf(b)]
           S == [b \in Customers |-> assessment[b].score]
           D == {b \in Customers : Owed(b)} \cup failed \cup lost
<1>1. c \in L \cap D /\ S[c] # Unscored
  BY DueAccounted DEF Assessed
<1>2. \E s \in Scores : S' = [S EXCEPT ![c] = s]
  <2>1. S' = [S EXCEPT ![c] = assessment'[c].score]
    OBVIOUS
  <2> QED
    BY <2>1
<1>3. L' = L /\ F' = F
  OBVIOUS
<1>4. D' = D \/ (D' = D \ {c} /\ S'[c] = Score(F'[c]))
  <2>1. D' = {b \in Customers : Accounted(b)'}
    BY DEF TypeOK, Accounted
  <2>2. D = {b \in Customers : Accounted(b)}
    BY DueAccounted
  <2>3. CASE Accounted(c)'
    BY <2>1, <2>2, <2>3
  <2>4. CASE ~Accounted(c)'
    <3>1. D' = D \ {c}
      BY <2>1, <2>2, <2>4
    <3>2. S'[c] = Score(F'[c])
      BY <2>4
    <3> QED
      BY <3>1, <3>2
  <2> QED
    BY <2>3, <2>4
<1> QED
  BY <1>1, <1>2, <1>3, <1>4 DEF Book!Rescore, Book!Current

\* A message for a customer there is nothing to recompute for.
LEMMA BookSkips ==
    ASSUME TypeOK, TypeOK', assessment' = assessment, NEW c \in Customers,
           Accounted(c), ~Accounted(c)', ~Live(customer[c]) \/ ~Assessed(c),
           \A b \in Customers : /\ FactsOf(b)' = FactsOf(b)
                                /\ Live(customer[b])' <=> Live(customer[b]),
           \A b \in Customers \ {c} : Accounted(b)' <=> Accounted(b)
    PROVE  Book!Skip(c)
<1> DEFINE L == {b \in Customers : Live(customer[b])}
           F == [b \in Customers |-> FactsOf(b)]
           S == [b \in Customers |-> assessment[b].score]
           D == {b \in Customers : Owed(b)} \cup failed \cup lost
<1>1. c \in D /\ (c \notin L \/ S[c] = Unscored)
  BY DueAccounted DEF Assessed
<1>2. L' = L /\ F' = F /\ S' = S
  OBVIOUS
<1>3. D' = D \ {c}
  <2>1. D' = {b \in Customers : Accounted(b)'}
    BY DEF TypeOK, Accounted
  <2> QED
    BY <2>1, DueAccounted
<1> QED
  BY <1>1, <1>2, <1>3 DEF Book!Skip
-----------------------------------------------------------------------------
\* With one worker, the debt is what waits and what the worker is on.
LEMMA OwedParts ==
    ASSUME OneByOne, NEW w \in Workers, NEW b \in Customers
    PROVE  /\ Owed(b) <=> Waiting(b) \/ (proc[w].pc # "idle" /\ proc[w].cust = b)
           /\ Owed(b)' <=> Waiting(b)' \/ (proc'[w].pc # "idle" /\ proc'[w].cust = b)
BY DEF OneByOne, Owed, Waiting

\* A debt nothing touches.
LEMMA SameAccounted ==
    ASSUME NEW b \in Customers, hooks'[b] = hooks[b], queue'[b] = queue[b], proc' = proc,
           UNCHANGED <<failed, lost>>
    PROVE  Accounted(b)' <=> Accounted(b)
BY DEF Accounted, Owed

\* A write is an edit of the customer it notifies.
LEMMA CommitIsEdit ==
    ASSUME TypeOK, TypeOK', DraftsNotifyOwn, DraftsInform, NEW e \in Editors, Commit(e)
    PROVE  Book!Edit(draft[e].notify)
<1>1. PICK c \in Customers : c = draft[e].notify
  BY CommitWrites, DraftFields
<1>2. /\ hooks' = [hooks EXCEPT ![c] = @ + 1]
      /\ UNCHANGED <<assessment, queue, proc, failed, lost>>
  BY <1>1, CommitWrites
<1>3. Accounted(c)'
  BY <1>2, WaitingMade DEF Accounted, Owed, Waiting
<1>4. ASSUME NEW b \in Customers \ {c}
      PROVE  /\ FactsOf(b)' = FactsOf(b)
             /\ Live(customer[b])' <=> Live(customer[b])
             /\ Accounted(b)' <=> Accounted(b)
  <2>1. FactsOf(b)' = FactsOf(b) /\ customer'[b] = customer[b]
    BY <1>1, CommitLeavesOthers
  <2>2. hooks'[b] = hooks[b]
    BY <1>2, WaitingMade
  <2> QED
    BY <1>2, <2>1, <2>2, SameAccounted DEF Live
<1> QED
  BY <1>1, <1>2, <1>3, <1>4, BookEdits

\* A callback that runs moves the debt to the queue.
LEMMA HookStutters ==
    ASSUME TypeOK, TypeOK', NEW c \in Customers, RunHook(c)
    PROVE  UNCHANGED Book!vars
<1>1. UNCHANGED <<customer, policy, claim, assessment, proc, failed, lost>>
  BY DEF RunHook
<1>2. Accounted(c) /\ Accounted(c)'
  BY WaitingMade DEF Accounted, Owed, Waiting
<1>3. \A b \in Customers \ {c} : Accounted(b)' <=> Accounted(b)
  BY <1>1, WaitingMade, SameAccounted
<1> QED
  BY <1>1, <1>2, <1>3, SameFacts, BookStutters

\* A message that is taken puts the worker in debt, unless there is no live
\* customer to recompute.
LEMMA StartMaps ==
    ASSUME OneByOne, TypeOK, TypeOK', NEW w \in Workers, NEW c \in Customers,
           NEW r \in 0..MaxRetries, TaskStart(w, c, r)
    PROVE  UNCHANGED Book!vars \/ Book!Skip(c)
<1>0. /\ w \in Procs /\ proc \in [Procs -> Computations]
      /\ queue \in [Customers -> [0..MaxRetries -> Nat]]
  BY DEF TypeOK, Procs
<1>1. /\ UNCHANGED <<customer, policy, claim, assessment, hooks, failed, lost>>
      /\ proc[w].pc = "idle" /\ queue[c][r] > 0
      /\ queue' = [queue EXCEPT ![c][r] = @ - 1]
  BY DEF TaskStart, Idle
<1>2. proc'[w].pc = "idle" \/ (Live(customer[c]) /\ proc'[w].cust = c)
  BY <1>0, <1>1 DEF TaskStart
<1>3. Accounted(c)
  BY <1>1 DEF Accounted, Owed
<1>4. ASSUME NEW b \in Customers \ {c} PROVE Accounted(b)' <=> Accounted(b)
  <2>1. queue'[b] = queue[b]
    BY <1>0, <1>1
  <2> QED
    BY <1>1, <1>2, <2>1, OwedParts, SameWaiting DEF Accounted
<1>5. Live(customer[c]) => Accounted(c)'
  <2>1. Live(customer[c]) => proc'[w].pc # "idle" /\ proc'[w].cust = c
    BY <1>0 DEF TaskStart
  <2> QED
    BY <2>1, OwedParts DEF Accounted
<1>6. \A b \in Customers : FactsOf(b)' = FactsOf(b) /\ (Live(customer[b])' <=> Live(customer[b]))
  BY <1>1, SameFacts
<1>7. CASE Accounted(c)'
  BY <1>1, <1>3, <1>4, <1>6, <1>7, BookStutters
<1>8. CASE ~Accounted(c)'
  BY <1>1, <1>3, <1>4, <1>5, <1>6, <1>8, BookSkips
<1> QED
  BY <1>7, <1>8

\* The worker goes on with its customer, or finds that it has no assessment.
LEMMA ReadMaps ==
    ASSUME OneByOne, TypeOK, TypeOK', NEW w \in Workers,
           TaskList(w) \/ ReadClaims(w) \/ EvaluateRules(w),
           NEW c \in Customers, c = proc[w].cust
    PROVE  UNCHANGED Book!vars \/ Book!Skip(c)
<1>0. w \in Procs /\ proc \in [Procs -> Computations]
  BY DEF TypeOK, Procs
<1>1. /\ UNCHANGED <<customer, policy, claim, assessment, hooks, queue, failed, lost>>
      /\ proc[w].pc \in {"fetched", "listed"}
  BY DEF TaskList, ReadClaims, EvaluateRules
<1>2. \/ proc'[w].pc # "idle" /\ proc'[w].cust = c
      \/ proc'[w].pc = "idle" /\ ~Assessed(c)
  <2>1. CASE ReadClaims(w)
    BY <1>0, <2>1, ReadFields DEF Listed
  <2> QED
    BY <1>0, <2>1 DEF TaskList, List, EvaluateRules, Idle
<1>3. Accounted(c)
  BY <1>1, OwedParts DEF Accounted
<1>4. \A b \in Customers \ {c} : Accounted(b)' <=> Accounted(b)
  BY <1>1, <1>2, OwedParts, SameWaiting DEF Accounted
<1>5. Assessed(c) => Accounted(c)'
  BY <1>2, OwedParts DEF Accounted
<1>6. \A b \in Customers : FactsOf(b)' = FactsOf(b) /\ (Live(customer[b])' <=> Live(customer[b]))
  BY <1>1, SameFacts
<1>7. CASE Accounted(c)'
  BY <1>1, <1>3, <1>4, <1>6, <1>7, BookStutters
<1>8. CASE ~Accounted(c)'
  BY <1>1, <1>3, <1>4, <1>5, <1>6, <1>8, BookSkips
<1> QED
  BY <1>7, <1>8

\* What a worker stores is the score of the data as they are, or another
\* recompute is waiting.
LEMMA PersistIsRescore ==
    ASSUME OneByOne, TypeOK, TypeOK', TaskHasAssessment, ReadsCovered,
           NEW w \in Workers, TaskPersist(w), NEW c \in Customers, c = proc[w].cust
    PROVE  Book!Rescore(c)
<1>0. /\ w \in Procs /\ proc \in [Procs -> Computations] /\ PersistStep(w)
      /\ assessment \in [Customers -> Assessment]
  BY DEF TypeOK, Procs, TaskPersist, PersistStep
<1>1. /\ Live(customer[c]) /\ assessment'[c].score \in Scores
      /\ \A b \in Customers \ {c} : assessment'[b] = assessment[b]
  BY <1>0, PersistWrites
<1>2. /\ proc[w].pc = "scored" /\ proc'[w].pc = "idle" /\ UNCHANGED <<hooks, queue>>
      /\ failed' = failed \ {c} /\ lost' = lost \ {c}
      /\ assessment'[c].score = proc[w].score
  BY <1>0 DEF PersistStep, Persistable, Persist, Idle
<1>3. Accounted(c) /\ Assessed(c)
  BY <1>2, OwedParts DEF Accounted, TaskHasAssessment
<1>4. \A b \in Customers \ {c} : Accounted(b)' <=> Accounted(b)
  BY <1>2, OwedParts, SameWaiting DEF Accounted
<1>5. \A b \in Customers : FactsOf(b)' = FactsOf(b) /\ (Live(customer[b])' <=> Live(customer[b]))
  BY <1>0, PersistKeepsFacts
<1>6. Accounted(c)' \/ assessment'[c].score = Score(FactsOf(c))
  <2>1. CASE Waiting(c)
    BY <1>2, <2>1, OwedParts, SameWaiting DEF Accounted
  <2>2. CASE ReadsCurrent(w)
    BY <1>2, <2>2 DEF ReadsCurrent
  <2> QED
    BY <1>2, <2>1, <2>2 DEF ReadsCovered
<1> QED
  BY <1>1, <1>3, <1>4, <1>5, <1>6, BookRescores

\* A task that raises or dies leaves the debt with the next message, the
\* recompute_failed entry or the lost delivery.
LEMMA RaiseStutters ==
    ASSUME OneByOne, TypeOK, TypeOK', NEW w \in Workers, TaskRaises(w) \/ WorkerCrash(w)
    PROVE  UNCHANGED Book!vars
<1>0. /\ w \in Procs /\ proc \in [Procs -> Computations] /\ proc[w].pc # "idle"
  BY DEF TypeOK, Procs, TaskRaises, WorkerCrash
<1>1. PICK c \in Customers, r \in 0..MaxRetries : c = proc[w].cust /\ r = proc[w].tries
  BY <1>0, ComputationFields
<1>2. /\ UNCHANGED <<customer, policy, claim, assessment, hooks>>
      /\ proc'[w].pc = "idle"
  BY <1>0 DEF TaskRaises, Retry, WorkerCrash, Idle
<1>3. Accounted(c)
  BY <1>0, <1>1, OwedParts DEF Accounted
<1>4. Accounted(c)' /\ \A b \in Customers \ {c} : Accounted(b)' <=> Accounted(b)
  <2>1. CASE r < MaxRetries /\ Enqueue(c, r + 1) /\ UNCHANGED <<failed, lost>>
    <3>1. r + 1 \in 0..MaxRetries
      BY <2>1, BoundsAssumption
    <3>2. queue'[c][r + 1] > 0 /\ \A b \in Customers \ {c} : queue'[b] = queue[b]
      BY <2>1, <3>1, OneMoreMessage
    <3>3. Waiting(c)'
      BY <3>1, <3>2 DEF Waiting
    <3> QED
      BY <1>0, <1>1, <1>2, <2>1, <3>2, <3>3, OwedParts, SameWaiting DEF Accounted
  <2>2. CASE UNCHANGED <<queue, lost>> /\ failed' = failed \cup {c}
    BY <1>0, <1>1, <1>2, <2>2, OwedParts, SameWaiting DEF Accounted
  <2>3. CASE UNCHANGED <<queue, failed>> /\ lost' = lost \cup {c}
    BY <1>0, <1>1, <1>2, <2>3, OwedParts, SameWaiting DEF Accounted
  <2> QED
    BY <1>1, <2>1, <2>2, <2>3 DEF TaskRaises, Retry, WorkerCrash
<1>5. \A b \in Customers : FactsOf(b)' = FactsOf(b) /\ (Live(customer[b])' <=> Live(customer[b]))
  BY <1>2, SameFacts
<1> QED
  BY <1>2, <1>3, <1>4, <1>5, BookStutters
-----------------------------------------------------------------------------
\* The steps of Book, one by one.
LEMMA BookStep ==
    ASSUME OneByOne, TypeOK, TypeOK', TaskHasAssessment, DraftsNotifyOwn, DraftsInform,
           ReadsCovered, [Next]_vars
    PROVE  [Book!Next]_(Book!vars)
<1>0. ASSUME NEW c \in Customers, Book!Edit(c) \/ Book!Rescore(c) \/ Book!Skip(c)
      PROVE  Book!Next
  BY <1>0 DEF Book!Next
<1>1. CASE UNCHANGED <<customer, policy, claim, assessment, hooks, queue, proc, failed, lost>>
  <2>1. \A b \in Customers : Accounted(b)' <=> Accounted(b)
    BY <1>1, SameAccounted
  <2> QED
    BY <1>1, <2>1, SameFacts, BookStutters
<1>2. CASE UNCHANGED vars
  BY <1>1, <1>2 DEF vars
<1>3. ASSUME NEW e \in Editors, BeginCustomer(e) \/ BeginPolicy(e) \/ BeginClaim(e)
      PROVE  [Book!Next]_(Book!vars)
  <2>1. UNCHANGED <<customer, policy, claim, assessment, hooks, queue, proc, failed, lost>>
    BY <1>3 DEF BeginCustomer, BeginPolicy, BeginClaim, Begin
  <2> QED
    BY <1>1, <2>1
<1>4. ASSUME NEW e \in Editors, Commit(e) PROVE [Book!Next]_(Book!vars)
  <2>1. draft[e].notify \in Customers
    BY <1>4, CommitWrites, DraftFields
  <2> QED
    BY <1>0, <1>4, <2>1, CommitIsEdit
<1>5. ASSUME NEW c \in Customers, RunHook(c) PROVE [Book!Next]_(Book!vars)
  BY <1>5, HookStutters
<1>6. ASSUME NEW w \in Workers, Task(w) PROVE [Book!Next]_(Book!vars)
  <2>0. proc[w].pc # "idle" => proc[w].cust \in Customers
    BY ComputationFields DEF TypeOK, Procs
  <2>1. ASSUME NEW c \in Customers, NEW r \in 0..MaxRetries, TaskStart(w, c, r)
        PROVE  [Book!Next]_(Book!vars)
    BY <1>0, <2>1, StartMaps
  <2>2. CASE TaskList(w) \/ ReadClaims(w) \/ EvaluateRules(w)
    <3>1. proc[w].cust \in Customers
      BY <2>0, <2>2 DEF TaskList, ReadClaims, EvaluateRules
    <3> QED
      BY <1>0, <2>2, <3>1, ReadMaps
  <2>3. CASE TaskPersist(w)
    <3>1. proc[w].cust \in Customers
      BY <2>0, <2>3 DEF TaskPersist, Persistable
    <3> QED
      BY <1>0, <2>3, <3>1, PersistIsRescore
  <2>4. CASE TaskRaises(w) \/ WorkerCrash(w)
    BY <2>4, RaiseStutters
  <2> QED
    BY <1>6, <2>1, <2>2, <2>3, <2>4 DEF Task, Run
<1> QED
  BY <1>2, <1>3, <1>4, <1>5, <1>6, OneByOneSteps

\* A book at rest owes nothing and is scored right.
LEMMA BookStarts == Init => Book!Init
<1> SUFFICES ASSUME Init PROVE Book!Init
  OBVIOUS
<1> DEFINE L == {c \in Customers : Live(customer[c])}
           F == [c \in Customers |-> FactsOf(c)]
           S == [c \in Customers |-> assessment[c].score]
           D == {c \in Customers : Owed(c)} \cup failed \cup lost
<1>1. L \subseteq Customers /\ F \in [Customers -> Facts]
  BY InitTypeOK, FactsTyped DEF FactsScorable
<1>2. S \in [Customers -> Scores \cup {Unscored}]
  BY InitTypeOK DEF TypeOK, Assessment
<1>3. D = {}
  BY DEF Init, Owed, Idle, Procs
<1>4. \A c \in L : S[c] \in {Unscored, Score(F[c])}
  BY DEF Init
<1> QED
  BY <1>1, <1>2, <1>3, <1>4 DEF Book!Init, Book!Current

\* What SettledIsCurrent says of the code is what Settled says of the promise.
LEMMA SettledMapped == TypeOK => (SettledIsCurrent <=> Book!Settled)
<1> SUFFICES ASSUME TypeOK PROVE SettledIsCurrent <=> Book!Settled
  OBVIOUS
<1>1. Book!Settled <=>
        \A c \in Customers : Live(customer[c]) /\ ~Accounted(c) =>
           assessment[c].score \in {Unscored, Score(FactsOf(c))}
  BY DueAccounted DEF Book!Settled, Book!Current
<1> QED
  BY <1>1 DEF SettledIsCurrent, Accounted, Assessed

\* The promise keeps it: an edit makes a recompute due, and only the score of
\* the current data, or having nothing to score, settles it.
LEMMA PromiseSettles == Book!Settled /\ [Book!Next]_(Book!vars) => Book!Settled'
BY DEF Book!Settled, Book!Next, Book!Edit, Book!Rescore, Book!Skip, Book!Current, Book!vars

\* Under OneByOne, whatever the interleaving of writes, callbacks, tasks,
\* retries and crashes, automatic recompute does what ScoreBook allows: a
\* change of a customer's data makes a recompute due, and only a score of the
\* data as they are settles it.
THEOREM RecomputeImplementsScoreBook ==
    ASSUME OneByOne PROVE Spec => ImplementsScoreBook
<1> DEFINE IInv == TaskHasAssessment /\ DraftsNotifyOwn /\ DraftsInform /\ ReadsCovered
<1>1. Init => IInv
  BY DEF Init, TaskHasAssessment, DraftsNotifyOwn, DraftsInform, ReadsCovered, NoDraft, Procs,
         Idle, Made, Live
<1>2. TypeOK /\ IInv /\ [Next]_vars => IInv'
  BY TaskHasAssessmentStep, DraftsNotifyOwnStep, DraftsInformStep, ReadsCoveredStep
<1>3. TypeOK /\ TypeOK' /\ IInv /\ [Next]_vars => [Book!Next]_(Book!vars)
  BY BookStep
<1> HIDE DEF IInv
<1> QED
  BY <1>1, <1>2, <1>3, BookStarts, TypeCorrect, PTL DEF Spec, ImplementsScoreBook, Book!Spec

\* So a live customer's stored score is the score of the current data once no
\* recompute is owed, recorded as failed, or lost: "a customer's
\* finally-computed score is never provably wrong".
THEOREM SettledStaysCurrent ==
    ASSUME OneByOne PROVE Spec => []SettledIsCurrent
<1>1. Book!Init => Book!Settled
  BY DEF Book!Init, Book!Settled
<1> QED
  BY <1>1, PromiseSettles, SettledMapped, RecomputeImplementsScoreBook, TypeCorrect, PTL
     DEF ImplementsScoreBook, Book!Spec
=============================================================================
