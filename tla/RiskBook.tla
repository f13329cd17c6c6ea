------------------------------- MODULE RiskBook -------------------------------
(***************************************************************************)
(* One customer's live book growing and shrinking under the rule set: what *)
(* is stored of it and what score_customer makes of it after each change,  *)
(* against a second definition of the score. Which policy a claim is for   *)
(* is left out: there are more books here than a database can hold.        *)
(***************************************************************************)
EXTENDS RiskRules, FiniteSetsExt

CONSTANTS PolicyIds, ClaimIds, Ages, PolicyTypes, Premiums, Statuses, Amounts

\* An age is recorded or not, premiums and amounts are in cents and not
\* negative (policies/models.py, claims/models.py).
ASSUME BookAssumption == Ages \subseteq Nat \cup {NoAge} /\ Premiums \cup Amounts \subseteq Nat

VARIABLES age, policies, claims,
          assessment    \* what score_customer returns for the book as it stands

vars == <<age, policies, claims, assessment>>

Without(f, x) == Restrict(f, DOMAIN f \ {x})
With(f, x, v) == [y \in DOMAIN f \cup {x} |-> IF y = x THEN v ELSE f[y]]

Init ==
    /\ age \in Ages /\ policies = [p \in {} |-> 0] /\ claims = [k \in {} |-> 0]
    /\ assessment = ScoreCustomer(age, policies, claims)

\* The book becomes ps and ks and is scored again.
Rescore(ps, ks) ==
    /\ policies' = ps /\ claims' = ks
    /\ assessment' = ScoreCustomer(age, ps, ks)
    /\ UNCHANGED age

AddPolicy ==
    \E p \in PolicyIds \ DOMAIN policies, t \in PolicyTypes, m \in Premiums :
       Rescore(With(policies, p, [type |-> t, premium |-> m]), claims)

ArchivePolicy == \E p \in DOMAIN policies : Rescore(Without(policies, p), claims)

FileClaim ==
    \E k \in ClaimIds \ DOMAIN claims, s \in Statuses, a \in Amounts :
       Rescore(policies, With(claims, k, [status |-> s, amount |-> a]))

ArchiveClaim == \E k \in DOMAIN claims : Rescore(policies, Without(claims, k))

Next == AddPolicy \/ ArchivePolicy \/ FileClaim \/ ArchiveClaim

Spec == Init /\ [][Next]_vars
-----------------------------------------------------------------------------
\* The scale of rules.max_score: no book scores outside 0..MaxScore, so the
\* risk_score_range constraint never refuses a persist.
ScoreOnScale == assessment.score \in 0..MaxScore

\* TIER_BANDS has neither gap nor overlap at any score the rules can produce:
\* the stored tier can always be re-derived from the stored score.
TierIsUnique ==
    Cardinality({i \in DOMAIN TIER_BANDS :
                   assessment.score \in TIER_BANDS[i].lower .. TIER_BANDS[i].upper}) = 1

\* The closed form of the table, written from the bounds and not from _select.
ReferenceAge ==
    CASE age = NoAge    -> 0
      [] age \in 0..24  -> 15
      [] age \in 25..34 -> 5
      [] age \in 35..64 -> 0
      [] age >= 65      -> 10

ReferenceType ==
    Max({0} \cup {POLICY_TYPE_POINTS[policies[p].type] :
                    p \in {q \in DOMAIN policies :
                             policies[q].type \in DOMAIN POLICY_TYPE_POINTS}})

ReferenceRatio ==
    LET premium == MapThenSumSet(LAMBDA p : policies[p].premium, DOMAIN policies)
        claimed == MapThenSumSet(LAMBDA k : claims[k].amount, DOMAIN claims)
        steps   == {n \in {1, 3, 5} : claimed >= n * premium}
    IN  IF premium = 0 THEN 0 ELSE 10 * Cardinality(steps)

ReferenceClaims ==
    LET amounts  == {claims[k].amount : k \in DOMAIN claims}
        statuses == {claims[k].status : k \in DOMAIN claims}
    IN  (IF amounts = {} THEN 0 ELSE IF amounts = {0} THEN 5 ELSE 20)
          + (IF "Denied" \in statuses THEN 10 ELSE 0)

\* Every boundary of every factor lands where the published table puts it, for
\* each book: the band walk of _select agrees with the closed form.
MatchesReference ==
    assessment.score = ReferenceAge + ReferenceType + ReferenceClaims + ReferenceRatio

\* Filing one more claim, denied or not, zero or not, never lowers a score:
\* the history, ratio and denial factors cannot pull against each other.
ClaimNeverLowersScore ==
    [][DOMAIN claims \subseteq DOMAIN claims' => assessment'.score >= assessment.score]_claims
=============================================================================
