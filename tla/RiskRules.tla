------------------------------ MODULE RiskRules ------------------------------
(***************************************************************************)
(* The rule set of apps/risk/rules.py and the pure part of                 *)
(* engine.score_customer: five factors, their points, the total, the tier. *)
(* Observed values, labels and reasons are wording and are left out; what  *)
(* is kept of a FactorResult is its status and its points.                 *)
(***************************************************************************)
EXTENDS Integers, FiniteSets, Functions

\* FACTORS, in the order evaluate() returns them.
FACTORS == {"age", "policy_type", "claims_history", "claims_ratio", "denied_claim"}

\* math.inf as an upper bound: no banded value is negative, so -1 is free.
Inf == -1

\* An absent age (None).
NoAge == -1

Band(lower, upper, points) == [lower |-> lower, upper |-> upper, points |-> points]

AGE_BANDS == <<Band(0, 25, 15), Band(25, 35, 5), Band(35, 50, 0),
               Band(50, 65, 0), Band(65, Inf, 10)>>

POLICY_TYPE_POINTS == [Auto |-> 15, Health |-> 10, Property |-> 5, Life |-> 0]

CLAIMS_NONE        == Band(0, 1, 0)
CLAIMS_ZERO_AMOUNT == Band(1, 2, 5)
CLAIMS_NON_ZERO    == Band(2, Inf, 20)
CLAIMS_HISTORY_BANDS == <<CLAIMS_NONE, CLAIMS_ZERO_AMOUNT, CLAIMS_NON_ZERO>>

CLAIMS_RATIO_BANDS == <<Band(0, 1, 0), Band(1, 3, 10), Band(3, 5, 20), Band(5, Inf, 30)>>

DENIED_CLAIM_BANDS == <<Band(0, 1, 0), Band(1, Inf, 10)>>

\* Fault variant: the first two tiers both claim the score 20.
TIER_BANDS_Overlap == <<[tier |-> "low",      lower |->  0, upper |->  20],
                        [tier |-> "moderate", lower |-> 20, upper |->  39],
                        [tier |-> "elevated", lower |-> 40, upper |->  59],
                        [tier |-> "high",     lower |-> 60, upper |-> 100]>>

TIER_BANDS == <<[tier |-> "low",      lower |->  0, upper |->  19],
                [tier |-> "moderate", lower |-> 20, upper |->  39],
                [tier |-> "elevated", lower |-> 40, upper |->  59],
                [tier |-> "high",     lower |-> 60, upper |-> 100]>>

Tiers == {"low", "moderate", "elevated", "high"}
-----------------------------------------------------------------------------
\* The one boundary convention, lower <= value < upper, for value = num / den.
InBand(band, num, den) ==
    /\ band.lower * den <= num
    /\ band.upper = Inf \/ num < band.upper * den

\* Fault variant: a value on a boundary falls into the lower band.
SelectUpperInclusive(bands, num, den) ==
    LET matching == {i \in DOMAIN bands :
                       /\ bands[i].lower * den <= num
                       /\ bands[i].upper = Inf \/ num <= bands[i].upper * den}
    IN  bands[CHOOSE i \in matching : \A j \in matching : i <= j]

\* The first band of the table that contains the value.
Select(bands, num, den) ==
    LET matching == {i \in DOMAIN bands : InBand(bands[i], num, den)}
    IN  bands[CHOOSE i \in matching : \A j \in matching : i <= j]

Evaluated(points) == [status |-> "evaluated", points |-> points]
NotEvaluable      == [status |-> "not_evaluable", points |-> 0]

ScoreAge(age) ==
    IF age = NoAge THEN NotEvaluable
                   ELSE Evaluated(Select(AGE_BANDS, age, 1).points)

\* The known type that scores highest; unknown types alone cannot be evaluated.
ScorePolicyType(types) ==
    LET known == types \cap DOMAIN POLICY_TYPE_POINTS
        worst == CHOOSE t \in known :
                    \A u \in known : POLICY_TYPE_POINTS[u] <= POLICY_TYPE_POINTS[t]
    IN  IF known = {} THEN NotEvaluable ELSE Evaluated(POLICY_TYPE_POINTS[worst])

NonZero(claims) == {c \in DOMAIN claims : claims[c].amount > 0}

\* Fault variant: any zero-amount claim cancels the ones of substance.
ScoreClaimsHistoryZeroFirst(claims) ==
    Evaluated(CASE DOMAIN claims = {}            -> CLAIMS_NONE.points
                [] NonZero(claims) # DOMAIN claims -> CLAIMS_ZERO_AMOUNT.points
                [] OTHER                         -> CLAIMS_NON_ZERO.points)

ScoreClaimsHistory(claims) ==
    Evaluated(CASE DOMAIN claims = {}     -> CLAIMS_NONE.points
                [] NonZero(claims) # {}   -> CLAIMS_NON_ZERO.points
                [] OTHER                  -> CLAIMS_ZERO_AMOUNT.points)

\* The ratio is the pair of totals; no premium to divide by is the None ratio.
ScoreClaimsRatio(ratio) ==
    IF ratio.premium > 0
      THEN Evaluated(Select(CLAIMS_RATIO_BANDS, ratio.claimed, ratio.premium).points)
      ELSE NotEvaluable

\* Fault variant: the points of a denial are added once per denied claim.
ScoreDeniedPerClaim(claims) ==
    Evaluated(10 * Cardinality({c \in DOMAIN claims : claims[c].status = "Denied"}))

\* Only whether a denial is present matters to the band, not how many.
ScoreDeniedClaim(claims) ==
    LET denied == IF \E c \in DOMAIN claims : claims[c].status = "Denied" THEN 1 ELSE 0
    IN  Evaluated(Select(DENIED_CLAIM_BANDS, denied, 1).points)

Evaluate(age, types, claims, ratio) ==
    [age            |-> ScoreAge(age),
     policy_type    |-> ScorePolicyType(types),
     claims_history |-> ScoreClaimsHistory(claims),
     claims_ratio   |-> ScoreClaimsRatio(ratio),
     denied_claim   |-> ScoreDeniedClaim(claims)]

\* sum(f.points for f in factors)
Total(factors) ==
    factors.age.points + factors.policy_type.points + factors.claims_history.points
      + factors.claims_ratio.points + factors.denied_claim.points

MaxPoints(bands) ==
    LET best == CHOOSE i \in DOMAIN bands :
                   \A j \in DOMAIN bands : bands[j].points <= bands[i].points
    IN  bands[best].points

\* _FACTOR_MAXIMA summed over FACTORS.
MaxScore ==
    LET top == CHOOSE t \in DOMAIN POLICY_TYPE_POINTS :
                  \A u \in DOMAIN POLICY_TYPE_POINTS :
                     POLICY_TYPE_POINTS[u] <= POLICY_TYPE_POINTS[t]
    IN  MaxPoints(AGE_BANDS) + POLICY_TYPE_POINTS[top] + MaxPoints(CLAIMS_HISTORY_BANDS)
          + MaxPoints(CLAIMS_RATIO_BANDS) + MaxPoints(DENIED_CLAIM_BANDS)

TierFor(score) ==
    TIER_BANDS[CHOOSE i \in DOMAIN TIER_BANDS :
                  TIER_BANDS[i].lower <= score /\ score <= TIER_BANDS[i].upper].tier
-----------------------------------------------------------------------------
\* The totals score_customer divides: only positive amounts are claimed.
ClaimsRatio(policies, claims) ==
    [claimed |-> SumFunctionOnSet([c \in DOMAIN claims |-> claims[c].amount], NonZero(claims)),
     premium |-> SumFunction([p \in DOMAIN policies |-> policies[p].premium])]

\* engine.score_customer on a customer's age, live policies and live claims,
\* the latter two as functions from record identities to the fields read.
ScoreCustomer(age, policies, claims) ==
    LET types   == {policies[p].type : p \in DOMAIN policies}
        factors == Evaluate(age, types, claims, ClaimsRatio(policies, claims))
    IN  [factors |-> factors, score |-> Total(factors), tier |-> TierFor(Total(factors))]
=============================================================================
