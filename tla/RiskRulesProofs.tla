--------------------------- MODULE RiskRulesProofs ---------------------------
(***************************************************************************)
(* What the rule set guarantees for every input, not only for the books    *)
(* MCRiskRules enumerates: each band table covers the non-negative values, *)
(* a total stays on the 0..90 scale, every score has exactly one tier, and *)
(* further claims never lower a score. Then the same of every book, whose  *)
(* totals are sums over sets, and that the band walk scores it as the      *)
(* document does.                                                          *)
(***************************************************************************)
EXTENDS RiskBook, FiniteSetTheorems, WellFoundedInduction, TLAPS

\* The inputs score_customer can pass: recorded ages, claims with an amount of
\* at least zero, and the two totals of the ratio.
IsAge(a) == a \in Nat \cup {NoAge}
IsClaims(ks) == \A c \in DOMAIN ks : ks[c].amount \in Nat
IsRatio(ratio) == ratio.claimed \in Nat /\ ratio.premium \in Nat

\* A value that some band contains is given a band that contains it. The tables
\* have at most five bands, which spares the lemma an induction.
LEMMA SelectedBand ==
    ASSUME NEW n \in 1..5, NEW bands, DOMAIN bands = 1..n, NEW num, NEW den,
           \E i \in 1..n : InBand(bands[i], num, den)
    PROVE  \E i \in 1..n : Select(bands, num, den) = bands[i] /\ InBand(bands[i], num, den)
<1> DEFINE matching == {k \in DOMAIN bands : InBand(bands[k], num, den)}
           first == CHOOSE k \in matching : \A j \in matching : k <= j
<1>1. matching \subseteq 1..5 /\ matching # {}
  OBVIOUS
<1> HIDE DEF matching
<1>2. \E k \in matching : \A j \in matching : k <= j
  <2>1. CASE 1 \in matching
    BY <1>1, <2>1
  <2>2. CASE 1 \notin matching /\ 2 \in matching
    BY <1>1, <2>2
  <2>3. CASE 1 \notin matching /\ 2 \notin matching /\ 3 \in matching
    BY <1>1, <2>3
  <2>4. CASE 1 \notin matching /\ 2 \notin matching /\ 3 \notin matching /\ 4 \in matching
    BY <1>1, <2>4
  <2>5. CASE matching \cap 1..4 = {}
    <3>1. \A j \in matching : j = 5
      BY <1>1, <2>5
    <3>2. 5 \in matching
      BY <1>1, <3>1
    <3>3. \A j \in matching : 5 <= j
      BY <3>1
    <3> QED
      BY <3>2, <3>3
  <2> QED
    BY <1>1, <2>1, <2>2, <2>3, <2>4, <2>5
<1>3. first \in matching
  BY <1>2
<1> QED
  BY <1>3 DEF Select, matching

\* The rows of the age table, for the leaves that need them one at a time.
LEMMA AgeTable ==
    /\ DOMAIN AGE_BANDS = 1..5
    /\ AGE_BANDS[1] = Band(0, 25, 15) /\ AGE_BANDS[2] = Band(25, 35, 5)
    /\ AGE_BANDS[3] = Band(35, 50, 0) /\ AGE_BANDS[4] = Band(50, 65, 0)
    /\ AGE_BANDS[5] = Band(65, Inf, 10)
BY DEF AGE_BANDS

\* The rows of the ratio table.
LEMMA RatioTable ==
    /\ DOMAIN CLAIMS_RATIO_BANDS = 1..4
    /\ CLAIMS_RATIO_BANDS[1] = Band(0, 1, 0)  /\ CLAIMS_RATIO_BANDS[2] = Band(1, 3, 10)
    /\ CLAIMS_RATIO_BANDS[3] = Band(3, 5, 20) /\ CLAIMS_RATIO_BANDS[4] = Band(5, Inf, 30)
BY DEF CLAIMS_RATIO_BANDS

\* The rows of the denial table.
LEMMA DeniedTable ==
    /\ DOMAIN DENIED_CLAIM_BANDS = 1..2
    /\ DENIED_CLAIM_BANDS[1] = Band(0, 1, 0) /\ DENIED_CLAIM_BANDS[2] = Band(1, Inf, 10)
BY DEF DENIED_CLAIM_BANDS

\* Every recorded age falls in a band (AGE_BANDS has no gap), and the points are
\* those of the step function the table describes.
LEMMA AgePoints ==
    ASSUME NEW a \in Nat
    PROVE  LET points == Select(AGE_BANDS, a, 1).points
           IN  /\ a < 25 => points = 15
               /\ 25 <= a /\ a < 35 => points = 5
               /\ 35 <= a /\ a < 65 => points = 0
               /\ 65 <= a => points = 10
<1>1. \E i \in 1..5 : InBand(AGE_BANDS[i], a, 1)
  BY AgeTable DEF Band, InBand, Inf
<1>2. PICK i \in 1..5 : Select(AGE_BANDS, a, 1) = AGE_BANDS[i] /\ InBand(AGE_BANDS[i], a, 1)
  BY <1>1, SelectedBand, AgeTable
<1> QED
  BY <1>2, AgeTable DEF Band, InBand, Inf

\* The ratio factor as a function of the two totals: the four bands are
\* disjoint and cover every claimed total over a positive premium.
LEMMA RatioPoints ==
    ASSUME NEW claimed \in Nat, NEW premium \in Nat, premium > 0
    PROVE  LET points == Select(CLAIMS_RATIO_BANDS, claimed, premium).points
           IN  /\ claimed < premium => points = 0
               /\ premium <= claimed /\ claimed < 3 * premium => points = 10
               /\ 3 * premium <= claimed /\ claimed < 5 * premium => points = 20
               /\ 5 * premium <= claimed => points = 30
<1>1. \E i \in 1..4 : InBand(CLAIMS_RATIO_BANDS[i], claimed, premium)
  BY RatioTable DEF Band, InBand, Inf
<1>2. PICK i \in 1..4 :
         /\ Select(CLAIMS_RATIO_BANDS, claimed, premium) = CLAIMS_RATIO_BANDS[i]
         /\ InBand(CLAIMS_RATIO_BANDS[i], claimed, premium)
  BY <1>1, SelectedBand, RatioTable
<1>3. CASE i = 1
  BY <1>2, <1>3, RatioTable DEF Band, InBand, Inf
<1>4. CASE i = 2
  BY <1>2, <1>4, RatioTable DEF Band, InBand, Inf
<1>5. CASE i = 3
  BY <1>2, <1>5, RatioTable DEF Band, InBand, Inf
<1>6. CASE i = 4
  BY <1>2, <1>6, RatioTable DEF Band, InBand, Inf
<1> QED
  BY <1>3, <1>4, <1>5, <1>6

\* The denial factor is worth ten points or none.
LEMMA DeniedPoints ==
    ASSUME NEW denied \in {0, 1}
    PROVE  Select(DENIED_CLAIM_BANDS, denied, 1).points = 10 * denied
<1>1. \E i \in 1..2 : InBand(DENIED_CLAIM_BANDS[i], denied, 1)
  BY DeniedTable DEF Band, InBand, Inf
<1>2. PICK i \in 1..2 :
         /\ Select(DENIED_CLAIM_BANDS, denied, 1) = DENIED_CLAIM_BANDS[i]
         /\ InBand(DENIED_CLAIM_BANDS[i], denied, 1)
  BY <1>1, SelectedBand, DeniedTable
<1> QED
  BY <1>2, DeniedTable DEF Band, InBand, Inf

\* The three outcomes of the claims history factor, a mixed history being one
\* of substance.
LEMMA HistoryPoints ==
    ASSUME NEW ks
    PROVE  /\ DOMAIN ks = {} => ScoreClaimsHistory(ks).points = 0
           /\ DOMAIN ks # {} /\ NonZero(ks) = {} => ScoreClaimsHistory(ks).points = 5
           /\ DOMAIN ks # {} /\ NonZero(ks) # {} => ScoreClaimsHistory(ks).points = 20
<1> USE DEF ScoreClaimsHistory, Evaluated, CLAIMS_NONE, CLAIMS_ZERO_AMOUNT, CLAIMS_NON_ZERO, Band
<1>1. CASE DOMAIN ks = {}
  BY <1>1 DEF NonZero
<1>2. CASE DOMAIN ks # {} /\ NonZero(ks) = {}
  BY <1>2
<1>3. CASE DOMAIN ks # {} /\ NonZero(ks) # {}
  BY <1>3
<1> QED
  BY <1>1, <1>2, <1>3

\* A set of policy types scores one of the four points of the table, or none: the
\* most any of them is worth.
LEMMA PolicyTypePoints ==
    ASSUME NEW types
    PROVE  LET points == ScorePolicyType(types).points
               worth  == {0} \cup {POLICY_TYPE_POINTS[t] : t \in types \cap DOMAIN POLICY_TYPE_POINTS}
           IN  points \in {0, 5, 10, 15} /\ points \in worth /\ \A m \in worth : m <= points
<1> DEFINE known == types \cap DOMAIN POLICY_TYPE_POINTS
           worst == CHOOSE t \in known :
                       \A u \in known : POLICY_TYPE_POINTS[u] <= POLICY_TYPE_POINTS[t]
<1>1. /\ DOMAIN POLICY_TYPE_POINTS = {"Auto", "Health", "Property", "Life"}
      /\ POLICY_TYPE_POINTS["Auto"] = 15 /\ POLICY_TYPE_POINTS["Health"] = 10
      /\ POLICY_TYPE_POINTS["Property"] = 5 /\ POLICY_TYPE_POINTS["Life"] = 0
  BY DEF POLICY_TYPE_POINTS
<1> DEFINE points == ScorePolicyType(types).points
           worth  == {0} \cup {POLICY_TYPE_POINTS[t] : t \in known}
<1>2. CASE known = {}
  <2>1. points = 0 /\ worth = {0}
    BY <1>2 DEF ScorePolicyType, NotEvaluable
  <2> HIDE DEF points, worth
  <2>2. points \in {0, 5, 10, 15} /\ points \in worth /\ \A m \in worth : m <= points
    BY <2>1
  <2> QED
    BY <2>2 DEF points, worth
<1>3. CASE known # {}
  <2> HIDE DEF known
  <2>1. \E t \in known : \A u \in known : POLICY_TYPE_POINTS[u] <= POLICY_TYPE_POINTS[t]
    <3>1. CASE "Auto" \in known
      BY <1>1, <3>1 DEF known
    <3>2. CASE "Auto" \notin known /\ "Health" \in known
      BY <1>1, <3>2 DEF known
    <3>3. CASE "Auto" \notin known /\ "Health" \notin known /\ "Property" \in known
      BY <1>1, <3>3 DEF known
    <3>4. CASE known = {"Life"}
      BY <1>1, <3>4
    <3> QED
      BY <1>1, <1>3, <3>1, <3>2, <3>3, <3>4 DEF known
  <2>2. worst \in known /\ \A u \in known : POLICY_TYPE_POINTS[u] <= POLICY_TYPE_POINTS[worst]
    BY <2>1
  <2>3. points = POLICY_TYPE_POINTS[worst]
    BY <1>3 DEF ScorePolicyType, Evaluated, known
  <2> HIDE DEF points, worst
  <2>4. points \in {0, 5, 10, 15}
    BY <1>1, <2>2, <2>3 DEF known
  <2>5. points \in worth /\ \A m \in worth : m <= points
    BY <2>2, <2>3, <2>4
  <2> QED
    BY <2>4, <2>5 DEF points, worth, known
<1> QED
  BY <1>2, <1>3
-----------------------------------------------------------------------------
\* The score engine.score_customer sums for a ratio with these totals.
ScoreOf(a, types, ks, ratio) == Total(Evaluate(a, types, ks, ratio))

\* No input scores outside 0..90: rules.max_score is a bound, and the stored
\* score always satisfies the risk_score_range constraint.
THEOREM ScoreWithinScale ==
    ASSUME NEW a, IsAge(a), NEW types, NEW ks, IsClaims(ks),
           NEW ratio, IsRatio(ratio)
    PROVE  ScoreOf(a, types, ks, ratio) \in 0..90
<1>1. ScoreAge(a).points \in {0, 5, 10, 15}
  BY AgePoints DEF IsAge, ScoreAge, Evaluated, NotEvaluable
<1>2. ScorePolicyType(types).points \in {0, 5, 10, 15}
  BY PolicyTypePoints
<1>3. ScoreClaimsHistory(ks).points \in {0, 5, 20}
  BY DEF ScoreClaimsHistory, Evaluated, CLAIMS_NONE, CLAIMS_ZERO_AMOUNT, CLAIMS_NON_ZERO, Band
<1>4. ScoreClaimsRatio(ratio).points \in {0, 10, 20, 30}
  BY RatioPoints DEF IsRatio, ScoreClaimsRatio, Evaluated, NotEvaluable
<1>5. ScoreDeniedClaim(ks).points \in {0, 10}
  BY DeniedPoints DEF ScoreDeniedClaim, Evaluated
<1> QED
  BY <1>1, <1>2, <1>3, <1>4, <1>5 DEF ScoreOf, Total, Evaluate

\* Every storable score lies in exactly one tier, so the tier is a function of
\* the score and rules.tier_for never raises for a score of the rule set.
THEOREM TierTotal ==
    ASSUME NEW score \in 0..100
    PROVE  \E i \in DOMAIN TIER_BANDS :
              /\ score \in TIER_BANDS[i].lower .. TIER_BANDS[i].upper
              /\ TierFor(score) = TIER_BANDS[i].tier
              /\ \A j \in DOMAIN TIER_BANDS :
                    score \in TIER_BANDS[j].lower .. TIER_BANDS[j].upper => j = i
<1>1. /\ DOMAIN TIER_BANDS = 1..4
      /\ TIER_BANDS[1].lower =  0 /\ TIER_BANDS[1].upper =  19
      /\ TIER_BANDS[2].lower = 20 /\ TIER_BANDS[2].upper =  39
      /\ TIER_BANDS[3].lower = 40 /\ TIER_BANDS[3].upper =  59
      /\ TIER_BANDS[4].lower = 60 /\ TIER_BANDS[4].upper = 100
  BY DEF TIER_BANDS
<1>2. PICK i \in 1..4 : score \in TIER_BANDS[i].lower .. TIER_BANDS[i].upper
  BY <1>1
<1>3. \A j \in 1..4 : score \in TIER_BANDS[j].lower .. TIER_BANDS[j].upper => j = i
  BY <1>1, <1>2
<1>4. TierFor(score) = TIER_BANDS[i].tier
  BY <1>1, <1>2, <1>3 DEF TierFor
<1> QED
  BY <1>1, <1>2, <1>3, <1>4

\* More claims over the same cover never lower a score: with ks extended to ms
\* and a claimed total that does not shrink, every factor stays or rises.
THEOREM MoreClaimsNeverLowerScore ==
    ASSUME NEW a, IsAge(a), NEW types,
           NEW ks, IsClaims(ks), NEW ms, IsClaims(ms),
           DOMAIN ks \subseteq DOMAIN ms,
           \A c \in DOMAIN ks : ms[c] = ks[c],
           NEW before \in Nat, NEW after \in Nat, before <= after,
           NEW premium \in Nat
    PROVE  ScoreOf(a, types, ks, [claimed |-> before, premium |-> premium])
             <= ScoreOf(a, types, ms, [claimed |-> after, premium |-> premium])
<1> DEFINE low == [claimed |-> before, premium |-> premium]
           high == [claimed |-> after, premium |-> premium]
<1>1. ScoreAge(a).points \in Nat
  BY AgePoints DEF IsAge, ScoreAge, Evaluated, NotEvaluable
<1>2. ScorePolicyType(types).points \in Nat
  BY PolicyTypePoints
<1>3. /\ ScoreClaimsHistory(ks).points \in Nat /\ ScoreClaimsHistory(ms).points \in Nat
      /\ ScoreClaimsHistory(ks).points <= ScoreClaimsHistory(ms).points
  <2>1. NonZero(ks) # {} => NonZero(ms) # {}
    BY DEF NonZero
  <2>2. DOMAIN ks # {} => DOMAIN ms # {}
    OBVIOUS
  <2>3. NonZero(ks) # {} => DOMAIN ks # {}
    BY DEF NonZero
  <2> DEFINE K == ScoreClaimsHistory(ks).points
             M == ScoreClaimsHistory(ms).points
  <2>4. /\ DOMAIN ks = {} => K = 0
        /\ DOMAIN ks # {} /\ NonZero(ks) = {} => K = 5
        /\ DOMAIN ks # {} /\ NonZero(ks) # {} => K = 20
    BY HistoryPoints
  <2>5. /\ DOMAIN ms = {} => M = 0
        /\ DOMAIN ms # {} /\ NonZero(ms) = {} => M = 5
        /\ DOMAIN ms # {} /\ NonZero(ms) # {} => M = 20
    BY HistoryPoints
  <2> HIDE DEF K, M
  <2>6. \/ K = 0 /\ M \in {0, 5, 20}
        \/ K = 5 /\ M \in {5, 20}
        \/ K = 20 /\ M = 20
    BY <2>1, <2>2, <2>3, <2>4, <2>5
  <2>7. K \in Nat /\ M \in Nat /\ K <= M
    BY <2>6
  <2> QED
    BY <2>7 DEF K, M
<1>4. /\ ScoreClaimsRatio(low).points \in Nat /\ ScoreClaimsRatio(high).points \in Nat
      /\ ScoreClaimsRatio(low).points <= ScoreClaimsRatio(high).points
  BY RatioPoints DEF ScoreClaimsRatio, Evaluated, NotEvaluable
<1>5. /\ ScoreDeniedClaim(ks).points \in Nat /\ ScoreDeniedClaim(ms).points \in Nat
      /\ ScoreDeniedClaim(ks).points <= ScoreDeniedClaim(ms).points
  BY DeniedPoints DEF ScoreDeniedClaim, Evaluated
<1> QED
  BY <1>1, <1>2, <1>3, <1>4, <1>5 DEF ScoreOf, Total, Evaluate
-----------------------------------------------------------------------------
\* The sums of a ratio. SumFunctionOnSet adds one element after another, in an
\* order CHOOSE picks; what follows shows that on a finite set it is the sum of
\* the elements, whatever the order.

\* The element added first.
One(s) == CHOOSE x \in s : TRUE

\* g holds the sums of f over every subset of S.
IsAcc(g, f, S) ==
    g = [s \in SUBSET S |-> IF s = {} THEN 0 ELSE f[One(s)] + g[s \ {One(s)}]]

\* The sums over the subsets of S.
Acc(f, S) == CHOOSE g : IsAcc(g, f, S)

\* Of some subsets of a finite set one has no other below it: what holds of a
\* set when it holds of all smaller ones holds of all.
LEMMA SmallestSet ==
    ASSUME NEW S, IsFiniteSet(S), NEW Bad \in SUBSET (SUBSET S), Bad # {}
    PROVE  \E s \in Bad : \A t \in SUBSET s : t # s => t \notin Bad
<1> DEFINE Sizes == {Cardinality(s) : s \in Bad}
<1>1. \A s \in SUBSET S : IsFiniteSet(s) /\ Cardinality(s) \in Nat
  BY FS_Subset, FS_CardinalityType
<1>2. Sizes \subseteq Nat /\ Sizes # {}
  BY <1>1
<1>3. PICK k \in Sizes : \A m \in Sizes : ~(<<m, k>> \in OpToRel(<, Nat))
  <2> HIDE DEF Sizes
  <2>. QED
    BY <1>2, NatLessThanWellFounded, WFMin
<1>4. PICK s \in Bad : k = Cardinality(s)
  OBVIOUS
<1>5. ASSUME NEW t \in SUBSET s, t # s, t \in Bad PROVE FALSE
  <2>1. Cardinality(t) <= Cardinality(s) /\ Cardinality(t) # Cardinality(s)
    BY <1>1, <1>5, FS_Subset
  <2>2. Cardinality(t) \in Sizes /\ Cardinality(t) < k /\ k \in Nat /\ Cardinality(t) \in Nat
    BY <1>1, <1>4, <1>5, <2>1
  <2>. QED
    BY <1>3, <2>2 DEF OpToRel
<1>. QED
  BY <1>5

\* f and h are the same on S.
Agree(f, h, S) == \A x \in S : f[x] = h[x]

\* Sums of functions that agree on a set agree on it.
LEMMA AccAgrees ==
    ASSUME NEW S, IsFiniteSet(S), NEW T, T \subseteq S, NEW f, NEW h, Agree(f, h, T),
           NEW a, IsAcc(a, f, S), NEW b, IsAcc(b, h, T)
    PROVE  a[T] = b[T]
<1> DEFINE Bad == {s \in SUBSET T : a[s] # b[s]}
<1> SUFFICES ASSUME Bad # {} PROVE FALSE
  OBVIOUS
<1>1. Bad \in SUBSET (SUBSET S)
  OBVIOUS
<1>2. PICK s \in Bad : \A t \in SUBSET s : t # s => t \notin Bad
  <2> HIDE DEF Bad
  <2>. QED
    BY <1>1, SmallestSet
<1> DEFINE x == One(s)
<1>3. /\ a[s] = IF s = {} THEN 0 ELSE f[x] + a[s \ {x}]
      /\ b[s] = IF s = {} THEN 0 ELSE h[x] + b[s \ {x}]
  BY DEF IsAcc
<1>4. s # {} => x \in s
  BY DEF One
<1> HIDE DEF x
<1>5. s # {} => a[s \ {x}] = b[s \ {x}] /\ f[x] = h[x]
  BY <1>2, <1>4 DEF Agree
<1>. QED
  BY <1>3, <1>5

\* The sums over a finite set exist.
LEMMA AccExists ==
    ASSUME NEW S, IsFiniteSet(S), NEW f
    PROVE  IsAcc(Acc(f, S), f, S)
<1> DEFINE Bad == {s \in SUBSET S : ~IsAcc(Acc(f, s), f, s)}
<1> SUFFICES ASSUME Bad # {} PROVE FALSE
  OBVIOUS
<1>1. Bad \in SUBSET (SUBSET S)
  OBVIOUS
<1>2. PICK s \in Bad : \A t \in SUBSET s : t # s => t \notin Bad
  <2> HIDE DEF Bad
  <2>. QED
    BY <1>1, SmallestSet
<1>3. IsFiniteSet(s) /\ \A t \in SUBSET s : IsFiniteSet(t)
  BY FS_Subset
<1>4. \A t \in SUBSET s : t # s => IsAcc(Acc(f, t), f, t)
  BY <1>2
<1>5. \A t \in SUBSET s : t # {} => One(t) \in t
  BY DEF One
<1> DEFINE g == [t \in SUBSET s |-> IF t = {} THEN 0
                                    ELSE f[One(t)] + Acc(f, t \ {One(t)})[t \ {One(t)}]]
<1>6. ASSUME NEW u \in SUBSET s, u # s PROVE g[u] = Acc(f, u)[u]
  <2>1. Acc(f, u)[u] = IF u = {} THEN 0 ELSE f[One(u)] + Acc(f, u)[u \ {One(u)}]
    BY <1>4, <1>6 DEF IsAcc
  <2>2. ASSUME u # {} PROVE Acc(f, u)[u \ {One(u)}] = Acc(f, u \ {One(u)})[u \ {One(u)}]
    <3> DEFINE v == u \ {One(u)}
    <3>1. v \in SUBSET u /\ v \in SUBSET s /\ v # s
      BY <1>6
    <3>2. IsAcc(Acc(f, v), f, v) /\ IsAcc(Acc(f, u), f, u) /\ IsFiniteSet(u)
      BY <1>3, <1>4, <1>6, <3>1
    <3> HIDE DEF v
    <3>3. Acc(f, u)[v] = Acc(f, v)[v]
      BY <3>1, <3>2, AccAgrees DEF Agree
    <3>. QED
      BY <3>3 DEF v
  <2>. QED
    BY <2>1, <2>2
<1>7. \A t \in SUBSET s : t # {} => t \ {One(t)} \in SUBSET s /\ t \ {One(t)} # s
  BY <1>5
<1>8. IsAcc(g, f, s)
  <2>1. \A t \in SUBSET s : t # {} => g[t \ {One(t)}] = Acc(f, t \ {One(t)})[t \ {One(t)}]
    BY <1>6, <1>7
  <2>. QED
    BY <2>1 DEF IsAcc
<1> HIDE DEF g
<1>9. IsAcc(Acc(f, s), f, s)
  BY <1>8 DEF Acc
<1>. QED
  BY <1>2, <1>9

\* A fold of the community modules is a sum of Acc (SumFunctionOnSet).
LEMMA SumIsAcc ==
    ASSUME NEW f, NEW S
    PROVE  SumFunctionOnSet(f, S) = Acc(f, S)[S]
BY DEF SumFunctionOnSet, FoldFunctionOnSet, MapThenFoldSet, Acc, IsAcc, One

\* Only the elements of the set count (SumFunctionOnSet).
LEMMA SumAgrees ==
    ASSUME NEW S, IsFiniteSet(S), NEW f, NEW h, Agree(f, h, S)
    PROVE  SumFunctionOnSet(f, S) = SumFunctionOnSet(h, S)
<1>1. IsAcc(Acc(f, S), f, S) /\ IsAcc(Acc(h, S), h, S)
  BY AccExists
<1>2. Acc(f, S)[S] = Acc(h, S)[S]
  BY <1>1, AccAgrees
<1>. QED
  BY <1>2, SumIsAcc

\* The first element and the rest (SumFunctionOnSet).
LEMMA SumFirst ==
    ASSUME NEW S, IsFiniteSet(S), NEW f
    PROVE  SumFunctionOnSet(f, S) =
             IF S = {} THEN 0 ELSE f[One(S)] + SumFunctionOnSet(f, S \ {One(S)})
<1> DEFINE T == S \ {One(S)}
<1>1. T \in SUBSET S /\ IsFiniteSet(T)
  BY FS_Subset
<1>2. IsAcc(Acc(f, S), f, S) /\ IsAcc(Acc(f, T), f, T)
  BY <1>1, AccExists
<1>3. Acc(f, S)[S] = IF S = {} THEN 0 ELSE f[One(S)] + Acc(f, S)[T]
  BY <1>2 DEF IsAcc
<1> HIDE DEF T
<1>4. Acc(f, S)[T] = Acc(f, T)[T]
  BY <1>1, <1>2, AccAgrees DEF Agree
<1>. QED
  BY <1>3, <1>4, SumIsAcc DEF T

\* A sum of numbers is a number (SumFunctionOnSet).
LEMMA SumIsNat ==
    ASSUME NEW S, IsFiniteSet(S), NEW f, \A x \in S : f[x] \in Nat
    PROVE  SumFunctionOnSet(f, S) \in Nat
<1> DEFINE Bad == {s \in SUBSET S : SumFunctionOnSet(f, s) \notin Nat}
<1> SUFFICES ASSUME Bad # {} PROVE FALSE
  OBVIOUS
<1>1. Bad \in SUBSET (SUBSET S)
  OBVIOUS
<1>2. PICK s \in Bad : \A t \in SUBSET s : t # s => t \notin Bad
  <2> HIDE DEF Bad
  <2>. QED
    BY <1>1, SmallestSet
<1>3. SumFunctionOnSet(f, s) = IF s = {} THEN 0 ELSE f[One(s)] + SumFunctionOnSet(f, s \ {One(s)})
  BY FS_Subset, SumFirst
<1>4. s # {} => One(s) \in s
  BY DEF One
<1>5. s # {} => SumFunctionOnSet(f, s \ {One(s)}) \in Nat /\ f[One(s)] \in Nat
  BY <1>2, <1>4
<1>. QED
  BY <1>3, <1>5

\* Any element and the rest: the order does not matter (SumFunctionOnSet).
LEMMA SumSplit ==
    ASSUME NEW S, IsFiniteSet(S), NEW f, \A x \in S : f[x] \in Nat, NEW x \in S
    PROVE  SumFunctionOnSet(f, S) = f[x] + SumFunctionOnSet(f, S \ {x})
<1> DEFINE Sum(s) == SumFunctionOnSet(f, s)
           Bad == {s \in SUBSET S : \E y \in s : Sum(s) # f[y] + Sum(s \ {y})}
<1> SUFFICES ASSUME Bad # {} PROVE FALSE
  OBVIOUS
<1>1. Bad \in SUBSET (SUBSET S)
  OBVIOUS
<1>2. PICK s \in Bad : \A t \in SUBSET s : t # s => t \notin Bad
  <2> HIDE DEF Bad
  <2>. QED
    BY <1>1, SmallestSet
<1>3. PICK y \in s : Sum(s) # f[y] + Sum(s \ {y})
  OBVIOUS
<1> DEFINE o == One(s)
<1>4. o \in s /\ Sum(s) = f[o] + Sum(s \ {o})
  <2>1. o \in s
    BY DEF One
  <2>. QED
    BY <2>1, FS_Subset, SumFirst
<1>5. \A t \in SUBSET S : Sum(t) \in Nat
  BY FS_Subset, SumIsNat
<1> HIDE DEF o, Sum
<1>6. y # o
  BY <1>3, <1>4
<1>7. Sum(s \ {o}) = f[y] + Sum((s \ {o}) \ {y})
  BY <1>2, <1>4, <1>6
<1>8. Sum(s \ {y}) = f[o] + Sum((s \ {y}) \ {o})
  BY <1>2, <1>4, <1>6
<1>9. Sum((s \ {o}) \ {y}) = Sum((s \ {y}) \ {o})
  <2>1. (s \ {o}) \ {y} = (s \ {y}) \ {o}
    OBVIOUS
  <2>. QED
    BY <2>1
<1>10. Sum((s \ {y}) \ {o}) \in Nat /\ f[y] \in Nat /\ f[o] \in Nat
  BY <1>4, <1>5
<1>. QED
  BY <1>3, <1>4, <1>7, <1>8, <1>9, <1>10

\* A larger set has no smaller sum, and the same sum if the rest is zero
\* (SumFunctionOnSet).
LEMMA SumGrows ==
    ASSUME NEW S, IsFiniteSet(S), NEW f, \A x \in S : f[x] \in Nat, NEW K \in SUBSET S
    PROVE  /\ SumFunctionOnSet(f, K) <= SumFunctionOnSet(f, S)
           /\ (\A x \in S \ K : f[x] = 0) => SumFunctionOnSet(f, K) = SumFunctionOnSet(f, S)
<1> DEFINE Sum(s) == SumFunctionOnSet(f, s)
           Good(s) == /\ Sum(K) <= Sum(s)
                      /\ (\A x \in s \ K : f[x] = 0) => Sum(K) = Sum(s)
           Bad == {s \in SUBSET S : K \subseteq s /\ ~Good(s)}
<1> SUFFICES ASSUME Bad # {} PROVE FALSE
  OBVIOUS
<1>1. Bad \in SUBSET (SUBSET S)
  OBVIOUS
<1>2. PICK s \in Bad : \A t \in SUBSET s : t # s => t \notin Bad
  <2> HIDE DEF Bad
  <2>. QED
    BY <1>1, SmallestSet
<1>3. \A t \in SUBSET S : Sum(t) \in Nat
  BY FS_Subset, SumIsNat
<1>4. \A t \in SUBSET S : \A y \in t : Sum(t) = f[y] + Sum(t \ {y})
  BY FS_Subset, SumSplit
<1> HIDE DEF Sum
<1>5. s # K
  BY <1>3
<1>6. PICK y \in s : y \notin K
  BY <1>5
<1>7. Good(s \ {y})
  BY <1>2, <1>6
<1>8. Sum(s) = f[y] + Sum(s \ {y}) /\ f[y] \in Nat /\ Sum(s \ {y}) \in Nat /\ Sum(K) \in Nat
  BY <1>3, <1>4
<1>9. Sum(K) <= Sum(s)
  BY <1>7, <1>8
<1>10. (\A x \in s \ K : f[x] = 0) => Sum(K) = Sum(s)
  BY <1>6, <1>7, <1>8
<1>. QED
  BY <1>9, <1>10
-----------------------------------------------------------------------------
\* A book: finitely many policies and claims with the totals the rules divide.
BookTyped(a, ps, ks) ==
    /\ IsAge(a) /\ IsClaims(ks) /\ IsFiniteSet(DOMAIN ks)
    /\ IsFiniteSet(DOMAIN ps) /\ \A p \in DOMAIN ps : ps[p].premium \in Nat

\* The inductive invariant of RiskBook.
BookInv == BookTyped(age, policies, claims) /\ assessment = ScoreCustomer(age, policies, claims)

TypesOf(ps) == {ps[p].type : p \in DOMAIN ps}

\* What the totals of a book are, and the score it has by them (ScoreCustomer).
LEMMA BookScore ==
    ASSUME NEW a, NEW ps, NEW ks, BookTyped(a, ps, ks)
    PROVE  LET ratio == ClaimsRatio(ps, ks)
           IN  /\ IsRatio(ratio)
               /\ ScoreCustomer(a, ps, ks).score = ScoreOf(a, TypesOf(ps), ks, ratio)
<1> DEFINE premiums == [p \in DOMAIN ps |-> ps[p].premium]
           amounts == [c \in DOMAIN ks |-> ks[c].amount]
<1>1. NonZero(ks) \subseteq DOMAIN ks /\ IsFiniteSet(NonZero(ks))
  BY FS_Subset DEF BookTyped, NonZero
<1>2. SumFunctionOnSet(amounts, NonZero(ks)) \in Nat
  BY <1>1, SumIsNat DEF BookTyped, IsClaims
<1>3. SumFunctionOnSet(premiums, DOMAIN premiums) \in Nat
  BY SumIsNat DEF BookTyped
<1>4. IsRatio(ClaimsRatio(ps, ks))
  BY <1>2, <1>3 DEF IsRatio, ClaimsRatio, SumFunction
<1> QED
  BY <1>4 DEF ScoreCustomer, ScoreOf, TypesOf

\* A policy or a claim that is added or archived leaves a book (With, Without).
LEMMA BookNext == BookInv /\ [Next]_vars => BookInv'
<1> SUFFICES ASSUME BookInv, [Next]_vars PROVE BookInv'
  OBVIOUS
<1>1. ASSUME NEW ps, NEW ks, Rescore(ps, ks),
             \/ ps = policies
             \/ \E p, t : \E m \in Premiums : ps = With(policies, p, [type |-> t, premium |-> m])
             \/ \E p : ps = Without(policies, p),
             \/ ks = claims
             \/ \E k, s : \E m \in Amounts : ks = With(claims, k, [status |-> s, amount |-> m])
             \/ \E k : ks = Without(claims, k)
      PROVE  BookInv'
  <2>1. IsFiniteSet(DOMAIN ps) /\ \A p \in DOMAIN ps : ps[p].premium \in Nat
    <3>1. CASE ps = policies
      BY <3>1 DEF BookInv, BookTyped
    <3>2. CASE \E p, t : \E m \in Premiums : ps = With(policies, p, [type |-> t, premium |-> m])
      <4>1. PICK p, t : \E m \in Premiums : ps = With(policies, p, [type |-> t, premium |-> m])
        BY <3>2
      <4>2. Premiums \subseteq Nat
        BY BookAssumption
      <4> QED
        BY <4>1, <4>2, FS_AddElement DEF BookInv, BookTyped, With
    <3>3. CASE \E p : ps = Without(policies, p)
      BY <3>3, FS_Subset DEF BookInv, BookTyped, Without, Restrict
    <3> QED
      BY <1>1, <3>1, <3>2, <3>3
  <2>2. IsFiniteSet(DOMAIN ks) /\ IsClaims(ks)
    <3>1. CASE ks = claims
      BY <3>1 DEF BookInv, BookTyped
    <3>2. CASE \E k, s : \E m \in Amounts : ks = With(claims, k, [status |-> s, amount |-> m])
      <4>1. PICK k, s : \E m \in Amounts : ks = With(claims, k, [status |-> s, amount |-> m])
        BY <3>2
      <4>2. Amounts \subseteq Nat
        BY BookAssumption
      <4> QED
        BY <4>1, <4>2, FS_AddElement DEF BookInv, BookTyped, IsClaims, With
    <3>3. CASE \E k : ks = Without(claims, k)
      BY <3>3, FS_Subset DEF BookInv, BookTyped, IsClaims, Without, Restrict
    <3> QED
      BY <1>1, <3>1, <3>2, <3>3
  <2> QED
    BY <1>1, <2>1, <2>2 DEF Rescore, BookInv, BookTyped
<1>2. CASE Next
  <2>1. CASE AddPolicy
    <3>1. PICK ps : /\ Rescore(ps, claims)
                    /\ \E p, t : \E m \in Premiums : ps = With(policies, p, [type |-> t, premium |-> m])
      BY <2>1 DEF AddPolicy
    <3> QED
      BY <1>1, <3>1
  <2>2. CASE ArchivePolicy
    BY <1>1, <2>2 DEF ArchivePolicy
  <2>3. CASE FileClaim
    <3>1. PICK ks : /\ Rescore(policies, ks)
                    /\ \E k, s : \E m \in Amounts : ks = With(claims, k, [status |-> s, amount |-> m])
      BY <2>3 DEF FileClaim
    <3> QED
      BY <1>1, <3>1
  <2>4. CASE ArchiveClaim
    BY <1>1, <2>4 DEF ArchiveClaim
  <2> QED
    BY <1>2, <2>1, <2>2, <2>3, <2>4 DEF Next
<1>3. CASE UNCHANGED vars
  BY <1>3 DEF vars, BookInv
<1> QED
  BY <1>2, <1>3

\* The empty book is one (Init).
LEMMA BookInit == Init => BookInv
<1> SUFFICES ASSUME Init PROVE BookInv
  OBVIOUS
<1>1. DOMAIN policies = {} /\ DOMAIN claims = {}
  BY DEF Init
<1>2. BookTyped(age, policies, claims)
  BY <1>1, FS_EmptySet, BookAssumption DEF Init, BookTyped, IsAge, IsClaims
<1> QED
  BY <1>2 DEF Init, BookInv

\* The invariant holds at all times (Spec).
LEMMA BookHolds == Spec => []BookInv
  BY BookInit, BookNext, PTL DEF Spec

\* The points of the band that has most (_FACTOR_MAXIMA).
LEMMA MaxIsBest ==
    ASSUME NEW bands, \A j \in DOMAIN bands : bands[j].points \in Nat,
           NEW i \in DOMAIN bands, \A j \in DOMAIN bands : bands[j].points <= bands[i].points
    PROVE  MaxPoints(bands) = bands[i].points
<1> DEFINE best == CHOOSE k \in DOMAIN bands :
                      \A j \in DOMAIN bands : bands[j].points <= bands[k].points
<1>1. best \in DOMAIN bands /\ \A j \in DOMAIN bands : bands[j].points <= bands[best].points
  OBVIOUS
<1>2. MaxPoints(bands) = bands[best].points
  BY DEF MaxPoints
<1> HIDE DEF best
<1> QED
  BY <1>1, <1>2

\* rules.max_score: the maxima of the five tables.
LEMMA MaxIs90 == MaxScore = 90
<1>1. MaxPoints(AGE_BANDS) = 15
  <2>1. \A j \in 1..5 : AGE_BANDS[j].points \in {0, 5, 10, 15} /\ AGE_BANDS[1].points = 15
    BY AgeTable DEF Band
  <2> QED
    BY <2>1, AgeTable, MaxIsBest
<1>2. MaxPoints(CLAIMS_RATIO_BANDS) = 30
  <2>1. \A j \in 1..4 : CLAIMS_RATIO_BANDS[j].points \in {0, 10, 20, 30} /\ CLAIMS_RATIO_BANDS[4].points = 30
    BY RatioTable DEF Band
  <2> QED
    BY <2>1, RatioTable, MaxIsBest
<1>3. MaxPoints(DENIED_CLAIM_BANDS) = 10
  <2>1. \A j \in 1..2 : DENIED_CLAIM_BANDS[j].points \in {0, 10} /\ DENIED_CLAIM_BANDS[2].points = 10
    BY DeniedTable DEF Band
  <2> QED
    BY <2>1, DeniedTable, MaxIsBest
<1>4. MaxPoints(CLAIMS_HISTORY_BANDS) = 20
  <2>1. /\ DOMAIN CLAIMS_HISTORY_BANDS = 1..3
        /\ CLAIMS_HISTORY_BANDS[1].points = 0 /\ CLAIMS_HISTORY_BANDS[2].points = 5
        /\ CLAIMS_HISTORY_BANDS[3].points = 20
    BY DEF CLAIMS_HISTORY_BANDS, CLAIMS_NONE, CLAIMS_ZERO_AMOUNT, CLAIMS_NON_ZERO, Band
  <2>2. \A j \in 1..3 : CLAIMS_HISTORY_BANDS[j].points \in {0, 5, 20}
    <3>1. \A j \in 1..3 : j = 1 \/ j = 2 \/ j = 3
      OBVIOUS
    <3> QED
      BY <2>1, <3>1
  <2> QED
    BY <2>1, <2>2, MaxIsBest
<1>5. POLICY_TYPE_POINTS[CHOOSE t \in DOMAIN POLICY_TYPE_POINTS :
         \A u \in DOMAIN POLICY_TYPE_POINTS : POLICY_TYPE_POINTS[u] <= POLICY_TYPE_POINTS[t]] = 15
  <2> DEFINE top == CHOOSE t \in DOMAIN POLICY_TYPE_POINTS :
                       \A u \in DOMAIN POLICY_TYPE_POINTS : POLICY_TYPE_POINTS[u] <= POLICY_TYPE_POINTS[t]
  <2>1. /\ DOMAIN POLICY_TYPE_POINTS = {"Auto", "Health", "Property", "Life"}
        /\ POLICY_TYPE_POINTS["Auto"] = 15 /\ POLICY_TYPE_POINTS["Health"] = 10
        /\ POLICY_TYPE_POINTS["Property"] = 5 /\ POLICY_TYPE_POINTS["Life"] = 0
    BY DEF POLICY_TYPE_POINTS
  <2>2. \A u \in DOMAIN POLICY_TYPE_POINTS : POLICY_TYPE_POINTS[u] <= POLICY_TYPE_POINTS["Auto"]
    BY <2>1
  <2>3. /\ top \in DOMAIN POLICY_TYPE_POINTS
        /\ \A u \in DOMAIN POLICY_TYPE_POINTS : POLICY_TYPE_POINTS[u] <= POLICY_TYPE_POINTS[top]
    BY <2>1, <2>2
  <2> HIDE DEF top
  <2>4. POLICY_TYPE_POINTS[top] = 15
    BY <2>1, <2>3
  <2> QED
    BY <2>4 DEF top
<1> QED
  BY <1>1, <1>2, <1>3, <1>4, <1>5 DEF MaxScore

\* No book of any size scores outside 0..MaxScore (ScoreOnScale; max_score and
\* the risk_score_range constraint).
THEOREM BookOnScale == Spec => []ScoreOnScale
<1>1. BookInv => assessment.score \in 0..90
  BY BookScore, ScoreWithinScale DEF BookInv, BookTyped
<1>2. BookInv => ScoreOnScale
  BY <1>1, MaxIs90 DEF ScoreOnScale
<1> QED
  BY <1>2, BookHolds, PTL

\* The score of a book of any size lies in one tier band (TierIsUnique; tier_for).
THEOREM BookInOneTier == Spec => []TierIsUnique
<1>1. BookInv => assessment.score \in 0..100
  BY BookScore, ScoreWithinScale DEF BookInv, BookTyped
<1>2. ASSUME assessment.score \in 0..100 PROVE TierIsUnique
  <2>1. PICK i \in DOMAIN TIER_BANDS :
          /\ assessment.score \in TIER_BANDS[i].lower .. TIER_BANDS[i].upper
          /\ \A j \in DOMAIN TIER_BANDS :
                assessment.score \in TIER_BANDS[j].lower .. TIER_BANDS[j].upper => j = i
    BY <1>2, TierTotal
  <2>2. {j \in DOMAIN TIER_BANDS :
           assessment.score \in TIER_BANDS[j].lower .. TIER_BANDS[j].upper} = {i}
    BY <2>1
  <2> QED
    BY <2>2, FS_Singleton DEF TierIsUnique
<1> QED
  BY <1>1, <1>2, BookHolds, PTL

\* A claim that is filed and a claimed total that does not shrink (FileClaim).
LEMMA FiledClaim ==
    ASSUME BookInv, NEW k, k \notin DOMAIN claims, NEW v, v.amount \in Nat,
           NEW ms, ms = With(claims, k, v)
    PROVE  ScoreCustomer(age, policies, claims).score <= ScoreCustomer(age, policies, ms).score
<1> DEFINE low == ClaimsRatio(policies, claims)
           high == ClaimsRatio(policies, ms)
           old == [c \in DOMAIN claims |-> claims[c].amount]
           new == [c \in DOMAIN ms |-> ms[c].amount]
<1>1. /\ DOMAIN claims \subseteq DOMAIN ms /\ DOMAIN ms = DOMAIN claims \cup {k}
      /\ \A c \in DOMAIN claims : ms[c] = claims[c]
      /\ ms[k] = v
  BY DEF With
<1>2. BookTyped(age, policies, claims) /\ BookTyped(age, policies, ms)
  BY <1>1, FS_AddElement DEF BookInv, BookTyped, IsClaims
<1>3. /\ IsRatio(low) /\ ScoreCustomer(age, policies, claims).score = ScoreOf(age, TypesOf(policies), claims, low)
      /\ IsRatio(high) /\ ScoreCustomer(age, policies, ms).score = ScoreOf(age, TypesOf(policies), ms, high)
  BY <1>2, BookScore
<1>4. low.claimed <= high.claimed
  <2>1. low.claimed = SumFunctionOnSet(old, NonZero(claims)) /\ high.claimed = SumFunctionOnSet(new, NonZero(ms))
    BY DEF ClaimsRatio
  <2>2. NonZero(claims) \subseteq NonZero(ms) /\ NonZero(ms) \subseteq DOMAIN ms /\ NonZero(claims) \subseteq DOMAIN claims
    BY <1>1 DEF NonZero
  <2>3. IsFiniteSet(NonZero(ms)) /\ IsFiniteSet(NonZero(claims))
    BY <1>2, <2>2, FS_Subset DEF BookTyped
  <2>4. Agree(old, new, NonZero(claims))
    BY <1>1, <2>2 DEF Agree
  <2>5. \A x \in NonZero(ms) : new[x] \in Nat
    BY <1>2, <2>2 DEF BookTyped, IsClaims
  <2> HIDE DEF old, new
  <2>6. SumFunctionOnSet(old, NonZero(claims)) = SumFunctionOnSet(new, NonZero(claims))
    BY <2>3, <2>4, SumAgrees
  <2>7. SumFunctionOnSet(new, NonZero(claims)) <= SumFunctionOnSet(new, NonZero(ms))
    BY <2>2, <2>3, <2>5, SumGrows
  <2> QED
    BY <2>1, <2>6, <2>7
<1>5. /\ low = [claimed |-> low.claimed, premium |-> low.premium]
      /\ high = [claimed |-> high.claimed, premium |-> low.premium]
  BY DEF ClaimsRatio
<1> HIDE DEF low, high
<1>6. /\ IsAge(age) /\ IsClaims(claims) /\ IsClaims(ms)
      /\ low.claimed \in Nat /\ high.claimed \in Nat /\ low.premium \in Nat
  BY <1>2, <1>3 DEF BookTyped, IsRatio
<1>7. ScoreOf(age, TypesOf(policies), claims, [claimed |-> low.claimed, premium |-> low.premium])
        <= ScoreOf(age, TypesOf(policies), ms, [claimed |-> high.claimed, premium |-> low.premium])
  BY <1>1, <1>4, <1>6, MoreClaimsNeverLowerScore
<1> QED
  BY <1>3, <1>5, <1>7

\* Filing one more claim, denied or not, zero or not, never lowers the score of
\* a book of any size (ClaimNeverLowersScore; the history, ratio and denial
\* factors).
THEOREM FilingNeverLowers == Spec => ClaimNeverLowersScore
<1>1. BookInv /\ [Next]_vars =>
        [DOMAIN claims \subseteq DOMAIN claims' => assessment'.score >= assessment.score]_claims
  <2> SUFFICES ASSUME BookInv, [Next]_vars, claims' # claims, DOMAIN claims \subseteq DOMAIN claims'
               PROVE  assessment'.score >= assessment.score
    OBVIOUS
  <2>1. ASSUME FileClaim PROVE assessment'.score >= assessment.score
    <3>1. PICK k \in ClaimIds \ DOMAIN claims, s \in Statuses, m \in Amounts :
            Rescore(policies, With(claims, k, [status |-> s, amount |-> m]))
      BY <2>1 DEF FileClaim
    <3>2. m \in Nat /\ [status |-> s, amount |-> m].amount = m
      BY BookAssumption
    <3> DEFINE ms == With(claims, k, [status |-> s, amount |-> m])
    <3>3. assessment' = ScoreCustomer(age, policies, ms) /\ assessment = ScoreCustomer(age, policies, claims)
      BY <3>1 DEF Rescore, BookInv
    <3>4. ScoreCustomer(age, policies, claims).score <= ScoreCustomer(age, policies, ms).score
      BY <3>2, FiledClaim
    <3> QED
      BY <3>3, <3>4
  <2>2. ~ArchiveClaim
    BY DEF ArchiveClaim, Rescore, Without, Restrict
  <2>3. ~AddPolicy /\ ~ArchivePolicy
    BY DEF AddPolicy, ArchivePolicy, Rescore
  <2> QED
    BY <2>1, <2>2, <2>3 DEF Next, vars
<1> QED
  BY <1>1, BookHolds, PTL DEF Spec, ClaimNeverLowersScore

\* The highest of some numbers is the one that is not below another (Max).
LEMMA MaxIs ==
    ASSUME NEW M \in SUBSET Nat, NEW k \in M, \A m \in M : m <= k
    PROVE  Max(M) = k
<1>1. Max(M) \in M /\ \A m \in M : Max(M) >= m
  BY DEF Max
<1>2. Max(M) \in Nat /\ k \in Nat /\ Max(M) >= k /\ Max(M) <= k
  BY <1>1
<1> QED
  BY <1>2

\* The age factor and the document's (score_age).
LEMMA AgeMatches == BookInv => ReferenceAge = ScoreAge(age).points
<1> SUFFICES ASSUME BookInv PROVE ReferenceAge = ScoreAge(age).points
  OBVIOUS
<1>1. CASE age = NoAge
  BY <1>1 DEF ReferenceAge, ScoreAge, NotEvaluable, NoAge
<1>2. CASE age \in Nat
  <2>1. ScoreAge(age).points = Select(AGE_BANDS, age, 1).points
    BY <1>2 DEF ScoreAge, Evaluated, NoAge
  <2>2. CASE age < 25
    BY <1>2, <2>1, <2>2, AgePoints DEF ReferenceAge, NoAge
  <2>3. CASE 25 <= age /\ age < 35
    BY <1>2, <2>1, <2>3, AgePoints DEF ReferenceAge, NoAge
  <2>4. CASE 35 <= age /\ age < 65
    BY <1>2, <2>1, <2>4, AgePoints DEF ReferenceAge, NoAge
  <2>5. CASE 65 <= age
    BY <1>2, <2>1, <2>5, AgePoints DEF ReferenceAge, NoAge
  <2> QED
    BY <1>2, <2>2, <2>3, <2>4, <2>5
<1> QED
  BY <1>1, <1>2 DEF BookInv, BookTyped, IsAge

\* The policy type factor and the document's (score_policy_type).
LEMMA TypeMatches == ReferenceType = ScorePolicyType(TypesOf(policies)).points
<1> DEFINE types  == TypesOf(policies)
           points == ScorePolicyType(types).points
           worth  == {0} \cup {POLICY_TYPE_POINTS[t] : t \in types \cap DOMAIN POLICY_TYPE_POINTS}
           listed == {0} \cup {POLICY_TYPE_POINTS[policies[p].type] :
                                 p \in {q \in DOMAIN policies :
                                          policies[q].type \in DOMAIN POLICY_TYPE_POINTS}}
<1>1. worth = listed
  BY DEF TypesOf
<1>2. points \in worth /\ \A m \in worth : m <= points
  BY PolicyTypePoints
<1>3. worth \in SUBSET Nat
  <2>1. \A t \in DOMAIN POLICY_TYPE_POINTS : POLICY_TYPE_POINTS[t] \in Nat
    BY DEF POLICY_TYPE_POINTS
  <2> QED
    BY <2>1
<1>4. ReferenceType = Max(listed)
  BY DEF ReferenceType
<1> HIDE DEF worth, listed, points
<1>5. Max(listed) = points
  BY <1>1, <1>2, <1>3, MaxIs
<1> QED
  BY <1>4, <1>5 DEF points

\* The history and denial factors and the document's (score_claims_history,
\* score_denied_claim).
LEMMA ClaimsMatch ==
    BookInv => ReferenceClaims = ScoreClaimsHistory(claims).points + ScoreDeniedClaim(claims).points
<1> SUFFICES ASSUME BookInv
             PROVE  ReferenceClaims = ScoreClaimsHistory(claims).points + ScoreDeniedClaim(claims).points
  OBVIOUS
<1> DEFINE amounts  == {claims[k].amount : k \in DOMAIN claims}
           statuses == {claims[k].status : k \in DOMAIN claims}
           history == IF amounts = {} THEN 0 ELSE IF amounts = {0} THEN 5 ELSE 20
           denial == IF "Denied" \in statuses THEN 10 ELSE 0
<1>1. \A k \in DOMAIN claims : claims[k].amount \in Nat
  BY DEF BookInv, BookTyped, IsClaims
<1>2. amounts = {} <=> DOMAIN claims = {}
  OBVIOUS
<1>3. amounts # {} => (amounts = {0} <=> NonZero(claims) = {})
  BY <1>1 DEF NonZero
<1>4. ScoreClaimsHistory(claims).points = history
  <2> HIDE DEF amounts
  <2> QED
    BY <1>2, <1>3, HistoryPoints
<1>5. ScoreDeniedClaim(claims).points = denial
  <2> DEFINE denied == IF \E c \in DOMAIN claims : claims[c].status = "Denied" THEN 1 ELSE 0
  <2>1. ScoreDeniedClaim(claims).points = Select(DENIED_CLAIM_BANDS, denied, 1).points
    BY DEF ScoreDeniedClaim, Evaluated
  <2>2. denied \in {0, 1} /\ (denied = 1 <=> "Denied" \in statuses)
    OBVIOUS
  <2> HIDE DEF denied, statuses
  <2>3. ScoreDeniedClaim(claims).points = 10 * denied
    BY <2>1, <2>2, DeniedPoints
  <2> QED
    BY <2>2, <2>3
<1> QED
  BY <1>4, <1>5 DEF ReferenceClaims

\* The ratio factor and the document's: claims of no amount add nothing
\* (score_claims_ratio, score_customer).
LEMMA RatioMatches ==
    BookInv => ReferenceRatio = ScoreClaimsRatio(ClaimsRatio(policies, claims)).points
<1> SUFFICES ASSUME BookInv
             PROVE  ReferenceRatio = ScoreClaimsRatio(ClaimsRatio(policies, claims)).points
  OBVIOUS
<1> DEFINE ratio == ClaimsRatio(policies, claims)
           premiums == [p \in DOMAIN policies |-> policies[p].premium]
           amounts == [c \in DOMAIN claims |-> claims[c].amount]
           premium == MapThenSumSet(LAMBDA p : policies[p].premium, DOMAIN policies)
           claimed == MapThenSumSet(LAMBDA k : claims[k].amount, DOMAIN claims)
           steps == {n \in {1, 3, 5} : claimed >= n * premium}
<1>1. premium = Acc(premiums, DOMAIN policies)[DOMAIN policies]
  BY DEF MapThenSumSet, MapThenFoldSet, Acc, IsAcc, One
<1>2. claimed = Acc(amounts, DOMAIN claims)[DOMAIN claims]
  BY DEF MapThenSumSet, MapThenFoldSet, Acc, IsAcc, One
<1>3. /\ ratio.claimed = SumFunctionOnSet(amounts, NonZero(claims))
      /\ ratio.premium = SumFunctionOnSet(premiums, DOMAIN policies)
  BY DEF ClaimsRatio, SumFunction
<1>4. ratio.premium = premium
  BY <1>1, <1>3, SumIsAcc
<1>5. ratio.claimed = claimed
  <2>1. NonZero(claims) \subseteq DOMAIN claims /\ IsFiniteSet(DOMAIN claims)
    BY DEF NonZero, BookInv, BookTyped
  <2>2. \A x \in DOMAIN claims : amounts[x] \in Nat
    BY DEF BookInv, BookTyped, IsClaims
  <2>3. \A x \in DOMAIN claims \ NonZero(claims) : amounts[x] = 0
    BY <2>2 DEF NonZero
  <2> HIDE DEF amounts
  <2>4. SumFunctionOnSet(amounts, NonZero(claims)) = SumFunctionOnSet(amounts, DOMAIN claims)
    BY <2>1, <2>2, <2>3, SumGrows
  <2> QED
    BY <1>2, <1>3, <2>4, SumIsAcc
<1>6. ratio.claimed \in Nat /\ ratio.premium \in Nat
  BY BookScore DEF BookInv, IsRatio
<1>7. ReferenceRatio = IF premium = 0 THEN 0 ELSE 10 * Cardinality(steps)
  BY DEF ReferenceRatio
<1>8. ScoreClaimsRatio(ratio).points =
        IF premium > 0 THEN Select(CLAIMS_RATIO_BANDS, claimed, premium).points ELSE 0
  BY <1>4, <1>5 DEF ScoreClaimsRatio, Evaluated, NotEvaluable
<1>9. claimed \in Nat /\ premium \in Nat
  BY <1>4, <1>5, <1>6
<1> HIDE DEF premium, claimed, ratio
<1>10. /\ Cardinality({}) = 0 /\ Cardinality({1}) = 1
       /\ Cardinality({1, 3}) = 2 /\ Cardinality({1, 3, 5}) = 3
  <2>1. {1, 3} = {1} \cup {3} /\ {1, 3, 5} = {1, 3} \cup {5}
    OBVIOUS
  <2>2. IsFiniteSet({1}) /\ Cardinality({1}) = 1
    BY FS_Singleton
  <2>3. IsFiniteSet({1, 3}) /\ Cardinality({1, 3}) = 2
    BY <2>1, <2>2, FS_AddElement
  <2>4. Cardinality({1, 3, 5}) = 3
    BY <2>1, <2>3, FS_AddElement
  <2> QED
    BY <2>2, <2>3, <2>4, FS_EmptySet
<1>11. ASSUME premium > 0 PROVE 10 * Cardinality(steps) = Select(CLAIMS_RATIO_BANDS, claimed, premium).points
  <2>1. CASE claimed < premium
    <3>1. steps = {}
      BY <1>9, <1>11, <2>1
    <3>2. Select(CLAIMS_RATIO_BANDS, claimed, premium).points = 0
      BY <1>9, <1>11, <2>1, RatioPoints
    <3> HIDE DEF steps
    <3> QED
      BY <1>10, <3>1, <3>2
  <2>2. CASE premium <= claimed /\ claimed < 3 * premium
    <3>1. steps = {1}
      BY <1>9, <1>11, <2>2
    <3>2. Select(CLAIMS_RATIO_BANDS, claimed, premium).points = 10
      BY <1>9, <1>11, <2>2, RatioPoints
    <3> HIDE DEF steps
    <3> QED
      BY <1>10, <3>1, <3>2
  <2>3. CASE 3 * premium <= claimed /\ claimed < 5 * premium
    <3>1. steps = {1, 3}
      BY <1>9, <1>11, <2>3
    <3>2. Select(CLAIMS_RATIO_BANDS, claimed, premium).points = 20
      BY <1>9, <1>11, <2>3, RatioPoints
    <3> HIDE DEF steps
    <3> QED
      BY <1>10, <3>1, <3>2
  <2>4. CASE 5 * premium <= claimed
    <3>1. steps = {1, 3, 5}
      BY <1>9, <1>11, <2>4
    <3>2. Select(CLAIMS_RATIO_BANDS, claimed, premium).points = 30
      BY <1>9, <1>11, <2>4, RatioPoints
    <3> HIDE DEF steps
    <3> QED
      BY <1>10, <3>1, <3>2
  <2> QED
    BY <1>9, <2>1, <2>2, <2>3, <2>4
<1> QED
  BY <1>7, <1>8, <1>9, <1>11 DEF ratio

\* The band walk of _select agrees with the document's bounds for a book of any
\* size (MatchesReference; score_customer, evaluate).
THEOREM BookMatches == Spec => []MatchesReference
<1>1. ASSUME BookInv PROVE MatchesReference
  <2> DEFINE ratio == ClaimsRatio(policies, claims)
             A == ScoreAge(age).points
             T == ScorePolicyType(TypesOf(policies)).points
             H == ScoreClaimsHistory(claims).points
             R == ScoreClaimsRatio(ratio).points
             D == ScoreDeniedClaim(claims).points
  <2>1. assessment.score = A + T + H + R + D
    BY <1>1, BookScore DEF BookInv, ScoreOf, Total, Evaluate
  <2>2. ReferenceAge = A /\ ReferenceType = T /\ ReferenceClaims = H + D /\ ReferenceRatio = R
    BY <1>1, AgeMatches, TypeMatches, ClaimsMatch, RatioMatches
  <2>3. A \in Nat /\ T \in Nat /\ H \in Nat /\ R \in Nat /\ D \in Nat
    <3>1. A \in Nat
      BY <1>1, AgePoints DEF BookInv, BookTyped, IsAge, ScoreAge, Evaluated, NotEvaluable
    <3>2. T \in Nat
      BY PolicyTypePoints
    <3>3. H \in Nat
      BY DEF ScoreClaimsHistory, Evaluated, CLAIMS_NONE, CLAIMS_ZERO_AMOUNT, CLAIMS_NON_ZERO, Band
    <3>4. R \in Nat
      <4>1. IsRatio(ratio)
        BY <1>1, BookScore DEF BookInv
      <4> QED
        BY <4>1, RatioPoints DEF IsRatio, ScoreClaimsRatio, Evaluated, NotEvaluable
    <3>5. D \in Nat
      BY DeniedPoints DEF ScoreDeniedClaim, Evaluated
    <3> QED
      BY <3>1, <3>2, <3>3, <3>4, <3>5
  <2> HIDE DEF A, T, H, R, D
  <2> QED
    BY <2>1, <2>2, <2>3 DEF MatchesReference
<1> QED
  BY <1>1, BookHolds, PTL
=============================================================================
