SPECIFICATION Spec
CONSTANTS
  PolicyIds = {p1, p2}
  ClaimIds = {k1, k2}
  Ages <- MCAges
  PolicyTypes = {"Auto", "Health", "Life", "Marine"}
  Premiums = {1, 2}
  Statuses = {"Approved", "Denied"}
  Amounts = {0, 1, 3, 5}
INVARIANTS ScoreOnScale TierIsUnique MatchesReference
PROPERTY ClaimNeverLowersScore
SYMMETRY MCSymmetry
