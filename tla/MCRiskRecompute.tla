--------------------------- MODULE MCRiskRecompute ---------------------------
(***************************************************************************)
(* RiskRecompute with the rule set of RiskRules: ages, covers and losses   *)
(* are chosen so that distinct data give distinct scores.                  *)
(***************************************************************************)
EXTENDS RiskRecompute, TLC

Rules == INSTANCE RiskRules

\* 30 scores 5 points for age, 70 scores 10.
MCAges == {30, 70}

\* Auto adds 15 points, Life none.
MCCovers == {[type |-> "Auto", premium |-> 10], [type |-> "Life", premium |-> 10]}
MCOneCover == {[type |-> "Auto", premium |-> 10]}

\* An approved claim adds 20 points, a denied zero-amount one 15.
MCLosses == {[amount |-> 5, status |-> "Approved"], [amount |-> 0, status |-> "Denied"]}

MCScore(f) == Rules!ScoreCustomer(f.age, f.covers, f.losses).score

\* The storage envelope risk_score_range.
MCScores == 0..100
=============================================================================
