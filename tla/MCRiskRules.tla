----------------------------- MODULE MCRiskRules -----------------------------
(***************************************************************************)
(* TLC scores every book of RiskBook the small constants allow and every   *)
(* step between two of them.                                               *)
(***************************************************************************)
EXTENDS RiskBook, TLC

\* No age, and the values both sides of every age boundary.
MCAges == {NoAge, 24, 25, 34, 35, 64, 65}

\* Identities are interchangeable: only the fields of a record are scored.
MCSymmetry == Permutations(PolicyIds) \cup Permutations(ClaimIds)
=============================================================================
