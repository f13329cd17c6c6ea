--------------------------- MODULE MCRiskSnapshot ---------------------------
(***************************************************************************)
(* RiskSnapshot with the constants of MCRiskRecompute.                     *)
(***************************************************************************)
EXTENDS RiskSnapshot, MCRiskRecompute
=============================================================================
