--------------------------- MODULE MCRiskFreshness ---------------------------
(***************************************************************************)
(* RiskFreshness with the constants of MCRiskRecompute.                    *)
(***************************************************************************)
EXTENDS RiskFreshness, MCRiskRecompute
=============================================================================
