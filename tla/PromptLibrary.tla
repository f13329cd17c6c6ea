--------------------------- MODULE PromptLibrary ---------------------------
(***************************************************************************)
(* The prompt library: seven templates, each with the fields its body may  *)
(* cite, the validation that decides whether the process may start, and    *)
(* the resolver that later hands a template its values.                    *)
(*                                                                         *)
(* A body is the set of tokens in braces: a qualified one is the pair of a *)
(* record type and a field, an unqualified one has a record type NoType.   *)
(***************************************************************************)
EXTENDS Naturals, Sequences, FiniteSets

NoType == ""

\* The model fields a declaration is checked against: those the library uses,
\* one it does not, and the fields of two types no template may draw on.
Fields == [Customer       |-> {"name", "age", "gender", "location", "cross_sell_score",
                               "fraud_risk_flag", "archived_at"},
           Policy         |-> {"policy_type", "premium_usd", "end_date",
                               "renewal_probability", "archived_at"},
           Claim          |-> {"claim_status", "claim_amount_usd", "archived_at"},
           RiskAssessment |-> {"score", "tier"},
           RiskFactor     |-> {"points"},
           User           |-> {"password", "role"},
           AuditLog       |-> {"before", "after"}]

ELIGIBLE_RECORD_TYPES == {"Customer", "Policy", "Claim", "RiskAssessment", "RiskFactor"}
-----------------------------------------------------------------------------
Of(recordType, names) == {<<recordType, n>> : n \in names}

Template(identifier, tokens) ==
    [identifier |-> identifier, body |-> tokens, bindings |-> tokens]

RISK_ASSESSMENT_SUMMARY == Template("risk_assessment_summary",
    Of("Customer", {"name", "age"}) \cup Of("Policy", {"policy_type", "premium_usd"})
      \cup Of("Claim", {"claim_status"}) \cup Of("RiskAssessment", {"score", "tier"}))

FRAUD_HIGH_RISK_FLAG_SUMMARY == Template("fraud_high_risk_flag_summary",
    Of("Customer", {"name", "fraud_risk_flag"}) \cup Of("Policy", {"renewal_probability"})
      \cup Of("Claim", {"claim_status", "claim_amount_usd"})
      \cup Of("RiskAssessment", {"score", "tier"}))

PERSONALIZED_RENEWAL_REMINDER == Template("personalized_renewal_reminder",
    Of("Customer", {"name", "age", "location"})
      \cup Of("Policy", {"policy_type", "premium_usd", "end_date", "renewal_probability"}))

CROSS_SELL_RECOMMENDATION == Template("cross_sell_recommendation",
    Of("Customer", {"name", "age", "location", "cross_sell_score", "fraud_risk_flag"})
      \cup Of("Policy", {"policy_type"}) \cup Of("RiskAssessment", {"score"}))

CLAIM_SUMMARY_INTERNAL == Template("claim_summary_internal",
    Of("Customer", {"name", "age", "fraud_risk_flag"})
      \cup Of("Policy", {"policy_type", "premium_usd"})
      \cup Of("Claim", {"claim_status", "claim_amount_usd"})
      \cup Of("RiskAssessment", {"score", "tier"}))

BEHAVIORAL_PATTERN_ANALYSIS == Template("behavioral_pattern_analysis",
    Of("Customer", {"name", "fraud_risk_flag"}) \cup Of("Policy", {"renewal_probability"})
      \cup Of("Claim", {"claim_status", "claim_amount_usd"})
      \cup Of("RiskAssessment", {"score", "tier"}))

EXECUTIVE_SUMMARY == Template("executive_summary",
    Of("Customer", {"name"})
      \cup Of("Policy", {"policy_type", "premium_usd", "renewal_probability"})
      \cup Of("Claim", {"claim_status"}) \cup Of("RiskAssessment", {"score", "tier"}))

TEMPLATES == <<RISK_ASSESSMENT_SUMMARY, FRAUD_HIGH_RISK_FLAG_SUMMARY,
               PERSONALIZED_RENEWAL_REMINDER, CROSS_SELL_RECOMMENDATION,
               CLAIM_SUMMARY_INTERNAL, BEHAVIORAL_PATTERN_ANALYSIS, EXECUTIVE_SUMMARY>>
-----------------------------------------------------------------------------
\* What validation finds wrong, "" for nothing.
FieldExists(b) == b[1] \in DOMAIN Fields /\ b[2] \in Fields[b[1]]

\* Fault variant: the field is looked up before its record type is approved.
BindingErrorExistenceFirst(b) ==
    CASE ~FieldExists(b) -> "no such field"
      [] FieldExists(b) /\ b[1] \notin ELIGIBLE_RECORD_TYPES -> "not eligible"
      [] OTHER -> ""

\* check_binding: a field that exists on a type that is not eligible is refused
\* for its type.
BindingError(b) ==
    CASE b[1] \notin ELIGIBLE_RECORD_TYPES -> "not eligible"
      [] b[1] \in ELIGIBLE_RECORD_TYPES /\ ~FieldExists(b) -> "no such field"
      [] OTHER -> ""

\* extract_placeholders: only qualified tokens are placeholders.
Referenced(t) == {token \in t.body : token[1] # NoType}

\* Fault variant: the declaration is an upper bound of what the body cites.
ContractErrorUpperBound(t) ==
    IF Referenced(t) \ t.bindings # {} THEN "undeclared" ELSE ""

\* The body cites what is declared, no more and no less.
ContractError(t) ==
    CASE Referenced(t) \ t.bindings # {} -> "undeclared"
      [] Referenced(t) = t.bindings -> ""
      [] OTHER -> "unused"

\* check_template, as the set of errors it may raise: with several bad
\* bindings, the first in the order of the declaration is the one reported,
\* and the order is left out.
TemplateErrors(t) ==
    LET bad == {b \in t.bindings : BindingError(b) # ""}
    IN  IF bad # {} THEN {BindingError(b) : b \in bad} ELSE {ContractError(t)}

\* validate_library: duplicates first, then the templates in order; the first
\* one found wrong ends it.
LibraryErrors(templates) ==
    LET n == Len(templates)
        wrong == {i \in 1..n : TemplateErrors(templates[i]) # {""}}
    IN  IF \E i, j \in 1..n : i # j /\ templates[i].identifier = templates[j].identifier
        THEN {"duplicate"}
        ELSE IF wrong = {} THEN {""}
        ELSE TemplateErrors(templates[CHOOSE i \in wrong : \A j \in wrong : i <= j])

\* resolve: one entry for each declared binding, or an error when the caller
\* has no record of one of the types.
Resolvable(t, supplied) == \A b \in t.bindings : b[1] \in supplied
Resolved(t)             == t.bindings
=============================================================================
