---------------------------- MODULE AuditRoutes ----------------------------
(***************************************************************************)
(* The audited-route registry: which module a path belongs to, and which   *)
(* roles its reads and its writes are for. A path is the sequence of its   *)
(* segments after /api/.                                                   *)
(***************************************************************************)
EXTENDS Naturals, Sequences, SequencesExt

Roles == {"fraud_analyst", "claims_adjuster", "customer_service", "underwriter",
          "compliance_officer", "risk_manager", "product_manager",
          "executive_leadership", "system_administrator"}

AuditedRoute(prefix, target, view, write) ==
    [prefix |-> prefix, target_type |-> target, view_roles |-> view, write_roles |-> write]

\* What register_defaults registers, in its order.
Defaults ==
  <<AuditedRoute(<<"customers">>, "Customer",
        Roles \ {"product_manager", "executive_leadership"},
        {"customer_service", "system_administrator"}),
    AuditedRoute(<<"policies">>, "Policy",
        Roles \ {"executive_leadership"},
        {"underwriter", "system_administrator"}),
    AuditedRoute(<<"claims">>, "Claim",
        {"claims_adjuster", "fraud_analyst", "compliance_officer", "risk_manager",
         "system_administrator"},
        {"claims_adjuster", "system_administrator"}),
    AuditedRoute(<<"prompts">>, "PromptTemplate",
        Roles, {"system_administrator"}),
    AuditedRoute(<<"risk">>, "RiskAssessment",
        {"risk_manager", "underwriter", "fraud_analyst", "compliance_officer",
         "system_administrator"},
        {"risk_manager", "system_administrator"})>>

\* Fault variant: registration appends.
RegisterAppend(registry, route) == Append(registry, route)

\* The entries of other prefixes, in their order (SelectSeq, as a recursive
\* function: the prover knows no definition of the operator).
Others(registry, prefix) ==
    LET kept[i \in 0..Len(registry)] ==
          IF i = 0 THEN <<>>
          ELSE IF registry[i].prefix = prefix THEN kept[i - 1]
          ELSE Append(kept[i - 1], registry[i])
    IN  kept[Len(registry)]

\* An entry replaces the one that has its prefix.
Register(registry, route) == Append(Others(registry, route.prefix), route)

RegisterDefaults(registry) == FoldLeft(Register, registry, Defaults)

\* match: the entry with the longest prefix of the path, if there is one.
Match(registry, path) ==
    LET candidates == {i \in 1..Len(registry) : IsPrefix(registry[i].prefix, path)}
    IN  {registry[i] : i \in {i \in candidates :
            \A j \in candidates : Len(registry[j].prefix) <= Len(registry[i].prefix)}}

MethodIsWrite(method) == method \in {"POST", "PUT", "PATCH", "DELETE"}

\* The half of the recorded action that depends on the method.
ActionFor(method) ==
    CASE method \in {"GET", "HEAD"} -> "viewed"
      [] method = "POST" -> "created"
      [] method \in {"PUT", "PATCH"} -> "updated"
      [] method = "DELETE" -> "deleted"

\* Fault variant: writes are judged by the roles that may read.
RolesForReaders(route, method) == route.view_roles

\* The roles whose 404 is a miss and not a refusal.
RolesFor(route, method) ==
    IF MethodIsWrite(method) THEN route.write_roles ELSE route.view_roles
=============================================================================
