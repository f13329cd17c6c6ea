----------------------------- MODULE RoleAccess -----------------------------
(***************************************************************************)
(* One request, from its path to its response and its audit entry: URL     *)
(* resolution, authentication, HasRole on the collection or on the object, *)
(* the view's own lookup, and the exception handler that records refusals. *)
(*                                                                         *)
(* Bodies, filters and validation errors are left out: a request that gets *)
(* through is answered "ok". OPTIONS is left out too.                      *)
(***************************************************************************)
EXTENDS AuditRoutes

CONSTANT AnyId                  \* a path segment that is not a literal one

Literals == {"users", "audit", "history", "customers", "policies", "claims", "anomalies",
             "risk", "assessments", "by-customer", "recompute", "prompts", "templates"}

ASSUME AnyIdAssumption == AnyId \notin Literals

Anonymous == "anonymous"        \* nobody, or an account that was deactivated
Methods == {"GET", "HEAD", "POST", "PUT", "PATCH", "DELETE"}

\* The routes of the API: path, whether it names one object, the view.
Route(at, detail, view) == [at |-> at, detail |-> detail, view |-> view]

Collections == {"customers", "policies", "claims"}

\* In the order the routers register them.
UrlPatterns ==
  <<Route(<<"users">>, FALSE, "users"), Route(<<"users", AnyId>>, TRUE, "users"),
    Route(<<"audit">>, FALSE, "audit"),
    Route(<<"audit", "history", AnyId, AnyId>>, TRUE, "history"),
    Route(<<"customers">>, FALSE, "customers"), Route(<<"customers", AnyId>>, TRUE, "customers"),
    Route(<<"policies">>, FALSE, "policies"), Route(<<"policies", AnyId>>, TRUE, "policies"),
    Route(<<"claims", "anomalies">>, FALSE, "anomalies"),
    Route(<<"claims", "anomalies", AnyId>>, TRUE, "anomalies"),
    Route(<<"claims">>, FALSE, "claims"), Route(<<"claims", AnyId>>, TRUE, "claims"),
    Route(<<"risk", "assessments">>, FALSE, "risk"),
    Route(<<"risk", "assessments", "by-customer", AnyId>>, FALSE, "by_customer"),
    Route(<<"risk", "assessments", "recompute">>, FALSE, "recompute"),
    Route(<<"risk", "assessments", AnyId>>, TRUE, "risk"),
    Route(<<"risk">>, FALSE, "root"),
    Route(<<"prompts", "templates">>, FALSE, "prompts"),
    Route(<<"prompts", "templates", AnyId>>, TRUE, "prompts"),
    Route(<<"prompts">>, FALSE, "root")>>

Fits(at, path) == /\ Len(at) = Len(path)
                  /\ \A i \in 1..Len(at) : at[i] \in {path[i], AnyId}

\* The first pattern that fits.
Resolve(path) ==
    LET fitting == {i \in 1..Len(UrlPatterns) : Fits(UrlPatterns[i].at, path)}
    IN  UrlPatterns[CHOOSE i \in fitting : \A j \in fitting : i <= j]
-----------------------------------------------------------------------------
\* The methods a view has a handler for.
Handled(view, detail) ==
    CASE view = "recompute" -> {"POST"}
      [] view = "users" -> {"GET", "HEAD"} \cup IF detail THEN {"PATCH"} ELSE {"POST"}
      [] view \in Collections ->
           {"GET", "HEAD"} \cup IF detail THEN {"PUT", "PATCH", "DELETE"} ELSE {"POST"}
      [] OTHER -> {"GET", "HEAD"}

\* WRITE_ACTIONS of the three modules that are written through the API.
IsWriteAction(view, detail, method) ==
    /\ view \in Collections /\ method \in Handled(view, detail)
    /\ method \notin {"GET", "HEAD"}

\* Each module's own tables.
CustomersViewRoles == {"customer_service", "system_administrator", "underwriter",
                       "claims_adjuster", "fraud_analyst", "risk_manager",
                       "compliance_officer"}
PoliciesViewRoles  == {"customer_service", "system_administrator", "underwriter",
                       "claims_adjuster", "fraud_analyst", "risk_manager",
                       "compliance_officer", "product_manager"}
ClaimsViewRoles    == {"claims_adjuster", "fraud_analyst", "compliance_officer",
                       "risk_manager", "system_administrator"}
RiskViewRoles      == {"risk_manager", "underwriter", "fraud_analyst",
                       "compliance_officer", "system_administrator"}
PromptsViewRoles   == {"customer_service", "system_administrator", "underwriter",
                       "claims_adjuster", "fraud_analyst", "risk_manager",
                       "compliance_officer", "product_manager", "executive_leadership"}
AuditViewRoles     == {"compliance_officer", "system_administrator"}
UsersRoles         == {"system_administrator"}

CustomersWriteRoles == {"customer_service", "system_administrator"}
PoliciesWriteRoles  == {"underwriter", "system_administrator"}
ClaimsWriteRoles    == {"claims_adjuster", "system_administrator"}
RECOMPUTE_ROLES     == {"risk_manager", "system_administrator"}

\* The root views the routers add are for every account.
VIEW_ROLES(view) ==
    CASE view = "customers" -> CustomersViewRoles
      [] view = "policies" -> PoliciesViewRoles
      [] view \in {"claims", "anomalies"} -> ClaimsViewRoles
      [] view \in {"risk", "by_customer", "recompute"} -> RiskViewRoles
      [] view = "prompts" -> PromptsViewRoles
      [] view \in {"audit", "history"} -> AuditViewRoles
      [] view = "users" -> UsersRoles
      [] view = "root" -> Roles

WRITE_ROLES(view) ==
    CASE view = "customers" -> CustomersWriteRoles
      [] view = "policies" -> PoliciesWriteRoles
      [] view = "claims" -> ClaimsWriteRoles

\* get_permissions: the roles HasRole is built with for this request. A method
\* a view has no handler for is judged as a read.
Allowed(route, method) ==
    CASE IsWriteAction(route.view, route.detail, method) -> WRITE_ROLES(route.view)
      [] route.view = "recompute" /\ method = "POST" -> RECOMPUTE_ROLES
      [] OTHER -> VIEW_ROLES(route.view)
-----------------------------------------------------------------------------
\* A refusal or a miss is an exception; "none" is none.
Outcome(status, exception, body) == [status |-> status, exception |-> exception, body |-> body]
Ok == Outcome(200, "none", "record")

\* SessionAuthentication checks the CSRF token of an account that is logged in
\* and forgets the account when it is missing.
TokenMissing(q, role) ==
    role # Anonymous /\ ~q.token /\ q.method \notin {"GET", "HEAD"}

\* get_object of the three modules whose get_object_or_404 message is left as
\* it is, and of those that normalise it.
Missing(view) ==
    IF view \in {"customers", "policies", "users"}
    THEN Outcome(404, "Http404", "no match") ELSE Outcome(404, "NotFound", "not found")

\* Fault variant: claims keep the message of get_object_or_404 too.
LookUpRaw(q, route, role) ==
    CASE ~q.exists /\ route.view # "history" -> Outcome(404, "Http404", "no match")
      [] role \notin Allowed(route, q.method) -> Outcome(404, "NotFound", "not found")
      [] OTHER -> Ok

\* has_object_permission comes after the object was found. The history of a
\* record is looked up by nobody: it may be empty.
LookUp(q, route, role) ==
    CASE ~q.exists /\ route.view # "history" -> Missing(route.view)
      [] role \notin Allowed(route, q.method) -> Outcome(404, "NotFound", "not found")
      [] OTHER -> Ok

\* APIView.dispatch: authentication, permission, handler.
Dispatch(q, role) ==
    LET route == Resolve(q.path)
    IN  CASE TokenMissing(q, role) -> Outcome(403, "PermissionDenied", "csrf")
          [] ~TokenMissing(q, role) /\ ~route.detail /\ role \notin Allowed(route, q.method) ->
               Outcome(403, IF role = Anonymous THEN "NotAuthenticated" ELSE "PermissionDenied",
                       "denied")
          [] OTHER ->
               CASE q.method \notin Handled(route.view, route.detail) ->
                      Outcome(405, "MethodNotAllowed", "not allowed")
                 [] q.method \in Handled(route.view, route.detail) /\ route.detail ->
                      LookUp(q, route, role)
                 [] OTHER ->
                      IF route.view \in {"by_customer", "recompute"} /\ ~q.exists
                      THEN Outcome(404, "NotFound",
                                   IF route.view = "recompute" THEN "not found" ELSE "not assessed")
                      ELSE Ok

\* What request.user is by the time the exception handler looks.
UserAfter(q, role) == IF TokenMissing(q, role) THEN Anonymous ELSE role

\* _is_refusal, for the entry the path falls under.
IsRefusal(entry, q, exception, user) ==
    \/ exception \in {"PermissionDenied", "NotAuthenticated"}
    \/ /\ exception \in {"NotFound", "Http404"}
       /\ user \notin RolesFor(entry, q.method)

\* audited_exception_handler: the entries written for a request, none or one.
\* target_id is the pk of the path; a template is looked up by identifier, and
\* its refusals name none.
Recorded(registry, q, outcome, user) ==
    {[actor |-> user, target_type |-> e.target_type, action |-> ActionFor(q.method),
      target |-> IF Resolve(q.path).detail /\ Resolve(q.path).view # "prompts"
                 THEN q.path[Len(q.path)] ELSE ""] :
        e \in {e \in Match(registry, q.path) : IsRefusal(e, q, outcome.exception, user)}}
=============================================================================
