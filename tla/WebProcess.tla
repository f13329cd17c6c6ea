----------------------------- MODULE WebProcess -----------------------------
(***************************************************************************)
(* A web process: its app-ready phase, which fills the registry of audited *)
(* routes and validates the prompt library, and then requests of one       *)
(* account, whose role an administrator may change while one is under way. *)
(***************************************************************************)
EXTENDS RoleAccess, PromptLibrary

CONSTANTS
    Libraries,      \* the libraries that may have been deployed
    Requests        \* requests: [path, method, exists, token]

ASSUME LibrariesAssumption == \A templates \in Libraries : Len(templates) \in Nat

\* A path that fits no pattern is answered before there is a view.
ASSUME RequestsAssumption ==
    \A q \in Requests :
       /\ q \in [path : Seq(STRING), method : Methods, exists : BOOLEAN, token : BOOLEAN]
       /\ \E i \in 1..Len(UrlPatterns) : Fits(UrlPatterns[i].at, q.path)

VARIABLES
    pc,             \* "core", "again", "prompts": which ready() comes next;
                    \* then "up" or "failed"
    library, reason,
    registry,
    role,           \* the account's role in the database, Anonymous if deactivated
    request,        \* the request under way, with the user it was loaded with
    last            \* the request answered last, its outcome and its entries

vars == <<pc, library, reason, registry, role, request, last>>

Users == Roles \cup {Anonymous}
NoRequest == [user |-> "nobody"]
-----------------------------------------------------------------------------
\* One registry entry for each module, however often the app was readied; a
\* process is up or not, and serves only when it is (register, ready).
TypeOK ==
    /\ pc \in {"core", "again", "prompts", "up", "failed"}
    /\ library \in Libraries
    /\ reason \in {"", "duplicate", "not eligible", "no such field", "undeclared", "unused"}
    /\ registry = IF pc = "core" THEN <<>> ELSE Defaults
    /\ role \in Users
    /\ request # NoRequest => request.user \in Users /\ request.q \in Requests
    /\ pc # "up" => request = NoRequest /\ last = NoRequest

Init ==
    /\ pc = "core" /\ reason = ""
    /\ library \in Libraries
    /\ registry = <<>>
    /\ role \in Users
    /\ request = NoRequest /\ last = NoRequest

\* CoreConfig.ready; Django may run it more than once (bound: twice).
CoreReady ==
    /\ \/ pc = "core" /\ pc' \in {"again", "prompts"}
       \/ pc = "again" /\ pc' = "prompts"
    /\ registry' = RegisterDefaults(registry)
    /\ UNCHANGED <<library, reason, role, request, last>>

\* PromptsConfig.ready; a LibraryError stops the process.
PromptsReady ==
    /\ pc = "prompts"
    /\ reason' \in LibraryErrors(library)
    /\ pc' = IF reason' = "" THEN "up" ELSE "failed"
    /\ UNCHANGED <<library, registry, role, request, last>>

\* The middleware loads the account, or nobody when there is no session.
Arrive(q) ==
    /\ pc = "up" /\ request = NoRequest /\ last = NoRequest
    /\ request' \in {[user |-> u, q |-> q] : u \in {role, Anonymous}}
    /\ UNCHANGED <<pc, library, reason, registry, role, last>>

\* Fault variant: the exception handler asks the database for the role again.
JudgedUserAgain(r) == UserAfter(r.q, role)

\* Who the exception handler takes the requester to be: the request's user.
JudgedUser(r) == UserAfter(r.q, r.user)

\* The view and, for an exception, the handler that may record it.
Respond ==
    /\ request # NoRequest
    /\ LET outcome == Dispatch(request.q, request.user)
       IN  last' = [user |-> request.user, q |-> request.q, outcome |-> outcome,
                    entries |-> Recorded(registry, request.q, outcome, JudgedUser(request))]
    /\ request' = NoRequest
    /\ UNCHANGED <<pc, library, reason, registry, role>>

\* The response is sent.
Send ==
    /\ last # NoRequest
    /\ last' = NoRequest
    /\ UNCHANGED <<pc, library, reason, registry, role, request>>

\* An administrator changes the role of the account, or its is_active flag.
ChangeRole(u) ==
    /\ pc = "up" /\ u # role
    /\ role' = u
    /\ UNCHANGED <<pc, library, reason, registry, request, last>>

Next == \/ CoreReady \/ PromptsReady \/ Respond \/ Send
        \/ \E q \in Requests : Arrive(q)
        \/ \E u \in Users : ChangeRole(u)

Spec == Init /\ [][Next]_vars
-----------------------------------------------------------------------------
\* What the five registered modules are about, by the first path segment.
Audited(path) == path[1] \in {"customers", "policies", "claims", "risk", "prompts"}

\* Whether it was the requester that kept a request from being served.
Refused(q, user) ==
    LET route == Resolve(q.path)
    IN  \/ TokenMissing(q, user)
        \/ /\ user \notin Allowed(route, q.method)
           /\ route.detail => q.method \in Handled(route.view, route.detail)

\* Every refusal on an audited module, and nothing else, leaves an entry, in
\* the name of the account the request was loaded with: the registry's role
\* sets, the views' own and what HasRole raises agree on every route, method
\* and role, also when the role changes half way ("a permitted user's NotFound
\* is a genuine miss and is not logged", _is_refusal).
RefusalsRecorded ==
    last # NoRequest =>
       /\ last.entries # {} <=> Audited(last.q.path) /\ Refused(last.q, last.user)
       /\ \A e \in last.entries :
             /\ e.actor = UserAfter(last.q, last.user)
             /\ \E i \in 1..Len(Defaults) : /\ Defaults[i].prefix = <<last.q.path[1]>>
                                            /\ Defaults[i].target_type = e.target_type

\* A requester who is refused an object learns nothing of its existence: the
\* answer and the entry are the same with it and without it. Customers, policies
\* and users answer with the same status but leave get_object_or_404's message
\* in the body (HasRole, ClaimViewSet.get_object).
RefusalTellsNothing ==
    last # NoRequest /\ Resolve(last.q.path).detail /\ Refused(last.q, last.user) =>
       \A e \in BOOLEAN :
          LET q == [last.q EXCEPT !.exists = e]
              o == Dispatch(q, last.user)
          IN  /\ o.status = last.outcome.status
              /\ \/ o.body = last.outcome.body
                 \/ Resolve(q.path).view \in {"customers", "policies", "users"}
              /\ Recorded(registry, q, o, UserAfter(q, last.user)) = last.entries

\* What a library must be for the resolver to give each template exactly the
\* fields its body cites, all of them on approved record types.
Grounded(templates) ==
    /\ \A i, j \in 1..Len(templates) :
          templates[i].identifier = templates[j].identifier => i = j
    /\ \A i \in 1..Len(templates) :
          LET t == templates[i]
          IN  /\ Resolvable(t, ELIGIBLE_RECORD_TYPES)
              /\ Resolved(t) = t.body
              /\ \A b \in Resolved(t) : b[2] \in Fields[b[1]]

\* No body of the library has a token that names no record type.
Qualified(templates) ==
    \A i \in 1..Len(templates) : \A token \in templates[i].body : token[1] # NoType

\* A process refuses to start only if its library is not grounded, and serves
\* requests only if it is, for every library of qualified tokens: "a malformed
\* library fails at startup" (PromptsConfig.ready, validate_library).
StartedIsGrounded ==
    /\ pc = "failed" => ~Grounded(library)
    /\ pc = "up" /\ Qualified(library) => Grounded(library)

\* The same for every library: an unqualified token "then has no matching
\* binding, and validation rejects it as an unbound placeholder" (bindings.py),
\* "100% of the time" (SC-002 of specs/007).
OnlyGroundedServes == pc = "up" => Grounded(library)

\* A declaration on a record type that is not eligible is refused for that, so
\* "no such field" is only ever said of eligible types ("eligibility is checked
\* before existence, and the order matters", check_binding).
VerdictIsTrue ==
    reason = "no such field" =>
       \E i \in 1..Len(library) : \E b \in library[i].bindings :
          b[1] \in ELIGIBLE_RECORD_TYPES /\ b[2] \notin Fields[b[1]]
=============================================================================
