---------------------------- MODULE MCWebProcess ----------------------------
EXTENDS WebProcess

\* The shipped library, and the edits validation is there to catch: a token too
\* many in a body, qualified or not, a binding too many, missing, of a field or
\* a type there is none of, both of a type that is not eligible, two templates
\* with one identifier.
Body(t, token)    == [t EXCEPT !.body = @ \cup {token}]
Binding(t, token) == [t EXCEPT !.bindings = @ \cup {token}]
Both(t, token)    == Body(Binding(t, token), token)

Edits(t) ==
    {Body(t, <<"Customer", "gender">>), Body(t, <<NoType, "name">>),
     Binding(t, <<"Customer", "gender">>),
     Both(t, <<"Customer", "nickname">>), Both(t, <<"User", "password">>),
     Both(t, <<"User", "nickname">>), Both(t, <<"AuditLog", "before">>),
     Both(Both(t, <<"User", "password">>), <<"Policy", "nickname">>),
     [t EXCEPT !.bindings = @ \ {<<"Customer", "name">>}],
     [t EXCEPT !.body = @ \ {<<"Customer", "name">>}],
     [t EXCEPT !.identifier = TEMPLATES[4].identifier]}

MCLibraries ==
    {TEMPLATES}
      \cup {[TEMPLATES EXCEPT ![7] = t] : t \in Edits(TEMPLATES[7])}
      \cup {[TEMPLATES EXCEPT ![1] = Both(@, <<"User", "password">>), ![7] = t] :
              t \in Edits(TEMPLATES[7])}

\* Every route and method. Whether the object exists matters where a route
\* names one, the token where a method is unsafe.
Path(at) == [i \in 1..Len(at) |-> IF at[i] = AnyId THEN "7" ELSE at[i]]
NamesOne(route) == route.detail \/ route.view \in {"by_customer", "recompute"}

MCRequests ==
    UNION {{q \in [path : {Path(UrlPatterns[i].at)}, method : Methods,
                   exists : BOOLEAN, token : BOOLEAN] :
              /\ q.exists \/ NamesOne(UrlPatterns[i])
              /\ q.token \/ q.method \notin {"GET", "HEAD"}} : i \in 1..Len(UrlPatterns)}
=============================================================================
