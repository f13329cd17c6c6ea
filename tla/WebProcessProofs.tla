--------------------------- MODULE WebProcessProofs ---------------------------
(***************************************************************************)
(* What the validation of the prompt library guarantees of every library,  *)
(* what a refused request leaves behind on any path, and why registering   *)
(* the audited routes again changes nothing.                               *)
(***************************************************************************)
EXTENDS WebProcess, WellFoundedInduction, TLAPS

\* A binding is right or it is not (BindingError, FieldExists).
Right(b) == b[1] \in ELIGIBLE_RECORD_TYPES /\ b[2] \in Fields[b[1]]

\* A binding that is right is not refused, and a wrong one is (BindingError).
LEMMA BindingIsRight ==
    ASSUME NEW b
    PROVE  /\ BindingError(b) = "" <=> Right(b)
           /\ BindingError(b) = "no such field"
                => b[1] \in ELIGIBLE_RECORD_TYPES /\ b[2] \notin Fields[b[1]]
<1>1. DOMAIN Fields = {"Customer", "Policy", "Claim", "RiskAssessment", "RiskFactor",
                       "User", "AuditLog"}
  BY DEF Fields
<1>2. b[1] \in ELIGIBLE_RECORD_TYPES => (FieldExists(b) <=> b[2] \in Fields[b[1]])
  BY <1>1 DEF ELIGIBLE_RECORD_TYPES, FieldExists
<1>. QED
  BY <1>2 DEF BindingError, Right

\* A template is right when its bindings are and are what its body cites.
Sound(t) == (\A b \in t.bindings : Right(b)) /\ Referenced(t) = t.bindings

\* A template that is not right is refused, and a right one is not
\* (TemplateErrors).
LEMMA TemplateIsSound ==
    ASSUME NEW t
    PROVE  /\ Sound(t) => TemplateErrors(t) = {""}
           /\ ~Sound(t) => "" \notin TemplateErrors(t)
<1> DEFINE bad == {b \in t.bindings : BindingError(b) # ""}
<1>1. bad = {} <=> \A b \in t.bindings : Right(b)
  BY BindingIsRight
<1>2. TemplateErrors(t) = IF bad # {} THEN {BindingError(b) : b \in bad} ELSE {ContractError(t)}
  BY DEF TemplateErrors
<1>3. "" \notin {BindingError(b) : b \in bad}
  OBVIOUS
<1>4. ContractError(t) = "" <=> Referenced(t) = t.bindings
  BY DEF ContractError
<1> HIDE DEF bad
<1>. QED
  BY <1>1, <1>2, <1>3, <1>4 DEF Sound

\* Of the templates that are wrong there is a first one.
LEMMA FirstOfSome ==
    ASSUME NEW n \in Nat, NEW S \in SUBSET (1..n), S # {}
    PROVE  \E i \in S : \A j \in S : i <= j
<1> DEFINE R == {ss \in Nat \X Nat : ss[1] < ss[2]}
<1>1. IsWellFoundedOn(R, Nat)
  BY NatLessThanWellFounded DEF OpToRel
<1>2. \A i \in S, j \in S : j < i => <<j, i>> \in R
  OBVIOUS
<1> HIDE DEF R
<1>3. PICK i \in S : \A j \in S : ~(<<j, i>> \in R)
  <2>1. S \subseteq Nat
    OBVIOUS
  <2>. QED
    BY <1>1, <2>1, WFMin
<1>4. \A j \in S : ~(j < i)
  BY <1>2, <1>3
<1>. QED
  BY <1>4

\* What loading makes of a library of any length (LibraryErrors): a grounded one
\* is accepted, any other is refused for what is wrong with a template.
LEMMA LibraryIsGrounded ==
    ASSUME NEW templates, Len(templates) \in Nat
    PROVE  /\ Grounded(templates) => LibraryErrors(templates) = {""}
           /\ Qualified(templates) /\ ~Grounded(templates) => "" \notin LibraryErrors(templates)
           /\ "no such field" \in LibraryErrors(templates) =>
                \E i \in 1..Len(templates) : \E b \in templates[i].bindings :
                   b[1] \in ELIGIBLE_RECORD_TYPES /\ b[2] \notin Fields[b[1]]
<1> DEFINE n == Len(templates)
           wrong == {i \in 1..n : TemplateErrors(templates[i]) # {""}}
           twins == \E i, j \in 1..n :
                      i # j /\ templates[i].identifier = templates[j].identifier
           first == CHOOSE i \in wrong : \A j \in wrong : i <= j
<1> DEFINE whole(t) == /\ Resolvable(t, ELIGIBLE_RECORD_TYPES)
                       /\ Resolved(t) = t.body
                       /\ \A b \in Resolved(t) : b[2] \in Fields[b[1]]
<1>1. ASSUME NEW i \in 1..n
      PROVE  /\ whole(templates[i]) => Sound(templates[i])
             /\ Qualified(templates) /\ Sound(templates[i]) => whole(templates[i])
  <2> DEFINE t == templates[i]
  <2>1. Sound(t) <=> /\ Resolvable(t, ELIGIBLE_RECORD_TYPES)
                     /\ Resolved(t) = Referenced(t)
                     /\ \A b \in Resolved(t) : b[2] \in Fields[b[1]]
    BY DEF Sound, Right, Resolvable, Resolved
  <2>2. NoType \notin ELIGIBLE_RECORD_TYPES
    BY DEF NoType, ELIGIBLE_RECORD_TYPES
  <2>3. whole(t) => Referenced(t) = t.body
    BY <2>2 DEF Referenced, Resolvable, Resolved
  <2>4. Qualified(templates) => Referenced(t) = t.body
    BY DEF Qualified, Referenced
  <2>. QED
    BY <2>1, <2>3, <2>4
<1>2. /\ Grounded(templates) => ~twins /\ \A i \in 1..n : Sound(templates[i])
      /\ Qualified(templates) /\ ~twins /\ (\A i \in 1..n : Sound(templates[i]))
           => Grounded(templates)
  BY <1>1 DEF Grounded
<1>3. /\ \A i \in wrong : i \in 1..n /\ "" \notin TemplateErrors(templates[i])
      /\ \A i \in 1..n : i \in wrong <=> ~Sound(templates[i])
  BY TemplateIsSound
<1>4. /\ twins => LibraryErrors(templates) = {"duplicate"}
      /\ ~twins /\ wrong = {} => LibraryErrors(templates) = {""}
      /\ ~twins /\ wrong # {} => LibraryErrors(templates) = TemplateErrors(templates[first])
  BY DEF LibraryErrors
<1>5. wrong # {} => first \in wrong
  <2>1. wrong # {} => \E i \in wrong : \A j \in wrong : i <= j
    BY FirstOfSome
  <2> HIDE DEF wrong
  <2>. QED
    BY <2>1
<1>6. ASSUME wrong # {}, "no such field" \in TemplateErrors(templates[first])
      PROVE  \E b \in templates[first].bindings :
                b[1] \in ELIGIBLE_RECORD_TYPES /\ b[2] \notin Fields[b[1]]
  <2> DEFINE t == templates[first]
             bad == {b \in t.bindings : BindingError(b) # ""}
  <2>1. TemplateErrors(t) = IF bad # {} THEN {BindingError(b) : b \in bad} ELSE {ContractError(t)}
    BY DEF TemplateErrors
  <2>2. ContractError(t) # "no such field"
    BY DEF ContractError
  <2>0. "no such field" \in TemplateErrors(t)
    BY <1>6
  <2> HIDE DEF t
  <2>3. PICK b \in t.bindings : BindingError(b) = "no such field"
    BY <2>0, <2>1, <2>2
  <2>. QED
    BY <2>3, BindingIsRight DEF t
<1> HIDE DEF wrong, twins, first
<1> DEFINE errors == LibraryErrors(templates)
<1>7. twins => "" \notin errors /\ "no such field" \notin errors
  <2> HIDE DEF errors
  <2>1. twins => errors = {"duplicate"}
    BY <1>4 DEF errors
  <2>2. "" \notin {"duplicate"} /\ "no such field" \notin {"duplicate"}
    OBVIOUS
  <2>. QED
    BY <2>1, <2>2
<1>8. ~twins /\ wrong = {} => "no such field" \notin errors
  <2> HIDE DEF errors
  <2>1. ~twins /\ wrong = {} => errors = {""}
    BY <1>4 DEF errors
  <2>2. "no such field" \notin {""}
    OBVIOUS
  <2>. QED
    BY <2>1, <2>2
<1>9. Grounded(templates) => LibraryErrors(templates) = {""}
  <2>1. Grounded(templates) => wrong = {}
    BY <1>2, <1>3
  <2>. QED
    BY <1>2, <1>4, <2>1
<1>10. Qualified(templates) /\ ~Grounded(templates) => "" \notin LibraryErrors(templates)
  <2>1. Qualified(templates) /\ ~Grounded(templates) => twins \/ wrong # {}
    BY <1>2, <1>3
  <2>2. wrong # {} => "" \notin TemplateErrors(templates[first])
    BY <1>3, <1>5
  <2>. QED
    BY <1>4, <1>7, <2>1, <2>2
<1>11. "no such field" \in LibraryErrors(templates)
        => wrong # {} /\ "no such field" \in TemplateErrors(templates[first])
  BY <1>4, <1>7, <1>8
<1>12. wrong # {} => first \in 1..n
  BY <1>3, <1>5
<1>. QED
  BY <1>6, <1>9, <1>10, <1>11, <1>12
-----------------------------------------------------------------------------
\* What a process knows of its library (PromptsReady).
Inv == /\ library \in Libraries
       /\ reason # "" => reason \in LibraryErrors(library)
       /\ pc = "up" => "" \in LibraryErrors(library)
       /\ pc = "failed" => reason # ""

\* The verdict is the validation's, and stands (Spec).
LEMMA VerdictStands == Spec => []Inv
<1>1. Init => Inv
  BY DEF Init, Inv
<1>2. Inv /\ [Next]_vars => Inv'
  <2> SUFFICES ASSUME Inv, [Next]_vars PROVE Inv'
    OBVIOUS
  <2>1. CASE CoreReady
    BY <2>1 DEF CoreReady, Inv
  <2>2. CASE PromptsReady
    BY <2>2 DEF PromptsReady, Inv
  <2>3. CASE Respond \/ Send \/ \E q \in Requests : Arrive(q)
    <3>1. UNCHANGED <<pc, library, reason>>
      BY <2>3, Zenon DEF Respond, Send, Arrive
    <3>. QED
      BY <3>1 DEF Inv
  <2>4. CASE \E u \in Users : ChangeRole(u)
    BY <2>4 DEF ChangeRole, Inv
  <2>5. CASE UNCHANGED vars
    BY <2>5 DEF vars, Inv
  <2>. QED
    BY <2>1, <2>2, <2>3, <2>4, <2>5 DEF Next
<1>. QED
  BY <1>1, <1>2, PTL DEF Spec

\* Whatever library is deployed, a process refuses to start only if the library
\* is not grounded, and serves requests, if all tokens of its bodies name a record
\* type, only if it is (StartedIsGrounded; PromptsConfig.ready, validate_library).
THEOREM ServesGroundedOnly == Spec => []StartedIsGrounded
<1>1. Inv => StartedIsGrounded
  <2> SUFFICES ASSUME Inv PROVE StartedIsGrounded
    OBVIOUS
  <2>1. Len(library) \in Nat
    BY LibrariesAssumption DEF Inv
  <2>2. /\ Grounded(library) => LibraryErrors(library) = {""}
        /\ Qualified(library) /\ ~Grounded(library) => "" \notin LibraryErrors(library)
    BY <2>1, LibraryIsGrounded
  <2>. QED
    BY <2>2 DEF Inv, StartedIsGrounded
<1>. QED
  BY <1>1, VerdictStands, PTL

\* A process that did not start for a field there is none of names one of an
\* eligible record type (VerdictIsTrue; check_binding).
THEOREM VerdictNamesCause == Spec => []VerdictIsTrue
<1>1. Inv => VerdictIsTrue
  BY LibraryIsGrounded, LibrariesAssumption DEF Inv, VerdictIsTrue
<1>. QED
  BY <1>1, VerdictStands, PTL
-----------------------------------------------------------------------------
\* The answer sent is the one Dispatch gives the user the request was loaded
\* with, and its entries are those of the registry as it is.
Answered(r) ==
    /\ r.q \in Requests /\ r.user \in Users
    /\ r.outcome = Dispatch(r.q, r.user)
    /\ r.entries = Recorded(registry, r.q, r.outcome, UserAfter(r.q, r.user))

\* The registry stands while requests are served (Arrive, Respond, Send).
Serving ==
    /\ request # NoRequest => pc = "up" /\ request.user \in Users /\ request.q \in Requests
    /\ last # NoRequest => pc = "up" /\ Answered(last)
    /\ role \in Users

LEMMA ServingStands == Spec => []Serving
<1>1. Init => Serving
  BY DEF Init, Serving
<1>2. Serving /\ [Next]_vars => Serving'
  <2> SUFFICES ASSUME Serving, [Next]_vars PROVE Serving'
    OBVIOUS
  <2> USE DEF Serving
  <2>1. CASE CoreReady
    BY <2>1, Zenon DEF CoreReady
  <2>2. CASE PromptsReady
    <3>1. pc = "prompts" /\ request = NoRequest /\ last = NoRequest
      BY <2>2 DEF PromptsReady
    <3>. QED
      BY <2>2, <3>1 DEF PromptsReady
  <2>3. CASE \E q \in Requests : Arrive(q)
    <3>1. PICK q \in Requests : Arrive(q)
      BY <2>3
    <3>2. PICK u \in {role, Anonymous} : request' = [user |-> u, q |-> q]
      BY <3>1 DEF Arrive
    <3>3. u \in Users
      BY <3>2 DEF Users
    <3>4. pc = "up" /\ last = NoRequest /\ UNCHANGED <<pc, role, last>>
      BY <3>1 DEF Arrive
    <3>. QED
      BY <3>2, <3>3, <3>4
  <2>4. CASE Respond
    <3>1. pc = "up" /\ request.user \in Users /\ request.q \in Requests
      BY <2>4 DEF Respond
    <3>2. /\ last' = [user |-> request.user, q |-> request.q,
                      outcome |-> Dispatch(request.q, request.user),
                      entries |-> Recorded(registry, request.q,
                                           Dispatch(request.q, request.user),
                                           UserAfter(request.q, request.user))]
          /\ request' = NoRequest /\ UNCHANGED <<pc, registry, role>>
      BY <2>4 DEF Respond, JudgedUser
    <3>3. Answered(last)'
      BY <3>1, <3>2 DEF Answered
    <3>. QED
      BY <3>1, <3>2, <3>3
  <2>5. CASE Send
    <3>1. last' = NoRequest /\ UNCHANGED <<pc, role, request>>
      BY <2>5 DEF Send
    <3>. QED
      BY <3>1
  <2>6. CASE \E u \in Users : ChangeRole(u)
    <3>1. role' \in Users /\ UNCHANGED <<pc, registry, request, last>>
      BY <2>6 DEF ChangeRole
    <3>. QED
      BY <3>1 DEF Answered
  <2>7. CASE UNCHANGED vars
    BY <2>7 DEF vars, Answered
  <2>. QED
    BY <2>1, <2>2, <2>3, <2>4, <2>5, <2>6, <2>7 DEF Next
<1>. QED
  BY <1>1, <1>2, PTL DEF Spec

\* What is asked of an object one may not see is answered by status and
\* recorded alike, whether it is there or not (Dispatch, LookUp, IsRefusal).
LEMMA ExistenceIsHidden ==
    ASSUME NEW q \in Requests, NEW user, NEW e \in BOOLEAN, NEW table,
           Resolve(q.path).detail, Refused(q, user)
    PROVE  LET p == [q EXCEPT !.exists = e]
               o == Dispatch(p, user)
           IN  /\ o.status = Dispatch(q, user).status
               /\ o.body = Dispatch(q, user).body
                    \/ Resolve(p.path).view \in {"customers", "policies", "users"}
               /\ Recorded(table, p, o, UserAfter(p, user))
                    = Recorded(table, q, Dispatch(q, user), UserAfter(q, user))
<1> DEFINE p == [q EXCEPT !.exists = e]
           route == Resolve(q.path)
           o == Dispatch(p, user)
           answer == Dispatch(q, user)
           who == UserAfter(q, user)
<1>1. q.path = p.path /\ q.method = p.method /\ q.token = p.token
  BY RequestsAssumption
<1>2. (TokenMissing(p, user) <=> TokenMissing(q, user)) /\ UserAfter(p, user) = who
  BY <1>1 DEF TokenMissing, UserAfter
<1>3. CASE TokenMissing(q, user)
  <2>1. o = answer
    BY <1>1, <1>2, <1>3 DEF Dispatch
  <2>. QED
    BY <1>1, <1>2, <2>1 DEF Recorded, IsRefusal
<1>4. CASE ~TokenMissing(q, user)
  <2>1. route.detail /\ user \notin Allowed(route, q.method)
        /\ q.method \in Handled(route.view, route.detail)
    BY <1>4 DEF Refused
  <2>2. answer = LookUp(q, route, user)
    BY <1>4, <2>1 DEF Dispatch
  <2>3. o = LookUp(p, route, user)
    BY <1>1, <1>2, <1>4, <2>1 DEF Dispatch
  <2> DEFINE misses == {Missing(route.view), Outcome(404, "NotFound", "not found")}
  <2>4. answer \in misses /\ o \in misses
    BY <1>1, <2>1, <2>2, <2>3 DEF LookUp
  <2>5. \A m \in misses : /\ m.status = 404 /\ m.exception \in {"NotFound", "Http404"}
                          /\ m.body = "not found"
                               \/ route.view \in {"customers", "policies", "users"}
    <3> DEFINE raw == Outcome(404, "Http404", "no match")
               normal == Outcome(404, "NotFound", "not found")
    <3>1. misses \subseteq {raw, normal}
      BY DEF Missing
    <3>2. route.view \notin {"customers", "policies", "users"} => misses = {normal}
      BY DEF Missing
    <3>3. /\ raw.status = 404 /\ raw.exception \in {"NotFound", "Http404"}
          /\ normal.status = 404 /\ normal.exception \in {"NotFound", "Http404"}
          /\ normal.body = "not found"
      BY DEF Outcome
    <3> HIDE DEF misses, raw, normal
    <3> HIDE DEF route
    <3> TAKE m \in misses
    <3>4. m = raw \/ m = normal
      BY <3>1
    <3>5. CASE m = normal
      BY <3>3, <3>5
    <3>6. CASE m = raw
      <4>1. m.status = 404 /\ m.exception \in {"NotFound", "Http404"}
        BY <3>3, <3>6
      <4>2. route.view \in {"customers", "policies", "users"} \/ m = normal
        BY <3>2
      <4>. QED
        BY <3>5, <4>1, <4>2
    <3>. QED
      BY <3>4, <3>5, <3>6
  <2> HIDE DEF misses, o, answer
  <2>6. \A entry : IsRefusal(entry, p, o.exception, who) <=> IsRefusal(entry, q, answer.exception, who)
    BY <1>1, <2>4, <2>5 DEF IsRefusal
  <2>7. Recorded(table, p, o, who) = Recorded(table, q, answer, who)
    BY <1>1, <2>6 DEF Recorded
  <2>. QED
    BY <1>1, <1>2, <2>4, <2>5, <2>7 DEF o, answer
<1>. QED
  BY <1>3, <1>4

\* Whoever is refused an object learns nothing of its existence, by the status,
\* the body or the audit log (RefusalTellsNothing; HasRole, the get_object of
\* the views, _is_refusal).
THEOREM RefusalsAreSilent == Spec => []RefusalTellsNothing
<1>1. Serving => RefusalTellsNothing
  <2> SUFFICES ASSUME Serving, last # NoRequest, Resolve(last.q.path).detail,
                      Refused(last.q, last.user), NEW e \in BOOLEAN
               PROVE  LET q == [last.q EXCEPT !.exists = e]
                          o == Dispatch(q, last.user)
                      IN  /\ o.status = last.outcome.status
                          /\ \/ o.body = last.outcome.body
                             \/ Resolve(q.path).view \in {"customers", "policies", "users"}
                          /\ Recorded(registry, q, o, UserAfter(q, last.user)) = last.entries
    BY DEF RefusalTellsNothing
  <2>1. Answered(last)
    BY DEF Serving
  <2>. QED
    BY <2>1, ExistenceIsHidden DEF Answered
<1>. QED
  BY <1>1, ServingStands, PTL
-----------------------------------------------------------------------------
\* The registry of audited routes.

\* Others' recursion, up to the n-th entry, has a solution (Others).
KeptTo(k, s, prefix, n) ==
    k = [i \in 0..n |-> IF i = 0 THEN <<>>
                        ELSE IF s[i].prefix = prefix THEN k[i - 1]
                        ELSE Append(k[i - 1], s[i])]

Kept(s, prefix) == CHOOSE k : KeptTo(k, s, prefix, Len(s))

LEMMA KeptExists ==
    ASSUME NEW s, Len(s) \in Nat, NEW prefix
    PROVE  KeptTo(Kept(s, prefix), s, prefix, Len(s))
<1> DEFINE bad == {n \in 1..Len(s) : ~ \E k : KeptTo(k, s, prefix, n)}
<1>1. \E k : KeptTo(k, s, prefix, 0)
  <2>1. KeptTo([i \in 0..0 |-> <<>>], s, prefix, 0)
    BY DEF KeptTo
  <2>. QED
    BY <2>1
<1>2. ASSUME bad # {} PROVE FALSE
  <2>1. PICK n \in bad : \A j \in bad : n <= j
    <3> HIDE DEF bad
    <3>1. bad \in SUBSET (1..Len(s))
      BY DEF bad
    <3>. QED
      BY <1>2, <3>1, FirstOfSome
  <2>2. n \in Nat /\ n - 1 \in 0..Len(s) /\ n \in 1..Len(s)
    BY <2>1
  <2>3. \E k : KeptTo(k, s, prefix, n - 1)
    BY <1>1, <2>1, <2>2
  <2>4. PICK k : KeptTo(k, s, prefix, n - 1)
    BY <2>3
  <2> DEFINE h == [i \in 0..n |-> IF i = n THEN IF s[n].prefix = prefix THEN k[n - 1]
                                                ELSE Append(k[n - 1], s[n])
                                  ELSE k[i]]
  <2>5. KeptTo(h, s, prefix, n)
    <3>1. \A i \in 0..(n - 1) : i \in 0..n /\ i # n /\ h[i] = k[i]
      BY <2>2
    <3>2. \A i \in 0..(n - 1) : k[i] = IF i = 0 THEN <<>>
                             ELSE IF s[i].prefix = prefix THEN k[i - 1]
                             ELSE Append(k[i - 1], s[i])
      BY <2>4 DEF KeptTo
    <3>3. \A i \in 0..n : i # n => i \in 0..(n - 1)
      BY <2>2
    <3>4. \A i \in 0..n : i # 0 => i - 1 \in 0..(n - 1)
      BY <2>2
    <3>5. n # 0 /\ h[n] = IF s[n].prefix = prefix THEN k[n - 1] ELSE Append(k[n - 1], s[n])
      BY <2>2
    <3>6. h = [i \in 0..n |-> h[i]]
      OBVIOUS
    <3> HIDE DEF h
    <3>7. \A i \in 0..n : h[i] = IF i = 0 THEN <<>>
                             ELSE IF s[i].prefix = prefix THEN h[i - 1]
                             ELSE Append(h[i - 1], s[i])
      BY <3>1, <3>2, <3>3, <3>4, <3>5
    <3>. QED
      BY <3>6, <3>7 DEF KeptTo
  <2>. QED
    BY <2>1, <2>5
<1>3. \E k : KeptTo(k, s, prefix, Len(s))
  BY <1>1, <1>2
<1>. QED
  BY <1>3 DEF Kept

\* What the recursion says, step by step.
LEMMA OthersStep ==
    ASSUME NEW s, Len(s) \in Nat, NEW prefix
    PROVE  LET k == Kept(s, prefix)
           IN  /\ Others(s, prefix) = k[Len(s)] /\ k[0] = <<>>
               /\ \A i \in 1..Len(s) : k[i] = IF s[i].prefix = prefix THEN k[i - 1]
                                              ELSE Append(k[i - 1], s[i])
<1> DEFINE k == Kept(s, prefix)
<1>1. KeptTo(k, s, prefix, Len(s))
  BY KeptExists
<1>2. Others(s, prefix) = k[Len(s)]
  BY DEF Others, Kept, KeptTo
<1> HIDE DEF k
<1>3. \A i \in 0..Len(s) : k[i] = IF i = 0 THEN <<>>
                             ELSE IF s[i].prefix = prefix THEN k[i - 1]
                             ELSE Append(k[i - 1], s[i])
  BY <1>1 DEF KeptTo
<1>. QED
  BY <1>2, <1>3 DEF k

\* Sequences that agree everywhere are equal.
LEMMA SameSeq ==
    ASSUME NEW S, NEW u \in Seq(S), NEW v \in Seq(S), Len(u) = Len(v),
           \A i \in 1..Len(u) : u[i] = v[i]
    PROVE  u = v
OBVIOUS

\* The entries of a prefix are the first d ones.
Leading(s, prefix, d) == \A i \in 1..Len(s) : s[i].prefix = prefix <=> i <= d

\* Removing the leading entries leaves the others as they are (Others).
LEMMA OthersAre ==
    ASSUME NEW S, NEW s \in Seq(S), NEW prefix, NEW d \in 0..Len(s),
           Leading(s, prefix, d)
    PROVE  Others(s, prefix) = SubSeq(s, d + 1, Len(s))
<1> DEFINE n == Len(s)
           k == Kept(s, prefix)
           rest(i) == SubSeq(s, d + 1, i)
           bad == {i \in 1..n : k[i] # rest(i)}
<1>1. n \in Nat /\ d \in Nat /\ d <= n
  OBVIOUS
<1>2. /\ Others(s, prefix) = k[n] /\ k[0] = <<>>
      /\ \A i \in 1..n : k[i] = IF s[i].prefix = prefix THEN k[i - 1] ELSE Append(k[i - 1], s[i])
  BY <1>1, OthersStep
<1> HIDE DEF k
<1>3. rest(0) = <<>>
  BY <1>1
<1>4. ASSUME NEW i \in 1..n, k[i - 1] = rest(i - 1) PROVE k[i] = rest(i)
  <2>1. CASE i <= d
    <3>1. rest(i) = <<>> /\ rest(i - 1) = <<>>
      BY <1>1, <2>1
    <3>. QED
      BY <1>2, <1>4, <2>1, <3>1 DEF Leading
  <2>2. CASE i > d
    <3>1. k[i] = Append(rest(i - 1), s[i])
      <4> HIDE DEF rest
      <4>1. s[i].prefix # prefix
        BY <1>1, <2>2 DEF Leading
      <4>. QED
        BY <1>2, <1>4, <4>1
    <3>2. rest(i) \in Seq(S) /\ Append(rest(i - 1), s[i]) \in Seq(S)
      BY <1>1
    <3>3. Len(rest(i)) = i - d /\ Len(rest(i - 1)) = i - 1 - d
      BY <1>1, <2>2
    <3>4. \A j \in 1..(i - d) : rest(i)[j] = s[d + j]
      BY <1>1, <2>2
    <3>5. \A j \in 1..(i - 1 - d) : rest(i - 1)[j] = s[d + j]
      BY <1>1, <2>2
    <3> DEFINE u == Append(rest(i - 1), s[i])
    <3>6. u \in Seq(S) /\ Len(u) = i - d /\ \A j \in 1..(i - d) : u[j] = s[d + j]
      BY <1>1, <2>2, <3>2, <3>3, <3>5
    <3> HIDE DEF u, rest
    <3>7. u = rest(i)
      BY <3>2, <3>3, <3>4, <3>6, SameSeq
    <3>. QED
      BY <3>1, <3>7 DEF u
  <2>. QED
    BY <1>1, <2>1, <2>2
<1>5. ASSUME bad # {} PROVE FALSE
  <2>1. PICK i \in bad : \A j \in bad : i <= j
    <3> HIDE DEF bad
    <3>1. bad \in SUBSET (1..n)
      BY DEF bad
    <3>. QED
      BY <1>1, <1>5, <3>1, FirstOfSome
  <2>2. i \in 1..n /\ k[i] # rest(i) /\ (i - 1 = 0 \/ i - 1 \in 1..n)
    BY <1>1
  <2>3. i - 1 \notin bad
    BY <1>1, <2>1
  <2>4. k[i - 1] = rest(i - 1)
    <3> HIDE DEF rest
    <3>. QED
      BY <1>2, <1>3, <2>2, <2>3
  <2>. QED
    BY <1>4, <2>2, <2>4
<1>6. k[n] = rest(n)
  <2> HIDE DEF rest
  <2>. QED
    BY <1>1, <1>2, <1>3, <1>5
<1>. QED
  BY <1>2, <1>6

\* u is s without its first d entries and with r at its end.
Registered(u, s, r, d, S) ==
    /\ u \in Seq(S) /\ Len(u) = Len(s) - d + 1
    /\ \A j \in 1..(Len(s) - d) : u[j] = s[j + d]
    /\ u[Len(s) - d + 1] = r

\* A route takes the place of the entries that lead with its prefix (Register).
LEMMA RegisterIs ==
    ASSUME NEW S, NEW s \in Seq(S), NEW r \in S, NEW d \in 0..Len(s),
           Leading(s, r.prefix, d)
    PROVE  Registered(Register(s, r), s, r, d, S)
<1> DEFINE v == SubSeq(s, d + 1, Len(s))
<1>1. Len(s) \in Nat /\ d \in Nat /\ d <= Len(s)
  OBVIOUS
<1>2. Others(s, r.prefix) = v
  BY OthersAre
<1>3. /\ v \in Seq(S) /\ Len(v) = Len(s) - d
      /\ \A j \in 1..(Len(s) - d) : v[j] = s[j + d]
  BY <1>1
<1> HIDE DEF v
<1>4. Register(s, r) = Append(v, r)
  BY <1>2 DEF Register
<1>. QED
  BY <1>1, <1>3, <1>4 DEF Registered

\* The defaults are registered one after the other (register_defaults).
LEMMA FoldFive ==
    ASSUME NEW base
    PROVE  RegisterDefaults(base)
             = Register(Register(Register(Register(Register(base, Defaults[1]), Defaults[2]),
                        Defaults[3]), Defaults[4]), Defaults[5])
<1> DEFINE step(i, was) == Register(was, Defaults[i])
           g1(s) == IF 1 \in s THEN step(1, base) ELSE base
           g2(s) == IF 2 \in s THEN step(2, g1(s)) ELSE g1(s)
           g3(s) == IF 3 \in s THEN step(3, g2(s)) ELSE g2(s)
           g4(s) == IF 4 \in s THEN step(4, g3(s)) ELSE g3(s)
           g5(s) == IF 5 \in s THEN step(5, g4(s)) ELSE g4(s)
           all == 1..5
           Folds(h) == h = [s \in SUBSET all |-> IF s = {} THEN base
                              ELSE Register(h[s \ {Max(s)}], Defaults[Max(s)])]
           iter == CHOOSE h : Folds(h)
<1>1. DOMAIN Defaults = all
  BY DEF Defaults
<1>2. RegisterDefaults(base) = iter[all]
  BY <1>1 DEF RegisterDefaults, FoldLeft, MapThenFoldSet
<1> HIDE DEF step
<1>3. ASSUME NEW s \in SUBSET all, s # {}
      PROVE  Max(s) \in s /\ \A i \in s : i <= Max(s)
  <2>1. \E i \in s : \A j \in s : i >= j
    <3>1. \A j \in s : j \in {1, 2, 3, 4, 5}
      OBVIOUS
    <3>2. CASE 5 \in s
      BY <3>1, <3>2
    <3>3. CASE 5 \notin s /\ 4 \in s
      BY <3>1, <3>3
    <3>4. CASE 5 \notin s /\ 4 \notin s /\ 3 \in s
      BY <3>1, <3>4
    <3>5. CASE 5 \notin s /\ 4 \notin s /\ 3 \notin s /\ 2 \in s
      BY <3>1, <3>5
    <3>6. CASE s = {1}
      BY <3>6
    <3>. QED
      BY <1>3, <3>1, <3>2, <3>3, <3>4, <3>5, <3>6
  <2>2. Max(s) \in s /\ \A j \in s : Max(s) >= j
    BY <2>1, Zenon DEF Max
  <2>. QED
    BY <2>2
<1>4. ASSUME NEW s \in SUBSET all, s # {}
      PROVE  g5(s) = step(Max(s), g5(s \ {Max(s)}))
  <2> DEFINE m == Max(s)
             r == s \ {m}
  <2>1. m \in s /\ \A i \in s : i <= m
    BY <1>3, <1>4
  <2> HIDE DEF m
  <2>2. m \in {1, 2, 3, 4, 5} /\ m \notin r /\ \A i \in 1..5 : i # m => (i \in r <=> i \in s)
    BY <2>1
  <2>3. \A i \in 1..5 : i > m => i \notin s /\ i \notin r
    BY <2>1
  <2> HIDE DEF r
  <2> SUFFICES g5(s) = step(m, g5(r))
    BY DEF m, r
  <2>4. CASE m = 1
    <3>1. 1 \in s /\ 2 \notin s /\ 2 \notin r /\ 3 \notin s /\ 3 \notin r /\ 4 \notin s /\ 4 \notin r /\ 5 \notin s /\ 5 \notin r /\ 1 \notin r
      BY <2>1, <2>2, <2>3, <2>4
    <3>2. step(m, g5(r)) = step(1, g5(r))
      BY <2>4
    <3>. QED
      BY <3>1, <3>2
  <2>5. CASE m = 2
    <3>1. 2 \in s /\ 3 \notin s /\ 3 \notin r /\ 4 \notin s /\ 4 \notin r /\ 5 \notin s /\ 5 \notin r /\ 2 \notin r /\ (1 \in r <=> 1 \in s)
      BY <2>1, <2>2, <2>3, <2>5
    <3>2. step(m, g5(r)) = step(2, g5(r))
      BY <2>5
    <3>. QED
      BY <3>1, <3>2
  <2>6. CASE m = 3
    <3>1. 3 \in s /\ 4 \notin s /\ 4 \notin r /\ 5 \notin s /\ 5 \notin r /\ 3 \notin r /\ (1 \in r <=> 1 \in s) /\ (2 \in r <=> 2 \in s)
      BY <2>1, <2>2, <2>3, <2>6
    <3>2. step(m, g5(r)) = step(3, g5(r))
      BY <2>6
    <3>. QED
      BY <3>1, <3>2
  <2>7. CASE m = 4
    <3>1. 4 \in s /\ 5 \notin s /\ 5 \notin r /\ 4 \notin r /\ (1 \in r <=> 1 \in s) /\ (2 \in r <=> 2 \in s) /\ (3 \in r <=> 3 \in s)
      BY <2>1, <2>2, <2>3, <2>7
    <3>2. step(m, g5(r)) = step(4, g5(r))
      BY <2>7
    <3>. QED
      BY <3>1, <3>2
  <2>8. CASE m = 5
    <3>1. 5 \in s /\ 5 \notin r /\ (1 \in r <=> 1 \in s) /\ (2 \in r <=> 2 \in s) /\ (3 \in r <=> 3 \in s) /\ (4 \in r <=> 4 \in s)
      BY <2>1, <2>2, <2>3, <2>8
    <3>2. step(m, g5(r)) = step(5, g5(r))
      BY <2>8
    <3>. QED
      BY <3>1, <3>2
  <2>. QED
    BY <2>2, <2>4, <2>5, <2>6, <2>7, <2>8
<1>5. Folds([s \in SUBSET all |-> g5(s)])
  <2> DEFINE h == [s \in SUBSET all |-> g5(s)]
  <2>1. ASSUME NEW s \in SUBSET all
        PROVE  h[s] = IF s = {} THEN base ELSE step(Max(s), h[s \ {Max(s)}])
    <3>1. s \ {Max(s)} \in SUBSET all
      OBVIOUS
    <3>2. h[s] = g5(s) /\ h[s \ {Max(s)}] = g5(s \ {Max(s)})
      BY <3>1
    <3>3. s = {} => g5(s) = base
      OBVIOUS
    <3> HIDE DEF g5, h
    <3>. QED
      BY <1>4, <3>2, <3>3
  <2>2. h = [s \in SUBSET all |-> h[s]]
    OBVIOUS
  <2> HIDE DEF h, g5
  <2>. QED
    BY <2>1, <2>2 DEF step, h
<1>6. Folds(iter)
  <2> HIDE DEF Folds
  <2>. QED
    BY <1>5
<1> HIDE DEF iter, g5
<1>7. \A s \in SUBSET all : iter[s] = IF s = {} THEN base ELSE step(Max(s), iter[s \ {Max(s)}])
  BY <1>6 DEF step
<1>8. ASSUME NEW n \in all PROVE iter[1..n] = step(n, iter[1..(n - 1)])
  <2>1. 1..n \in SUBSET all /\ 1..n # {}
    OBVIOUS
  <2>2. Max(1..n) = n
    <3>1. Max(1..n) \in 1..n /\ \A i \in 1..n : i <= Max(1..n)
      BY <1>3, <2>1
    <3>. QED
      BY <3>1
  <2>3. (1..n) \ {n} = 1..(n - 1)
    OBVIOUS
  <2>. QED
    BY <1>7, <2>1, <2>2, <2>3
<1>9. iter[1..0] = base
  <2>1. 1..0 = {}
    OBVIOUS
  <2>. QED
    BY <1>7, <2>1
<1>10. iter[all] = step(5, step(4, step(3, step(2, step(1, base)))))
  <2>1. iter[1..1] = step(1, iter[1..0])
    BY <1>8
  <2>2. iter[1..2] = step(2, iter[1..1])
    BY <1>8
  <2>3. iter[1..3] = step(3, iter[1..2])
    BY <1>8
  <2>4. iter[1..4] = step(4, iter[1..3])
    BY <1>8
  <2>5. iter[1..5] = step(5, iter[1..4])
    BY <1>8
  <2>. QED
    BY <1>9, <2>1, <2>2, <2>3, <2>4, <2>5
<1>. QED
  BY <1>2, <1>10 DEF step

\* Five modules with five prefixes (register_defaults).
LEMMA DefaultsAre ==
    /\ Defaults \in Seq({Defaults[i] : i \in 1..5}) /\ Len(Defaults) = 5
    /\ Defaults[1].prefix = <<"customers">> /\ Defaults[2].prefix = <<"policies">>
    /\ Defaults[3].prefix = <<"claims">> /\ Defaults[4].prefix = <<"prompts">>
    /\ Defaults[5].prefix = <<"risk">>
    /\ \A i, j \in 1..5 : Defaults[i].prefix = Defaults[j].prefix => i = j
<1> DEFINE D == Defaults
<1>1. Len(D) = 5 /\ DOMAIN D = 1..5
  BY DEF Defaults
<1>2. D = [i \in 1..5 |-> D[i]]
  BY DEF Defaults
<1>3. /\ D[1].prefix = <<"customers">> /\ D[2].prefix = <<"policies">>
      /\ D[3].prefix = <<"claims">> /\ D[4].prefix = <<"prompts">>
      /\ D[5].prefix = <<"risk">>
  BY DEF Defaults, AuditedRoute
<1> HIDE DEF D
<1>4. D \in Seq({D[i] : i \in 1..5})
  BY <1>1, <1>2
<1>5. \A i \in 1..5 : i \in {1, 2, 3, 4, 5}
  OBVIOUS
<1>6. /\ D[1].prefix[1] = "customers" /\ D[2].prefix[1] = "policies"
      /\ D[3].prefix[1] = "claims" /\ D[4].prefix[1] = "prompts" /\ D[5].prefix[1] = "risk"
  BY <1>3
<1>7. \A i, j \in 1..5 : D[i].prefix = D[j].prefix => i = j
  BY <1>5, <1>6
<1>. QED
  BY <1>1, <1>3, <1>4, <1>7 DEF D

\* Registering the defaults gives them, the first time and any other time, the
\* registry turning by one entry with each call ("idempotent", register).
LEMMA DefaultsStand ==
    RegisterDefaults(<<>>) = Defaults /\ RegisterDefaults(Defaults) = Defaults
<1> DEFINE D == Defaults
           S == {D[i] : i \in 1..5}
           Row(u, k) == /\ u \in Seq(S) /\ Len(u) = k
                        /\ \A i \in 1..k : u[i] = D[i]
           Turned(u, k) == /\ u \in Seq(S) /\ Len(u) = 5
                           /\ \A i \in 1..(5 - k) : u[i] = D[i + k]
                           /\ \A i \in (6 - k)..5 : u[i] = D[i + k - 5]
<1>1. D \in Seq(S) /\ Len(D) = 5
  BY DefaultsAre
<1>2. \A i, j \in 1..5 : D[i].prefix = D[j].prefix => i = j
  BY DefaultsAre
<1>3. \A i \in 1..5 : D[i] \in S
  OBVIOUS
<1> HIDE DEF D, S
<1>4. ASSUME NEW k \in 0..4, NEW u, Row(u, k) PROVE Row(Register(u, D[k + 1]), k + 1)
  <2> DEFINE r == D[k + 1]
             v == Register(u, r)
  <2>1. k + 1 \in 1..5 /\ r \in S /\ u \in Seq(S) /\ Len(u) = k
    BY <1>3, <1>4
  <2>2. PICK d \in 0..Len(u) : d = 0
    BY <2>1
  <2>3. Leading(u, r.prefix, d)
    BY <1>2, <1>4, <2>1, <2>2 DEF Leading
  <2> HIDE DEF r
  <2>4. /\ v \in Seq(S) /\ Len(v) = Len(u) - d + 1
        /\ \A j \in 1..(Len(u) - d) : v[j] = u[j + d]
        /\ v[Len(u) - d + 1] = r
    <3>1. Registered(v, u, r, d, S)
      BY <2>1, <2>3, RegisterIs
    <3>. QED
      BY <3>1 DEF Registered
  <2> HIDE DEF v
  <2>5. Len(v) = k + 1 /\ v[k + 1] = r /\ \A j \in 1..k : v[j] = D[j]
    BY <1>4, <2>1, <2>2, <2>4
  <2>. QED
    BY <1>4, <2>4, <2>5 DEF v, r
<1>5. ASSUME NEW k \in 0..4, NEW u, Turned(u, k) PROVE Turned(Register(u, D[k + 1]), k + 1)
  <2> DEFINE r == D[k + 1]
             v == Register(u, r)
  <2>1. k + 1 \in 1..5 /\ r \in S /\ u \in Seq(S) /\ Len(u) = 5
    BY <1>3, <1>5
  <2>2. PICK d \in 0..Len(u) : d = 1
    BY <2>1
  <2>3. Leading(u, r.prefix, d)
    <3> SUFFICES \A i \in 1..Len(u) : u[i].prefix = r.prefix <=> i <= d
      BY DEF Leading
    <3> TAKE i \in 1..Len(u)
    <3>1. CASE i <= 5 - k
      <4>1. u[i] = D[i + k] /\ i + k \in 1..5
        BY <1>5, <2>1, <3>1
      <4>2. u[i].prefix = r.prefix <=> i + k = k + 1
        BY <1>2, <2>1, <4>1
      <4>. QED
        BY <2>2, <4>2
    <3>2. CASE i > 5 - k
      <4>1. u[i] = D[i + k - 5] /\ i + k - 5 \in 1..5 /\ i + k - 5 # k + 1
        BY <1>5, <2>1, <3>2
      <4>2. u[i].prefix # r.prefix
        BY <1>2, <2>1, <4>1
      <4>. QED
        BY <2>1, <2>2, <3>2, <4>2
    <3>. QED
      BY <2>1, <3>1, <3>2
  <2> HIDE DEF r
  <2>4. /\ v \in Seq(S) /\ Len(v) = Len(u) - d + 1
        /\ \A j \in 1..(Len(u) - d) : v[j] = u[j + d]
        /\ v[Len(u) - d + 1] = r
    <3>1. Registered(v, u, r, d, S)
      BY <2>1, <2>3, RegisterIs
    <3>. QED
      BY <3>1 DEF Registered
  <2> HIDE DEF v
  <2>5. Len(v) = 5 /\ v[5] = r /\ \A j \in 1..4 : v[j] = u[j + 1]
    BY <2>1, <2>2, <2>4
  <2>6. ASSUME NEW i \in 1..(5 - (k + 1)) PROVE v[i] = D[i + (k + 1)]
    <3>1. i \in 1..4 /\ i + 1 \in 1..(5 - k) /\ i + 1 + k = i + (k + 1)
      OBVIOUS
    <3>. QED
      BY <1>5, <2>5, <3>1
  <2>7. ASSUME NEW i \in (6 - (k + 1))..5 PROVE v[i] = D[i + (k + 1) - 5]
    <3>1. CASE i = 5
      BY <2>5, <3>1 DEF r
    <3>2. CASE i # 5
      <4>1. i \in 1..4 /\ i + 1 \in (6 - k)..5 /\ i + 1 + k - 5 = i + (k + 1) - 5
        BY <3>2
      <4>. QED
        BY <1>5, <2>5, <4>1
    <3>. QED
      BY <3>1, <3>2
  <2>. QED
    BY <2>4, <2>5, <2>6, <2>7 DEF v, r
<1>6. Row(<<>>, 0) /\ Turned(D, 0)
  BY <1>1
<1>7. \A u : Row(u, 5) \/ Turned(u, 5) => u = D
  BY <1>1, SameSeq
<1> HIDE DEF Row, Turned
<1> DEFINE R(u, i) == Register(u, D[i])
<1>8. \A u : Row(u, 0) => Row(R(R(R(R(R(u, 1), 2), 3), 4), 5), 5)
  BY <1>4
<1>9. \A u : Turned(u, 0) => Turned(R(R(R(R(R(u, 1), 2), 3), 4), 5), 5)
  BY <1>5
<1>10. \A u : RegisterDefaults(u) = R(R(R(R(R(u, 1), 2), 3), 4), 5)
  BY FoldFive DEF D
<1> HIDE DEF R
<1>. QED
  BY <1>6, <1>7, <1>8, <1>9, <1>10 DEF D
-----------------------------------------------------------------------------
\* From a path to the roles of its module.

\* A prefix of one segment is the first segment or it is none.
LEMMA PrefixOfOne ==
    ASSUME NEW T, NEW x, NEW path \in Seq(T), Len(path) >= 1
    PROVE  IsPrefix(<<x>>, path) <=> <<x>> = <<path[1]>>
<1> DEFINE S == T \cup {x}
           u == <<x>>
           v == <<path[1]>>
<1>1. Len(path) \in Nat /\ path \in Seq(S) /\ path[1] \in S /\ x \in S
  OBVIOUS
<1> HIDE DEF S
<1>2. u \in Seq(S) /\ Len(u) = 1 /\ v \in Seq(S) /\ Len(v) = 1 /\ v[1] = path[1]
  BY <1>1
<1> HIDE DEF u, v
<1>3. SubSeq(u, 1, 1) = u
  <2>1. SubSeq(u, 1, 1) \in Seq(S) /\ Len(SubSeq(u, 1, 1)) = 1 /\ SubSeq(u, 1, 1)[1] = u[1]
    BY <1>2
  <2> HIDE DEF u
  <2>2. \A i \in 1..1 : i = 1
    OBVIOUS
  <2>. QED
    BY <1>2, <2>1, <2>2, SameSeq
<1>4. SubSeq(path, 1, 1) = v
  <2>1. /\ SubSeq(path, 1, 1) \in Seq(S) /\ Len(SubSeq(path, 1, 1)) = 1
        /\ SubSeq(path, 1, 1)[1] = path[1]
    BY <1>1
  <2>2. \A i \in 1..1 : i = 1
    OBVIOUS
  <2>. QED
    BY <1>2, <2>1, <2>2, SameSeq
<1>5. IsPrefix(u, path) <=> u = v
  BY <1>1, <1>2, <1>3, <1>4 DEF IsPrefix
<1>. QED
  BY <1>5 DEF u, v

\* A path falls under the entries of its first segment, since every prefix has
\* one segment (match).
LEMMA MatchIsModule ==
    ASSUME NEW path \in Seq(STRING), Len(path) >= 1
    PROVE  Match(Defaults, path)
             = {Defaults[i] : i \in {i \in 1..5 : Defaults[i].prefix = <<path[1]>>}}
<1> DEFINE D == Defaults
           candidates == {i \in 1..Len(D) : IsPrefix(D[i].prefix, path)}
           module == {i \in 1..5 : D[i].prefix = <<path[1]>>}
<1>1. Len(D) = 5 /\ \A i \in 1..5 : \E x : D[i].prefix = <<x>>
  <2>1. \A i \in 1..5 : i \in {1, 2, 3, 4, 5}
    OBVIOUS
  <2>. QED
    BY <2>1, DefaultsAre
<1>2. \A x : IsPrefix(<<x>>, path) <=> <<x>> = <<path[1]>>
  BY PrefixOfOne
<1>3. \A i \in 1..5 : Len(D[i].prefix) = 1
  <2>1. \A x : Len(<<x>>) = 1
    OBVIOUS
  <2> HIDE DEF D
  <2>. QED
    BY <1>1, <2>1, Zenon
<1> HIDE DEF D
<1>4. candidates = module
  BY <1>1, <1>2
<1>5. {i \in candidates : \A j \in candidates : Len(D[j].prefix) <= Len(D[i].prefix)} = module
  <2> HIDE DEF candidates
  <2>1. \A i \in candidates : Len(D[i].prefix) = 1
    BY <1>3, <1>4
  <2>2. 1 <= 1
    OBVIOUS
  <2>3. \A i, j \in candidates : Len(D[j].prefix) <= Len(D[i].prefix)
    BY <2>1, <2>2
  <2>. QED
    BY <1>4, <2>3
<1> HIDE DEF candidates
<1>6. Match(D, path) = {D[i] : i \in module}
  BY <1>5 DEF Match, candidates
<1>. QED
  BY <1>6 DEF D

\* The views under each module, by the first segment of their paths.
Sited(first, detail, view) ==
    \/ first = "users" /\ view = "users"
    \/ first = "audit" /\ view \in {"audit", "history"}
    \/ first = "customers" /\ view = "customers"
    \/ first = "policies" /\ view = "policies"
    \/ first = "claims" /\ view \in {"claims", "anomalies"}
    \/ /\ first = "risk" /\ view \in {"risk", "by_customer", "recompute", "root"}
       /\ detail => view = "risk"
    \/ /\ first = "prompts" /\ view \in {"prompts", "root"}
       /\ detail => view = "prompts"

Placed(route) == /\ Len(route.at) \in 1..4 /\ route.detail \in BOOLEAN
                 /\ Sited(route.at[1], route.detail, route.view)

\* Every URL pattern belongs to one of them (UrlPatterns).
LEMMA PatternsArePlaced == Len(UrlPatterns) = 20 /\ \A i \in 1..20 : Placed(UrlPatterns[i])
<1> DEFINE one(a) == <<a>>
           two(a, b) == <<a, b>>
           three(a, b, c) == <<a, b, c>>
           four(a, b, c, d) == <<a, b, c, d>>
           P == UrlPatterns
<1>1. Len(P) = 20
  BY DEF UrlPatterns
<1>2. /\ P[1] = Route(one("users"), FALSE, "users")
      /\ P[2] = Route(two("users", AnyId), TRUE, "users")
      /\ P[3] = Route(one("audit"), FALSE, "audit")
      /\ P[4] = Route(four("audit", "history", AnyId, AnyId), TRUE, "history")
      /\ P[5] = Route(one("customers"), FALSE, "customers")
      /\ P[6] = Route(two("customers", AnyId), TRUE, "customers")
      /\ P[7] = Route(one("policies"), FALSE, "policies")
      /\ P[8] = Route(two("policies", AnyId), TRUE, "policies")
      /\ P[9] = Route(two("claims", "anomalies"), FALSE, "anomalies")
      /\ P[10] = Route(three("claims", "anomalies", AnyId), TRUE, "anomalies")
      /\ P[11] = Route(one("claims"), FALSE, "claims")
      /\ P[12] = Route(two("claims", AnyId), TRUE, "claims")
      /\ P[13] = Route(two("risk", "assessments"), FALSE, "risk")
      /\ P[14] = Route(four("risk", "assessments", "by-customer", AnyId), FALSE, "by_customer")
      /\ P[15] = Route(three("risk", "assessments", "recompute"), FALSE, "recompute")
      /\ P[16] = Route(three("risk", "assessments", AnyId), TRUE, "risk")
      /\ P[17] = Route(one("risk"), FALSE, "root")
      /\ P[18] = Route(two("prompts", "templates"), FALSE, "prompts")
      /\ P[19] = Route(three("prompts", "templates", AnyId), TRUE, "prompts")
      /\ P[20] = Route(one("prompts"), FALSE, "root")
  BY DEF UrlPatterns
<1>3. /\ Sited("users", FALSE, "users") /\ Sited("users", TRUE, "users")
      /\ Sited("audit", FALSE, "audit") /\ Sited("audit", TRUE, "history")
      /\ Sited("customers", FALSE, "customers") /\ Sited("customers", TRUE, "customers")
      /\ Sited("policies", FALSE, "policies") /\ Sited("policies", TRUE, "policies")
      /\ Sited("claims", FALSE, "anomalies") /\ Sited("claims", TRUE, "anomalies")
      /\ Sited("claims", FALSE, "claims") /\ Sited("claims", TRUE, "claims")
      /\ Sited("risk", FALSE, "risk") /\ Sited("risk", FALSE, "by_customer")
      /\ Sited("risk", FALSE, "recompute") /\ Sited("risk", TRUE, "risk")
      /\ Sited("risk", FALSE, "root") /\ Sited("prompts", FALSE, "prompts")
      /\ Sited("prompts", TRUE, "prompts") /\ Sited("prompts", FALSE, "root")
  BY DEF Sited
<1>4. /\ \A a : Len(one(a)) = 1 /\ one(a)[1] = a
      /\ \A a, b : Len(two(a, b)) = 2 /\ two(a, b)[1] = a
      /\ \A a, b, c : Len(three(a, b, c)) = 3 /\ three(a, b, c)[1] = a
      /\ \A a, b, c, d : Len(four(a, b, c, d)) = 4 /\ four(a, b, c, d)[1] = a
  OBVIOUS
<1> HIDE DEF one, two, three, four, P
<1>5. \A at, view : \A detail \in BOOLEAN :
         Len(at) \in 1..4 /\ Sited(at[1], detail, view) => Placed(Route(at, detail, view))
  BY DEF Route, Placed
<1>6. \A at, view : Len(at) \in 1..4 =>
        /\ Sited(at[1], TRUE, view) => Placed(Route(at, TRUE, view))
        /\ Sited(at[1], FALSE, view) => Placed(Route(at, FALSE, view))
  <2>1. TRUE \in BOOLEAN /\ FALSE \in BOOLEAN
    OBVIOUS
  <2>. QED
    BY <1>5, <2>1
<1>7. \A a, view :
        /\ Sited(a, TRUE, view) => Placed(Route(one(a), TRUE, view))
        /\ Sited(a, FALSE, view) => Placed(Route(one(a), FALSE, view))
  <2> TAKE a, view
  <2>1. Len(one(a)) \in 1..4 /\ one(a)[1] = a
    BY <1>4
  <2>. QED
    BY <1>6, <2>1
<1>8. \A a, b, view :
        /\ Sited(a, TRUE, view) => Placed(Route(two(a, b), TRUE, view))
        /\ Sited(a, FALSE, view) => Placed(Route(two(a, b), FALSE, view))
  <2> TAKE a, b, view
  <2>1. Len(two(a, b)) \in 1..4 /\ two(a, b)[1] = a
    BY <1>4
  <2>. QED
    BY <1>6, <2>1
<1>9. \A a, b, c, view :
        /\ Sited(a, TRUE, view) => Placed(Route(three(a, b, c), TRUE, view))
        /\ Sited(a, FALSE, view) => Placed(Route(three(a, b, c), FALSE, view))
  <2> TAKE a, b, c, view
  <2>1. Len(three(a, b, c)) \in 1..4 /\ three(a, b, c)[1] = a
    BY <1>4
  <2>. QED
    BY <1>6, <2>1
<1>10. \A a, b, c, d, view :
        /\ Sited(a, TRUE, view) => Placed(Route(four(a, b, c, d), TRUE, view))
        /\ Sited(a, FALSE, view) => Placed(Route(four(a, b, c, d), FALSE, view))
  <2> TAKE a, b, c, d, view
  <2>1. Len(four(a, b, c, d)) \in 1..4 /\ four(a, b, c, d)[1] = a
    BY <1>4
  <2>. QED
    BY <1>6, <2>1
<1>11. Placed(P[1])
  BY <1>2, <1>3, <1>7, <1>8, <1>9, <1>10
<1>12. Placed(P[2])
  BY <1>2, <1>3, <1>7, <1>8, <1>9, <1>10
<1>13. Placed(P[3])
  BY <1>2, <1>3, <1>7, <1>8, <1>9, <1>10
<1>14. Placed(P[4])
  BY <1>2, <1>3, <1>7, <1>8, <1>9, <1>10
<1>15. Placed(P[5])
  BY <1>2, <1>3, <1>7, <1>8, <1>9, <1>10
<1>16. Placed(P[6])
  BY <1>2, <1>3, <1>7, <1>8, <1>9, <1>10
<1>17. Placed(P[7])
  BY <1>2, <1>3, <1>7, <1>8, <1>9, <1>10
<1>18. Placed(P[8])
  BY <1>2, <1>3, <1>7, <1>8, <1>9, <1>10
<1>19. Placed(P[9])
  BY <1>2, <1>3, <1>7, <1>8, <1>9, <1>10
<1>20. Placed(P[10])
  BY <1>2, <1>3, <1>7, <1>8, <1>9, <1>10
<1>21. Placed(P[11])
  BY <1>2, <1>3, <1>7, <1>8, <1>9, <1>10
<1>22. Placed(P[12])
  BY <1>2, <1>3, <1>7, <1>8, <1>9, <1>10
<1>23. Placed(P[13])
  BY <1>2, <1>3, <1>7, <1>8, <1>9, <1>10
<1>24. Placed(P[14])
  BY <1>2, <1>3, <1>7, <1>8, <1>9, <1>10
<1>25. Placed(P[15])
  BY <1>2, <1>3, <1>7, <1>8, <1>9, <1>10
<1>26. Placed(P[16])
  BY <1>2, <1>3, <1>7, <1>8, <1>9, <1>10
<1>27. Placed(P[17])
  BY <1>2, <1>3, <1>7, <1>8, <1>9, <1>10
<1>28. Placed(P[18])
  BY <1>2, <1>3, <1>7, <1>8, <1>9, <1>10
<1>29. Placed(P[19])
  BY <1>2, <1>3, <1>7, <1>8, <1>9, <1>10
<1>30. Placed(P[20])
  BY <1>2, <1>3, <1>7, <1>8, <1>9, <1>10
<1>31. \A i \in 1..20 : i \in {1, 2, 3, 4, 5, 6, 7, 8, 9, 10, 11, 12, 13, 14, 15, 16, 17, 18, 19, 20}
  OBVIOUS
<1>. QED
  BY <1>1, <1>11, <1>12, <1>13, <1>14, <1>15, <1>16, <1>17, <1>18, <1>19, <1>20, <1>21, <1>22, <1>23, <1>24, <1>25, <1>26, <1>27, <1>28, <1>29, <1>30, <1>31 DEF P

\* The route of a request begins as its path does (Resolve).
LEMMA RouteIsPlaced ==
    ASSUME NEW q \in Requests
    PROVE  /\ Placed(Resolve(q.path)) /\ q.path \in Seq(STRING) /\ Len(q.path) >= 1
           /\ q.method \in Methods /\ q.path[1] = Resolve(q.path).at[1]
<1> DEFINE fitting == {i \in 1..Len(UrlPatterns) : Fits(UrlPatterns[i].at, q.path)}
           i == CHOOSE k \in fitting : \A j \in fitting : k <= j
           route == UrlPatterns[i]
<1>1. q.path \in Seq(STRING) /\ q.method \in Methods /\ fitting # {}
  BY RequestsAssumption
<1>2. i \in fitting
  <2>1. Len(UrlPatterns) \in Nat /\ fitting \in SUBSET (1..Len(UrlPatterns))
    BY PatternsArePlaced
  <2> HIDE DEF fitting
  <2>2. \E k \in fitting : \A j \in fitting : k <= j
    BY <1>1, <2>1, FirstOfSome
  <2>. QED
    BY <2>2
<1>3. Resolve(q.path) = route
  BY DEF Resolve
<1> HIDE DEF i
<1>4. Placed(route) /\ Fits(route.at, q.path)
  BY <1>2, PatternsArePlaced
<1> HIDE DEF route
<1>5. 1 \in 1..Len(route.at) /\ Len(route.at) = Len(q.path)
  BY <1>4 DEF Placed, Fits
<1>6. route.at[1] \in {q.path[1], AnyId} /\ route.at[1] # AnyId
  BY <1>4, <1>5, AnyIdAssumption DEF Placed, Sited, Fits, Literals
<1>. QED
  BY <1>1, <1>3, <1>4, <1>5, <1>6 DEF Placed

\* The entry of a module and its views agree on who may do what (the tables of
\* the views, register_defaults).
LEMMA TablesAgree ==
    ASSUME NEW route, Sited(route.at[1], route.detail, route.view), NEW i \in 1..5,
           Defaults[i].prefix = <<route.at[1]>>,
           route.detail \/ route.view \in {"by_customer", "recompute"},
           NEW method \in Handled(route.view, route.detail)
    PROVE  Allowed(route, method) = RolesFor(Defaults[i], method)
<1> DEFINE D == Defaults
           view == route.view
           detail == route.detail
<1>1. /\ D[1].view_roles = CustomersViewRoles /\ D[1].write_roles = CustomersWriteRoles
      /\ D[2].view_roles = PoliciesViewRoles /\ D[2].write_roles = PoliciesWriteRoles
      /\ D[3].view_roles = ClaimsViewRoles /\ D[3].write_roles = ClaimsWriteRoles
      /\ D[4].view_roles = PromptsViewRoles
      /\ D[5].view_roles = RiskViewRoles /\ D[5].write_roles = RECOMPUTE_ROLES
  <2>1. Roles \ {"product_manager", "executive_leadership"} = CustomersViewRoles
    BY DEF Roles, CustomersViewRoles
  <2>2. Roles \ {"executive_leadership"} = PoliciesViewRoles
    BY DEF Roles, PoliciesViewRoles
  <2>3. Roles = PromptsViewRoles
    BY DEF Roles, PromptsViewRoles
  <2>. QED
    BY <2>1, <2>2, <2>3 DEF Defaults, AuditedRoute, CustomersWriteRoles, PoliciesWriteRoles,
          ClaimsViewRoles, ClaimsWriteRoles, RiskViewRoles, RECOMPUTE_ROLES
<1>2. /\ i = 1 => route.at[1] = "customers"
      /\ i = 2 => route.at[1] = "policies"
      /\ i = 3 => route.at[1] = "claims"
      /\ i = 4 => route.at[1] = "prompts"
      /\ i = 5 => route.at[1] = "risk"
  <2>1. D[i].prefix[1] = route.at[1]
    OBVIOUS
  <2> HIDE DEF D
  <2>. QED
    BY <2>1, DefaultsAre DEF D
<1>3. i \in {1, 2, 3, 4, 5}
  OBVIOUS
<1> HIDE DEF D
<1> SUFFICES Allowed(route, method) = RolesFor(D[i], method)
  BY DEF D
<1>4. ASSUME view \in Collections, detail,
             D[i].view_roles = VIEW_ROLES(view), D[i].write_roles = WRITE_ROLES(view)
      PROVE  Allowed(route, method) = RolesFor(D[i], method)
  <2>1. Handled(view, detail) = {"GET", "HEAD", "PUT", "PATCH", "DELETE"}
    BY <1>4 DEF Handled, Collections
  <2>2. IsWriteAction(view, detail, method) <=> method \notin {"GET", "HEAD"}
    BY <1>4 DEF IsWriteAction
  <2>3. MethodIsWrite(method) <=> method \notin {"GET", "HEAD"}
    BY <2>1 DEF MethodIsWrite
  <2>4. view # "recompute"
    BY <1>4 DEF Collections
  <2>. QED
    BY <1>4, <2>2, <2>3, <2>4 DEF Allowed, RolesFor
<1>5. ASSUME method \in {"GET", "HEAD"}, view # "recompute", D[i].view_roles = VIEW_ROLES(view)
      PROVE  Allowed(route, method) = RolesFor(D[i], method)
  BY <1>5 DEF Allowed, RolesFor, IsWriteAction, MethodIsWrite
<1>6. CASE i = 1
  <2>1. view = "customers" /\ detail
    BY <1>2, <1>6 DEF Sited
  <2>. QED
    BY <1>1, <1>4, <1>6, <2>1 DEF Collections, VIEW_ROLES, WRITE_ROLES
<1>7. CASE i = 2
  <2>1. view = "policies" /\ detail
    BY <1>2, <1>7 DEF Sited
  <2>. QED
    BY <1>1, <1>4, <1>7, <2>1 DEF Collections, VIEW_ROLES, WRITE_ROLES
<1>8. CASE i = 3
  <2>1. view \in {"claims", "anomalies"} /\ detail
    BY <1>2, <1>8 DEF Sited
  <2>2. CASE view = "claims"
    BY <1>1, <1>4, <1>8, <2>1, <2>2 DEF Collections, VIEW_ROLES, WRITE_ROLES
  <2>3. CASE view = "anomalies"
    BY <1>1, <1>5, <1>8, <2>3 DEF Handled, Collections, VIEW_ROLES
  <2>. QED
    BY <2>1, <2>2, <2>3
<1>9. CASE i = 4
  <2>1. view = "prompts"
    BY <1>2, <1>9 DEF Sited
  <2>. QED
    BY <1>1, <1>5, <1>9, <2>1 DEF Handled, Collections, VIEW_ROLES
<1>10. CASE i = 5
  <2>1. view \in {"risk", "by_customer", "recompute"}
    BY <1>2, <1>10 DEF Sited
  <2>2. CASE view \in {"risk", "by_customer"}
    BY <1>1, <1>5, <1>10, <2>2 DEF Handled, Collections, VIEW_ROLES
  <2>3. CASE view = "recompute"
    BY <1>1, <1>10, <2>3
       DEF Handled, Allowed, IsWriteAction, Collections, RolesFor, MethodIsWrite
  <2>. QED
    BY <2>1, <2>2, <2>3
<1>. QED
  BY <1>3, <1>6, <1>7, <1>8, <1>9, <1>10

\* The handler records exactly what kept the requester out (_is_refusal).
LEMMA RefusalIsJudged ==
    ASSUME NEW q \in Requests, NEW user \in Users, NEW i \in 1..5,
           Defaults[i].prefix = <<q.path[1]>>
    PROVE  IsRefusal(Defaults[i], q, Dispatch(q, user).exception, UserAfter(q, user))
             <=> Refused(q, user)
<1> DEFINE route == Resolve(q.path)
           entry == Defaults[i]
           exception == Dispatch(q, user).exception
           allowed == Allowed(route, q.method)
           handled == Handled(route.view, route.detail)
<1>1. Sited(route.at[1], route.detail, route.view) /\ route.detail \in BOOLEAN
      /\ entry.prefix = <<route.at[1]>>
  BY RouteIsPlaced DEF Placed
<1>2. route.detail \/ route.view \in {"by_customer", "recompute"} =>
        (q.method \in handled => allowed = RolesFor(entry, q.method))
  BY <1>1, TablesAgree
<1> HIDE DEF route, entry, allowed, handled
<1>3. CASE TokenMissing(q, user)
  <2>1. exception = "PermissionDenied"
    BY <1>3 DEF Dispatch, Outcome, route
  <2>. QED
    BY <1>3, <2>1 DEF IsRefusal, Refused, entry, exception
<1>4. CASE ~TokenMissing(q, user)
  <2>1. UserAfter(q, user) = user
    BY <1>4 DEF UserAfter
  <2>2. Refused(q, user) <=> user \notin allowed /\ (route.detail => q.method \in handled)
    BY <1>4 DEF Refused, route, allowed, handled
  <2>3. CASE ~route.detail /\ user \notin allowed
    <3>1. exception \in {"NotAuthenticated", "PermissionDenied"}
      BY <1>4, <2>3 DEF Dispatch, Outcome, route, allowed
    <3>. QED
      BY <2>1, <2>2, <2>3, <3>1 DEF IsRefusal, entry
  <2>4. CASE (route.detail \/ user \in allowed) /\ q.method \notin handled
    <3>1. exception = "MethodNotAllowed"
      BY <1>4, <2>4 DEF Dispatch, Outcome, route, allowed, handled
    <3>. QED
      BY <2>1, <2>2, <2>4, <3>1 DEF IsRefusal, entry
  <2>5. CASE route.detail /\ q.method \in handled
    <3>1. Dispatch(q, user) = LookUp(q, route, user)
      BY <1>4, <2>5 DEF Dispatch, route, allowed, handled
    <3>2. allowed = RolesFor(entry, q.method)
      BY <1>2, <2>5
    <3> DEFINE raw == Outcome(404, "Http404", "no match")
               normal == Outcome(404, "NotFound", "not found")
    <3>3. LookUp(q, route, user) \in {raw, normal, Ok}
          /\ (user \notin allowed => LookUp(q, route, user) \in {raw, normal})
      BY DEF LookUp, Missing, allowed
    <3>4. raw.exception = "Http404" /\ normal.exception = "NotFound" /\ Ok.exception = "none"
      BY DEF Outcome, Ok
    <3> HIDE DEF raw, normal
    <3>5. exception \in {"Http404", "NotFound", "none"}
          /\ (user \notin allowed => exception \in {"Http404", "NotFound"})
      <4> DEFINE o == Dispatch(q, user)
      <4>1. o = raw \/ o = normal \/ (o = Ok /\ user \in allowed)
        BY <3>1, <3>3
      <4>. QED
        BY <3>4, <4>1
    <3> HIDE DEF exception
    <3>. QED
      BY <2>1, <2>2, <2>5, <3>2, <3>5 DEF IsRefusal, entry, exception
  <2>6. CASE ~route.detail /\ user \in allowed /\ q.method \in handled
    <3>1. exception \in {"NotFound", "none"}
      BY <1>4, <2>6 DEF Dispatch, Outcome, Ok, route, allowed, handled
    <3>2. exception = "NotFound" => route.view \in {"by_customer", "recompute"}
      BY <1>4, <2>6 DEF Dispatch, Outcome, Ok, route, allowed, handled
    <3>3. exception = "NotFound" => allowed = RolesFor(entry, q.method)
      BY <1>2, <2>6, <3>2
    <3> HIDE DEF exception
    <3>. QED
      BY <2>1, <2>2, <2>6, <3>1, <3>3 DEF IsRefusal, entry, exception
  <2>. QED
    BY <1>1, <2>3, <2>4, <2>5, <2>6
<1>. QED
  BY <1>3, <1>4

\* The verdicts there are (LibraryErrors).
Verdicts == {"", "duplicate", "not eligible", "no such field", "undeclared", "unused"}

LEMMA VerdictIsOne ==
    ASSUME NEW templates, Len(templates) \in Nat
    PROVE  LibraryErrors(templates) \subseteq Verdicts
<1>1. \A t : TemplateErrors(t) \subseteq Verdicts
  BY DEF TemplateErrors, BindingError, ContractError, Verdicts
<1>. QED
  BY <1>1 DEF LibraryErrors, Verdicts

\* A process has one registry entry for each module, however often its app was
\* readied, and serves only when it is up (TypeOK; register, CoreConfig.ready).
THEOREM ProcessTypes == Spec => []TypeOK
<1>1. Init => TypeOK
  BY DEF Init, TypeOK
<1>2. TypeOK /\ [Next]_vars => TypeOK'
  <2> SUFFICES ASSUME TypeOK, [Next]_vars PROVE TypeOK'
    OBVIOUS
  <2>1. CASE CoreReady
    <3>1. registry' = Defaults
      BY <2>1, DefaultsStand DEF CoreReady, TypeOK
    <3>. QED
      BY <2>1, <3>1 DEF CoreReady, TypeOK
  <2>2. CASE PromptsReady
    <3>1. reason' \in Verdicts
      BY <2>2, VerdictIsOne, LibrariesAssumption DEF PromptsReady, TypeOK
    <3>. QED
      BY <2>2, <3>1 DEF PromptsReady, TypeOK, Verdicts
  <2>3. CASE \E q \in Requests : Arrive(q)
    <3>1. PICK q \in Requests : Arrive(q)
      BY <2>3
    <3>2. PICK u \in {role, Anonymous} : request' = [user |-> u, q |-> q]
      BY <3>1 DEF Arrive
    <3>3. u \in Users
      BY <3>2 DEF TypeOK, Users
    <3>4. request'.user \in Users /\ request'.q \in Requests
      BY <3>2, <3>3
    <3>. QED
      BY <3>1, <3>4 DEF Arrive, TypeOK
  <2>4. CASE Respond
    <3>1. pc = "up" /\ request' = NoRequest /\ UNCHANGED <<pc, library, reason, registry, role>>
      BY <2>4 DEF Respond, TypeOK
    <3>. QED
      BY <3>1 DEF TypeOK
  <2>5. CASE Send
    BY <2>5 DEF Send, TypeOK
  <2>6. CASE \E u \in Users : ChangeRole(u)
    BY <2>6 DEF ChangeRole, TypeOK
  <2>7. CASE UNCHANGED vars
    BY <2>7 DEF vars, TypeOK
  <2>. QED
    BY <2>1, <2>2, <2>3, <2>4, <2>5, <2>6, <2>7 DEF Next
<1>. QED
  BY <1>1, <1>2, PTL DEF Spec

\* There are entries for a refusal on an audited module, and in its name.
OfRefusal(entries, q, user) ==
    /\ entries # {} <=> Audited(q.path) /\ Refused(q, user)
    /\ \A e \in entries :
          /\ e.actor = UserAfter(q, user)
          /\ \E i \in 1..Len(Defaults) : /\ Defaults[i].prefix = <<q.path[1]>>
                                         /\ Defaults[i].target_type = e.target_type

\* What a request leaves behind, when the registry is the defaults (Recorded).
LEMMA RefusalIsRecorded ==
    ASSUME NEW q \in Requests, NEW user \in Users
    PROVE  OfRefusal(Recorded(Defaults, q, Dispatch(q, user), UserAfter(q, user)), q, user)
<1> DEFINE o == Dispatch(q, user)
           who == UserAfter(q, user)
           D == Defaults
           module == {i \in 1..5 : D[i].prefix = <<q.path[1]>>}
           judged == {e \in Match(D, q.path) : IsRefusal(e, q, o.exception, who)}
           entries == Recorded(D, q, o, who)
<1>1. Match(D, q.path) = {D[i] : i \in module}
  BY RouteIsPlaced, MatchIsModule
<1>2. \A i \in module : IsRefusal(D[i], q, o.exception, who) <=> Refused(q, user)
  BY RefusalIsJudged
<1>3. module # {} <=> Audited(q.path)
  <2>1. /\ D[1].prefix = <<"customers">> /\ D[2].prefix = <<"policies">>
        /\ D[3].prefix = <<"claims">> /\ D[4].prefix = <<"prompts">> /\ D[5].prefix = <<"risk">>
    BY DefaultsAre
  <2> HIDE DEF D
  <2>2. \A i \in 1..5 : i \in {1, 2, 3, 4, 5}
    OBVIOUS
  <2>3. \A a, b : <<a>> = <<b>> <=> a = b
    OBVIOUS
  <2>. QED
    BY <2>1, <2>2, <2>3 DEF Audited
<1>4. Len(D) = 5
  BY DefaultsAre
<1> DEFINE note(e) ==
             [actor |-> who, target_type |-> e.target_type, action |-> ActionFor(q.method),
              target |-> IF Resolve(q.path).detail /\ Resolve(q.path).view # "prompts"
                         THEN q.path[Len(q.path)] ELSE ""]
<1>5. entries = {note(e) : e \in judged}
  BY DEF Recorded
<1>12. \A e : note(e).actor = who /\ note(e).target_type = e.target_type
  OBVIOUS
<1> HIDE DEF D, o, who, module, entries, note
<1>6. judged # {} <=> module # {} /\ Refused(q, user)
  BY <1>1, <1>2
<1>7. \A e \in judged : \E i \in module : e = D[i]
  BY <1>1
<1> HIDE DEF judged
<1>8. \A e \in entries : e.actor = who /\ \E i \in module : e.target_type = D[i].target_type
  BY <1>5, <1>7, <1>12
<1>9. entries # {} <=> judged # {}
  BY <1>5
<1>10. \A e \in entries : /\ e.actor = who
                          /\ \E i \in 1..Len(D) : /\ D[i].prefix = <<q.path[1]>>
                                                  /\ D[i].target_type = e.target_type
  BY <1>4, <1>8 DEF module
<1>11. entries # {} <=> Audited(q.path) /\ Refused(q, user)
  BY <1>3, <1>6, <1>9
<1>. QED
  BY <1>10, <1>11 DEF entries, D, o, who, OfRefusal

\* Every refusal on an audited module leaves an entry in the name of the account
\* the request was loaded with, and nothing else does (RefusalsRecorded;
\* audited_exception_handler).
THEOREM EveryRefusalRecorded == Spec => []RefusalsRecorded
<1>1. Serving /\ TypeOK => RefusalsRecorded
  <2> SUFFICES ASSUME Serving, TypeOK, last # NoRequest
               PROVE  OfRefusal(last.entries, last.q, last.user)
    BY DEF RefusalsRecorded, OfRefusal
  <2>1. Answered(last) /\ registry = Defaults
    BY DEF Serving, TypeOK
  <2>2. /\ last.q \in Requests /\ last.user \in Users
        /\ last.entries = Recorded(Defaults, last.q, Dispatch(last.q, last.user),
                                   UserAfter(last.q, last.user))
    BY <2>1 DEF Answered
  <2>. QED
    BY <2>2, RefusalIsRecorded
<1>. QED
  BY <1>1, ServingStands, ProcessTypes, PTL
=============================================================================
