----------------------- MODULE CustomerReferenceProofs -----------------------
(***************************************************************************)
(* Types and uniqueness of client_id, for any number of customers and      *)
(* concurrent requests, and that one retry is enough for two of them.      *)
(***************************************************************************)
EXTENDS CustomerReference, FiniteSetTheorems, WellFoundedInduction, TLAPS

\* What a running request needs of its record: a row that exists where it locks
\* or replaces one, a reference where it is about to write one.
Placed(q) ==
    /\ request[q].pc = "select" => request[q].kind = "generate"
    /\ request[q].pc = "lock" =>
         request[q].target \in Stored /\ request[q].kind \in {"generate", "patch", "delete"}
    /\ request[q].pc = "lock" /\ request[q].kind = "patch" => request[q].ref \in Refs
    /\ request[q].pc \in {"write", "written"} =>
         /\ request[q].kind \in {"patch", "delete"} => request[q].target \in Stored
         /\ request[q].kind # "delete" => request[q].ref \in Refs

WellPlaced == TypeOK /\ \A q \in Requests : Placed(q)

\* A reference written and not committed yet.
Holds(q) == request[q].pc = "written" /\ request[q].kind # "delete"

\* What is written and uncommitted collides neither with the table nor with
\* what another open transaction has written.
Separate ==
    /\ \A q \in Requests : Holds(q) => ~Taken(request[q].ref, Replaced(q))
    /\ \A q, o \in Requests :
          q # o /\ Holds(q) /\ Holds(o) => request[q].ref # request[o].ref
-----------------------------------------------------------------------------
\* Every initial table and request is well typed, and nothing is in flight.
LEMMA InitWellPlaced == Init => WellPlaced
<1> SUFFICES ASSUME Init PROVE WellPlaced
  OBVIOUS
<1>1. customer \in [Customers -> Row]
  BY SuppliedAssumption, NobodyAssumption DEF Init, Row
<1>2. request \in [Requests -> Request]
  BY DEF Init, Request, Pcs
<1>3. \A q \in Requests : Placed(q)
  BY DEF Init, Placed
<1> QED  BY <1>1, <1>2, <1>3 DEF Init, TypeOK, WellPlaced

\* A generated reference is a reference.
LEMMA ReferenceInRefs == \A n \in Nat : Reference(n) \in Refs
BY FormsAssumption DEF Reference, Refs

\* A stored row has a reference, whose suffix is a number or cannot be cast.
LEMMA StoredRow ==
    ASSUME TypeOK, NEW c \in Stored
    PROVE  /\ c \in Customers
           /\ customer[c].client_id \in Refs
           /\ customer[c].client_id.number \in Nat \cup {NoNumber}
BY DEF TypeOK, Stored, Row, Refs

\* A step that gives request q another record and leaves the table alone keeps
\* everything well placed when that record is.
LEMMA OneRequestMoves ==
    ASSUME WellPlaced, NEW q \in Requests, NEW r \in Request,
           request' = [request EXCEPT ![q] = r], customer' = customer,
           lock' \in [Customers -> Requests \cup {Nobody}], Placed(q)'
    PROVE  WellPlaced'
<1>1. TypeOK'
  BY DEF WellPlaced, TypeOK
<1>2. \A o \in Requests \ {q} : Placed(o)'
  BY DEF WellPlaced, TypeOK, Placed, Stored
<1> QED  BY <1>1, <1>2 DEF WellPlaced

\* Sending a request keeps everything well placed.
LEMMA BeginWellPlaced ==
    ASSUME WellPlaced, NEW q \in Requests, Begin(q)
    PROVE  WellPlaced'
<1> USE DEF WellPlaced, TypeOK
<1>1. SUFFICES ASSUME NEW kind \in {"generate", "supply", "patch", "delete"},
                      NEW pc \in {"select", "refused", "write", "lock"},
                      NEW target \in Stored \cup {Nobody}, NEW ref \in Refs \cup {Nobody},
                      Becomes(q, kind, pc, target, ref),
                      customer' = customer, lock' = lock,
                      pc = "select" => kind = "generate",
                      pc = "lock" => target \in Stored /\ kind \in {"patch", "delete"},
                      pc = "lock" /\ kind = "patch" => ref \in Refs,
                      pc = "write" => kind = "supply" /\ ref \in Refs
               PROVE  WellPlaced'
  <2>1. CASE Post(q)
    BY <2>1, <1>1, SuppliedAssumption DEF Post
  <2>2. CASE Patch(q)
    <3>1. PICK c \in Customers :
            /\ customer[c].status = "live"
            /\ \E ref \in Supplied \cup {customer[c].client_id} :
                  Becomes(q, "patch", IF Taken(ref, c) THEN "refused" ELSE "lock", c, ref)
      BY <2>2 DEF Patch
    <3>2. c \in Stored /\ Supplied \cup {customer[c].client_id} \subseteq Refs
      BY <3>1, StoredRow, SuppliedAssumption DEF Stored
    <3> QED  BY <2>2, <3>1, <3>2, <1>1 DEF Patch
  <2>3. CASE Delete(q)
    BY <2>3, <1>1 DEF Delete, Stored
  <2> QED  BY <2>1, <2>2, <2>3 DEF Begin
<1>2. [kind |-> kind, pc |-> pc, target |-> target, ref |-> ref,
       tries |-> request[q].tries] \in Request
  BY DEF Request, Pcs, Stored
<1>3. Placed(q)'
  BY <1>1 DEF Becomes, Placed, Stored
<1> QED  BY <1>1, <1>2, <1>3, OneRequestMoves DEF Becomes

\* A failing request keeps everything well placed.
LEMMA FailWellPlaced ==
    ASSUME WellPlaced, NEW q \in Requests, Fail(q)
    PROVE  WellPlaced'
<1>1. [request[q] EXCEPT !.pc = "failed"] \in Request
  BY DEF WellPlaced, TypeOK, Request, Pcs
<1>2. Placed(q)'
  BY DEF WellPlaced, TypeOK, Request, Fail, Placed
<1>3. request' = [request EXCEPT ![q] = [request[q] EXCEPT !.pc = "failed"]]
  BY DEF Fail, WellPlaced, TypeOK, Request
<1>4. lock' \in [Customers -> Requests \cup {Nobody}]
  BY DEF Fail, Release, WellPlaced, TypeOK
<1> QED  BY <1>1, <1>2, <1>3, <1>4, OneRequestMoves DEF Fail

\* Picking the row, or finding the table empty.
LEMMA SelectWellPlaced ==
    ASSUME WellPlaced, NEW q \in Requests, Select(q), ~Uncastable
    PROVE  WellPlaced'
<1> USE DEF WellPlaced, TypeOK
<1>0. request[q].pc = "select" /\ request[q].kind = "generate" /\ request[q] \in Request
  BY DEF Select, Placed
<1>1. ASSUME request' = [request EXCEPT ![q].pc = "write", ![q].target = Nobody,
                                        ![q].ref = Reference(1)]
      PROVE  WellPlaced'
  <2> DEFINE r == [request[q] EXCEPT !.pc = "write", !.target = Nobody, !.ref = Reference(1)]
  <2>1. Reference(1) \in Refs
    BY ReferenceInRefs
  <2>2. r \in Request /\ r.pc = "write" /\ r.kind = "generate" /\ r.ref \in Refs
    BY <1>0, <2>1 DEF Request, Pcs
  <2>3. request' = [request EXCEPT ![q] = r]
    BY <1>1
  <2>4. Placed(q)'
    BY <2>2, <2>3 DEF Placed
  <2> QED  BY <2>2, <2>3, <2>4, OneRequestMoves DEF Select
<1>2. ASSUME NEW c \in Highest, request' = [request EXCEPT ![q].pc = "lock", ![q].target = c]
      PROVE  WellPlaced'
  <2> DEFINE r == [request[q] EXCEPT !.pc = "lock", !.target = c]
  <2>1. c \in Stored
    BY DEF Highest
  <2>2. r \in Request /\ r.pc = "lock" /\ r.kind = "generate" /\ r.target = c
    BY <1>0, <2>1 DEF Request, Pcs, Stored
  <2>3. request' = [request EXCEPT ![q] = r]
    BY <1>2
  <2>4. Placed(q)'
    BY <2>1, <2>2, <2>3 DEF Placed, Stored, Select
  <2> QED  BY <2>2, <2>3, <2>4, OneRequestMoves DEF Select
<1> QED  BY <1>1, <1>2 DEF Select

\* The row is there when its lock is granted, and has a number to continue.
LEMMA LockRowWellPlaced ==
    ASSUME WellPlaced, NEW q \in Requests, LockRow(q)
    PROVE  WellPlaced'
<1> DEFINE c == request[q].target
           n == customer[c].client_id.number
           ref == IF request[q].kind = "generate" THEN Reference(n + 1) ELSE request[q].ref
           r == [request[q] EXCEPT !.pc = IF request[q].kind = "delete" THEN "written" ELSE "write",
                                   !.ref = ref]
<1>1. CASE request[q].kind = "generate" /\ n = NoNumber
  BY <1>1, FailWellPlaced DEF LockRow
<1>2. CASE ~(request[q].kind = "generate" /\ n = NoNumber)
  <2>1. /\ request[q] \in Request /\ request[q].pc = "lock" /\ c \in Stored /\ c \in Customers
        /\ request[q].kind \in {"generate", "patch", "delete"}
        /\ request[q].kind = "patch" => request[q].ref \in Refs
        /\ n \in Nat \cup {NoNumber}
    BY StoredRow DEF WellPlaced, TypeOK, LockRow, Placed
  <2>2. ref \in Refs \cup {Nobody} /\ (request[q].kind # "delete" => ref \in Refs)
    BY <1>2, <2>1, ReferenceInRefs DEF Request
  <2>3. r \in Request /\ r.kind = request[q].kind /\ r.target = c /\ r.ref = ref
        /\ r.pc \in {"write", "written"}
    BY <2>1, <2>2 DEF Request, Pcs
  <2>4. /\ request' = [request EXCEPT ![q] = r]
        /\ lock' = [lock EXCEPT ![c] = q] /\ customer' = customer
    BY <1>2 DEF LockRow
  <2>5. Placed(q)'
    BY <2>1, <2>2, <2>3, <2>4 DEF Placed, Stored, WellPlaced, TypeOK
  <2> HIDE DEF r
  <2> QED  BY <2>3, <2>4, <2>5, OneRequestMoves DEF WellPlaced, TypeOK
<1> QED  BY <1>1, <1>2

\* Writing, colliding and committing.
LEMMA WriteWellPlaced ==
    ASSUME WellPlaced, NEW q \in Requests, Write(q)
    PROVE  WellPlaced'
<1> DEFINE r == [request[q] EXCEPT !.pc = "written"]
<1>1. r \in Request /\ request' = [request EXCEPT ![q] = r] /\ request[q].pc = "write"
  BY DEF WellPlaced, TypeOK, Write, Request, Pcs
<1>2. Placed(q)'
  BY DEF WellPlaced, TypeOK, Write, Request, Placed, Stored
<1> QED  BY <1>1, <1>2, OneRequestMoves DEF Write, WellPlaced, TypeOK

\* The first collision of a generated create, and every other one.
LEMMA CollideWellPlaced ==
    ASSUME WellPlaced, NEW q \in Requests, Collide(q)
    PROVE  WellPlaced'
<1> DEFINE r == [request[q] EXCEPT !.pc = "select", !.tries = 1, !.target = Nobody, !.ref = Nobody]
<1>1. CASE request[q].kind = "generate" /\ request[q].tries = 0
  <2>1. r \in Request /\ request' = [request EXCEPT ![q] = r] /\ customer' = customer
        /\ r.pc = "select" /\ r.kind = "generate"
    BY <1>1 DEF WellPlaced, TypeOK, Collide, Request, Pcs
  <2>2. lock' \in [Customers -> Requests \cup {Nobody}]
    BY <1>1 DEF Collide, Release, WellPlaced, TypeOK
  <2>3. Placed(q)'
    BY <2>1 DEF Placed, WellPlaced, TypeOK
  <2> QED  BY <2>1, <2>2, <2>3, OneRequestMoves
<1>2. CASE ~(request[q].kind = "generate" /\ request[q].tries = 0)
  BY <1>2, FailWellPlaced DEF Collide
<1> QED  BY <1>1, <1>2

\* A commit adds a row or replaces one; no row disappears.
LEMMA CommitWellPlaced ==
    ASSUME WellPlaced, NEW q \in Requests, Commit(q)
    PROVE  WellPlaced'
<1> USE DEF WellPlaced, TypeOK
<1>1. request[q].pc = "written" /\ request[q] \in Request
  BY DEF Commit
<1>2. request' \in [Requests -> Request] /\ request'[q].pc = "done"
      /\ \A o \in Requests \ {q} : request'[o] = request[o]
  BY <1>1 DEF Commit, Request, Pcs
<1>3. customer' \in [Customers -> Row] /\ Stored \subseteq Stored'
  <2>1. CASE request[q].kind = "delete"
    <3>1. request[q].target \in Stored
      BY <1>1, <2>1 DEF Placed
    <3>2. [customer[request[q].target] EXCEPT !.status = "archived"] \in Row
      BY <3>1 DEF Stored, Row
    <3> QED  BY <2>1, <3>1, <3>2 DEF Commit, Stored, Row
  <2>2. CASE request[q].kind # "delete"
    <3>1. [status |-> "live", client_id |-> request[q].ref] \in Row
      BY <1>1, <2>2 DEF Placed, Row
    <3> QED  BY <2>2, <3>1 DEF Commit, Stored
  <2> QED  BY <2>1, <2>2
<1>4. lock' \in [Customers -> Requests \cup {Nobody}]
  BY DEF Commit, Release
<1>5. \A o \in Requests : Placed(o)'
  BY <1>2, <1>3 DEF Placed
<1> QED  BY <1>2, <1>3, <1>4, <1>5

\* Every step, one action after another.
LEMMA NextWellPlaced == WellPlaced /\ [Next]_vars => WellPlaced'
<1> SUFFICES ASSUME WellPlaced, [Next]_vars PROVE WellPlaced'
  OBVIOUS
<1>1. CASE UNCHANGED vars
  BY <1>1 DEF vars, WellPlaced, TypeOK, Placed, Stored
<1>2. ASSUME NEW q \in Requests, Begin(q) \/ Step(q)
      PROVE  WellPlaced'
  <2>1. CASE Begin(q)   BY <2>1, BeginWellPlaced
  <2>2. CASE Select(q)  BY <2>2, SelectWellPlaced, FailWellPlaced DEF Select
  <2>3. CASE LockRow(q) BY <2>3, LockRowWellPlaced
  <2>4. CASE Write(q)   BY <2>4, WriteWellPlaced
  <2>5. CASE Collide(q) BY <2>5, CollideWellPlaced
  <2>6. CASE Commit(q)  BY <2>6, CommitWellPlaced
  <2> QED  BY <1>2, <2>1, <2>2, <2>3, <2>4, <2>5, <2>6 DEF Step
<1> QED  BY <1>1, <1>2 DEF Next

\* Whatever the requests, rows and references stay well formed.
THEOREM ReferenceTypes == Spec => []TypeOK
<1>1. Spec => []WellPlaced
  BY InitWellPlaced, NextWellPlaced, PTL DEF Spec
<1>2. WellPlaced => TypeOK
  BY DEF WellPlaced
<1> QED  BY <1>1, <1>2, PTL
-----------------------------------------------------------------------------
\* A request without written work can be anywhere else: nothing that is held
\* and nothing in the table changes.
LEMMA UnwrittenStep ==
    ASSUME WellPlaced, Separate, UniqueReferences, NEW q \in Requests,
           customer' = customer, ~Holds(q)',
           \A o \in Requests \ {q} : request'[o] = request[o]
    PROVE  Separate' /\ UniqueReferences'
BY DEF Separate, UniqueReferences, Holds, Taken, Replaced, Stored

\* What Write adds collides with nothing, committed or not.
LEMMA WriteSeparate ==
    ASSUME WellPlaced, Separate, UniqueReferences, NEW q \in Requests, Write(q)
    PROVE  Separate' /\ UniqueReferences'
<1>1. /\ customer' = customer
      /\ request'[q] = [request[q] EXCEPT !.pc = "written"]
      /\ request[q] \in Request
      /\ \A o \in Requests \ {q} : request'[o] = request[o]
  BY DEF Write, WellPlaced, TypeOK
<1>2. /\ request'[q].ref = request[q].ref
      /\ Replaced(q)' = Replaced(q)
  BY <1>1 DEF Replaced, Request
<1>3. ~Taken(request[q].ref, Replaced(q))
  BY DEF Write, Duplicate
<1>4. \A o \in Requests \ {q} : Holds(o) => request[o].ref # request[q].ref
  BY DEF Write, Undecided, Holds
<1>5. ASSUME NEW o \in Requests, Holds(o)'
      PROVE  ~Taken(request[o].ref, Replaced(o))'
  <2>1. CASE o = q
    BY <1>1, <1>2, <1>3, <2>1 DEF Taken, Stored
  <2>2. CASE o # q
    <3>1. request'[o] = request[o] /\ Replaced(o)' = Replaced(o) /\ Holds(o)
      BY <1>1, <1>5, <2>2 DEF Replaced, Holds
    <3>2. ~Taken(request[o].ref, Replaced(o))
      BY <3>1 DEF Separate
    <3> QED  BY <1>1, <3>1, <3>2 DEF Taken, Stored
  <2> QED  BY <2>1, <2>2
<1>6. ASSUME NEW o1 \in Requests, NEW o2 \in Requests, o1 # o2, Holds(o1)', Holds(o2)'
      PROVE  request'[o1].ref # request'[o2].ref
  <2>1. CASE o1 # q /\ o2 # q
    BY <1>1, <1>6, <2>1 DEF Separate, Holds
  <2>2. CASE o1 = q
    BY <1>1, <1>2, <1>4, <1>6, <2>2 DEF Holds
  <2>3. CASE o2 = q
    BY <1>1, <1>2, <1>4, <1>6, <2>3 DEF Holds
  <2> QED  BY <2>1, <2>2, <2>3
<1> QED  BY <1>1, <1>5, <1>6 DEF Separate, UniqueReferences, Stored

\* A commit moves a reference from the written ones into the table, or leaves
\* every reference where it is.
LEMMA CommitSeparate ==
    ASSUME WellPlaced, Separate, UniqueReferences, NEW q \in Requests, Commit(q)
    PROVE  Separate' /\ UniqueReferences'
<1> USE DEF WellPlaced, TypeOK
<1>1. /\ request[q].pc = "written" /\ request[q] \in Request /\ ~Holds(q)'
      /\ \A o \in Requests \ {q} : request'[o] = request[o]
  BY DEF Commit, Holds, Request
<1>2. CASE request[q].kind = "delete"
  <2>1. request[q].target \in Stored
    BY <1>1, <1>2 DEF Placed
  <2>2. /\ Stored' = Stored
        /\ \A c \in Customers : customer'[c].client_id = customer[c].client_id
    BY <1>2, <2>1 DEF Commit, Stored, Row
  <2> QED  BY <1>1, <2>2 DEF Separate, UniqueReferences, Holds, Taken, Replaced, Stored
<1>3. CASE request[q].kind # "delete"
  <2>1. PICK c \in Customers :
          /\ IF request[q].kind = "patch" THEN c = request[q].target ELSE c \notin Stored
          /\ customer' = [customer EXCEPT ![c] = [status |-> "live", client_id |-> request[q].ref]]
    BY <1>1, <1>3 DEF Commit, Placed, Stored
  <2>2. /\ Stored' = Stored \cup {c}
        /\ customer'[c].client_id = request[q].ref
        /\ \A d \in Customers \ {c} : customer'[d] = customer[d]
    BY <2>1 DEF Stored
  <2>3. \A d \in Stored \ {c} : customer[d].client_id # request[q].ref
    BY <1>1, <1>3, <2>1, NobodyAssumption DEF Separate, Holds, Taken, Replaced, Stored
  <2>4. UniqueReferences'
    BY <2>2, <2>3 DEF UniqueReferences, Stored
  <2>5. \A o \in Requests \ {q} : Holds(o) => request[o].ref # request[q].ref
    BY <1>1, <1>3 DEF Separate, Holds
  <2>6. Separate'
    BY <1>1, <2>2, <2>5 DEF Separate, Holds, Taken, Replaced, Stored
  <2> QED  BY <2>4, <2>6
<1> QED  BY <1>2, <1>3

\* FR-003 and FR-021 for any table and any number of requests: two customers
\* never share a reference. Separate carries it through uncommitted writes.
THEOREM ReferencesStayUnique == Spec => []UniqueReferences
<1> DEFINE IInv == WellPlaced /\ Separate /\ UniqueReferences
<1>1. Init => IInv
  BY InitWellPlaced DEF Init, Separate, Holds, UniqueReferences
<1>2. IInv /\ [Next]_vars => IInv'
  <2> SUFFICES ASSUME IInv, [Next]_vars PROVE Separate' /\ UniqueReferences'
    BY NextWellPlaced
  <2>1. CASE UNCHANGED vars
    BY <2>1 DEF vars, Separate, UniqueReferences, Holds, Taken, Replaced, Stored
  <2>2. ASSUME NEW q \in Requests, Begin(q) \/ Step(q)
        PROVE  Separate' /\ UniqueReferences'
    <3> request \in [Requests -> Request]
      BY DEF WellPlaced, TypeOK
    <3>1. CASE Begin(q)
      <4>1. /\ customer' = customer /\ request'[q].pc # "written"
            /\ \A o \in Requests \ {q} : request'[o] = request[o]
        BY <3>1 DEF Begin, Post, Patch, Delete, Becomes
      <4> QED  BY <4>1, UnwrittenStep DEF Holds
    <3>2. CASE Select(q) \/ LockRow(q) \/ Collide(q)
      <4>1. /\ customer' = customer /\ ~Holds(q)'
            /\ \A o \in Requests \ {q} : request'[o] = request[o]
        BY <3>2 DEF Select, LockRow, Collide, Fail, Holds, Request
      <4> QED  BY <4>1, UnwrittenStep
    <3>3. CASE Write(q)   BY <3>3, WriteSeparate
    <3>4. CASE Commit(q)  BY <3>4, CommitSeparate
    <3> QED  BY <2>2, <3>1, <3>2, <3>3, <3>4 DEF Step
  <2> QED  BY <2>1, <2>2 DEF Next
<1> QED  BY <1>1, <1>2, PTL DEF Spec
-----------------------------------------------------------------------------
\* A table that is not empty has a highest reference: of all rows, one with the
\* fewest rows above it has none.
LEMMA HighestExists ==
    ASSUME TypeOK, Stored # {}
    PROVE  Highest # {}
<1> DEFINE Number(c) == customer[c].client_id.number
           Above(c) == {d \in Stored : Number(d) > Number(c)}
           Counts == {Cardinality(Above(c)) : c \in Stored}
<1>1. \A c \in Stored : Number(c) \in Int
  BY StoredRow DEF NoNumber
<1>2. IsFiniteSet(Stored)
  BY CustomersAssumption, FS_Subset DEF Stored
<1>3. \A c \in Stored : IsFiniteSet(Above(c)) /\ Cardinality(Above(c)) \in Nat
  BY <1>2, FS_Subset, FS_CardinalityType
<1>4. Counts \subseteq Nat /\ Counts # {}
  BY <1>3
<1>5. PICK k \in Counts : \A m \in Counts : ~(<<m, k>> \in OpToRel(<, Nat))
  BY <1>4, NatLessThanWellFounded, WFMin
<1>6. PICK c \in Stored : k = Cardinality(Above(c))
  OBVIOUS
<1>7. Above(c) = {}
  <2> SUFFICES ASSUME NEW d \in Above(c) PROVE FALSE
    OBVIOUS
  <2>1. d \in Stored /\ Number(c) < Number(d)
    BY <1>1
  <2>2. Above(d) \subseteq Above(c) /\ d \notin Above(d)
    BY <1>1, <2>1
  <2>3. Cardinality(Above(d)) < Cardinality(Above(c))
    <3> DEFINE D == Above(d)
               C == Above(c)
    <3>1. IsFiniteSet(C) /\ Cardinality(C) \in Nat /\ Cardinality(D) \in Nat
      BY <1>3, <2>1
    <3>2. D \in SUBSET C /\ D # C
      BY <2>2
    <3> HIDE DEF C, D
    <3>3. Cardinality(D) <= Cardinality(C) /\ Cardinality(C) # Cardinality(D)
      BY <3>1, <3>2, FS_Subset
    <3> QED  BY <3>1, <3>3 DEF C, D
  <2>4. Cardinality(Above(d)) \in Counts
    BY <2>1
  <2> QED  BY <1>3, <1>5, <1>6, <2>1, <2>3, <2>4 DEF OpToRel
<1>8. c \in Highest
  BY <1>1, <1>7 DEF Highest
<1> QED  BY <1>8
-----------------------------------------------------------------------------
\* What request q is about to lock or to write is the highest as of now.
Fresh(q) ==
    /\ request[q].pc = "lock" => request[q].target \in Highest
    /\ request[q].pc = "write" =>
         \A d \in Stored : customer[d].client_id.number < request[q].ref.number

\* Nobody can have changed the table since q's attempt began: nobody has
\* committed before the second one, or all that has been sent besides is done.
Undisturbed(q) ==
    \/ request[q].tries = 0 /\ \A o \in Requests \ {q} : request[o].pc # "done"
    \/ /\ request[q].tries = 1
       /\ \E o \in Requests \ {q} : request[o].pc = "done" /\ OnlySent(q, o)

\* A second attempt follows another request's commit, and a generated create
\* that is undisturbed is fresh.
Attempts ==
    \A q \in Requests :
       /\ request[q].tries = 1 => \E o \in Requests \ {q} : request[o].pc = "done"
       /\ request[q].kind = "generate" /\ Undisturbed(q) => Fresh(q)

\* A fresh reference is nobody's.
LEMMA FreshIsFree ==
    ASSUME WellPlaced, NEW q \in Requests, Fresh(q), request[q].kind = "generate",
           request[q].pc = "write"
    PROVE  ~Duplicate(q)
<1> SUFFICES ASSUME NEW d \in Stored, customer[d].client_id = request[q].ref PROVE FALSE
  BY DEF Duplicate, Taken, Replaced
<1>1. customer[d].client_id.number \in Int
  BY StoredRow DEF NoNumber, WellPlaced
<1>2. customer[d].client_id.number < customer[d].client_id.number
  BY DEF Fresh
<1> QED  BY <1>1, <1>2

\* What any step of request r leaves alone.
LEMMA StepOfOne ==
    ASSUME WellPlaced, NEW r \in Requests, Begin(r) \/ Step(r)
    PROVE  /\ \A o \in Requests \ {r} : request'[o] = request[o]
           /\ request[r].pc \notin Ended /\ request'[r].pc # "new"
           /\ (customer' = customer /\ request'[r].pc # "done") \/ Commit(r)
           /\ request'[r].tries = request[r].tries \/ Collide(r)
<1> USE DEF WellPlaced, TypeOK, Ended
<1>1. CASE Begin(r)
  BY <1>1 DEF Begin, Post, Patch, Delete, Becomes, Request
<1>2. CASE Select(r) \/ LockRow(r)
  BY <1>2 DEF Select, LockRow, Fail, Request
<1>3. CASE Write(r) \/ Collide(r)
  BY <1>3 DEF Write, Collide, Fail, Request
<1>4. CASE Commit(r)
  BY <1>4 DEF Commit, Request
<1> QED  BY <1>1, <1>2, <1>3, <1>4 DEF Step

\* A step of one request keeps what every other one knows.
LEMMA OthersAttempts ==
    ASSUME WellPlaced, Attempts, NEW r \in Requests, Begin(r) \/ Step(r),
           NEW q \in Requests \ {r}
    PROVE  /\ request'[q].tries = 1 => \E o \in Requests \ {q} : request'[o].pc = "done"
           /\ request'[q].kind = "generate" /\ Undisturbed(q)' => Fresh(q)'
<1>1. /\ \A o \in Requests \ {r} : request'[o] = request[o]
      /\ request[r].pc \notin Ended /\ request'[r].pc # "new"
      /\ (customer' = customer /\ request'[r].pc # "done") \/ Commit(r)
  BY StepOfOne
<1>2. request[q].tries = 1 => \E o \in Requests \ {q, r} : request[o].pc = "done"
  BY <1>1 DEF Attempts, Ended
<1>3. request'[q].tries = 1 => \E o \in Requests \ {q} : request'[o].pc = "done"
  BY <1>1, <1>2
<1>4. ASSUME request'[q].kind = "generate", Undisturbed(q)' PROVE Fresh(q)'
  <2>1. CASE request'[r].pc = "done"
    <3>1. PICK o \in Requests \ {q} : request'[q].tries = 1 /\ OnlySent(q, o)' /\ request'[o].pc = "done"
      BY <1>4, <2>1 DEF Undisturbed
    <3>2. o = r
      BY <1>1, <3>1 DEF OnlySent
    <3> QED  BY <1>1, <1>2, <3>1, <3>2 DEF OnlySent
  <2>2. CASE request'[r].pc # "done"
    <3>1. customer' = customer
      BY <1>1, <2>2 DEF Commit, WellPlaced, TypeOK, Request
    <3>2. Undisturbed(q)
      BY <1>1, <1>4, <2>2 DEF Undisturbed, OnlySent, Ended
    <3>3. Fresh(q)
      BY <1>1, <1>4, <3>2 DEF Attempts
    <3> QED  BY <1>1, <3>1, <3>3 DEF Fresh, Highest, Stored
  <2> QED  BY <2>1, <2>2
<1> QED  BY <1>3, <1>4

\* A request's own step keeps what it knows: the row it picks is the highest,
\* what it writes is one more, and a fresh reference never collides.
LEMMA OwnAttempts ==
    ASSUME WellPlaced, Attempts, NEW q \in Requests, Begin(q) \/ Step(q)
    PROVE  /\ request'[q].tries = 1 => \E o \in Requests \ {q} : request'[o].pc = "done"
           /\ request'[q].kind = "generate" /\ Undisturbed(q)' => Fresh(q)'
<1> USE DEF WellPlaced, TypeOK
<1>1. /\ \A o \in Requests \ {q} : request'[o] = request[o]
      /\ request'[q].tries = request[q].tries \/ Collide(q)
  BY StepOfOne
<1>2. request[q] \in Request /\ request[q].tries \in {0, 1}
  BY DEF Request
<1>3. CASE Begin(q)
  <2>1. request'[q].tries = request[q].tries
    BY <1>2, <1>3 DEF Begin, Post, Patch, Delete, Becomes, Request
  <2>2. request'[q].kind = "generate" => request'[q].pc = "select"
    BY <1>3 DEF Begin, Post, Patch, Delete, Becomes
  <2> QED  BY <1>1, <2>1, <2>2 DEF Attempts, Fresh
<1>4. CASE Select(q)
  <2>1. request'[q].tries = request[q].tries
    BY <1>2, <1>4 DEF Select, Fail, Request
  <2>2. Fresh(q)'
    <3>1. CASE Uncastable
      BY <1>2, <1>4, <3>1 DEF Select, Fail, Fresh, Request
    <3>2. ASSUME ~Uncastable, Highest = {},
                 request' = [request EXCEPT ![q].pc = "write", ![q].target = Nobody,
                                            ![q].ref = Reference(1)],
                 customer' = customer
          PROVE  Fresh(q)'
      BY <1>2, <3>2, HighestExists DEF Fresh, Request, Stored
    <3>3. ASSUME NEW c \in Highest, customer' = customer,
                 request' = [request EXCEPT ![q].pc = "lock", ![q].target = c]
          PROVE  Fresh(q)'
      BY <1>2, <3>3 DEF Fresh, Request, Highest, Stored
    <3> QED  BY <1>4, <3>1, <3>2, <3>3 DEF Select
  <2> QED  BY <1>1, <2>1, <2>2 DEF Attempts
<1>5. CASE LockRow(q)
  <2>1. request'[q].tries = request[q].tries /\ request'[q].kind = request[q].kind
    BY <1>2, <1>5 DEF LockRow, Fail, Request
  <2>2. Undisturbed(q)' => Undisturbed(q)
    BY <1>1, <2>1 DEF Undisturbed, OnlySent
  <2>3. ASSUME request[q].kind = "generate", Fresh(q) PROVE Fresh(q)'
    <3> DEFINE c == request[q].target
               n == customer[c].client_id.number
    <3>1. CASE n = NoNumber
      BY <1>2, <1>5, <2>3, <3>1 DEF LockRow, Fail, Fresh, Request
    <3>2. CASE n # NoNumber
      <4>1. c \in Highest /\ c \in Stored /\ n \in Nat
        BY <1>5, <2>3, <3>2, StoredRow DEF LockRow, Fresh, Highest
      <4>2. request'[q].pc = "write" /\ request'[q].ref = Reference(n + 1) /\ customer' = customer
        BY <1>2, <1>5, <2>3, <3>2 DEF LockRow, Request
      <4>3. \A d \in Stored : customer[d].client_id.number \in Int /\ customer[d].client_id.number <= n
        BY <4>1, StoredRow DEF Highest, NoNumber
      <4>4. request'[q].ref.number = n + 1 /\ Stored' = Stored
        BY <4>2 DEF Reference, Stored
      <4> HIDE DEF n
      <4>5. \A d \in Stored : customer[d].client_id.number < n + 1
        BY <4>1, <4>3
      <4> QED  BY <4>2, <4>4, <4>5 DEF Fresh
    <3> QED  BY <3>1, <3>2
  <2> QED  BY <1>1, <2>1, <2>2, <2>3 DEF Attempts
<1>6. CASE Write(q)
  <2>1. request'[q].tries = request[q].tries /\ request'[q].pc = "written"
    BY <1>2, <1>6 DEF Write, Request
  <2> QED  BY <1>1, <2>1 DEF Attempts, Fresh
<1>7. CASE Collide(q)
  <2>1. request'[q].pc \in {"select", "failed"}
    BY <1>2, <1>7 DEF Collide, Fail, Request
  <2>2. request[q].kind = "generate" => ~Undisturbed(q)
    BY <1>7, FreshIsFree DEF Attempts, Collide
  <2>3. request'[q].tries = 1 => request[q].tries = 1 \/ (request[q].kind = "generate" /\ request[q].tries = 0)
    BY <1>2, <1>7 DEF Collide, Fail, Request
  <2>4. request'[q].tries = 1 => \E o \in Requests \ {q} : request[o].pc = "done"
    BY <2>2, <2>3 DEF Attempts, Undisturbed
  <2> QED  BY <1>1, <2>1, <2>4 DEF Fresh
<1>8. CASE Commit(q)
  <2>1. request'[q].tries = request[q].tries /\ request'[q].pc = "done"
    BY <1>2, <1>8 DEF Commit, Request
  <2> QED  BY <1>1, <2>1 DEF Attempts, Fresh
<1> QED  BY <1>3, <1>4, <1>5, <1>6, <1>7, <1>8 DEF Step

\* Every step keeps Attempts.
LEMMA NextAttempts == WellPlaced /\ Attempts /\ [Next]_vars => Attempts'
<1> SUFFICES ASSUME WellPlaced, Attempts, [Next]_vars PROVE Attempts'
  OBVIOUS
<1>1. CASE UNCHANGED vars
  BY <1>1 DEF vars, Attempts, Undisturbed, OnlySent, Fresh, Highest, Stored
<1>2. ASSUME NEW r \in Requests, Begin(r) \/ Step(r) PROVE Attempts'
  <2> SUFFICES ASSUME NEW q \in Requests
               PROVE  /\ request'[q].tries = 1 => \E o \in Requests \ {q} : request'[o].pc = "done"
                      /\ request'[q].kind = "generate" /\ Undisturbed(q)' => Fresh(q)'
    BY DEF Attempts
  <2> QED  BY <1>2, OwnAttempts, OthersAttempts
<1> QED  BY <1>1, <1>2 DEF Next

\* The reference a create generates fails only on a reference without a number
\* or at the last collision, and beside one other request there is none.
LEMMA FailsUncastable ==
    ASSUME WellPlaced, Attempts, [Next]_vars, NEW q \in Requests, NEW o \in Requests,
           OnlySent(q, o), request[q].kind = "generate",
           request[q].pc # "failed", request'[q].pc = "failed"
    PROVE  Uncastable
<1> USE DEF WellPlaced, TypeOK
<1>1. Begin(q) \/ Step(q)
  <2>1. ~UNCHANGED vars
    BY DEF vars
  <2>2. PICK r \in Requests : Begin(r) \/ Step(r)
    BY <2>1 DEF Next
  <2>3. r = q
    BY <2>2, StepOfOne
  <2> QED  BY <2>2, <2>3
<1>2. request[q] \in Request /\ request[q].tries \in {0, 1}
  BY DEF Request
<1>3. ~Begin(q) /\ ~Write(q) /\ ~Commit(q)
  BY <1>2 DEF Begin, Post, Patch, Delete, Becomes, Write, Commit, Request
<1>4. CASE Select(q)
  BY <1>2, <1>4 DEF Select, Request
<1>5. CASE LockRow(q)
  <2>1. customer[request[q].target].client_id.number = NoNumber
    BY <1>2, <1>5 DEF LockRow, Request
  <2>2. request[q].target \in Stored
    BY <1>5 DEF LockRow, Placed
  <2> QED  BY <2>1, <2>2 DEF Uncastable
<1>6. CASE Collide(q)
  <2>1. request[q].tries = 1
    BY <1>2, <1>6 DEF Collide, Request
  <2>2. PICK p \in Requests \ {q} : request[p].pc = "done"
    BY <2>1 DEF Attempts
  <2>3. p = o
    BY <2>2 DEF OnlySent
  <2>4. Fresh(q)
    BY <2>1, <2>2, <2>3 DEF Attempts, Undisturbed
  <2> QED  BY <1>6, <2>4, FreshIsFree DEF Collide
<1> QED  BY <1>1, <1>3, <1>4, <1>5, <1>6 DEF Step

\* FR-005 for any table and any pair: of two requests in all, whatever the
\* other one is, a create without a reference gets one at the latest from its
\* retry, unless a stored reference has no number (create_with_reference).
THEOREM OneRetryIsEnoughForTwo == Spec => PairSucceeds
<1> DEFINE IInv == WellPlaced /\ Attempts
<1>1. Init => IInv
  <2>1. Init => Attempts
    BY DEF Init, Attempts, Undisturbed, Fresh
  <2> QED  BY <2>1, InitWellPlaced
<1>2. IInv /\ [Next]_vars => IInv'
  BY NextWellPlaced, NextAttempts
<1>3. IInv /\ [Next]_vars =>
        [\A q, o \in Requests :
           /\ OnlySent(q, o)
           /\ request[q].kind = "generate" /\ request[q].pc # "failed" /\ request'[q].pc = "failed"
           => Uncastable]_vars
  BY FailsUncastable
<1> QED  BY <1>1, <1>2, <1>3, PTL DEF Spec, PairSucceeds
=============================================================================
