-------------------------- MODULE CustomerReference --------------------------
(***************************************************************************)
(* How customers get their client_id: creates that generate one under      *)
(* SELECT ... FOR UPDATE with one retry, creates and PATCHes that supply   *)
(* one, and removals, all at READ COMMITTED with the unique constraint on  *)
(* client_id. A statement that meets a row lock or an uncommitted          *)
(* duplicate waits for the transaction behind it to end.                   *)
(***************************************************************************)
EXTENDS Integers, FiniteSets

CONSTANTS
    Customers,   \* primary keys
    Requests,    \* POST, PATCH and DELETE requests, each sent at most once
    Forms,       \* ways to write one number, "CL-00007" being the generator's
    Supplied,    \* references that API clients send
    Existing,    \* references that may be in the table to begin with
    Nobody       \* no request, no customer

\* The numeric suffix of a reference that PostgreSQL cannot cast to integer.
NoNumber == -1
Refs == [number : Nat \cup {NoNumber}, form : Forms]
Reference(n) == [number |-> n, form |-> "CL-00000"]

ASSUME CustomersAssumption == IsFiniteSet(Customers)
ASSUME FormsAssumption == "CL-00000" \in Forms
ASSUME SuppliedAssumption == Supplied \subseteq Refs /\ Existing \subseteq Refs
ASSUME NobodyAssumption == Nobody \notin Requests \cup Customers \cup Refs

VARIABLES
    customer,    \* committed rows: status and client_id
    lock,        \* per row: the request whose transaction has it locked
    request      \* per request: what it is and where it stands

vars == <<customer, lock, request>>

Row == [status : {"absent"}, client_id : {Nobody}]
         \cup [status : {"live", "archived"}, client_id : Refs]

Pcs == {"new", "select", "lock", "write", "written", "done", "refused", "failed"}
Ended == {"done", "refused", "failed"}

\* target: the row a PATCH changes, or the row a generated create locks.
Request == [kind : {"none", "generate", "supply", "patch", "delete"}, pc : Pcs,
            target : Customers \cup {Nobody}, ref : Refs \cup {Nobody}, tries : 0..1]

TypeOK ==
    /\ customer \in [Customers -> Row]
    /\ lock \in [Customers -> Requests \cup {Nobody}]
    /\ request \in [Requests -> Request]

\* all_objects: the rows there are, archived or not.
Stored == {c \in Customers : customer[c].status # "absent"}

\* Keys never run out: there is an unused one for every request.
Init ==
    /\ customer \in [Customers ->
         {r \in [status : {"absent", "live", "archived"}, client_id : Existing \cup {Nobody}] :
            r.status = "absent" <=> r.client_id = Nobody}]
    /\ \A c, d \in Stored : c # d => customer[c].client_id # customer[d].client_id
    /\ Cardinality(Customers \ Stored) >= Cardinality(Requests)
    /\ lock = [c \in Customers |-> Nobody]
    /\ request = [q \in Requests |-> [kind |-> "none", pc |-> "new", target |-> Nobody,
                                      ref |-> Nobody, tries |-> 0]]
-----------------------------------------------------------------------------
Becomes(q, kind, pc, target, ref) ==
    request' = [request EXCEPT ![q] = [kind |-> kind, pc |-> pc, target |-> target,
                                       ref |-> ref, tries |-> @.tries]]

\* _validate_unique_client_id: against every committed row but c.
Taken(ref, c) == \E d \in Stored \ {c} : customer[d].client_id = ref

\* POST without a client_id, or with one.
Post(q) ==
    /\ request[q].pc = "new"
    /\ \/ Becomes(q, "generate", "select", Nobody, Nobody)
       \/ \E ref \in Supplied :
             Becomes(q, "supply", IF Taken(ref, Nobody) THEN "refused" ELSE "write", Nobody, ref)
    /\ UNCHANGED <<customer, lock>>

\* PATCH of a live customer; one that does not mention client_id saves the old one.
Patch(q) ==
    /\ request[q].pc = "new"
    /\ \E c \in Customers :
          /\ customer[c].status = "live"
          /\ \E ref \in Supplied \cup {customer[c].client_id} :
                Becomes(q, "patch", IF Taken(ref, c) THEN "refused" ELSE "lock", c, ref)
    /\ UNCHANGED <<customer, lock>>

\* DELETE of a live customer.
Delete(q) ==
    /\ request[q].pc = "new"
    /\ \E c \in Customers :
          /\ customer[c].status = "live"
          /\ Becomes(q, "delete", "lock", c, Nobody)
    /\ UNCHANGED <<customer, lock>>
-----------------------------------------------------------------------------
Release(q) == lock' = [c \in Customers |-> IF lock[c] = q THEN Nobody ELSE lock[c]]

\* Fault variant: a row stays locked after the exception.
FailHoldingLock(q) ==
    /\ request' = [request EXCEPT ![q].pc = "failed"]
    /\ UNCHANGED <<customer, lock>>

\* An exception leaves the view: its transaction is rolled back.
Fail(q) ==
    /\ request' = [request EXCEPT ![q].pc = "failed"]
    /\ Release(q)
    /\ UNCHANGED customer

\* The cast of every stored reference, then the rows with the highest.
Uncastable == \E c \in Stored : customer[c].client_id.number = NoNumber

\* Fault variant: the scan goes through the manager that hides archived rows.
HighestLive ==
    LET live == {c \in Customers : customer[c].status = "live"}
    IN  {c \in live : \A d \in live : customer[c].client_id.number >= customer[d].client_id.number}

Highest ==
    {c \in Stored : \A d \in Stored : customer[c].client_id.number >= customer[d].client_id.number}

\* The SELECT picks its row in the snapshot it starts with; an empty table has
\* nothing to lock.
Select(q) ==
    /\ request[q].pc = "select"
    /\ IF Uncastable THEN Fail(q)
       ELSE /\ \/ Highest = {} /\ request' = [request EXCEPT ![q].pc = "write", ![q].target = Nobody,
                                                             ![q].ref = Reference(1)]
               \/ \E c \in Highest : request' = [request EXCEPT ![q].pc = "lock", ![q].target = c]
            /\ UNCHANGED <<customer, lock>>

\* FOR UPDATE and UPDATE wait for the row. The SELECT returns the row picked,
\* as it is by now, and does not look again for a higher one.
LockRow(q) ==
    LET c == request[q].target
        n == customer[c].client_id.number
    IN  /\ request[q].pc = "lock"
        /\ lock[c] = Nobody
        /\ IF request[q].kind = "generate" /\ n = NoNumber THEN Fail(q)
           ELSE /\ request' =
                     [request EXCEPT ![q].pc = IF request[q].kind = "delete" THEN "written" ELSE "write",
                                     ![q].ref = IF request[q].kind = "generate"
                                                  THEN Reference(n + 1) ELSE @]
                /\ lock' = [lock EXCEPT ![c] = q]
                /\ UNCHANGED customer
-----------------------------------------------------------------------------
\* The row a write replaces, and none for a create.
Replaced(q) == IF request[q].kind \in {"patch", "delete"} THEN request[q].target ELSE Nobody

\* Another transaction, still open, has written or is replacing the reference.
Undecided(q) ==
    \E o \in Requests \ {q} :
       /\ request[o].pc = "written"
       /\ \/ request[o].ref = request[q].ref
          \/ Replaced(o) # Nobody /\ customer[Replaced(o)].client_id = request[q].ref

\* Fault variant: uniqueness among live customers only.
DuplicateLive(q) ==
    \E c \in Stored \ {Replaced(q)} :
       customer[c].client_id = request[q].ref /\ customer[c].status = "live"

\* The unique constraint holds of archived rows too.
Duplicate(q) == Taken(request[q].ref, Replaced(q))

\* INSERT, or the UPDATE of a full row, and its index entry.
Write(q) ==
    /\ request[q].pc = "write"
    /\ ~Undecided(q) /\ ~Duplicate(q)
    /\ request' = [request EXCEPT ![q].pc = "written"]
    /\ UNCHANGED <<customer, lock>>

\* Fault variant: one retry too many.
CollideRetriesTwice(q) ==
    /\ request[q].pc = "write"
    /\ ~Undecided(q) /\ Duplicate(q)
    /\ IF request[q].kind = "generate" /\ request[q].tries <= 1
         THEN /\ request' = [request EXCEPT ![q].pc = "select", ![q].tries = @ + 1,
                                            ![q].target = Nobody, ![q].ref = Nobody]
              /\ Release(q)
              /\ UNCHANGED customer
         ELSE Fail(q)

\* IntegrityError. The first one of a generated create rolls back to the
\* savepoint, which releases the row it locked, and generates again.
Collide(q) ==
    /\ request[q].pc = "write"
    /\ ~Undecided(q) /\ Duplicate(q)
    /\ IF request[q].kind = "generate" /\ request[q].tries = 0
         THEN /\ request' = [request EXCEPT ![q].pc = "select", ![q].tries = 1,
                                            ![q].target = Nobody, ![q].ref = Nobody]
              /\ Release(q)
              /\ UNCHANGED customer
         ELSE Fail(q)

Commit(q) ==
    /\ request[q].pc = "written"
    /\ \/ /\ request[q].kind = "delete"
          /\ customer' = [customer EXCEPT ![request[q].target].status = "archived"]
       \/ /\ request[q].kind # "delete"
          /\ \E c \in IF request[q].kind = "patch" THEN {request[q].target}
                                                   ELSE Customers \ Stored :
                customer' = [customer EXCEPT ![c] = [status |-> "live",
                                                     client_id |-> request[q].ref]]
    /\ Release(q)
    /\ request' = [request EXCEPT ![q].pc = "done"]
-----------------------------------------------------------------------------
Begin(q) == Post(q) \/ Patch(q) \/ Delete(q)
Step(q) == Select(q) \/ LockRow(q) \/ Write(q) \/ Collide(q) \/ Commit(q)
Next == \E q \in Requests : Begin(q) \/ Step(q)

Spec == Init /\ [][Next]_vars

\* A request that was sent is executed by its web process and the database.
FairSpec == Spec /\ \A q \in Requests : WF_vars(Step(q))
-----------------------------------------------------------------------------
\* FR-003 and FR-021: no two customers share a reference, archived or not, for
\* every interleaving of checks, waits, retries and commits.
UniqueReferences ==
    \A c, d \in Stored : c # d => customer[c].client_id # customer[d].client_id

\* FR-005: a create without a reference gets one; what the lock does not
\* prevent, "this retry resolves" (create_with_reference).
GeneratedSucceeds ==
    \A q \in Requests : request[q].kind = "generate" => request[q].pc # "failed"

\* All requests sent so far are q and o.
OnlySent(q, o) == \A p \in Requests \ {q, o} : request[p].pc = "new"

\* FR-005 as far as it is true: a create that generates its reference beside at
\* most one other request, whatever that is, fails only when the table holds a
\* reference without a number. The lock and one retry are enough for two.
PairSucceeds ==
    [][\A q, o \in Requests :
         /\ OnlySent(q, o)
         /\ request[q].kind = "generate" /\ request[q].pc # "failed" /\ request'[q].pc = "failed"
         => Uncastable]_vars

\* Nobody waits for ever: locks and uncommitted duplicates never form a circle.
EveryRequestEnds ==
    \A q \in Requests : request[q].pc # "new" ~> request[q].pc \in Ended
=============================================================================
