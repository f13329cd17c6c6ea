----------------------------- MODULE RecordStore -----------------------------
(***************************************************************************)
(* The record views under overlapping requests: customers, policies,       *)
(* claims and accounts, their checks, and the audit entry each write makes *)
(* in its transaction. A request reads its row, validates against other    *)
(* rows, and saves, each from a statement of its own; no lock is taken.    *)
(*                                                                         *)
(* A row keeps its parent, a type (policies), one value that stands for    *)
(* its other columns (an account: its role) and archived (an account: that *)
(* it is not is_active). What scoring makes of these rows, and client_id,  *)
(* have modules of their own.                                              *)
(***************************************************************************)
EXTENDS Naturals, Sequences, FiniteSets, Functions, FiniteSetsExt

CONSTANTS
    Customers, Policies, Claims, Accounts,      \* primary keys
    Types, Values,
    Editors,            \* requests that may overlap
    Stores,             \* tables to start from
    MaxRequests,        \* bound: requests received
    Nothing             \* a row that is not there, a parent or type it has not

ASSUME BoundAssumption == MaxRequests \in Nat
ASSUME KeysAssumption ==
    /\ (Customers \cup Policies \cup Claims) \cap Accounts = {}
    /\ Customers \cap Policies = {} /\ (Customers \cup Policies) \cap Claims = {}

VARIABLES
    row,        \* the tables
    trail,      \* the audit log by target, oldest first
    task,       \* what each editor's request has read and is about to write
    requests

vars == <<row, trail, task, requests>>

Ids   == Customers \cup Policies \cup Claims \cup Accounts
Row   == [parent : Customers \cup Policies \cup {Nothing}, type : Types \cup {Nothing},
          value : Values, archived : BOOLEAN]
Idle  == [pc |-> "idle"]
Empty == [f \in {} |-> Nothing]

Exists(store, i) == store[i] # Nothing
Live(store, i)   == Exists(store, i) /\ ~store[i].archived

\* Fault variant: the unique index has the premium in it as well.
SameSlotAndValue(store, p, q) ==
    /\ Live(store, p) /\ Live(store, q)
    /\ \A f \in {"parent", "type", "value"} : store[p][f] = store[q][f]

\* policy_unique_live_type_per_customer.
SameSlot(store, p, q) ==
    /\ Live(store, p) /\ Live(store, q)
    /\ store[p].parent = store[q].parent /\ store[p].type = store[q].type
UniqueLive(store) == \A p, q \in Policies : SameSlot(store, p, q) => p = q

\* A row with some of its columns replaced.
Over(change, r) == [f \in DOMAIN r |-> IF f \in DOMAIN change THEN change[f] ELSE r[f]]
-----------------------------------------------------------------------------
\* What each view's snapshot() copies into the audit log: not archived_at,
\* except that an account's is_active is a column like the others.
AUDITED_FIELDS(i) == CASE i \in Customers -> {"value"}
                       [] i \in Policies  -> {"parent", "type", "value"}
                       [] i \in Claims    -> {"parent", "value"}
                       [] i \in Accounts  -> {"value", "archived"}

\* The database starts from rows the constraint allows; a customer has no
\* parent, and only policies have a type.
ASSUME StoresAssumption ==
    /\ Nothing \notin Row
    /\ \A s \in Stores :
          /\ s \in [Ids -> Row \cup {Nothing}] /\ UniqueLive(s)
          /\ \A i \in Ids : Exists(s, i) =>
                \A f \in {"parent", "type"} \ AUDITED_FIELDS(i) : s[i][f] = Nothing

Entry(action, before, after, current) ==
    [action |-> action, before |-> before, after |-> after, current |-> current]

\* The trail of rows written before the first request.
FirstTrail(i, r) ==
    CASE r = Nothing -> <<>>
      [] r # Nothing /\ (~r.archived \/ i \in Accounts) ->
           <<Entry("created", Empty, Restrict(r, AUDITED_FIELDS(i)), TRUE)>>
      [] OTHER ->
           <<Entry("created", Empty, Restrict(r, AUDITED_FIELDS(i)), TRUE),
             Entry("deleted", Restrict(r, AUDITED_FIELDS(i)), Empty, TRUE)>>

Init ==
    /\ row \in Stores
    /\ trail = [i \in Ids |-> FirstTrail(i, row[i])]
    /\ task = [e \in Editors |-> Idle]
    /\ requests = 0

Receive(e, t) ==
    /\ task[e] = Idle /\ requests < MaxRequests
    /\ task' = [task EXCEPT ![e] = t]
    /\ requests' = requests + 1
    /\ UNCHANGED <<row, trail>>

\* copy: the row as read, for the audit and, except for accounts, for the save;
\* quiet: no other request has committed since.
Task(pc, op, i, copy, change) ==
    [pc |-> pc, op |-> op, id |-> i, copy |-> copy, change |-> change, quiet |-> TRUE]

\* POST; a new row gets a key no row has.
Post(e, i, change) ==
    /\ ~Exists(row, i) /\ \A d \in Editors : task[d].pc # "idle" => task[d].id # i
    /\ Receive(e, Task("got", "create", i,
                       [parent |-> Nothing, type |-> Nothing, value |-> Nothing,
                        archived |-> FALSE], change))

\* Fault variant: a removed row can still be changed.
PatchAny(e, i, change) ==
    /\ Exists(row, i)
    /\ Receive(e, Task(IF i \in Accounts THEN "counted" ELSE "got", "patch", i, row[i], change))

\* PATCH: get_object sees live rows, and every account.
Patch(e, i, change) ==
    /\ Live(row, i) \/ (i \in Accounts /\ Exists(row, i))
    /\ Receive(e, Task(IF i \in Accounts THEN "counted" ELSE "got", "patch", i, row[i], change))

\* DELETE; accounts have none.
Delete(e, i) ==
    /\ Live(row, i) /\ i \notin Accounts
    /\ Receive(e, Task("checked", "remove", i, row[i], Empty))

\* What a request may set: a new row all of its columns, a PATCH some.
NewRow(i) == CASE i \in Customers -> [value : Values]
               [] i \in Policies  -> [parent : Customers, type : Types, value : Values]
               [] i \in Claims    -> [parent : Policies, value : Values]
               [] i \in Accounts  -> [value : Values]
Writable(i) == CASE i \in Policies -> {"parent", "type", "value"}
                 [] i \in Accounts -> {"value", "archived"}
                 [] OTHER          -> {"value"}
Column(f) == CASE f = "parent" -> Customers [] f = "type" -> Types
               [] f = "value" -> Values [] f = "archived" -> BOOLEAN
Changes(i) == UNION {{[g \in {f} |-> v] : v \in Column(f)} : f \in Writable(i)}

Step(e, t) == task' = [task EXCEPT ![e] = t]

\* UserViewSet.partial_update has counted on one read of the account and, in
\* the transaction, lets UpdateModelMixin make another, which is what is saved.
Reread(e) ==
    /\ task[e].pc = "counted"
    /\ Step(e, [pc |-> "checked", op |-> "patch", id |-> task[e].id, copy |-> task[e].copy,
                change |-> task[e].change, quiet |-> task[e].quiet, again |-> row[task[e].id]])
    /\ UNCHANGED <<row, trail, requests>>

\* Fault variant: a PATCH that keeps the customer is not held against the
\* customer's other policies.
ClashesByChange(t) ==
    IF "parent" \notin DOMAIN t.change THEN {}
    ELSE {q \in Policies \ {t.id} :
            /\ Live(row, q) /\ row[q].parent = t.change.parent
            /\ row[q].type = Over(t.change, t.copy).type}

\* validate(): other live policies of the customer with the type the row will
\* have, whichever of the two the request leaves alone.
Clashes(t) ==
    {q \in Policies \ {t.id} :
        /\ Live(row, q)
        /\ row[q].parent = Over(t.change, t.copy).parent
        /\ row[q].type = Over(t.change, t.copy).type}

\* Fault variant: an archived parent is found like any other.
NameableArchived(t) == "parent" \in DOMAIN t.change => Exists(row, t.change.parent)

\* ArchivedAwarePrimaryKeyRelatedField, ArchivedAwarePolicyField: a parent that
\* is named must be there and not archived.
Nameable(t) == "parent" \in DOMAIN t.change => Live(row, t.change.parent)

\* is_valid() asks of each field first: one query for the parent. A
\* ValidationError ends the request.
ReadParent(e) ==
    LET t == task[e]
    IN  /\ t.pc = "got"
        /\ IF Nameable(t)
           THEN Step(e, [t EXCEPT !.pc = IF t.id \in Policies THEN "named" ELSE "checked"])
           ELSE Step(e, Idle)
        /\ UNCHANGED <<row, trail, requests>>

\* Then of a policy as a whole: the query of validate().
Check(e) ==
    LET t == task[e]
    IN  /\ t.pc = "named"
        /\ IF Clashes(t) = {} THEN Step(e, [t EXCEPT !.pc = "checked"]) ELSE Step(e, Idle)
        /\ UNCHANGED <<row, trail, requests>>

\* Fault variant: the diff leaves the columns that refer to other rows out.
DifferencePlain(i, before, after) ==
    {f \in AUDITED_FIELDS(i) \ {"parent"} : before[f] # after[f]}

\* before_diff and after_diff: the audited columns that changed.
Difference(i, before, after) == {f \in AUDITED_FIELDS(i) : before[f] # after[f]}

\* The audit entry of a write that leaves r. An account's lists only columns
\* the request named.
EntryOf(t, r) ==
    LET i       == t.id
        changed == IF i \in Accounts THEN Difference(i, t.copy, r) \cap DOMAIN t.change
                   ELSE Difference(i, t.copy, r)
        current == t.op = "create" \/ t.copy = row[i]
    IN  CASE t.op = "create" -> Entry("created", Empty, Restrict(r, AUDITED_FIELDS(i)), TRUE)
          [] t.op = "patch"  -> Entry("updated", Restrict(t.copy, changed), Restrict(r, changed),
                                      current /\ (i \in Accounts => t.again = row[i]))
          [] t.op = "remove" -> Entry("deleted", Restrict(t.copy, AUDITED_FIELDS(i)), Empty, current)

\* save(): every column, from the copy the request has. Archiving writes
\* archived_at only, to whatever the row has become.
Written(t) ==
    CASE t.op = "remove" -> [row[t.id] EXCEPT !.archived = TRUE]
      [] t.op # "remove" /\ t.id \in Accounts /\ t.op = "patch" -> Over(t.change, t.again)
      [] OTHER -> Over(t.change, t.copy)

\* The transaction: the save and its audit entry, or an IntegrityError.
Save(e) ==
    LET t == task[e]
        store == [row EXCEPT ![t.id] = Written(t)]
        disturbed(x) == [x EXCEPT !.quiet = FALSE]
    IN  /\ t.pc = "checked"
        /\ \/ /\ UniqueLive(store)
              /\ row' = store
              /\ trail' = [trail EXCEPT ![t.id] = Append(@, EntryOf(t, store[t.id]))]
              /\ task' = [d \in Editors |-> IF d = e THEN Idle
                                            ELSE IF task[d].pc \in {"idle", "failed"} THEN task[d]
                                            ELSE disturbed(task[d])]
           \/ /\ ~UniqueLive(store)
              /\ Step(e, [t EXCEPT !.pc = "failed"])
              /\ UNCHANGED <<row, trail>>
        /\ UNCHANGED requests

\* The response of a failed request; or the process dies, before its commit.
End(e) ==
    /\ task[e] # Idle
    /\ Step(e, Idle)
    /\ UNCHANGED <<row, trail, requests>>

Next == \E e \in Editors :
           \/ \E i \in Ids : \/ \E change \in NewRow(i) : Post(e, i, change)
                             \/ \E change \in Changes(i) : Patch(e, i, change)
                             \/ Delete(e, i)
           \/ Reread(e) \/ ReadParent(e) \/ Check(e) \/ Save(e) \/ End(e)

Spec == Init /\ [][Next]_vars
-----------------------------------------------------------------------------
\* Whatever overlaps, a customer never has two live policies of a type.
TypeOK ==
    /\ row \in [Ids -> Row \cup {Nothing}]
    /\ \A c \in Customers, k \in Types :
          Cardinality({p \in Policies : /\ Live(row, p)
                                        /\ row[p].parent = c /\ row[p].type = k}) <= 1
    /\ \A i \in Ids : Exists(row, i) <=> trail[i] # <<>>
    /\ \A e \in Editors :
          /\ task[e].pc \in {"idle", "counted", "got", "named", "checked", "failed"}
          /\ task[e] # Idle => task[e].id \in Ids
    /\ requests \in 0..MaxRequests

\* Whether an entry of the log says what column f became, and what.
Says(x, f) == f \in DOMAIN x.after \/ (x.action = "deleted" /\ f = "archived")
Said(x, f) == IF x.action = "deleted" THEN TRUE ELSE x.after[f]

\* What the first n entries of a row's trail say it is: each column as the last
\* entry about it has it.
Replay(t, n) ==
    LET about(f) == {m \in 1..n : Says(t[m], f)}
    IN  [f \in {"parent", "type", "value", "archived"} |->
           IF about(f) # {} THEN Said(t[Max(about(f))], f)
           ELSE IF f = "archived" THEN FALSE ELSE Nothing]

\* The audit log of a row tells what it is, and each entry's before image is
\* what the entries before it tell, unless a PATCH saved a copy that was no
\* longer the row: only then is a write lost or a removal undone with no entry
\* saying so ("records only the fields that actually changed", FR-028, FR-029,
\* FR-033; update and destroy of the views).
AuditTellsRow ==
    \A i \in Ids :
       LET t == trail[i]
           current(n) == \A m \in 1..n : t[m].current
       IN  Exists(row, i) =>
             /\ (\A n \in 1..Len(t) : t[n].action = "updated" => t[n].current)
                  => row[i] = Replay(t, Len(t))
             /\ \A n \in 1..Len(t) :
                   current(n) => \A f \in DOMAIN t[n].before :
                                    t[n].before[f] = Replay(t, n - 1)[f]

\* A request fails on the database's constraint only if another one committed
\* since it read: validate() asks the very question the unique index answers,
\* for creates, for moves and for changes of type alike (PolicySerializer).
ErrorsAreOverlaps == \A e \in Editors : task[e].pc = "failed" => ~task[e].quiet

\* Whether a commit is the save of a row by a request that another overlapped.
Overlapped(i) == \E e \in Editors : /\ task[e].pc = "checked" /\ task'[e] = Idle
                                     /\ task[e].id = i /\ ~task[e].quiet

\* No policy or claim comes under a removed parent, by creation, by a move or
\* by an old copy, except through such an overlap ("has been archived and
\* cannot take new policies", ArchivedAwarePrimaryKeyRelatedField).
ArchivedTakesNothing ==
    [][\A i \in Policies \cup Claims :
          \/ row'[i] = row[i]
          \/ Exists(row, i) /\ row'[i].parent = row[i].parent
          \/ Live(row, row'[i].parent)
          \/ Overlapped(i)]_vars

\* A removed row changes only through such an overlap, by a PATCH that read it
\* before: it is out of reach of every request that starts afterwards, whatever
\* the request is about (the default managers, get_object).
RemovalStands ==
    [][\A i \in Ids \ Accounts :
          Exists(row, i) /\ row[i].archived /\ row'[i] # row[i] => Overlapped(i)]_vars
=============================================================================
