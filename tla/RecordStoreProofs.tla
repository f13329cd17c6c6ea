-------------------------- MODULE RecordStoreProofs --------------------------
(***************************************************************************)
(* What overlapping requests may and may not do to the records, for any    *)
(* number of rows, values and requests. The invariant says of a request    *)
(* that no other has overlapped what its copy and its checks still tell    *)
(* of the tables; whatever a request does wrong it does overlapped. Of the *)
(* audit log it says that replaying the entries of a row gives the row.    *)
(***************************************************************************)
EXTENDS RecordStore, FiniteSetTheorems, WellFoundedInduction, TLAPS

Columns == {"parent", "type", "value", "archived"}

\* A row before its first save.
Template == [parent |-> Nothing, type |-> Nothing, value |-> Nothing, archived |-> FALSE]

\* A request sets columns that exist to values they can have.
ChangeTyped(c) ==
    /\ DOMAIN c \subseteq Columns
    /\ \A f \in DOMAIN c : c[f] \in Column(f) \/ (f = "parent" /\ c[f] \in Policies)

\* A task is a record with these fields, or with these and a second copy.
Shape(t) ==
    \/ t = [pc |-> t.pc, op |-> t.op, id |-> t.id, copy |-> t.copy,
            change |-> t.change, quiet |-> t.quiet]
    \/ t = [pc |-> t.pc, op |-> t.op, id |-> t.id, copy |-> t.copy,
            change |-> t.change, quiet |-> t.quiet, again |-> t.again]

\* A request that has been received; store is the tables.
TaskTyped(store, t) ==
    /\ Shape(t) /\ t.id \in Ids /\ t.quiet \in BOOLEAN
    /\ t.pc \in {"counted", "got", "named", "checked", "failed"}
    /\ t.op \in {"create", "patch", "remove"}
    /\ ChangeTyped(t.change)
    /\ t.pc = "counted" => t.op = "patch" /\ t.id \in Accounts
    /\ t.pc \in {"got", "named"} => t.op = "create" \/ t.id \notin Accounts
    /\ t.op = "create" => /\ t.copy = Template /\ "value" \in DOMAIN t.change
                          /\ t.id \in Policies \cup Claims => "parent" \in DOMAIN t.change
    /\ t.op # "create" => t.copy \in Row /\ Exists(store, t.id)
    /\ t.op = "remove" => t.id \notin Accounts
    /\ t.op = "patch" /\ t.id \in Accounts /\ t.pc = "checked" =>
         "again" \in DOMAIN t /\ t.again \in Row

\* What a request no other has overlapped knows of the tables: its copy is the
\* row, which is live, or the row is not there yet, and the answers of its
\* checks are still the right ones.
Knows(store, t) ==
    /\ t.pc # "failed"
    /\ t.op = "create" => ~Exists(store, t.id)
    /\ t.op # "create" /\ t.id \notin Accounts => Live(store, t.id) /\ t.copy = store[t.id]
    /\ t.pc \in {"named", "checked"} /\ t.op # "remove" /\ t.id \notin Accounts =>
         ("parent" \in DOMAIN t.change => Live(store, t.change.parent))
    /\ t.pc = "checked" /\ t.op # "remove" /\ t.id \notin Accounts =>
         /\ t.id \in Policies =>
              \A q \in Policies \ {t.id} :
                 ~(/\ Live(store, q)
                   /\ store[q].parent = Over(t.change, t.copy).parent
                   /\ store[q].type = Over(t.change, t.copy).type)

TaskInv(store, t) == t = Idle \/ (TaskTyped(store, t) /\ (t.quiet => Knows(store, t)))

\* The log of a row is a sequence, and begins with the row.
TrailInv ==
    /\ trail = [i \in Ids |-> trail[i]]
    /\ \A i \in Ids : /\ \E S : trail[i] \in Seq(S)
                      /\ Exists(row, i) <=> trail[i] # <<>>

RowInv == row \in [Ids -> Row \cup {Nothing}] /\ UniqueLive(row)

TasksInv == /\ task = [e \in Editors |-> task[e]]
            /\ \A e \in Editors : TaskInv(row, task[e])

\* The inductive invariant.
Inv == RowInv /\ TrailInv /\ TasksInv /\ requests \in 0..MaxRequests
-----------------------------------------------------------------------------
\* The columns of a row with some replaced (Over).
LEMMA OverFields ==
    ASSUME NEW c, NEW r \in Row \cup {Template}
    PROVE  /\ DOMAIN Over(c, r) = Columns
           /\ Over(c, r) = [parent   |-> IF "parent" \in DOMAIN c THEN c["parent"] ELSE r.parent,
                            type     |-> IF "type" \in DOMAIN c THEN c["type"] ELSE r.type,
                            value    |-> IF "value" \in DOMAIN c THEN c["value"] ELSE r.value,
                            archived |-> IF "archived" \in DOMAIN c THEN c["archived"] ELSE r.archived]
<1>1. DOMAIN r = Columns
  BY DEF Row, Template, Columns
<1>. QED
  BY <1>1 DEF Over, Columns

\* A change of a row is a row, and so is a new row whose value is set (Over).
LEMMA OverIsRow ==
    ASSUME NEW c, ChangeTyped(c),
           NEW r, r \in Row \/ (r = Template /\ "value" \in DOMAIN c)
    PROVE  Over(c, r) \in Row
<1>1. /\ "parent" \in DOMAIN c => c["parent"] \in Customers \cup Policies
      /\ "type" \in DOMAIN c => c["type"] \in Types
      /\ "value" \in DOMAIN c => c["value"] \in Values
      /\ "archived" \in DOMAIN c => c["archived"] \in BOOLEAN
  BY DEF ChangeTyped, Column
<1>2. /\ r.parent \in Customers \cup Policies \cup {Nothing}
      /\ r.type \in Types \cup {Nothing}
      /\ r.archived \in BOOLEAN
      /\ "value" \notin DOMAIN c => r.value \in Values
  <2>1. CASE r \in Row
    BY <2>1 DEF Row
  <2>2. CASE r = Template /\ "value" \in DOMAIN c
    BY <2>2 DEF Template
  <2>. QED
    BY <2>1, <2>2
<1>3. /\ (IF "parent" \in DOMAIN c THEN c["parent"] ELSE r.parent)
           \in Customers \cup Policies \cup {Nothing}
      /\ (IF "type" \in DOMAIN c THEN c["type"] ELSE r.type) \in Types \cup {Nothing}
      /\ (IF "value" \in DOMAIN c THEN c["value"] ELSE r.value) \in Values
      /\ (IF "archived" \in DOMAIN c THEN c["archived"] ELSE r.archived) \in BOOLEAN
  BY <1>1, <1>2
<1>4. Over(c, r) = [parent   |-> IF "parent" \in DOMAIN c THEN c["parent"] ELSE r.parent,
                    type     |-> IF "type" \in DOMAIN c THEN c["type"] ELSE r.type,
                    value    |-> IF "value" \in DOMAIN c THEN c["value"] ELSE r.value,
                    archived |-> IF "archived" \in DOMAIN c THEN c["archived"] ELSE r.archived]
  BY OverFields
<1>. QED
  BY <1>3, <1>4 DEF Row

-----------------------------------------------------------------------------
\* The columns of a new row exist, and those it needs are set (NewRow).
LEMMA NewRowTyped ==
    ASSUME NEW i \in Ids, NEW change \in NewRow(i)
    PROVE  /\ ChangeTyped(change) /\ "value" \in DOMAIN change
           /\ i \in Policies \cup Claims => "parent" \in DOMAIN change
<1>1. CASE i \in Customers
  <2>1. change \in [value : Values]
    BY <1>1, KeysAssumption DEF NewRow
  <2>. QED
    BY <1>1, <2>1, KeysAssumption DEF ChangeTyped, Columns, Column
<1>2. CASE i \in Policies
  <2>1. change \in [parent : Customers, type : Types, value : Values]
    BY <1>2, KeysAssumption DEF NewRow
  <2>. QED
    BY <2>1 DEF ChangeTyped, Columns, Column
<1>3. CASE i \in Claims
  <2>1. change \in [parent : Policies, value : Values]
    BY <1>3, KeysAssumption DEF NewRow
  <2>. QED
    BY <2>1 DEF ChangeTyped, Columns, Column
<1>4. CASE i \in Accounts
  <2>1. change \in [value : Values]
    BY <1>4, KeysAssumption DEF NewRow
  <2>. QED
    BY <1>4, <2>1, KeysAssumption DEF ChangeTyped, Columns, Column
<1>. QED
  BY <1>1, <1>2, <1>3, <1>4 DEF Ids

\* The same of the columns a PATCH may name (Changes).
LEMMA ChangesTyped ==
    ASSUME NEW i \in Ids, NEW change \in Changes(i)
    PROVE  ChangeTyped(change)
<1>1. PICK f \in Writable(i) : \E v \in Column(f) : change = [g \in {f} |-> v]
  BY DEF Changes
<1>2. f \in Columns
  BY DEF Writable, Columns
<1>. QED
  BY <1>1, <1>2 DEF ChangeTyped

\* A step of one request that writes nothing.
LEMMA OneTask ==
    ASSUME RowInv, TrailInv, TasksInv, NEW e \in Editors, NEW t, TaskInv(row, t),
           task' = [task EXCEPT ![e] = t], UNCHANGED <<row, trail>>
    PROVE  RowInv' /\ TrailInv' /\ TasksInv'
<1>1. RowInv' /\ TrailInv'
  BY DEF RowInv, TrailInv
<1>2. task' = [d \in Editors |-> task'[d]]
  BY DEF TasksInv
<1>3. \A d \in Editors : task'[d] = IF d = e THEN t ELSE task[d]
  BY DEF TasksInv
<1>4. \A d \in Editors : TaskInv(row, task'[d])
  BY <1>3 DEF TasksInv
<1>. QED
  BY <1>1, <1>2, <1>4 DEF TasksInv

\* A request that has been received (Receive).
LEMMA ReceiveTask ==
    ASSUME Inv, NEW e \in Editors, NEW t, TaskInv(row, t), Receive(e, t)
    PROVE  Inv'
<1>1. RowInv' /\ TrailInv' /\ TasksInv'
  BY OneTask DEF Inv, Receive
<1>2. requests' \in 0..MaxRequests
  BY BoundAssumption DEF Inv, Receive
<1>. QED
  BY <1>1, <1>2 DEF Inv

\* A request that has been received and read its row (Post, Patch, Delete).
LEMMA ReceiveStep ==
    ASSUME Inv, NEW e \in Editors, NEW i \in Ids,
           \/ \E change \in NewRow(i) : Post(e, i, change)
           \/ \E change \in Changes(i) : Patch(e, i, change)
           \/ Delete(e, i)
    PROVE  Inv'
<1>1. CASE \E change \in NewRow(i) : Post(e, i, change)
  <2>1. PICK change \in NewRow(i) : Post(e, i, change)
    BY <1>1
  <2> DEFINE t == [pc |-> "got", op |-> "create", id |-> i, copy |-> Template,
                   change |-> change, quiet |-> TRUE]
  <2>2. Receive(e, t) /\ ~Exists(row, i)
    BY <2>1 DEF Post, Task, Template
  <2>3. TaskTyped(row, t)
    BY NewRowTyped DEF TaskTyped, Shape
  <2>4. Knows(row, t)
    BY <2>2 DEF Knows
  <2>5. TaskInv(row, t)
    BY <2>3, <2>4 DEF TaskInv
  <2> HIDE DEF t
  <2>. QED
    BY <2>2, <2>5, ReceiveTask
<1>2. CASE \E change \in Changes(i) : Patch(e, i, change)
  <2>1. PICK change \in Changes(i) : Patch(e, i, change)
    BY <1>2
  <2> DEFINE pc == IF i \in Accounts THEN "counted" ELSE "got"
             t == [pc |-> pc, op |-> "patch", id |-> i, copy |-> row[i],
                   change |-> change, quiet |-> TRUE]
  <2>2. /\ Receive(e, t) /\ Exists(row, i)
        /\ i \notin Accounts => Live(row, i)
    BY <2>1 DEF Patch, Task, Live
  <2>3. row[i] \in Row
    BY <2>2 DEF Inv, RowInv, Exists
  <2>4. TaskTyped(row, t)
    BY <2>2, <2>3, ChangesTyped DEF TaskTyped, Shape
  <2>5. Knows(row, t)
    BY <2>2 DEF Knows
  <2>6. TaskInv(row, t)
    BY <2>4, <2>5 DEF TaskInv
  <2> HIDE DEF t
  <2>. QED
    BY <2>2, <2>6, ReceiveTask
<1>3. CASE Delete(e, i)
  <2> DEFINE t == [pc |-> "checked", op |-> "remove", id |-> i, copy |-> row[i],
                   change |-> Empty, quiet |-> TRUE]
  <2>1. Receive(e, t) /\ Live(row, i) /\ i \notin Accounts
    BY <1>3 DEF Delete, Task
  <2>2. row[i] \in Row /\ Exists(row, i)
    BY <2>1 DEF Inv, RowInv, Exists, Live
  <2>3. TaskTyped(row, t)
    BY <2>1, <2>2 DEF TaskTyped, Shape, ChangeTyped, Empty
  <2>4. Knows(row, t)
    BY <2>1 DEF Knows
  <2>5. TaskInv(row, t)
    BY <2>3, <2>4 DEF TaskInv
  <2> HIDE DEF t
  <2>. QED
    BY <2>1, <2>5, ReceiveTask
<1>. QED
  BY <1>1, <1>2, <1>3

\* A request that reads its account again, or answers (Reread, End).
LEMMA ReadStep ==
    ASSUME Inv, NEW e \in Editors, Reread(e) \/ End(e)
    PROVE  Inv'
<1>1. CASE Reread(e)
  <2> DEFINE o == task[e]
             t == [pc |-> "checked", op |-> "patch", id |-> o.id, copy |-> o.copy,
                   change |-> o.change, quiet |-> o.quiet, again |-> row[o.id]]
  <2>1. o.pc = "counted" /\ task' = [task EXCEPT ![e] = t] /\ UNCHANGED <<row, trail, requests>>
    BY <1>1 DEF Reread, Step
  <2>2. TaskTyped(row, o)
    BY <2>1 DEF Inv, TasksInv, TaskInv, Idle
  <2>3. o.op = "patch" /\ o.id \in Accounts /\ row[o.id] \in Row
    BY <2>1, <2>2 DEF TaskTyped, Inv, RowInv, Exists
  <2>4. TaskTyped(row, t)
    BY <2>2, <2>3 DEF TaskTyped, Shape
  <2>5. Knows(row, t)
    BY <2>3 DEF Knows
  <2>6. TaskInv(row, t)
    BY <2>4, <2>5 DEF TaskInv
  <2> HIDE DEF t, o
  <2>. QED
    BY <2>1, <2>6, OneTask DEF Inv
<1>2. CASE End(e)
  <2>1. task' = [task EXCEPT ![e] = Idle] /\ UNCHANGED <<row, trail, requests>>
    BY <1>2 DEF End, Step
  <2>2. TaskInv(row, Idle)
    BY DEF TaskInv
  <2>. QED
    BY <2>1, <2>2, OneTask DEF Inv
<1>. QED
  BY <1>1, <1>2

\* A request whose parent is looked up (ReadParent).
LEMMA ReadParentStep ==
    ASSUME Inv, NEW e \in Editors, ReadParent(e)
    PROVE  Inv'
<1> DEFINE o == task[e]
           pc == IF o.id \in Policies THEN "named" ELSE "checked"
           t == [o EXCEPT !.pc = pc]
<1>1. /\ o.pc = "got" /\ UNCHANGED <<row, trail, requests>>
      /\ \/ task' = [task EXCEPT ![e] = Idle]
         \/ task' = [task EXCEPT ![e] = t] /\ Nameable(o)
  BY DEF ReadParent, Step
<1>2. TaskTyped(row, o) /\ (o.quiet => Knows(row, o))
  BY <1>1 DEF Inv, TasksInv, TaskInv, Idle
<1>3. /\ Shape(t) /\ t.pc = pc /\ t.op = o.op /\ t.id = o.id /\ t.copy = o.copy
      /\ t.change = o.change /\ t.quiet = o.quiet
  BY <1>2 DEF TaskTyped, Shape
<1> HIDE DEF t, o
<1>4. TaskTyped(row, t)
  BY <1>1, <1>2, <1>3 DEF TaskTyped
<1>5. ASSUME Nameable(o), o.quiet
      PROVE  Knows(row, t)
  <2>1. "parent" \in DOMAIN o.change => Live(row, o.change.parent)
    BY <1>5 DEF Nameable
  <2>. QED
    BY <1>2, <1>3, <1>5, <2>1 DEF Knows
<1>6. TaskInv(row, Idle)
  BY DEF TaskInv
<1>7. Nameable(o) => TaskInv(row, t)
  BY <1>3, <1>4, <1>5 DEF TaskInv
<1>. QED
  BY <1>1, <1>6, <1>7, OneTask DEF Inv

\* A policy that is compared with the customer's others (Check).
LEMMA CheckStep ==
    ASSUME Inv, NEW e \in Editors, Check(e)
    PROVE  Inv'
<1> DEFINE o == task[e]
           t == [o EXCEPT !.pc = "checked"]
<1>1. /\ o.pc = "named" /\ UNCHANGED <<row, trail, requests>>
      /\ \/ task' = [task EXCEPT ![e] = Idle]
         \/ task' = [task EXCEPT ![e] = t] /\ Clashes(o) = {}
  BY DEF Check, Step
<1>2. TaskTyped(row, o) /\ (o.quiet => Knows(row, o))
  BY <1>1 DEF Inv, TasksInv, TaskInv, Idle
<1>3. /\ Shape(t) /\ t.pc = "checked" /\ t.op = o.op /\ t.id = o.id /\ t.copy = o.copy
      /\ t.change = o.change /\ t.quiet = o.quiet
  BY <1>2 DEF TaskTyped, Shape
<1> HIDE DEF t, o
<1>4. TaskTyped(row, t)
  BY <1>1, <1>2, <1>3 DEF TaskTyped
<1>5. ASSUME Clashes(o) = {}, o.quiet
      PROVE  Knows(row, t)
  <2>1. \A q \in Policies \ {o.id} :
           ~(/\ Live(row, q)
             /\ row[q].parent = Over(o.change, o.copy).parent
             /\ row[q].type = Over(o.change, o.copy).type)
    BY <1>5 DEF Clashes
  <2>. QED
    BY <1>1, <1>2, <1>3, <1>5, <2>1 DEF Knows
<1>6. TaskInv(row, Idle)
  BY DEF TaskInv
<1>7. Clashes(o) = {} => TaskInv(row, t)
  BY <1>3, <1>4, <1>5 DEF TaskInv
<1>. QED
  BY <1>1, <1>6, <1>7, OneTask DEF Inv

-----------------------------------------------------------------------------
\* What is saved is a row (Written).
LEMMA WrittenIsRow ==
    ASSUME RowInv, NEW t, TaskTyped(row, t), t.pc = "checked"
    PROVE  Written(t) \in Row
<1>1. CASE t.op = "remove"
  <2>1. row[t.id] \in Row
    BY <1>1 DEF RowInv, TaskTyped, Exists
  <2>2. Written(t) = [row[t.id] EXCEPT !.archived = TRUE]
    BY <1>1 DEF Written
  <2>. QED
    BY <2>1, <2>2 DEF Row
<1>2. CASE t.op = "patch" /\ t.id \in Accounts
  <2>1. Written(t) = Over(t.change, t.again)
    BY <1>2 DEF Written
  <2>2. t.again \in Row /\ ChangeTyped(t.change)
    BY <1>2 DEF TaskTyped
  <2>. QED
    BY <2>1, <2>2, OverIsRow
<1>3. CASE t.op # "remove" /\ ~(t.op = "patch" /\ t.id \in Accounts)
  <2>1. Written(t) = Over(t.change, t.copy)
    BY <1>3 DEF Written
  <2>2. ChangeTyped(t.change)
        /\ (t.copy \in Row \/ (t.copy = Template /\ "value" \in DOMAIN t.change))
    BY DEF TaskTyped
  <2>. QED
    BY <2>1, <2>2, OverIsRow
<1>. QED
  BY <1>1, <1>2, <1>3

\* The save of a request that no other overlapped breaks no constraint
\* (UniqueLive): what its checks found is still so.
LEMMA WrittenIsUnique ==
    ASSUME RowInv, NEW t, TaskTyped(row, t), t.pc = "checked", Knows(row, t)
    PROVE  UniqueLive([row EXCEPT ![t.id] = Written(t)])
<1> DEFINE store == [row EXCEPT ![t.id] = Written(t)]
<1> SUFFICES ASSUME NEW p \in Policies, NEW q \in Policies, SameSlot(store, p, q)
             PROVE  p = q
  BY DEF UniqueLive
<1>1. \A i \in Ids : store[i] = IF i = t.id THEN Written(t) ELSE row[i]
  BY DEF RowInv
<1>2. p \in Ids /\ q \in Ids
  BY DEF Ids
<1>3. SameSlot(row, p, q) => p = q
  BY DEF RowInv, UniqueLive
<1> HIDE DEF store
<1>4. CASE p # t.id /\ q # t.id
  BY <1>1, <1>2, <1>3, <1>4 DEF SameSlot, Live, Exists
<1>5. CASE p = t.id \/ q = t.id
  <2>1. t.id \in Policies /\ t.id \notin Accounts
    BY <1>5, KeysAssumption
  <2>2. CASE t.op = "remove"
    <3>1. store[t.id] = [row[t.id] EXCEPT !.archived = TRUE] /\ row[t.id] \in Row
      BY <1>1, <1>2, <1>5, <2>2 DEF Written, TaskTyped, RowInv, Exists
    <3>2. store[t.id].archived = TRUE
      BY <3>1 DEF Row
    <3>. QED
      BY <1>5, <3>2 DEF SameSlot, Live
  <2>3. CASE t.op # "remove"
    <3>1. store[t.id] = Over(t.change, t.copy)
      BY <1>1, <1>2, <1>5, <2>1, <2>3 DEF Written
    <3>2. \A x \in Policies \ {t.id} :
             ~(/\ Live(row, x)
               /\ row[x].parent = Over(t.change, t.copy).parent
               /\ row[x].type = Over(t.change, t.copy).type)
      BY <2>1, <2>3 DEF Knows
    <3>3. \A x \in Policies \ {t.id} : ~SameSlot(store, x, t.id) /\ ~SameSlot(store, t.id, x)
      <4> TAKE x \in Policies \ {t.id}
      <4>1. store[x] = row[x]
        BY <1>1 DEF Ids
      <4>. QED
        BY <3>1, <3>2, <4>1 DEF SameSlot, Live, Exists
    <3>. QED
      BY <1>5, <3>3
  <2>. QED
    BY <2>2, <2>3
<1>. QED
  BY <1>4, <1>5

\* A task with its quiet replaced (Save).
LEMMA QuietSet ==
    ASSUME NEW t, Shape(t), NEW v
    PROVE  LET d == [t EXCEPT !.quiet = v]
           IN  /\ Shape(d) /\ d.pc = t.pc /\ d.op = t.op /\ d.id = t.id /\ d.copy = t.copy
               /\ d.change = t.change /\ d.quiet = v
               /\ "again" \in DOMAIN t => "again" \in DOMAIN d /\ d.again = t.again
<1> DEFINE d == [t EXCEPT !.quiet = v]
<1>1. CASE t = [pc |-> t.pc, op |-> t.op, id |-> t.id, copy |-> t.copy,
                change |-> t.change, quiet |-> t.quiet]
  <2>1. PICK pc, op, id, copy, change, quiet :
          t = [pc |-> pc, op |-> op, id |-> id, copy |-> copy,
               change |-> change, quiet |-> quiet]
    BY <1>1
  <2>2. d = [pc |-> pc, op |-> op, id |-> id, copy |-> copy,
             change |-> change, quiet |-> v]
    BY <2>1
  <2>. QED
    BY <2>1, <2>2 DEF Shape
<1>2. CASE t = [pc |-> t.pc, op |-> t.op, id |-> t.id, copy |-> t.copy,
                change |-> t.change, quiet |-> t.quiet, again |-> t.again]
  <2>1. PICK pc, op, id, copy, change, quiet, again :
          t = [pc |-> pc, op |-> op, id |-> id, copy |-> copy,
               change |-> change, quiet |-> quiet, again |-> again]
    BY <1>2
  <2>2. d = [pc |-> pc, op |-> op, id |-> id, copy |-> copy,
             change |-> change, quiet |-> v, again |-> again]
    BY <2>1
  <2>. QED
    BY <2>1, <2>2 DEF Shape
<1>. QED
  BY <1>1, <1>2 DEF Shape

\* Another request commits: what a request has read may be of the past (Save).
LEMMA DisturbedTask ==
    ASSUME NEW s, NEW z, \A i \in Ids : Exists(s, i) => Exists(z, i),
           NEW t, TaskTyped(s, t), NEW off, off = FALSE
    PROVE  TaskInv(z, [t EXCEPT !.quiet = off])
<1> DEFINE d == [t EXCEPT !.quiet = off]
<1>1. /\ Shape(d) /\ d.pc = t.pc /\ d.op = t.op /\ d.id = t.id /\ d.copy = t.copy
      /\ d.change = t.change /\ d.quiet = off
      /\ "again" \in DOMAIN t => "again" \in DOMAIN d /\ d.again = t.again
  BY QuietSet DEF TaskTyped
<1> HIDE DEF d
<1>2. TaskTyped(z, d)
  BY <1>1 DEF TaskTyped
<1>. QED
  BY <1>1, <1>2 DEF TaskInv, d

\* A request that commits, or fails on the constraint (Save).
LEMMA SaveStep ==
    ASSUME Inv, NEW e \in Editors, Save(e)
    PROVE  Inv'
<1> DEFINE t == task[e]
           store == [row EXCEPT ![t.id] = Written(t)]
<1>1. t.pc = "checked" /\ requests' = requests
  BY DEF Save
<1>2. TaskTyped(row, t) /\ (t.quiet => Knows(row, t)) /\ t.id \in Ids
  BY <1>1 DEF Inv, TasksInv, TaskInv, Idle, TaskTyped
<1>3. Written(t) \in Row
  BY <1>1, <1>2, WrittenIsRow DEF Inv
<1>4. CASE UniqueLive(store) /\ row' = store
           /\ trail' = [trail EXCEPT ![t.id] = Append(@, EntryOf(t, store[t.id]))]
           /\ task' = [d \in Editors |-> IF d = e THEN Idle
                                         ELSE IF task[d].pc \in {"idle", "failed"} THEN task[d]
                                         ELSE [task[d] EXCEPT !.quiet = FALSE]]
  <2>1. \A i \in Ids : row'[i] = IF i = t.id THEN Written(t) ELSE row[i]
    BY <1>4 DEF Inv, RowInv
  <2>2. RowInv'
    BY <1>2, <1>3, <1>4 DEF Inv, RowInv
  <2>3. Exists(row', t.id) /\ \A i \in Ids : Exists(row, i) => Exists(row', i)
    BY <1>2, <1>3, <2>1, StoresAssumption DEF Exists
  <2>4. TrailInv'
    <3>1. trail' = [i \in Ids |-> trail'[i]]
      <4> DEFINE log == Append(trail[t.id], EntryOf(t, store[t.id]))
      <4>1. trail' = [trail EXCEPT ![t.id] = log] /\ trail = [i \in Ids |-> trail[i]]
        BY <1>4 DEF Inv, TrailInv
      <4> HIDE DEF log, t
      <4>. QED
        BY <4>1
    <3>2. \A i \in Ids \ {t.id} : trail'[i] = trail[i] /\ row'[i] = row[i]
      BY <1>4, <2>1 DEF Inv, TrailInv
    <3>3. PICK S : trail[t.id] \in Seq(S)
      BY <1>2 DEF Inv, TrailInv
    <3> DEFINE entry == EntryOf(t, store[t.id])
    <3>4. trail'[t.id] = Append(trail[t.id], entry)
      BY <1>2, <1>4 DEF Inv, TrailInv
    <3> HIDE DEF entry
    <3>5. trail[t.id] \in Seq(S \cup {entry})
      BY <3>3
    <3>6. trail'[t.id] \in Seq(S \cup {entry}) /\ trail'[t.id] # <<>>
      BY <3>4, <3>5
    <3>. QED
      BY <2>3, <3>1, <3>2, <3>6 DEF Inv, TrailInv, Exists
  <2>5. ASSUME NEW d \in Editors PROVE TaskInv(row', task'[d])
    <3>1. CASE d = e
      BY <1>4, <3>1 DEF TaskInv
    <3>2. CASE d # e /\ task[d].pc \in {"idle", "failed"}
      <4>1. task'[d] = task[d]
        BY <1>4, <3>2
      <4>2. task[d] = Idle \/ (TaskTyped(row, task[d]) /\ (task[d].quiet => Knows(row, task[d])))
        BY DEF Inv, TasksInv, TaskInv
      <4>3. TaskTyped(row, task[d]) => TaskTyped(row', task[d])
        BY <2>3 DEF TaskTyped
      <4>4. TaskTyped(row, task[d]) => ~task[d].quiet
        BY <3>2, <4>2 DEF TaskTyped, Knows, Idle
      <4>. QED
        BY <4>1, <4>2, <4>3, <4>4 DEF TaskInv
    <3>3. CASE d # e /\ task[d].pc \notin {"idle", "failed"}
      <4>1. PICK off : off = FALSE /\ task'[d] = [task[d] EXCEPT !.quiet = off]
        BY <1>4, <3>3
      <4>2. TaskTyped(row, task[d])
        BY <3>3 DEF Inv, TasksInv, TaskInv, Idle
      <4>3. TaskInv(row', [task[d] EXCEPT !.quiet = off])
        BY <2>3, <4>1, <4>2, DisturbedTask
      <4>. QED
        BY <4>1, <4>3
    <3>. QED
      BY <3>1, <3>2, <3>3
  <2>6. task' = [d \in Editors |-> task'[d]]
    BY <1>4
  <2>. QED
    BY <1>1, <2>2, <2>4, <2>5, <2>6 DEF Inv, TasksInv
<1>5. CASE ~UniqueLive(store) /\ task' = [task EXCEPT ![e] = [t EXCEPT !.pc = "failed"]]
           /\ UNCHANGED <<row, trail>>
  <2> DEFINE f == [t EXCEPT !.pc = "failed"]
  <2>1. ~t.quiet
    BY <1>1, <1>2, <1>5, WrittenIsUnique DEF Inv
  <2>2. /\ Shape(f) /\ f.pc = "failed" /\ f.op = t.op /\ f.id = t.id /\ f.copy = t.copy
        /\ f.change = t.change /\ f.quiet = t.quiet
    BY <1>2 DEF TaskTyped, Shape
  <2> HIDE DEF f
  <2>3. TaskTyped(row, f)
    BY <1>2, <2>2 DEF TaskTyped
  <2>4. TaskInv(row, f)
    BY <2>1, <2>2, <2>3 DEF TaskInv
  <2>. QED
    BY <1>1, <1>5, <2>4, OneTask DEF Inv, f
<1>. QED
  BY <1>4, <1>5 DEF Save, Step

\* The first state (Init).
LEMMA InitInv == Init => Inv
<1> SUFFICES ASSUME Init PROVE Inv
  OBVIOUS
<1>1. RowInv
  BY StoresAssumption DEF Init, RowInv
<1>2. TrailInv
  <2>1. trail = [i \in Ids |-> trail[i]] /\ \A i \in Ids : trail[i] = FirstTrail(i, row[i])
    BY DEF Init
  <2>2. ASSUME NEW i \in Ids
        PROVE  /\ \E S : trail[i] \in Seq(S)
               /\ Exists(row, i) <=> trail[i] # <<>>
    <3> DEFINE first == Entry("created", Empty, Restrict(row[i], AUDITED_FIELDS(i)), TRUE)
               last  == Entry("deleted", Restrict(row[i], AUDITED_FIELDS(i)), Empty, TRUE)
    <3> HIDE DEF first, last
    <3>1. trail[i] = CASE row[i] = Nothing -> <<>>
                       [] row[i] # Nothing /\ (~row[i].archived \/ i \in Accounts) -> <<first>>
                       [] OTHER -> <<first, last>>
      BY <2>1 DEF FirstTrail, first, last
    <3>2. trail[i] \in {<<>>, <<first>>, <<first, last>>} /\ (row[i] = Nothing <=> trail[i] = <<>>)
      BY <3>1
    <3>3. <<>> \in Seq({first, last})
      OBVIOUS
    <3>4. <<first>> \in Seq({first, last})
      OBVIOUS
    <3>5. <<first, last>> \in Seq({first, last})
      OBVIOUS
    <3>. QED
      BY <3>2, <3>3, <3>4, <3>5 DEF Exists
  <2>. QED
    BY <2>1, <2>2 DEF TrailInv
<1>3. TasksInv
  BY DEF Init, TasksInv, TaskInv
<1>4. requests \in 0..MaxRequests
  BY BoundAssumption DEF Init
<1>. QED
  BY <1>1, <1>2, <1>3, <1>4 DEF Inv

\* Every step of every request (Next).
LEMMA NextInv == Inv /\ [Next]_vars => Inv'
<1> SUFFICES ASSUME Inv, [Next]_vars PROVE Inv'
  OBVIOUS
<1>1. ASSUME NEW e \in Editors, NEW i \in Ids,
             \/ \E change \in NewRow(i) : Post(e, i, change)
             \/ \E change \in Changes(i) : Patch(e, i, change)
             \/ Delete(e, i)
      PROVE  Inv'
  BY <1>1, ReceiveStep
<1>2. ASSUME NEW e \in Editors, Reread(e) \/ End(e) PROVE Inv'
  BY <1>2, ReadStep
<1>3. ASSUME NEW e \in Editors, ReadParent(e) \/ Check(e) PROVE Inv'
  BY <1>3, ReadParentStep, CheckStep
<1>4. ASSUME NEW e \in Editors, Save(e) PROVE Inv'
  BY <1>4, SaveStep
<1>5. CASE UNCHANGED vars
  BY <1>5 DEF vars, Inv, RowInv, TrailInv, TasksInv
<1>. QED
  BY <1>1, <1>2, <1>3, <1>4, <1>5 DEF Next

\* The invariant holds at all times (Spec).
LEMMA InvHolds == Spec => []Inv
  BY InitInv, NextInv, PTL DEF Spec

-----------------------------------------------------------------------------
\* Whatever overlaps, the tables keep their types, the log of a row begins with
\* the row, and a customer never has two live policies of a type (TypeOK; the
\* constraint policy_unique_live_type_per_customer).
THEOREM RecordTypes == Spec => []TypeOK
<1>1. Inv => TypeOK
  <2> SUFFICES ASSUME Inv PROVE TypeOK
    OBVIOUS
  <2>1. ASSUME NEW c \in Customers, NEW k \in Types
        PROVE  Cardinality({p \in Policies : /\ Live(row, p)
                                             /\ row[p].parent = c /\ row[p].type = k}) <= 1
    <3> DEFINE S == {p \in Policies : /\ Live(row, p)
                                      /\ row[p].parent = c /\ row[p].type = k}
    <3>1. \A p, q \in S : p = q
      BY DEF Inv, RowInv, UniqueLive, SameSlot
    <3> HIDE DEF S
    <3>2. S = {} => Cardinality(S) <= 1
      BY FS_EmptySet
    <3>3. ASSUME S # {} PROVE Cardinality(S) <= 1
      <4>1. PICK p : S = {p}
        BY <3>1, <3>3
      <4>2. Cardinality(S) = 1
        BY <4>1, FS_Singleton
      <4>. QED
        BY <4>2
    <3>4. Cardinality(S) <= 1
      BY <3>2, <3>3
    <3>. QED
      BY <3>4 DEF S
  <2>2. ASSUME NEW e \in Editors
        PROVE  /\ task[e].pc \in {"idle", "counted", "got", "named", "checked", "failed"}
               /\ task[e] # Idle => task[e].id \in Ids
    BY DEF Inv, TasksInv, TaskInv, TaskTyped, Idle
  <2>. QED
    BY <2>1, <2>2 DEF Inv, RowInv, TrailInv, TypeOK
<1>. QED
  BY <1>1, InvHolds, PTL

\* A request fails on the database's constraint only if another committed since
\* it read (ErrorsAreOverlaps; validate of PolicySerializer).
THEOREM ErrorsNeedOverlap == Spec => []ErrorsAreOverlaps
<1>1. Inv => ErrorsAreOverlaps
  BY DEF Inv, TasksInv, TaskInv, Knows, Idle, ErrorsAreOverlaps
<1>. QED
  BY <1>1, InvHolds, PTL

\* What a commit of an undisturbed request finds (Save).
LEMMA QuietSave ==
    ASSUME Inv, [Next]_vars, NEW i \in Ids, row'[i] # row[i], ~Overlapped(i)
    PROVE  \E e \in Editors :
             /\ task[e].pc = "checked" /\ task[e].id = i
             /\ TaskTyped(row, task[e]) /\ Knows(row, task[e])
             /\ row'[i] = Written(task[e])
<1>1. PICK e \in Editors : Save(e)
  <2>1. row' # row
    OBVIOUS
  <2>. QED
    BY <2>1 DEF Next, vars, Post, Patch, Delete, Receive, Reread, ReadParent, Check, End
<1> DEFINE t == task[e]
<1>2. t.pc = "checked"
  BY <1>1 DEF Save
<1>3. TaskTyped(row, t) /\ (t.quiet => Knows(row, t))
  BY <1>2 DEF Inv, TasksInv, TaskInv, Idle
<1>4. row' = [row EXCEPT ![t.id] = Written(t)] /\ task'[e] = Idle
  BY <1>1 DEF Save, Step
<1>5. t.id = i /\ row'[i] = Written(t)
  BY <1>4 DEF Inv, RowInv
<1>6. t.quiet
  BY <1>2, <1>3, <1>4, <1>5 DEF Overlapped, TaskTyped
<1>. QED
  BY <1>2, <1>3, <1>5, <1>6

\* No policy or claim comes under a removed parent except through a request that
\* another overlapped (ArchivedTakesNothing; ArchivedAwarePrimaryKeyRelatedField).
THEOREM ArchivedStaysEmpty == Spec => ArchivedTakesNothing
<1>1. Inv /\ [Next]_vars =>
        [\A i \in Policies \cup Claims :
            \/ row'[i] = row[i]
            \/ Exists(row, i) /\ row'[i].parent = row[i].parent
            \/ Live(row, row'[i].parent)
            \/ Overlapped(i)]_vars
  <2> SUFFICES ASSUME Inv, [Next]_vars, NEW i \in Policies \cup Claims,
                      row'[i] # row[i], ~Overlapped(i)
               PROVE  \/ Exists(row, i) /\ row'[i].parent = row[i].parent
                      \/ Live(row, row'[i].parent)
    OBVIOUS
  <2>1. i \in Ids /\ i \notin Accounts
    BY KeysAssumption DEF Ids
  <2>2. PICK e \in Editors :
          /\ task[e].pc = "checked" /\ task[e].id = i
          /\ TaskTyped(row, task[e]) /\ Knows(row, task[e])
          /\ row'[i] = Written(task[e])
    BY <2>1, QuietSave
  <2> DEFINE t == task[e]
  <2> HIDE DEF t
  <2>3. CASE t.op = "remove"
    <3>1. Exists(row, i) /\ row[i] \in Row /\ row'[i] = [row[i] EXCEPT !.archived = TRUE]
      BY <2>1, <2>2, <2>3 DEF t, TaskTyped, Written, Inv, RowInv, Exists
    <3>. QED
      BY <3>1 DEF Row
  <2>4. CASE t.op # "remove"
    <3>1. row'[i] = Over(t.change, t.copy)
      BY <2>1, <2>2, <2>4 DEF t, Written
    <3>2. row'[i].parent = IF "parent" \in DOMAIN t.change THEN t.change["parent"] ELSE t.copy.parent
      <4>1. t.copy \in Row \cup {Template}
        BY <2>2 DEF t, TaskTyped
      <4>. QED
        BY <3>1, <4>1, OverFields
    <3>3. CASE "parent" \in DOMAIN t.change
      BY <2>1, <2>2, <2>4, <3>2, <3>3 DEF t, Knows
    <3>4. CASE "parent" \notin DOMAIN t.change
      <4>1. t.op # "create"
        BY <2>2, <3>4 DEF t, TaskTyped
      <4>2. Exists(row, i) /\ t.copy = row[i]
        BY <2>1, <2>2, <4>1 DEF t, Knows, TaskTyped
      <4>. QED
        BY <3>2, <3>4, <4>2
    <3>. QED
      BY <3>3, <3>4
  <2>. QED
    BY <2>3, <2>4
<1>. QED
  BY <1>1, InvHolds, PTL DEF Spec, ArchivedTakesNothing

\* A removed row changes only through a request that another overlapped
\* (RemovalStands; get_object and the default managers).
THEOREM RemovedStaysPut == Spec => RemovalStands
<1>1. Inv /\ [Next]_vars =>
        [\A i \in Ids \ Accounts :
            Exists(row, i) /\ row[i].archived /\ row'[i] # row[i] => Overlapped(i)]_vars
  <2> SUFFICES ASSUME Inv, [Next]_vars, NEW i \in Ids \ Accounts, Exists(row, i),
                      row[i].archived, row'[i] # row[i], ~Overlapped(i)
               PROVE  FALSE
    OBVIOUS
  <2>1. PICK e \in Editors : task[e].id = i /\ Knows(row, task[e])
    BY QuietSave
  <2>. QED
    BY <2>1 DEF Knows, Live
<1>. QED
  BY <1>1, InvHolds, PTL DEF Spec, RemovalStands
-----------------------------------------------------------------------------
\* Of some entries of a log one is the last (Max).
LEMMA LastOfSome ==
    ASSUME NEW n \in Nat, NEW A \in SUBSET (1..n), A # {}
    PROVE  Max(A) \in A /\ \A m \in A : Max(A) >= m
<1> DEFINE After == {n - m : m \in A}
<1>1. After \subseteq Nat /\ After # {}
  <2>1. \A m \in A : n - m \in Nat
    OBVIOUS
  <2>. QED
    BY <2>1
<1>2. PICK k \in After : \A j \in After : ~(<<j, k>> \in OpToRel(<, Nat))
  BY <1>1, NatLessThanWellFounded, WFMin
<1>3. PICK a \in A : k = n - a
  OBVIOUS
<1>4. ASSUME NEW m \in A PROVE a >= m
  <2>1. n - m \in After /\ n - m \in Nat /\ k \in Nat
    BY <1>1
  <2>2. ~(n - m < k)
    BY <1>2, <2>1 DEF OpToRel
  <2>. QED
    BY <1>3, <2>2
<1>. QED
  BY <1>4 DEF Max

\* The entries that were there are where they were (Append).
LEMMA Appended ==
    ASSUME NEW S, NEW t \in Seq(S), NEW x
    PROVE  /\ Len(t) \in Nat /\ Len(Append(t, x)) = Len(t) + 1
           /\ Append(t, x)[Len(t) + 1] = x
           /\ \A m \in 1..Len(t) : Append(t, x)[m] = t[m]
<1>1. t \in Seq(S \cup {x}) /\ x \in S \cup {x}
  OBVIOUS
<1>. QED
  BY <1>1

\* What the last entry about a column says of it, if there is one (Replay).
LEMMA ReplayColumns ==
    ASSUME NEW t, NEW n, NEW f \in Columns
    PROVE  Replay(t, n)[f] =
             IF {m \in 1..n : Says(t[m], f)} # {}
             THEN Said(t[Max({m \in 1..n : Says(t[m], f)})], f)
             ELSE Template[f]
<1>1. Template[f] = IF f = "archived" THEN FALSE ELSE Nothing
  <2>1. /\ Template["parent"] = Nothing /\ Template["type"] = Nothing
        /\ Template["value"] = Nothing /\ Template["archived"] = FALSE
    BY DEF Template
  <2>2. f \in {"parent", "type", "value"} \/ f = "archived"
    BY DEF Columns
  <2>. QED
    BY <2>1, <2>2
<1> DEFINE about(g) == {m \in 1..n : Says(t[m], g)}
<1>2. Replay(t, n) = [g \in Columns |-> IF about(g) # {} THEN Said(t[Max(about(g))], g)
                                         ELSE IF g = "archived" THEN FALSE ELSE Nothing]
  BY DEF Replay, Columns
<1> HIDE DEF about
<1>3. Replay(t, n)[f] = IF about(f) # {} THEN Said(t[Max(about(f))], f) ELSE Template[f]
  BY <1>1, <1>2
<1>. QED
  BY <1>3 DEF about

\* What a log tells is a row (Replay).
LEMMA ReplayIsRow ==
    ASSUME NEW t, NEW n
    PROVE  Replay(t, n) = [f \in Columns |-> Replay(t, n)[f]]
BY DEF Replay, Columns

\* Entries say what they said before there was one more (Replay).
LEMMA ReplayBefore ==
    ASSUME NEW S, NEW t \in Seq(S), NEW x, NEW n \in 0..Len(t), NEW f \in Columns
    PROVE  Replay(Append(t, x), n)[f] = Replay(t, n)[f]
<1> DEFINE u == Append(t, x)
           A == {m \in 1..n : Says(t[m], f)}
           B == {m \in 1..n : Says(u[m], f)}
<1>1. n \in Nat /\ \A m \in 1..n : u[m] = t[m]
  BY Appended
<1> HIDE DEF u
<1>2. A = B
  BY <1>1
<1>3. A # {} => Max(A) \in 1..n
  BY <1>1, LastOfSome
<1> HIDE DEF A, B
<1>4. A # {} => u[Max(B)] = t[Max(A)]
  BY <1>1, <1>2, <1>3
<1>5. Replay(t, n)[f] = IF A # {} THEN Said(t[Max(A)], f) ELSE Template[f]
  BY ReplayColumns DEF A
<1>6. Replay(u, n)[f] = IF B # {} THEN Said(u[Max(B)], f) ELSE Template[f]
  BY ReplayColumns DEF B
<1>. QED
  BY <1>2, <1>4, <1>5, <1>6 DEF u

\* One more entry changes what it is about (Replay).
LEMMA ReplayAfter ==
    ASSUME NEW S, NEW t \in Seq(S), NEW x, NEW f \in Columns
    PROVE  Replay(Append(t, x), Len(t) + 1)[f] =
             IF Says(x, f) THEN Said(x, f) ELSE Replay(t, Len(t))[f]
<1> DEFINE u == Append(t, x)
           n == Len(t)
           A == {m \in 1..n : Says(t[m], f)}
           B == {m \in 1..(n + 1) : Says(u[m], f)}
<1>1. n \in Nat /\ u[n + 1] = x /\ \A m \in 1..n : u[m] = t[m]
  BY Appended
<1>2. Replay(t, n)[f] = IF A # {} THEN Said(t[Max(A)], f) ELSE Template[f]
  BY ReplayColumns
<1>3. Replay(u, n + 1)[f] = IF B # {} THEN Said(u[Max(B)], f) ELSE Template[f]
  BY ReplayColumns
<1> HIDE DEF u, n
<1>4. CASE Says(x, f)
  <2>1. n + 1 \in B /\ B \in SUBSET (1..(n + 1)) /\ n + 1 \in Nat
    BY <1>1, <1>4
  <2>2. Max(B) \in B /\ Max(B) >= n + 1
    BY <2>1, LastOfSome
  <2>3. Max(B) = n + 1
    BY <1>1, <2>2
  <2> HIDE DEF B
  <2>. QED
    BY <1>1, <1>3, <1>4, <2>1, <2>3 DEF u, n
<1>5. CASE ~Says(x, f)
  <2>1. A = B /\ A \in SUBSET (1..n)
    BY <1>1, <1>5
  <2>2. A # {} => Max(A) \in 1..n
    BY <1>1, <2>1, LastOfSome
  <2> HIDE DEF A, B
  <2>3. A # {} => u[Max(B)] = t[Max(A)]
    BY <1>1, <2>1, <2>2
  <2>. QED
    BY <1>2, <1>3, <1>5, <2>1, <2>3 DEF u, n
<1>. QED
  BY <1>4, <1>5

\* What the log of a row whose state is r tells of it (AuditTellsRow).
Told(r, t) ==
    /\ (\A n \in 1..Len(t) : t[n].action = "updated" => t[n].current) => r = Replay(t, Len(t))
    /\ \A n \in 1..Len(t) :
          (\A m \in 1..n : t[m].current) =>
             \A f \in DOMAIN t[n].before : t[n].before[f] = Replay(t, n - 1)[f]

\* A row r with the columns an entry is about as the entry says they became.
After(r, x) == [f \in Columns |-> IF Says(x, f) THEN Said(x, f) ELSE r[f]]

\* Nothing has been said of a new row.
LEMMA NothingTold == Told(Template, <<>>)
<1>1. Replay(<<>>, 0) = Template
  <2>1. \A f \in Columns : Replay(<<>>, 0)[f] = Template[f]
    <3>1. \A f : {m \in 1..0 : Says(<<>>[m], f)} = {}
      OBVIOUS
    <3>. QED
      BY <3>1, ReplayColumns
  <2>2. Template = [f \in Columns |-> Template[f]]
    BY DEF Template, Columns
  <2>3. Replay(<<>>, 0) = [f \in Columns |-> Replay(<<>>, 0)[f]]
    BY ReplayIsRow
  <2>. QED
    BY <2>1, <2>2, <2>3
<1>. QED
  BY <1>1 DEF Told

\* An entry that is true of the row as it was and as it becomes keeps the log
\* true; one that is not current is held to nothing.
LEMMA ToldAfter ==
    ASSUME NEW S, NEW t \in Seq(S), NEW x, NEW r, Told(r, t),
           DOMAIN x.before \subseteq Columns,
           x.current => \A f \in DOMAIN x.before : x.before[f] = r[f],
           NEW z, (x.action = "updated" => x.current) => z = After(r, x)
    PROVE  Told(z, Append(t, x))
<1> DEFINE u == Append(t, x)
           n == Len(t)
<1>1. n \in Nat /\ Len(u) = n + 1 /\ u[n + 1] = x /\ \A m \in 1..n : u[m] = t[m]
  BY Appended
<1>2. \A f \in Columns : Replay(u, n + 1)[f] = IF Says(x, f) THEN Said(x, f) ELSE Replay(t, n)[f]
  BY ReplayAfter
<1>3. \A m \in 0..n : \A f \in Columns : Replay(u, m)[f] = Replay(t, m)[f]
  BY ReplayBefore
<1>4. \A m : Replay(u, m) = [f \in Columns |-> Replay(u, m)[f]]
          /\ Replay(t, m) = [f \in Columns |-> Replay(t, m)[f]]
  BY ReplayIsRow
<1>5. \A m \in 0..n : Replay(u, m) = Replay(t, m)
  BY <1>3, <1>4
<1> HIDE DEF u, n
<1>6. ASSUME \A m \in 1..(n + 1) : u[m].action = "updated" => u[m].current
      PROVE  z = Replay(u, n + 1)
  <2>1. x.action = "updated" => x.current
    BY <1>1, <1>6
  <2>2. \A m \in 1..n : t[m].action = "updated" => t[m].current
    BY <1>1, <1>6
  <2>3. r = Replay(t, n)
    BY <2>2 DEF Told, n
  <2>4. z = [f \in Columns |-> IF Says(x, f) THEN Said(x, f) ELSE Replay(t, n)[f]]
    BY <2>1, <2>3 DEF After
  <2>. QED
    BY <1>2, <1>4, <2>4
<1>7. ASSUME NEW k \in 1..(n + 1), \A m \in 1..k : u[m].current,
             NEW f \in DOMAIN u[k].before
      PROVE  u[k].before[f] = Replay(u, k - 1)[f]
  <2>1. CASE k \in 1..n
    <3>1. u[k] = t[k] /\ \A m \in 1..k : t[m].current
      BY <1>1, <1>7, <2>1
    <3>2. t[k].before[f] = Replay(t, k - 1)[f]
      BY <1>7, <2>1, <3>1 DEF Told, n
    <3>3. k - 1 \in 0..n
      BY <1>1, <2>1
    <3>. QED
      BY <1>5, <3>1, <3>2, <3>3
  <2>2. CASE k = n + 1
    <3>1. u[k] = x /\ x.current /\ \A m \in 1..n : t[m].current
      BY <1>1, <1>7, <2>2
    <3>2. r = Replay(t, n)
      BY <3>1 DEF Told, n
    <3>3. k - 1 = n /\ n \in 0..n
      BY <1>1, <2>2
    <3>. QED
      BY <1>5, <1>7, <3>1, <3>2, <3>3
  <2>. QED
    BY <1>1, <1>7, <2>1, <2>2
<1>. QED
  BY <1>1, <1>6, <1>7 DEF Told, u, n

\* The columns an entry of a create or of a PATCH is about (Entry).
LEMMA EntrySays ==
    ASSUME NEW action \in {"created", "updated"}, NEW before, NEW r, NEW F, NEW current,
           NEW x, x = Entry(action, before, Restrict(r, F), current), NEW f
    PROVE  (Says(x, f) <=> f \in F) /\ (f \in F => Said(x, f) = r[f])
<1>1. x.action = action /\ x.after = [g \in F |-> r[g]]
  BY DEF Entry, Restrict
<1>. QED
  BY <1>1 DEF Says, Said

\* The columns of a row (Row).
LEMMA RowColumns ==
    ASSUME NEW r \in Row
    PROVE  /\ r = [f \in Columns |-> r[f]]
           /\ [r EXCEPT !.archived = TRUE] = [f \in Columns |-> IF f = "archived" THEN TRUE ELSE r[f]]
  BY DEF Row, Columns

\* A new row has a key of its own until it is saved (Post).
NewKeys ==
    \A e \in Editors :
       task[e].pc # "idle" /\ task[e].op = "create" =>
          /\ ~Exists(row, task[e].id)
          /\ \A d \in Editors \ {e} : task[d].pc # "idle" => task[d].id # task[e].id

\* Requests set columns the view audits (NewRow, Writable).
SetsAudited ==
    \A e \in Editors :
       task[e].pc # "idle" => DOMAIN task[e].change \subseteq AUDITED_FIELDS(task[e].id)

\* The inductive invariant with what the log needs.
AuditInv == Inv /\ NewKeys /\ SetsAudited /\ AuditTellsRow

\* The columns requests may set are audited (AUDITED_FIELDS).
LEMMA ChangesAudited ==
    ASSUME NEW i \in Ids, NEW change \in NewRow(i) \cup Changes(i)
    PROVE  DOMAIN change \subseteq AUDITED_FIELDS(i)
<1>1. CASE change \in Changes(i)
  <2>1. PICK f \in Writable(i) : \E v \in Column(f) : change = [g \in {f} |-> v]
    BY <1>1 DEF Changes
  <2>2. f \in AUDITED_FIELDS(i)
    BY KeysAssumption DEF Writable, AUDITED_FIELDS, Ids
  <2>. QED
    BY <2>1, <2>2
<1>2. CASE change \in NewRow(i)
  <2>1. CASE i \in Customers \/ i \in Accounts
    <3>1. change \in [value : Values]
      BY <1>2, <2>1, KeysAssumption DEF NewRow
    <3>. QED
      BY <2>1, <3>1, KeysAssumption DEF AUDITED_FIELDS
  <2>2. CASE i \in Policies
    <3>1. change \in [parent : Customers, type : Types, value : Values]
      BY <1>2, <2>2, KeysAssumption DEF NewRow
    <3>. QED
      BY <2>2, <3>1, KeysAssumption DEF AUDITED_FIELDS
  <2>3. CASE i \in Claims
    <3>1. change \in [parent : Policies, value : Values]
      BY <1>2, <2>3, KeysAssumption DEF NewRow
    <3>. QED
      BY <2>3, <3>1, KeysAssumption DEF AUDITED_FIELDS
  <2>. QED
    BY <2>1, <2>2, <2>3 DEF Ids
<1>. QED
  BY <1>1, <1>2

\* The audited columns are columns, and an account's archived is one of them
\* (AUDITED_FIELDS).
LEMMA AuditedColumns ==
    ASSUME NEW i \in Ids
    PROVE  AUDITED_FIELDS(i) \subseteq Columns /\ ("archived" \in AUDITED_FIELDS(i) <=> i \in Accounts)
  BY KeysAssumption DEF AUDITED_FIELDS, Columns, Ids

\* The columns of what a request makes of a copy (Over).
LEMMA OverColumns ==
    ASSUME NEW c, NEW r \in Row \cup {Template}
    PROVE  /\ Over(c, r) = [f \in Columns |-> Over(c, r)[f]]
           /\ \A f \in Columns \ DOMAIN c : Over(c, r)[f] = r[f]
<1>1. DOMAIN r = Columns
  BY DEF Row, Template, Columns
<1>. QED
  BY <1>1 DEF Over

\* A save writes an entry that is true of the row (EntryOf, Written).
LEMMA SaveTold ==
    ASSUME Inv, NEW t, TaskTyped(row, t), t.pc = "checked",
           DOMAIN t.change \subseteq AUDITED_FIELDS(t.id),
           t.op = "create" => ~Exists(row, t.id),
           Exists(row, t.id) => Told(row[t.id], trail[t.id])
    PROVE  Told(Written(t), Append(trail[t.id], EntryOf(t, Written(t))))
<1> DEFINE i == t.id
           F == AUDITED_FIELDS(i)
           w == Written(t)
           x == EntryOf(t, w)
<1>1. i \in Ids /\ (\E S : trail[i] \in Seq(S)) /\ (Exists(row, i) <=> trail[i] # <<>>)
  BY DEF Inv, TrailInv, TaskTyped
<1>2. F \subseteq Columns /\ ("archived" \in F <=> i \in Accounts)
  BY <1>1, AuditedColumns
<1>3. t.op \in {"create", "patch", "remove"}
  BY DEF TaskTyped
<1>4. CASE t.op = "create"
  <2>1. trail[i] = <<>>
    BY <1>1, <1>4
  <2>2. x = Entry("created", Empty, Restrict(w, F), TRUE)
    BY <1>4 DEF EntryOf
  <2>3. x.before = Empty
    BY <2>2 DEF Entry
  <2>4. \A f : (Says(x, f) <=> f \in F) /\ (f \in F => Said(x, f) = w[f])
    <3> HIDE DEF x, w, F
    <3>1. PICK current : x = Entry("created", Empty, Restrict(w, F), current)
      BY <2>2
    <3>. QED
      BY <3>1, EntrySays
  <2>5. w = Over(t.change, Template)
    BY <1>4 DEF Written, TaskTyped
  <2>6. w = [f \in Columns |-> w[f]] /\ \A f \in Columns \ DOMAIN t.change : w[f] = Template[f]
    BY <2>5, OverColumns
  <2> HIDE DEF w, x, F
  <2>7. \A f \in Columns : w[f] = IF Says(x, f) THEN Said(x, f) ELSE Template[f]
    BY <2>4, <2>6 DEF F
  <2>8. w = After(Template, x)
    BY <2>6, <2>7 DEF After
  <2>9. DOMAIN x.before = {}
    BY <2>3 DEF Empty
  <2>10. Told(w, Append(<<>>, x))
    <3>1. <<>> \in Seq({})
      OBVIOUS
    <3>2. DOMAIN x.before \subseteq Columns /\ \A f \in DOMAIN x.before : x.before[f] = Template[f]
      BY <2>9
    <3>. QED
      BY <2>8, <3>1, <3>2, NothingTold, ToldAfter
  <2>. QED
    BY <2>1, <2>10 DEF w, x
<1>5. CASE t.op = "patch"
  <2> DEFINE account == i \in Accounts
             changed == IF account THEN Difference(i, t.copy, w) \cap DOMAIN t.change
                        ELSE Difference(i, t.copy, w)
             read == t.copy = row[i] /\ (account => t.again = row[i])
  <2>1. x = Entry("updated", Restrict(t.copy, changed), Restrict(w, changed), read)
    BY <1>5 DEF EntryOf
  <2>2. x.action = "updated" /\ x.before = [f \in changed |-> t.copy[f]] /\ x.current = read
    <3> HIDE DEF x, w, changed, read
    <3>. QED
      BY <2>1 DEF Entry, Restrict
  <2>3. \A f : (Says(x, f) <=> f \in changed) /\ (f \in changed => Said(x, f) = w[f])
    <3> HIDE DEF x, w, changed, read
    <3>. QED
      BY <2>1, EntrySays
  <2>4. changed \subseteq F
    BY DEF Difference
  <2>5. \E c \in Row : /\ w = Over(t.change, c)
                       /\ read => c = row[i] /\ t.copy = row[i]
    BY <1>3, <1>5 DEF Written, TaskTyped
  <2>6. w = [f \in Columns |-> w[f]] /\ (read => \A f \in Columns \ DOMAIN t.change : w[f] = row[i][f])
    BY <2>5, OverColumns
  <2>7. read => \A f \in Columns \ changed : w[f] = row[i][f]
    BY <2>6 DEF Difference
  <2>8. Told(row[i], trail[i])
    BY <1>5 DEF TaskTyped
  <2> HIDE DEF w, x, F, changed, read, i
  <2>9. read => w = After(row[i], x)
    <3>1. read => \A f \in Columns : w[f] = IF Says(x, f) THEN Said(x, f) ELSE row[i][f]
      BY <2>3, <2>7
    <3>. QED
      BY <2>6, <3>1 DEF After
  <2>10. /\ DOMAIN x.before \subseteq Columns
         /\ x.current => \A f \in DOMAIN x.before : x.before[f] = row[i][f]
    BY <1>2, <2>2, <2>4, <2>5
  <2>. QED
    BY <1>1, <2>2, <2>8, <2>9, <2>10, ToldAfter DEF w, x, i
<1>6. CASE t.op = "remove"
  <2> DEFINE read == t.copy = row[i]
             current == t.op = "create" \/ t.copy = row[i]
  <2>1. x = Entry("deleted", Restrict(t.copy, F), Empty, current) /\ current = read
    BY <1>6 DEF EntryOf
  <2>2. /\ x.action = "deleted" /\ x.before = [f \in F |-> t.copy[f]] /\ x.after = Empty
        /\ x.current = read
    <3> HIDE DEF x, F, current, read
    <3>. QED
      BY <2>1 DEF Entry, Restrict
  <2>3. Exists(row, i) /\ row[i] \in Row
    BY <1>6 DEF TaskTyped, Inv, RowInv, Exists
  <2>4. w = [f \in Columns |-> IF f = "archived" THEN TRUE ELSE row[i][f]]
    BY <1>6, <2>3, RowColumns DEF Written
  <2>5. Told(row[i], trail[i])
    BY <2>3
  <2>6. \A f : (Says(x, f) <=> f = "archived") /\ (f = "archived" => Said(x, f) = TRUE)
    BY <2>2 DEF Says, Said, Empty
  <2> HIDE DEF w, x, F, i
  <2>7. w = After(row[i], x)
    BY <2>4, <2>6 DEF After
  <2>8. /\ DOMAIN x.before \subseteq Columns
        /\ x.current => \A f \in DOMAIN x.before : x.before[f] = row[i][f]
    BY <1>2, <2>2
  <2>. QED
    BY <1>1, <2>5, <2>7, <2>8, ToldAfter DEF w, x, i
<1>. QED
  BY <1>3, <1>4, <1>5, <1>6

\* A step that writes nothing leaves what the log tells (AuditTellsRow).
LEMMA LogStays == AuditTellsRow /\ UNCHANGED <<row, trail>> => AuditTellsRow'
  BY DEF AuditTellsRow, Exists

\* A request that is received, and the keys and columns it brings (Post, Patch,
\* Delete).
LEMMA ReceiveAudit ==
    ASSUME AuditInv, NEW e \in Editors, NEW i \in Ids,
           \/ \E change \in NewRow(i) : Post(e, i, change)
           \/ \E change \in Changes(i) : Patch(e, i, change)
           \/ Delete(e, i)
    PROVE  NewKeys' /\ SetsAudited' /\ AuditTellsRow'
<1>1. PICK t :
        /\ task' = [task EXCEPT ![e] = t] /\ UNCHANGED <<row, trail>>
        /\ t.pc # "idle" /\ t.id = i /\ DOMAIN t.change \subseteq AUDITED_FIELDS(i)
        /\ t.op = "create" => ~Exists(row, i) /\ \A d \in Editors : task[d].pc # "idle" => task[d].id # i
        /\ t.op # "create" => Exists(row, i)
  <2>1. CASE \E change \in NewRow(i) : Post(e, i, change)
    <3>1. PICK change \in NewRow(i) : Post(e, i, change)
      BY <2>1
    <3> DEFINE t == Task("got", "create", i, Template, change)
    <3>2. t.pc # "idle" /\ t.id = i /\ t.op = "create" /\ t.change = change
      BY DEF Task
    <3>3. DOMAIN change \subseteq AUDITED_FIELDS(i)
      BY ChangesAudited
    <3> HIDE DEF t
    <3>. QED
      BY <3>1, <3>2, <3>3 DEF Post, Receive, Template, t
  <2>2. CASE \E change \in Changes(i) : Patch(e, i, change)
    <3>1. PICK change \in Changes(i) : Patch(e, i, change)
      BY <2>2
    <3> DEFINE t == Task(IF i \in Accounts THEN "counted" ELSE "got", "patch", i, row[i], change)
    <3>2. t.pc # "idle" /\ t.id = i /\ t.op = "patch" /\ t.change = change
      BY DEF Task
    <3>3. DOMAIN change \subseteq AUDITED_FIELDS(i)
      BY ChangesAudited
    <3>4. task' = [task EXCEPT ![e] = t] /\ UNCHANGED <<row, trail>> /\ Exists(row, i)
      BY <3>1 DEF Patch, Receive, Live
    <3> HIDE DEF t
    <3>. QED
      BY <3>2, <3>3, <3>4
  <2>3. CASE Delete(e, i)
    <3> DEFINE t == Task("checked", "remove", i, row[i], Empty)
    <3>1. t.pc # "idle" /\ t.id = i /\ t.op = "remove" /\ t.change = Empty
      BY DEF Task
    <3>2. DOMAIN Empty \subseteq AUDITED_FIELDS(i)
      BY DEF Empty
    <3>3. task' = [task EXCEPT ![e] = t] /\ UNCHANGED <<row, trail>> /\ Exists(row, i)
      BY <2>3 DEF Delete, Receive, Live
    <3> HIDE DEF t
    <3>. QED
      BY <3>1, <3>2, <3>3
  <2>. QED
    BY <2>1, <2>2, <2>3
<1>2. \A d \in Editors : task'[d] = IF d = e THEN t ELSE task[d]
  BY <1>1 DEF AuditInv, Inv, TasksInv
<1>3. NewKeys'
  BY <1>1, <1>2 DEF AuditInv, NewKeys, Exists
<1>4. SetsAudited'
  BY <1>1, <1>2 DEF AuditInv, SetsAudited
<1>5. AuditTellsRow'
  BY <1>1, LogStays DEF AuditInv
<1>. QED
  BY <1>3, <1>4, <1>5

\* A step of a request that keeps its key and its columns, or ends it, and
\* writes nothing (Reread, ReadParent, Check, End, and Save on an IntegrityError).
LEMMA SameRequest ==
    ASSUME AuditInv, NEW e \in Editors, UNCHANGED <<row, trail>>,
           NEW t, task' = [task EXCEPT ![e] = t],
           \/ t = Idle
           \/ /\ task[e].pc # "idle"
              /\ t.op = task[e].op /\ t.id = task[e].id /\ t.change = task[e].change
    PROVE  NewKeys' /\ SetsAudited' /\ AuditTellsRow'
<1>1. \A d \in Editors : task'[d] = IF d = e THEN t ELSE task[d]
  BY DEF AuditInv, Inv, TasksInv
<1>2. t.pc # "idle" => /\ task[e].pc # "idle"
                       /\ t.op = task[e].op /\ t.id = task[e].id /\ t.change = task[e].change
  BY DEF Idle
<1>3. NewKeys'
  BY <1>1, <1>2 DEF AuditInv, NewKeys, Exists
<1>4. SetsAudited'
  BY <1>1, <1>2 DEF AuditInv, SetsAudited
<1>. QED
  BY <1>3, <1>4, LogStays DEF AuditInv

\* Whether the constraint lets a save through (Save).
Commits(e) == UniqueLive([row EXCEPT ![task[e].id] = Written(task[e])])

\* The steps that write nothing.
LEMMA NoCommitAudit ==
    ASSUME AuditInv, NEW e \in Editors,
           Reread(e) \/ ReadParent(e) \/ Check(e) \/ End(e) \/ (Save(e) /\ ~Commits(e))
    PROVE  NewKeys' /\ SetsAudited' /\ AuditTellsRow'
<1>1. CASE End(e)
  <2>1. task' = [task EXCEPT ![e] = Idle] /\ UNCHANGED <<row, trail>>
    BY <1>1 DEF End, Step
  <2>. QED
    BY <2>1, SameRequest
<1>2. CASE Reread(e)
  <2> DEFINE o == task[e]
             t == [pc |-> "checked", op |-> "patch", id |-> o.id, copy |-> o.copy,
                   change |-> o.change, quiet |-> o.quiet, again |-> row[o.id]]
  <2>1. o.pc = "counted" /\ task' = [task EXCEPT ![e] = t] /\ UNCHANGED <<row, trail>>
    BY <1>2 DEF Reread, Step
  <2>2. o.op = "patch"
    BY <2>1 DEF AuditInv, Inv, TasksInv, TaskInv, Idle, TaskTyped
  <2>3. t.op = o.op /\ t.id = o.id /\ t.change = o.change /\ o.pc # "idle"
    BY <2>1, <2>2
  <2> HIDE DEF t
  <2>. QED
    BY <2>1, <2>3, SameRequest
<1>3. CASE ReadParent(e) \/ Check(e) \/ (Save(e) /\ ~Commits(e))
  <2> DEFINE o == task[e]
  <2>1. /\ o.pc \in {"got", "named", "checked"} /\ UNCHANGED <<row, trail>>
        /\ \/ task' = [task EXCEPT ![e] = Idle]
           \/ \E pc : task' = [task EXCEPT ![e] = [o EXCEPT !.pc = pc]]
    BY <1>3 DEF ReadParent, Check, Save, Step, Commits
  <2>2. Shape(o)
    BY <2>1 DEF AuditInv, Inv, TasksInv, TaskInv, Idle, TaskTyped
  <2>3. CASE task' = [task EXCEPT ![e] = Idle]
    BY <2>1, <2>3, SameRequest
  <2>4. CASE \E pc : task' = [task EXCEPT ![e] = [o EXCEPT !.pc = pc]]
    <3>1. PICK pc : task' = [task EXCEPT ![e] = [o EXCEPT !.pc = pc]]
      BY <2>4
    <3> DEFINE t == [o EXCEPT !.pc = pc]
    <3>2. t.op = o.op /\ t.id = o.id /\ t.change = o.change /\ o.pc # "idle"
      BY <2>1, <2>2 DEF Shape
    <3> HIDE DEF t
    <3>. QED
      BY <2>1, <3>1, <3>2, SameRequest DEF t
  <2>. QED
    BY <2>1, <2>3, <2>4
<1>. QED
  BY <1>1, <1>2, <1>3

\* A commit: the row and its log (Save).
LEMMA CommitAudit ==
    ASSUME AuditInv, NEW e \in Editors, Save(e), Commits(e)
    PROVE  NewKeys' /\ SetsAudited' /\ AuditTellsRow'
<1> DEFINE t == task[e]
           i == t.id
           w == Written(t)
           x == EntryOf(t, w)
<1>1. /\ t.pc = "checked" /\ TaskTyped(row, t) /\ i \in Ids
  BY DEF Save, AuditInv, Inv, TasksInv, TaskInv, Idle, TaskTyped
<1>2. /\ row' = [row EXCEPT ![i] = w]
      /\ trail' = [trail EXCEPT ![i] = Append(@, EntryOf(t, row'[i]))]
  BY DEF Save, Commits
<1>3. \A d \in Editors : \/ task'[d] = Idle
                         \/ /\ d # e /\ task'[d].pc = task[d].pc /\ task'[d].id = task[d].id
                            /\ task'[d].op = task[d].op /\ task'[d].change = task[d].change
  <2> SUFFICES ASSUME NEW d \in Editors, d # e
               PROVE  \/ task'[d] = Idle
                      \/ /\ task'[d].pc = task[d].pc /\ task'[d].id = task[d].id
                         /\ task'[d].op = task[d].op /\ task'[d].change = task[d].change
    BY DEF Save, Commits
  <2>1. \/ task'[d] = task[d]
        \/ /\ task[d].pc \notin {"idle", "failed"}
           /\ \E off : off = FALSE /\ task'[d] = [task[d] EXCEPT !.quiet = off]
    BY DEF Save, Commits
  <2>2. CASE task'[d] = task[d]
    BY <2>2
  <2>3. CASE task[d].pc \notin {"idle", "failed"}
             /\ \E off : off = FALSE /\ task'[d] = [task[d] EXCEPT !.quiet = off]
    <3>1. PICK off : off = FALSE /\ task'[d] = [task[d] EXCEPT !.quiet = off]
      BY <2>3
    <3>2. Shape(task[d])
      BY <2>3 DEF AuditInv, Inv, TasksInv, TaskInv, Idle, TaskTyped
    <3>. QED
      BY <3>1, <3>2, QuietSet
  <2>. QED
    BY <2>1, <2>2, <2>3
<1>4. \A j \in Ids : row'[j] = IF j = i THEN w ELSE row[j]
  BY <1>2 DEF AuditInv, Inv, RowInv
<1>5. trail'[i] = Append(trail[i], x) /\ \A j \in Ids \ {i} : trail'[j] = trail[j]
  BY <1>1, <1>2, <1>4 DEF AuditInv, Inv, TrailInv
<1>6. /\ DOMAIN t.change \subseteq AUDITED_FIELDS(i)
      /\ t.op = "create" => ~Exists(row, i)
  BY <1>1 DEF AuditInv, SetsAudited, NewKeys
<1>7. Told(w, Append(trail[i], x))
  <2>1. Exists(row, i) => Told(row[i], trail[i])
    BY <1>1 DEF AuditInv, AuditTellsRow, Told
  <2>. QED
    BY <1>1, <1>6, <2>1, SaveTold DEF AuditInv
<1> HIDE DEF w, x
<1>8. AuditTellsRow'
  <2>1. \A j \in Ids : Exists(row', j) => Told(row'[j], trail'[j])
    <3> SUFFICES ASSUME NEW j \in Ids, Exists(row', j) PROVE Told(row'[j], trail'[j])
      OBVIOUS
    <3>1. CASE j = i
      BY <1>1, <1>4, <1>5, <1>7, <3>1
    <3>2. CASE j # i
      BY <1>4, <1>5, <3>2 DEF AuditInv, AuditTellsRow, Told, Exists
    <3>. QED
      BY <3>1, <3>2
  <2>. QED
    BY <2>1 DEF AuditTellsRow, Told, Exists
<1>9. NewKeys'
  <2> SUFFICES ASSUME NEW d \in Editors, task'[d].pc # "idle", task'[d].op = "create"
               PROVE  /\ ~Exists(row', task'[d].id)
                      /\ \A c \in Editors \ {d} : task'[c].pc # "idle" => task'[c].id # task'[d].id
    BY DEF NewKeys, Exists
  <2>1. /\ d # e /\ task[d].pc # "idle" /\ task[d].op = "create" /\ task'[d].id = task[d].id
    BY <1>3 DEF Idle
  <2>2. /\ ~Exists(row, task[d].id)
        /\ \A c \in Editors \ {d} : task[c].pc # "idle" => task[c].id # task[d].id
    BY <2>1 DEF AuditInv, NewKeys
  <2>3. task[d].id \in Ids
    BY <2>1 DEF AuditInv, Inv, TasksInv, TaskInv, TaskTyped, Idle
  <2>4. ~Exists(row', task'[d].id)
    BY <1>1, <1>4, <2>1, <2>2, <2>3 DEF Exists
  <2>5. \A c \in Editors \ {d} : task'[c].pc # "idle" => task'[c].id # task'[d].id
    BY <1>3, <2>1, <2>2 DEF Idle
  <2>. QED
    BY <2>4, <2>5
<1>10. SetsAudited'
  BY <1>3 DEF AuditInv, SetsAudited, Idle
<1>. QED
  BY <1>8, <1>9, <1>10

\* A log of two entries (Append).
LEMMA AppendPair ==
    ASSUME NEW a, NEW b
    PROVE  Append(<<a>>, b) = <<a, b>>
<1> DEFINE u == Append(<<a>>, b)
           v == <<a, b>>
<1>1. <<a>> \in Seq({a, b}) /\ Len(<<a>>) = 1 /\ <<a>>[1] = a
  OBVIOUS
<1>2. u \in Seq({a, b}) /\ Len(u) = 2 /\ u[1] = a /\ u[2] = b
  BY <1>1
<1>3. v \in Seq({a, b}) /\ Len(v) = 2 /\ v[1] = a /\ v[2] = b
  OBVIOUS
<1> HIDE DEF u, v
<1>4. u = [k \in 1..2 |-> u[k]] /\ v = [k \in 1..2 |-> v[k]]
  BY <1>2, <1>3
<1>5. \A k \in 1..2 : u[k] = v[k]
  <2>1. \A k \in 1..2 : k = 1 \/ k = 2
    OBVIOUS
  <2>. QED
    BY <1>2, <1>3, <2>1
<1>6. u = v
  BY <1>4, <1>5
<1>. QED
  BY <1>6 DEF u, v

\* The logs the database starts with (FirstTrail).
LEMMA FirstTold ==
    ASSUME NEW i \in Ids, NEW r \in Row,
           \A f \in {"parent", "type"} \ AUDITED_FIELDS(i) : r[f] = Nothing
    PROVE  Told(r, FirstTrail(i, r))
<1> DEFINE F == AUDITED_FIELDS(i)
           first == Entry("created", Empty, Restrict(r, F), TRUE)
           last == Entry("deleted", Restrict(r, F), Empty, TRUE)
           alive == [f \in Columns |-> IF f \in F THEN r[f] ELSE Template[f]]
<1>1. F \subseteq Columns /\ ("archived" \in F <=> i \in Accounts)
  BY AuditedColumns
<1>2. r # Nothing
  BY StoresAssumption
<1>3. \A f \in Columns \ F : f # "archived" => r[f] = Template[f]
  <2>1. "value" \in F
    BY DEF AUDITED_FIELDS, Ids
  <2>2. Template["parent"] = Nothing /\ Template["type"] = Nothing
    BY DEF Template
  <2>. QED
    BY <2>1, <2>2 DEF Columns
<1>4. Template["archived"] = FALSE
  BY DEF Template
<1>5. r = [f \in Columns |-> r[f]] /\ r["archived"] \in BOOLEAN
  BY RowColumns DEF Row
<1>6. Told(alive, <<first>>)
  <2>1. PICK yes : first = Entry("created", Empty, Restrict(r, F), yes)
    OBVIOUS
  <2> HIDE DEF F, first
  <2>2. \A f : (Says(first, f) <=> f \in F) /\ (f \in F => Said(first, f) = r[f])
    BY <2>1, EntrySays
  <2>3. alive = After(Template, first)
    BY <2>2 DEF After
  <2>4. first.before = Empty /\ first.action = "created"
    BY DEF first, Entry
  <2>5. DOMAIN first.before = {}
    BY <2>4 DEF Empty
  <2>6. <<>> \in Seq({}) /\ Append(<<>>, first) = <<first>>
    OBVIOUS
  <2> HIDE DEF alive
  <2>7. DOMAIN first.before \subseteq Columns /\ \A f \in DOMAIN first.before : first.before[f] = Template[f]
    BY <2>5
  <2>8. Told(alive, Append(<<>>, first))
    BY <2>3, <2>6, <2>7, NothingTold, ToldAfter
  <2>. QED
    BY <2>6, <2>8
<1>7. CASE ~r.archived \/ i \in Accounts
  <2>1. FirstTrail(i, r) = <<first>>
    BY <1>2, <1>7 DEF FirstTrail
  <2>2. \A f \in Columns \ F : r[f] = Template[f]
    BY <1>1, <1>3, <1>4, <1>5, <1>7
  <2>3. alive = r
    BY <1>5, <2>2
  <2>. QED
    BY <1>6, <2>1, <2>3
<1>8. CASE r.archived /\ i \notin Accounts
  <2>1. FirstTrail(i, r) = <<first, last>>
    BY <1>2, <1>8 DEF FirstTrail
  <2>2. last.action = "deleted" /\ last.before = [f \in F |-> r[f]] /\ last.after = Empty
    BY DEF last, Entry, Restrict
  <2> HIDE DEF F, first, last
  <2>3. \A f : (Says(last, f) <=> f = "archived") /\ (f = "archived" => Said(last, f) = TRUE)
    BY <2>2 DEF Says, Said, Empty
  <2>4. r["archived"] = TRUE
    BY <1>5, <1>8
  <2>5. \A f \in Columns : r[f] = IF Says(last, f) THEN Said(last, f) ELSE alive[f]
    <3>1. \A f \in Columns : f # "archived" => r[f] = alive[f]
      BY <1>3
    <3>. QED
      BY <2>3, <2>4, <3>1
  <2>6. DOMAIN last.before \subseteq Columns /\ \A f \in DOMAIN last.before : last.before[f] = alive[f]
    BY <1>1, <2>2
  <2>7. r = After(alive, last)
    BY <1>5, <2>5 DEF After
  <2>8. <<first>> \in Seq({first, last}) /\ Append(<<first>>, last) = <<first, last>>
    <3>1. <<first>> \in Seq({first, last})
      OBVIOUS
    <3>2. Append(<<first>>, last) = <<first, last>>
      BY AppendPair
    <3>. QED
      BY <3>1, <3>2
  <2> HIDE DEF alive
  <2>9. Told(r, Append(<<first>>, last))
    BY <1>6, <2>6, <2>7, <2>8, ToldAfter
  <2>. QED
    BY <2>1, <2>8, <2>9
<1>. QED
  BY <1>5, <1>7, <1>8

\* Keys and columns hold of the first state, and the logs tell the rows (Init).
LEMMA InitAudit == Init => AuditInv
<1> SUFFICES ASSUME Init PROVE AuditInv
  OBVIOUS
<1>1. Inv /\ NewKeys /\ SetsAudited
  BY InitInv DEF Init, NewKeys, SetsAudited, Idle
<1>2. ASSUME NEW i \in Ids, Exists(row, i) PROVE Told(row[i], trail[i])
  <2>1. row[i] \in Row /\ \A f \in {"parent", "type"} \ AUDITED_FIELDS(i) : row[i][f] = Nothing
    BY <1>2, StoresAssumption DEF Init, Exists
  <2>2. trail[i] = FirstTrail(i, row[i])
    BY DEF Init
  <2>. QED
    BY <2>1, <2>2, FirstTold
<1>3. AuditTellsRow
  BY <1>2 DEF AuditTellsRow, Told
<1>. QED
  BY <1>1, <1>3 DEF AuditInv

\* Every step of every request keeps them (Next).
LEMMA NextAudit == AuditInv /\ [Next]_vars => AuditInv'
<1> SUFFICES ASSUME AuditInv, [Next]_vars PROVE NewKeys' /\ SetsAudited' /\ AuditTellsRow'
  BY NextInv DEF AuditInv
<1>1. ASSUME NEW e \in Editors, NEW i \in Ids,
             \/ \E change \in NewRow(i) : Post(e, i, change)
             \/ \E change \in Changes(i) : Patch(e, i, change)
             \/ Delete(e, i)
      PROVE  NewKeys' /\ SetsAudited' /\ AuditTellsRow'
  BY <1>1, ReceiveAudit
<1>2. ASSUME NEW e \in Editors, Reread(e) \/ ReadParent(e) \/ Check(e) \/ End(e) \/ (Save(e) /\ ~Commits(e))
      PROVE  NewKeys' /\ SetsAudited' /\ AuditTellsRow'
  BY <1>2, NoCommitAudit
<1>3. ASSUME NEW e \in Editors, Save(e), Commits(e)
      PROVE  NewKeys' /\ SetsAudited' /\ AuditTellsRow'
  BY <1>3, CommitAudit
<1>4. CASE UNCHANGED vars
  BY <1>4, LogStays DEF vars, AuditInv, NewKeys, SetsAudited, Exists
<1>. QED
  BY <1>1, <1>2, <1>3, <1>4 DEF Next

\* The audit log of a row tells what it is, and each entry's before image is
\* what the entries before it tell, unless a PATCH saved a copy that was no
\* longer the row (AuditTellsRow; update and destroy of the views, FR-033).
THEOREM AuditIsTrue == Spec => []AuditTellsRow
<1>1. Spec => []AuditInv
  BY InitAudit, NextAudit, PTL DEF Spec
<1>2. AuditInv => AuditTellsRow
  BY DEF AuditInv
<1>. QED
  BY <1>1, <1>2, PTL
=============================================================================
