-------------------------- MODULE LoadDatasetProofs --------------------------
(***************************************************************************)
(* The loaddataset command, row by row, keeps its promise about the file   *)
(* as a whole: the rows written so far are always those of a prefix, the   *)
(* two Python sets hold what the final clearing needs, and so each load    *)
(* implements LoadContract, and may be started again after it died. The    *)
(* counts are those of the same prefix, and so what is reported is true.   *)
(***************************************************************************)
EXTENDS LoadDataset, LoadEffectProofs, FiniteSetTheorems

\* Every key that may get a policy has room for one.
Room(b) == \A k \in Keys : b.live[k] \/ b.issued[k] < MaxIssued

\* run is a record with these fields.
Shape(r) == r = [pc |-> r.pc, dry |-> r.dry, file |-> r.file, next |-> r.next,
                 start |-> r.start, seen |-> r.seen, conflicting |-> r.conflicting,
                 counts |-> r.counts]

\* The part of the invariant about the command under way.
RunTyped ==
    /\ Shape(run)
    /\ run.pc \in {"idle", "rows", "done"} /\ run.dry \in BOOLEAN
    /\ run.file \in Files \cup {<<>>} /\ run.next \in 1..(Len(run.file) + 1)
    /\ run.start \in Book /\ WellFormed(run.start)
    /\ run.pc # "idle" => run.file \in Files

\* The part about the two Python sets.
SetsTyped ==
    /\ run.conflicting \subseteq run.seen /\ run.seen \subseteq Policies
    /\ \A p \in run.seen : book.live[p[1]] /\ p = Last(book, p[1])

\* TypeOK, with what its own preservation needs.
Typed ==
    /\ book \in Book /\ WellFormed(book)
    /\ RunTyped /\ SetsTyped
    /\ run.pc = "rows" => Room(book)
    /\ trail \in [Policies -> Seq(Trails)]
    /\ loads \in 0..MaxLoads
-----------------------------------------------------------------------------
\* Files hold rows (FilesAssumption).
LEMMA FilesAreRows ==
    ASSUME NEW f \in Files \cup {<<>>}
    PROVE  f \in Seq(Row) /\ Len(f) \in Nat /\ \A i \in 1..Len(f) : f[i] \in Row
<1>1. f \in Seq(Row)
  <2>1. <<>> \in Seq(Row)
    OBVIOUS
  <2>2. f \in Files => f \in Seq(Row)
    BY FilesAssumption
  <2>. QED
    BY <2>1, <2>2
<1>. QED
  BY <1>1

\* The policies of a key (Last, Policies).
LEMMA LastIsPolicy ==
    ASSUME NEW b \in Book, NEW k \in Keys, b.issued[k] > 0
    PROVE  Last(b, k) \in Policies /\ Last(b, k)[1] = k
<1>1. b.issued[k] \in 1..MaxIssued
  BY BoundAssumption DEF Book
<1>. QED
  BY <1>1 DEF Last, Policies

\* A row's key is one, and the policy it is matched with is its key's (Key,
\* ExistingPolicy).
LEMMA RowKey ==
    ASSUME Typed, AtRow
    PROVE  /\ Current \in Row /\ Key(Current) \in Keys /\ Current.client \in Clients
           /\ run.next \in 1..Len(run.file)
           /\ ExistingPolicy(Current) \subseteq Policies
           /\ \A p \in ExistingPolicy(Current) : book.live[p[1]] /\ p = Last(book, p[1])
<1>1. run.next \in 1..Len(run.file) /\ Current \in Row
  BY FilesAreRows DEF Typed, RunTyped, AtRow, Current
<1>2. Key(Current) \in Keys /\ Current.client \in Clients
  BY <1>1 DEF Key, Keys, Row
<1>3. book.live[Key(Current)] => book.issued[Key(Current)] > 0
  BY <1>2 DEF Typed, WellFormed
<1>4. ExistingPolicy(Current) \subseteq {Last(book, Key(Current))}
  BY DEF ExistingPolicy
<1>5. \A p \in ExistingPolicy(Current) :
        book.live[p[1]] /\ p = Last(book, p[1]) /\ p \in Policies
  <2> SUFFICES ASSUME NEW p \in ExistingPolicy(Current)
               PROVE  book.live[p[1]] /\ p = Last(book, p[1]) /\ p \in Policies
    OBVIOUS
  <2>1. book.live[Key(Current)] /\ p = Last(book, Key(Current))
    BY DEF ExistingPolicy
  <2>2. p \in Policies /\ p[1] = Key(Current)
    BY <1>2, <1>3, <2>1, LastIsPolicy DEF Typed
  <2>. QED
    BY <2>1, <2>2
<1>. QED
  BY <1>1, <1>2, <1>5

\* What the end of a row makes of run (Turn).
LEMMA TurnFields ==
    ASSUME NEW seen, NEW conflicting, NEW counts, RunTyped, Turn(seen, conflicting, counts)
    PROVE  /\ Shape(run')
           /\ run'.pc = run.pc /\ run'.dry = run.dry /\ run'.file = run.file
           /\ run'.start = run.start /\ run'.next = run.next + 1
           /\ run'.seen = run.seen \cup seen
           /\ run'.conflicting = run.conflicting \cup conflicting
<1> DEFINE r == [pc |-> run.pc, dry |-> run.dry, file |-> run.file, next |-> run.next + 1,
                 start |-> run.start, seen |-> run.seen \cup seen,
                 conflicting |-> run.conflicting \cup conflicting, counts |-> counts]
<1>1. run' = r
  BY DEF RunTyped, Shape, Turn
<1>. QED
  BY <1>1 DEF Shape

\* A row that writes nothing leaves everything typed (RefuseRow, PreviewRow,
\* RefuseArchived, RefuseClaim).
LEMMA QuietRow ==
    ASSUME Typed, AtRow, UNCHANGED <<book, trail, loads>>,
           NEW seen \in SUBSET ExistingPolicy(Current),
           NEW conflicting \in SUBSET seen, NEW counts, Turn(seen, conflicting, counts)
    PROVE  Typed'
<1>1. /\ Shape(run')
      /\ run'.pc = run.pc /\ run'.dry = run.dry /\ run'.file = run.file
      /\ run'.start = run.start /\ run'.next = run.next + 1
      /\ run'.seen = run.seen \cup seen
      /\ run'.conflicting = run.conflicting \cup conflicting
  BY TurnFields DEF Typed
<1>2. run'.next \in 1..(Len(run'.file) + 1)
  BY <1>1, RowKey, FilesAreRows DEF Typed, RunTyped
<1>3. RunTyped'
  BY <1>1, <1>2 DEF Typed, RunTyped
<1>4. SetsTyped'
  BY SMTT(60), <1>1, RowKey DEF Typed, SetsTyped, Last
<1>. QED
  BY <1>1, <1>3, <1>4 DEF Typed, Room, WellFormed

\* What a row that goes through makes of the book: p is the policy it writes,
\* and no policy is written beyond the bound (WriteRow).
LEMMA WriteFields ==
    ASSUME Typed, WriteRow
    PROVE  LET r == Current
               p == Written(book, r)
           IN  /\ p \in Policies /\ p[1] = Key(r) /\ p = Last(book', Key(r))
               /\ book' \in Book
               /\ \A x \in Clients : book'.customer[x] = IF x = r.client THEN "live" ELSE book.customer[x]
               /\ \A k \in Keys : book'.issued[k] = IF k = Key(r) THEN p[2] ELSE book.issued[k]
               /\ \A k \in Keys : book'.live[k] = IF k = Key(r) THEN TRUE ELSE book.live[k]
               /\ \A q \in Policies : book'.claims[q] =
                    IF q = p /\ r.content \in ClaimValues
                    THEN WithClaim(book.claims[q], r.content) ELSE book.claims[q]
               /\ \A q \in Policies : book'.anomaly[q] =
                    IF q = p /\ r.content = "anomaly" THEN "open" ELSE book.anomaly[q]
               /\ trail' = [trail EXCEPT ![p] = @ \o IF r.content = "anomaly" THEN Raised(p) ELSE <<>>]
               /\ \E counts : Turn({p}, IF r.content = "anomaly" THEN {p} ELSE {}, counts)
<1> DEFINE r == Current
           k == Key(r)
           n == IF book.live[k] THEN book.issued[k] ELSE book.issued[k] + 1
           p == <<k, n>>
<1>0. AtRow /\ run.pc = "rows"
  BY DEF WriteRow, AtRow
<1>1. r \in Row /\ k \in Keys /\ r.client \in Clients
  BY <1>0, RowKey
<1>2. p = Written(book, r)
  BY DEF Written
<1>3. n \in 1..MaxIssued
  BY <1>0, <1>1, BoundAssumption DEF Typed, Room, Book, WellFormed
<1>4. p \in Policies
  BY <1>1, <1>3 DEF Policies
<1>5. /\ book' = [book EXCEPT
              !.customer[r.client] = "live",
              !.issued[k] = n,
              !.live[k] = TRUE,
              !.claims[p] = SavedClaims(@, r),
              !.anomaly[p] = IF r.content = "anomaly" THEN "open" ELSE @]
      /\ trail' = [trail EXCEPT ![p] = @ \o IF r.content = "anomaly" THEN Raised(p) ELSE <<>>]
      /\ \E counts : Turn({p}, IF r.content = "anomaly" THEN {p} ELSE {}, counts)
  BY ZenonT(60) DEF WriteRow
<1>6. SavedClaims(book.claims[p], r) =
        IF r.content \in ClaimValues THEN WithClaim(book.claims[p], r.content)
        ELSE book.claims[p]
  BY ZenonT(60), <1>1, ContentAssumption DEF WriteRow, Row, SavedClaims, Outcome, WithClaim
<1>7. book \in [customer : [Clients -> {"absent", "live", "archived"}],
                issued : [Keys -> 0..MaxIssued], live : [Keys -> BOOLEAN],
                claims : [Policies -> ClaimLists], anomaly : [Policies -> AnomalyStates]]
  BY DEF Typed, Book
<1> DEFINE c == [customer |-> [book.customer EXCEPT ![r.client] = "live"],
                 issued   |-> [book.issued EXCEPT ![k] = n],
                 live     |-> [book.live EXCEPT ![k] = TRUE],
                 claims   |-> [book.claims EXCEPT ![p] = SavedClaims(book.claims[p], r)],
                 anomaly  |-> [book.anomaly EXCEPT
                                 ![p] = IF r.content = "anomaly" THEN "open" ELSE book.anomaly[p]]]
<1>8. book' = c
  <2> HIDE DEF r, k, n, p
  <2>. QED
    BY <1>5, <1>7
<1>9. SavedClaims(book.claims[p], r) \in ClaimLists
  <2>1. book.claims[p] \in ClaimLists
    BY <1>4, <1>7
  <2>. QED
    BY <1>6, <2>1, WithClaimIsList
<1> HIDE DEF r, k, n, p
<1>10. book' \in Book
  <2>1. [book.customer EXCEPT ![r.client] = "live"] \in [Clients -> {"absent", "live", "archived"}]
    BY <1>1, <1>7
  <2>2. [book.issued EXCEPT ![k] = n] \in [Keys -> 0..MaxIssued]
    BY <1>1, <1>3, <1>7, BoundAssumption
  <2>3. [book.live EXCEPT ![k] = TRUE] \in [Keys -> BOOLEAN]
    BY <1>1, <1>7
  <2>4. [book.claims EXCEPT ![p] = SavedClaims(book.claims[p], r)] \in [Policies -> ClaimLists]
    BY <1>4, <1>7, <1>9
  <2>5. [book.anomaly EXCEPT ![p] = IF r.content = "anomaly" THEN "open" ELSE book.anomaly[p]]
          \in [Policies -> AnomalyStates]
    BY <1>4, <1>7 DEF AnomalyStates
  <2>. QED
    BY <1>8, <2>1, <2>2, <2>3, <2>4, <2>5 DEF Book
<1>11. /\ \A x \in Clients : book'.customer[x] = IF x = r.client THEN "live" ELSE book.customer[x]
       /\ \A j \in Keys : book'.issued[j] = IF j = k THEN n ELSE book.issued[j]
       /\ \A j \in Keys : book'.live[j] = IF j = k THEN TRUE ELSE book.live[j]
  BY <1>7, <1>8
<1>12. \A q \in Policies : book'.claims[q] = IF q = p THEN SavedClaims(book.claims[p], r)
                                             ELSE book.claims[q]
  BY <1>7, <1>8
<1>13. \A q \in Policies : book'.anomaly[q] = IF q = p /\ r.content = "anomaly"
                                              THEN "open" ELSE book.anomaly[q]
  BY <1>7, <1>8
<1>14. p[1] = k /\ p[2] = n
  BY DEF p
<1>15. p = Last(book', k)
  BY <1>1, <1>11 DEF p, Last
<1>. QED
  BY ZenonT(60), <1>2, <1>4, <1>5, <1>6, <1>10, <1>11, <1>12, <1>13, <1>14, <1>15 DEF r, k

\* A row that goes through keeps everything typed (WriteRow).
LEMMA WriteTyped ==
    ASSUME Typed, WriteRow
    PROVE  Typed'
<1> DEFINE r == Current
           k == Key(r)
           p == Written(book, r)
<1>0. AtRow /\ UNCHANGED loads
  BY DEF WriteRow, AtRow
<1>1. r \in Row /\ k \in Keys /\ run.next \in 1..Len(run.file)
  BY <1>0, RowKey
<1>2. /\ p \in Policies /\ p[1] = k /\ p = Last(book', k)
      /\ book' \in Book
      /\ \A x \in Clients : book'.customer[x] = IF x = r.client THEN "live" ELSE book.customer[x]
      /\ \A j \in Keys : book'.issued[j] = IF j = k THEN p[2] ELSE book.issued[j]
      /\ \A j \in Keys : book'.live[j] = IF j = k THEN TRUE ELSE book.live[j]
      /\ \A q \in Policies : book'.claims[q] =
           IF q = p /\ r.content \in ClaimValues
           THEN WithClaim(book.claims[q], r.content) ELSE book.claims[q]
      /\ \A q \in Policies : book'.anomaly[q] =
           IF q = p /\ r.content = "anomaly" THEN "open" ELSE book.anomaly[q]
      /\ trail' = [trail EXCEPT ![p] = @ \o IF r.content = "anomaly" THEN Raised(p) ELSE <<>>]
  BY WriteFields
<1>3. PICK counts : Turn({p}, IF r.content = "anomaly" THEN {p} ELSE {}, counts)
  BY WriteFields
<1>4. /\ Shape(run')
      /\ run'.pc = run.pc /\ run'.dry = run.dry /\ run'.file = run.file
      /\ run'.start = run.start /\ run'.next = run.next + 1
      /\ run'.seen = run.seen \cup {p}
      /\ run'.conflicting = run.conflicting \cup (IF r.content = "anomaly" THEN {p} ELSE {})
  BY <1>3, TurnFields DEF Typed
<1>5. p[2] = IF book.live[k] THEN book.issued[k] ELSE book.issued[k] + 1
  BY DEF Written
<1>6. p[2] \in Nat /\ p[2] >= book.issued[k] /\ p[2] > 0 /\ book.issued[k] \in Nat
  BY <1>1, <1>2, <1>5, PolicyParts, BoundAssumption DEF Typed, Book
<1>7. k[1] = r.client /\ k[1] \in Clients
  BY <1>1 DEF Key, Row
<1> HIDE DEF r, k, p
<1>8. WellFormed(book')
  <2>1. ASSUME NEW j \in Keys, book'.live[j] PROVE book'.issued[j] > 0
    BY <1>2, <1>6, <2>1 DEF Typed, WellFormed
  <2>2. ASSUME NEW j \in Keys, book'.issued[j] > 0 PROVE book'.customer[j[1]] # "absent"
    <3>1. j[1] \in Clients
      BY DEF Keys
    <3>2. CASE j = k
      BY <1>2, <1>7, <3>2
    <3>3. CASE j # k
      BY <1>2, <2>2, <3>1, <3>3 DEF Typed, WellFormed
    <3>. QED
      BY <3>2, <3>3
  <2>3. ASSUME NEW q \in Policies, q[2] > book'.issued[q[1]]
        PROVE  book'.claims[q] = <<>> /\ book'.anomaly[q] = "none"
    <3>1. q[1] \in Keys /\ q[2] \in Nat
      BY PolicyParts, BoundAssumption
    <3>2. q # p
      <4>1. k \in Keys => book'.issued[k] = p[2]
        BY <1>2
      <4>. QED
        BY <1>1, <1>2, <1>6, <2>3, <4>1 DEF k, r
    <3>3. q[2] > book.issued[q[1]]
      <4>1. CASE q[1] = k
        BY <1>2, <1>6, <2>3, <3>1, <4>1
      <4>2. CASE q[1] # k
        BY <1>2, <2>3, <3>1, <4>2
      <4>. QED
        BY <4>1, <4>2
    <3>. QED
      BY <1>2, <3>2, <3>3 DEF Typed, WellFormed
  <2>. QED
    BY <2>1, <2>2, <2>3 DEF WellFormed
<1>9. RunTyped'
  <2>1. run'.next \in 1..(Len(run'.file) + 1)
    BY <1>1, <1>4, FilesAreRows DEF Typed, RunTyped
  <2>. QED
    BY <1>4, <2>1 DEF Typed, RunTyped
<1>10. SetsTyped'
  <2>1. ASSUME NEW q \in run.seen PROVE book'.live[q[1]] /\ q = Last(book', q[1])
    <3>1. q \in Policies /\ book.live[q[1]] /\ q = Last(book, q[1])
      BY <2>1 DEF Typed, SetsTyped
    <3>2. q[1] \in Keys
      BY <3>1, PolicyParts
    <3>3. book'.live[q[1]] /\ book'.issued[q[1]] = book.issued[q[1]]
      BY <1>2, <1>5, <3>1, <3>2
    <3>. QED
      BY <3>1, <3>3 DEF Last
  <2>2. book'.live[p[1]] /\ p = Last(book', p[1])
    BY <1>1, <1>2 DEF k, r
  <2>. QED
    BY <1>2, <1>4, <2>1, <2>2 DEF Typed, SetsTyped
<1>11. Room(book')
  <2>1. Room(book)
    BY <1>0 DEF Typed, AtRow
  <2>. QED
    BY <1>2, <2>1 DEF Room
<1>12. trail' \in [Policies -> Seq(Trails)]
  <2>1. Raised(p) \in Seq(Trails)
    BY SMTT(60) DEF Raised, Trails
  <2>2. trail[p] \in Seq(Trails)
    BY <1>2 DEF Typed
  <2>3. trail[p] \o (IF r.content = "anomaly" THEN Raised(p) ELSE <<>>) \in Seq(Trails)
    BY <2>1, <2>2
  <2>. QED
    BY <1>2, <2>3 DEF Typed
<1>. QED
  BY <1>0, <1>2, <1>8, <1>9, <1>10, <1>11, <1>12 DEF Typed

\* What the end of a load makes of the book and of run (Clear).
LEMMA ClearFields ==
    ASSUME Typed, Clear
    PROVE  /\ run.pc = "rows" /\ run.next = Len(run.file) + 1 /\ UNCHANGED loads
           /\ Shape(run') /\ run'.pc = "done"
           /\ run'.dry = run.dry /\ run'.file = run.file /\ run'.next = run.next
           /\ run'.start = run.start /\ run'.seen = run.seen
           /\ run'.conflicting = run.conflicting
           /\ run.dry => book' = book /\ trail' = trail
           /\ ~run.dry =>
                /\ book' = [customer |-> book.customer, issued |-> book.issued,
                            live |-> book.live, claims |-> book.claims,
                            anomaly |-> [p \in Policies |->
                                IF p \in Stale THEN Reason(p) ELSE book.anomaly[p]]]
                /\ trail' = [p \in Policies |->
                                IF p \notin Stale THEN trail[p]
                                ELSE Append(trail[p], IF p \in run.seen THEN "cleared_corrected"
                                                                        ELSE "cleared_absent")]
<1>1. run.pc = "rows" /\ run.next > Len(run.file) /\ UNCHANGED loads
  BY DEF Clear
<1>2. run.next = Len(run.file) + 1
  BY <1>1, FilesAreRows DEF Typed, RunTyped
<1>3. \E counts : run' = [pc |-> "done", dry |-> run.dry, file |-> run.file,
                          next |-> run.next, start |-> run.start, seen |-> run.seen,
                          conflicting |-> run.conflicting, counts |-> counts]
  <2> DEFINE r == [pc |-> run.pc, dry |-> run.dry, file |-> run.file, next |-> run.next,
                   start |-> run.start, seen |-> run.seen,
                   conflicting |-> run.conflicting, counts |-> run.counts]
  <2>1. run = r
    BY DEF Typed, RunTyped, Shape
  <2>2. run' = [run EXCEPT
          !.pc = "done",
          !.counts.corrected = Cardinality({p \in Stale : Reason(p) = "corrected"}),
          !.counts.absent = Cardinality({p \in Stale : Reason(p) = "absent"})]
    BY DEF Clear
  <2>. QED
    BY <2>1, <2>2
<1>4. book = [customer |-> book.customer, issued |-> book.issued, live |-> book.live,
              claims |-> book.claims, anomaly |-> book.anomaly]
  BY DEF Typed, Book
<1>5. ASSUME ~run.dry
      PROVE  /\ book' = [customer |-> book.customer, issued |-> book.issued,
                         live |-> book.live, claims |-> book.claims,
                         anomaly |-> [p \in Policies |->
                             IF p \in Stale THEN Reason(p) ELSE book.anomaly[p]]]
             /\ trail' = [p \in Policies |->
                             IF p \notin Stale THEN trail[p]
                             ELSE Append(trail[p], IF p \in run.seen THEN "cleared_corrected"
                                                                     ELSE "cleared_absent")]
  BY <1>4, <1>5 DEF Clear
<1>6. run.dry => book' = book /\ trail' = trail
  BY DEF Clear
<1>7. /\ Shape(run') /\ run'.pc = "done"
      /\ run'.dry = run.dry /\ run'.file = run.file /\ run'.next = run.next
      /\ run'.start = run.start /\ run'.seen = run.seen
      /\ run'.conflicting = run.conflicting
  BY <1>3 DEF Shape
<1>. QED
  BY <1>1, <1>2, <1>5, <1>6, <1>7

\* The end of a load keeps everything typed (Clear).
LEMMA ClearTyped ==
    ASSUME Typed, Clear
    PROVE  Typed'
<1>1. RunTyped'
  BY ClearFields DEF Typed, RunTyped
<1>2. CASE run.dry
  BY ZenonT(60), <1>1, <1>2, ClearFields DEF Typed, SetsTyped, WellFormed, Last
<1>3. CASE ~run.dry
  <2>1. /\ book'.customer = book.customer /\ book'.issued = book.issued
        /\ book'.live = book.live /\ book'.claims = book.claims
        /\ \A p \in Policies : book'.anomaly[p] =
             IF p \in Stale THEN Reason(p) ELSE book.anomaly[p]
    BY <1>3, ClearFields
  <2>2. book' \in Book
    <3>1. \A p \in Policies : book.anomaly[p] \in AnomalyStates /\ Reason(p) \in AnomalyStates
      BY DEF Typed, Book, Reason, AnomalyStates
    <3>2. [p \in Policies |-> IF p \in Stale THEN Reason(p) ELSE book.anomaly[p]]
            \in [Policies -> AnomalyStates]
      BY <3>1
    <3>. QED
      BY <1>3, <3>2, ClearFields DEF Typed, Book
  <2>3. WellFormed(book')
    BY <2>1 DEF Typed, WellFormed, Stale
  <2>4. SetsTyped'
    BY <2>1, ClearFields DEF Typed, SetsTyped, Last
  <2>5. trail' \in [Policies -> Seq(Trails)]
    <3>1. \A p \in Policies : trail[p] \in Seq(Trails)
      BY DEF Typed
    <3>2. \A p \in Policies :
            Append(trail[p], IF p \in run.seen THEN "cleared_corrected" ELSE "cleared_absent")
              \in Seq(Trails)
      BY <3>1 DEF Trails
    <3>. QED
      BY <1>3, <3>1, <3>2, ClearFields
  <2>. QED
    BY <1>1, <2>2, <2>3, <2>4, <2>5, ClearFields DEF Typed
<1>. QED
  BY <1>2, <1>3, ClearFields DEF Typed, RunTyped

\* The state between two loads (Idle).
LEMMA IdleTyped ==
    ASSUME Typed, UNCHANGED <<book, trail, loads>>, run' = Idle(book)
    PROVE  Typed'
<1>1. RunTyped'
  BY DEF Typed, RunTyped, Idle, Shape, WellFormed
<1>. QED
  BY <1>1 DEF Typed, SetsTyped, Idle, WellFormed

\* Init establishes it (Init).
LEMMA InitTyped == ASSUME Init PROVE Typed
<1>1. book \in Book /\ WellFormed(book)
  BY BooksAssumption DEF Init
<1>2. RunTyped /\ SetsTyped
  BY <1>1 DEF Init, RunTyped, SetsTyped, Idle, Shape
<1>3. trail \in [Policies -> Seq(Trails)]
  <2>1. /\ FirstTrail("none") = <<>>
        /\ FirstTrail("open") = <<"recorded">>
        /\ FirstTrail("corrected") = <<"recorded", "cleared_corrected">>
        /\ FirstTrail("absent") = <<"recorded", "cleared_absent">>
    BY DEF FirstTrail
  <2>2. \A s \in AnomalyStates : FirstTrail(s) \in Seq(Trails)
    <3>1. <<>> \in Seq(Trails) /\ <<"recorded">> \in Seq(Trails)
      BY DEF Trails
    <3>2. <<"recorded", "cleared_corrected">> \in Seq(Trails)
      BY DEF Trails
    <3>3. <<"recorded", "cleared_absent">> \in Seq(Trails)
      BY DEF Trails
    <3>. QED
      BY <2>1, <3>1, <3>2, <3>3 DEF AnomalyStates
  <2>. QED
    BY <1>1, <2>2 DEF Init, Book
<1>. QED
  BY <1>1, <1>2, <1>3, LoadsAssumption DEF Init, Typed, Idle

\* Every step keeps it (Next).
LEMMA NextTyped == ASSUME Typed, [Next]_vars PROVE Typed'
<1>1. ASSUME NEW f \in Files, NEW dry \in BOOLEAN, Start(f, dry) PROVE Typed'
  <2>1. run' = [pc |-> "rows", dry |-> dry, file |-> f, next |-> 1, start |-> book,
                seen |-> {}, conflicting |-> {}, counts |-> NoCounts]
    BY <1>1 DEF Start, Idle
  <2>2. RunTyped'
    BY <2>1, FilesAreRows DEF Typed, RunTyped, Shape
  <2>3. Room(book)
    BY <1>1 DEF Start, Room
  <2>4. loads' \in 0..MaxLoads
    BY <1>1, LoadsAssumption DEF Start, Typed
  <2>5. book' = book /\ trail' = trail
    BY <1>1 DEF Start
  <2>6. SetsTyped'
    BY <2>1 DEF SetsTyped
  <2>7. WellFormed(book)' /\ Room(book)'
    BY <2>3, <2>5 DEF Typed, WellFormed, Room
  <2>. QED
    BY <2>2, <2>4, <2>5, <2>6, <2>7 DEF Typed
<1>2. CASE RefuseRow
  BY <1>2, QuietRow DEF RefuseRow
<1>3. CASE PreviewRow
  <2>1. PICK counts : Turn(ExistingPolicy(Current), PreviewConflict(Current), counts)
    BY <1>3 DEF PreviewRow
  <2>2. PreviewConflict(Current) \in SUBSET ExistingPolicy(Current)
    BY DEF PreviewConflict
  <2>3. AtRow /\ UNCHANGED <<book, trail, loads>>
    BY <1>3 DEF PreviewRow
  <2>. QED
    BY <2>1, <2>2, <2>3, QuietRow
<1>4. CASE RefuseArchived
  BY <1>4, QuietRow DEF RefuseArchived
<1>5. CASE RefuseClaim
  BY <1>5, QuietRow DEF RefuseClaim
<1>6. CASE WriteRow
  BY <1>6, WriteTyped
<1>7. CASE Clear
  BY <1>7, ClearTyped
<1>8. CASE Die
  BY <1>8, IdleTyped DEF Die
<1>9. CASE Exit
  BY <1>9, IdleTyped DEF Exit
<1>10. CASE UNCHANGED vars
  BY <1>10 DEF vars, Typed, RunTyped, SetsTyped, Room, WellFormed, Shape, Last
<1>. QED
  BY <1>1, <1>2, <1>3, <1>4, <1>5, <1>6, <1>7, <1>8, <1>9, <1>10 DEF Next

\* The books, trails and runs of loaddataset have their types; in particular a
\* policy marked as seen or as conflicting is its key's live one (TypeOK).
THEOREM LoadTypeCorrect == Spec => []TypeOK
<1>1. Init => Typed
  BY InitTyped
<1>2. Typed /\ [Next]_vars => Typed'
  BY NextTyped
<1>3. Typed => TypeOK
  BY DEF Typed, RunTyped, SetsTyped, TypeOK
<1>. QED
  BY <1>1, <1>2, <1>3, PTL DEF Spec
-----------------------------------------------------------------------------
\* The policies the first n rows had something to say about: Seen of a prefix.
SeenBy(b, f, n, p) ==
    /\ b.live[p[1]] /\ p = Last(b, p[1]) /\ b.customer[p[1][1]] # "archived"
    /\ \E i \in 1..n : Key(f[i]) = p[1] /\ f[i].content # "invalid"

\* The policies they conflict with.
Raises(b, f, n, p) == p[2] = Issued(b, f, n, p[1]) /\ Conflicts(b, f, n, p[1])

\* While the rows are read the book is the effect of those read so far, and the
\* two Python sets hold what the final clearing asks of them.
RowsTrack ==
    LET b == run.start
        f == run.file
        n == run.next - 1
    IN  /\ book = Applied(b, f, n)
        /\ \A p \in Policies : p \in run.conflicting <=> Raises(b, f, n, p)
        /\ \A p \in Policies : b.anomaly[p] = "open"
                                 => (p \in run.seen <=> SeenBy(b, f, n, p))

\* A load in terms of the book it started from.
Tracks ==
    /\ run.pc = "rows" /\ ~run.dry => RowsTrack
    /\ run.pc = "done" /\ ~run.dry => book = Loaded(run.start, run.file)
    /\ run.pc # "idle" /\ run.dry => book = run.start

\* A book that agrees with the effect of some rows table by table is that
\* effect (Applied).
LEMMA BookSame ==
    ASSUME NEW c \in Book, NEW b, NEW f, NEW n,
           \A x \in Clients : c.customer[x] = Applied(b, f, n).customer[x],
           \A k \in Keys : c.issued[k] = Applied(b, f, n).issued[k],
           \A k \in Keys : c.live[k] = Applied(b, f, n).live[k],
           \A p \in Policies : c.claims[p] = Applied(b, f, n).claims[p],
           \A p \in Policies : c.anomaly[p] = Applied(b, f, n).anomaly[p]
    PROVE  c = Applied(b, f, n)
<1> DEFINE A == Applied(b, f, n)
<1>1. A = [customer |-> [x \in Clients |-> A.customer[x]],
           issued   |-> [k \in Keys |-> A.issued[k]],
           live     |-> [k \in Keys |-> A.live[k]],
           claims   |-> [p \in Policies |-> A.claims[p]],
           anomaly  |-> [p \in Policies |-> A.anomaly[p]]]
  BY ZenonT(60) DEF Applied
<1>2. c = [customer |-> c.customer, issued |-> c.issued, live |-> c.live,
           claims |-> c.claims, anomaly |-> c.anomaly]
  BY DEF Book
<1>3. /\ c.customer = [x \in Clients |-> c.customer[x]]
      /\ c.issued = [k \in Keys |-> c.issued[k]]
      /\ c.live = [k \in Keys |-> c.live[k]]
  BY DEF Book
<1>4. /\ c.claims = [p \in Policies |-> c.claims[p]]
      /\ c.anomaly = [p \in Policies |-> c.anomaly[p]]
  BY DEF Book
<1> HIDE DEF A
<1>5. /\ c.customer = [x \in Clients |-> A.customer[x]]
      /\ c.issued = [k \in Keys |-> A.issued[k]]
      /\ c.live = [k \in Keys |-> A.live[k]]
  BY <1>3 DEF A
<1>6. /\ c.claims = [p \in Policies |-> A.claims[p]]
      /\ c.anomaly = [p \in Policies |-> A.anomaly[p]]
  BY <1>4 DEF A
<1>7. c = A
  BY <1>1, <1>2, <1>5, <1>6
<1>. QED
  BY <1>7 DEF A

\* No row, no effect (Applied).
LEMMA NoRows ==
    ASSUME NEW b \in Book, NEW f
    PROVE  /\ b = Applied(b, f, 0)
           /\ \A p : ~Raises(b, f, 0, p) /\ ~SeenBy(b, f, 0, p)
<1>1. Accepted(b, f, 0) = {}
  BY DEF Accepted
<1>2. \A k : Named(b, f, 0, k) = {} /\ Claimed(b, f, 0, k) = {} /\ ~Conflicts(b, f, 0, k)
  BY <1>1 DEF Named, Claimed, Conflicts
<1>3. \A k : Issued(b, f, 0, k) = b.issued[k]
  BY <1>2 DEF Issued, Issues
<1>4. /\ \A x \in Clients : b.customer[x] = Applied(b, f, 0).customer[x]
      /\ \A k \in Keys : b.issued[k] = Applied(b, f, 0).issued[k]
  BY <1>1, <1>3, AppliedFields
<1>5. \A k \in Keys : b.live[k] = Applied(b, f, 0).live[k]
  <2> TAKE k \in Keys
  <2>1. b.live[k] \in BOOLEAN
    BY DEF Book
  <2>2. Applied(b, f, 0).live[k] = (b.live[k] \/ Named(b, f, 0, k) # {})
    BY AppliedFields
  <2>. QED
    BY <1>2, <2>1, <2>2
<1>6. /\ \A p \in Policies : b.claims[p] = Applied(b, f, 0).claims[p]
      /\ \A p \in Policies : b.anomaly[p] = Applied(b, f, 0).anomaly[p]
  BY <1>2, AppliedFields
<1>7. b = Applied(b, f, 0)
  BY <1>4, <1>5, <1>6, BookSame
<1>. QED
  BY <1>2, <1>7 DEF Raises, SeenBy

\* What one more row says about a policy (SeenBy).
LEMMA SeenByStep ==
    ASSUME NEW b, NEW f, NEW n \in Nat, NEW p
    PROVE  SeenBy(b, f, n + 1, p) <=>
             \/ SeenBy(b, f, n, p)
             \/ /\ Key(f[n + 1]) = p[1] /\ f[n + 1].content # "invalid"
                /\ b.live[p[1]] /\ p = Last(b, p[1]) /\ b.customer[p[1][1]] # "archived"
<1>1. 1..(n + 1) = (1..n) \cup {n + 1}
  OBVIOUS
<1>. QED
  BY <1>1 DEF SeenBy

\* What an accepted row conflicts with (Raises).
LEMMA RaisesStep ==
    ASSUME NEW b \in Book, NEW f \in Seq(Row), NEW n \in Nat, n < Len(f),
           AcceptedNext(b, f, n), NEW p \in Policies
    PROVE  Raises(b, f, n + 1, p) <=>
             \/ Raises(b, f, n, p)
             \/ f[n + 1].content = "anomaly" /\ p = Written(Applied(b, f, n), f[n + 1])
<1> DEFINE r == f[n + 1]
           w == Written(Applied(b, f, n), r)
           k == p[1]
<1>1. k \in Keys /\ p = <<k, p[2]>>
  BY PolicyParts
<1>2. w = <<Key(r), w[2]>>
  BY DEF Written
<1>3. Conflicts(b, f, n + 1, k) <=> Conflicts(b, f, n, k) \/ (k = Key(r) /\ r.content = "anomaly")
  BY NamedStep DEF NamesOnly
<1>4. /\ k = Key(r) => Issued(b, f, n + 1, k) = w[2]
      /\ k # Key(r) => Issued(b, f, n + 1, k) = Issued(b, f, n, k)
      /\ Named(b, f, n, k) # {} => Issued(b, f, n + 1, k) = Issued(b, f, n, k)
  BY <1>1, IssuedStep
<1>5. Conflicts(b, f, n, k) => Named(b, f, n, k) # {}
  BY DEF Conflicts
<1> HIDE DEF w, k, r
<1>6. Raises(b, f, n + 1, p) <=> Raises(b, f, n, p) \/ (r.content = "anomaly" /\ p = w)
  BY <1>1, <1>2, <1>3, <1>4, <1>5 DEF Raises, k
<1>. QED
  BY <1>6 DEF w, r

\* The prefix read so far, and the row after it.
LEMMA RowNumber ==
    ASSUME Typed, AtRow
    PROVE  LET n == run.next - 1
           IN  /\ run.file \in Seq(Row) /\ n \in Nat /\ n < Len(run.file)
               /\ n \in 0..Len(run.file) /\ n + 1 \in 0..Len(run.file)
               /\ Current = run.file[n + 1] /\ run.next = n + 1
               /\ run.start \in Book /\ WellFormed(run.start)
<1>1. run.file \in Seq(Row) /\ Len(run.file) \in Nat /\ run.next \in 1..Len(run.file)
  BY FilesAreRows, RowKey DEF Typed, RunTyped
<1>2. run.start \in Book /\ WellFormed(run.start)
  BY DEF Typed, RunTyped
<1>. QED
  BY <1>1, <1>2 DEF Current

\* The row under way is that of a customer archived when the load started, if
\* it is that of one archived now (Applied).
LEMMA ArchivedSince ==
    ASSUME Typed, AtRow, RowsTrack
    PROVE  /\ \A x \in Clients : book.customer[x] = "archived" <=> run.start.customer[x] = "archived"
           /\ Key(Current)[1] = Current.client /\ Current.client \in Clients
<1>1. SameArchive(run.start, Applied(run.start, run.file, run.next - 1))
  BY RowNumber, ArchiveKept
<1>2. book = Applied(run.start, run.file, run.next - 1)
  BY DEF RowsTrack
<1>3. Key(Current)[1] = Current.client
  BY DEF Key
<1>. QED
  BY <1>1, <1>2, <1>3, RowKey DEF SameArchive

\* A refused row changes what the load remembers only by the policy it was
\* found to be of, and the effect of the rows not at all (RefuseRow,
\* RefuseArchived, RefuseClaim).
LEMMA RefusedTracks ==
    ASSUME Typed, AtRow, RowsTrack, RefuseRow \/ RefuseArchived \/ RefuseClaim
    PROVE  RowsTrack'
<1> DEFINE b == run.start
           f == run.file
           n == run.next - 1
           r == Current
<1>0. /\ f \in Seq(Row) /\ n \in Nat /\ n < Len(f) /\ n \in 0..Len(f)
      /\ r = f[n + 1] /\ run.next = n + 1 /\ b \in Book /\ WellFormed(b)
  BY RowNumber
<1>1. PICK seen, counts :
        /\ Turn(seen, {}, counts)
        /\ seen = IF RefuseClaim THEN ExistingPolicy(r) ELSE {}
        /\ book' = book
  BY DEF RefuseRow, RefuseArchived, RefuseClaim
<1>2. /\ run'.file = f /\ run'.start = b /\ run'.next = run.next + 1
      /\ run'.seen = run.seen \cup seen /\ run'.conflicting = run.conflicting
  <2>1. RunTyped /\ Turn(seen, {}, counts)
    BY <1>1 DEF Typed
  <2>2. /\ run'.file = run.file /\ run'.start = run.start /\ run'.next = run.next + 1
        /\ run'.seen = run.seen \cup seen /\ run'.conflicting = run.conflicting \cup {}
    BY <2>1, TurnFields
  <2>. QED
    BY <2>2
<1>3. run'.next - 1 = n + 1
  BY <1>0, <1>2
<1>4. b.customer[r.client] = "archived" <=> book.customer[r.client] = "archived"
  BY ArchivedSince
<1>5. \/ r.content \in {"invalid", "badclaim"}
      \/ b.customer[r.client] = "archived"
  BY <1>4 DEF RefuseRow, RefuseArchived, RefuseClaim
<1>6. /\ Applied(b, f, n + 1) = Applied(b, f, n)
      /\ \A k : /\ Conflicts(b, f, n + 1, k) <=> Conflicts(b, f, n, k)
                /\ Issued(b, f, n + 1, k) = Issued(b, f, n, k)
  BY <1>0, <1>5, AppliedRefused
<1>7. \A p : Raises(b, f, n + 1, p) <=> Raises(b, f, n, p)
  BY <1>6 DEF Raises
<1>8. ASSUME NEW p \in Policies, b.anomaly[p] = "open"
      PROVE  p \in run'.seen <=> SeenBy(b, f, n + 1, p)
  <2> DEFINE new == /\ Key(r) = p[1] /\ r.content # "invalid"
                    /\ b.live[p[1]] /\ p = Last(b, p[1]) /\ b.customer[p[1][1]] # "archived"
  <2>1. SeenBy(b, f, n + 1, p) <=> SeenBy(b, f, n, p) \/ new
    <3> HIDE DEF b, f, n, r
    <3>. QED
      BY <1>0, SeenByStep
  <2>2. p \in run.seen <=> SeenBy(b, f, n, p)
    BY <1>8 DEF RowsTrack
  <2>3. p \in seen <=> new
    <3>1. CASE RefuseClaim
      <4>1. r.content # "invalid" /\ b.customer[r.client] # "archived"
        BY <1>4, <3>1 DEF RefuseClaim
      <4>2. (book.live[p[1]] /\ p = Last(book, p[1])) <=> (b.live[p[1]] /\ p = Last(b, p[1]))
        BY <1>0, <1>8, LastAgain DEF RowsTrack
      <4>3. p \in ExistingPolicy(r) <=> Key(r) = p[1] /\ book.live[p[1]] /\ p = Last(book, p[1])
        BY DEF ExistingPolicy, Last
      <4>4. Key(r) = p[1] => p[1][1] = r.client
        BY ArchivedSince
      <4>. QED
        BY <1>1, <3>1, <4>1, <4>2, <4>3, <4>4
    <3>2. CASE ~RefuseClaim
      <4>1. r.content = "invalid" \/ b.customer[r.client] = "archived"
        BY <1>4, <3>2 DEF RefuseRow, RefuseArchived
      <4>2. Key(r) = p[1] => p[1][1] = r.client
        BY ArchivedSince
      <4>. QED
        BY <1>1, <3>2, <4>1, <4>2
    <3>. QED
      BY <3>1, <3>2
  <2>. QED
    BY <1>2, <2>1, <2>2, <2>3
<1>. QED
  BY <1>1, <1>2, <1>3, <1>6, <1>7, <1>8 DEF RowsTrack

\* A row that goes through adds its own effect (WriteRow).
LEMMA WrittenTracks ==
    ASSUME Typed, RowsTrack, WriteRow
    PROVE  RowsTrack'
<1> DEFINE b == run.start
           f == run.file
           n == run.next - 1
           r == Current
           w == Written(book, r)
<1>0. AtRow
  BY DEF WriteRow, AtRow
<1>1. /\ f \in Seq(Row) /\ n \in Nat /\ n < Len(f) /\ n \in 0..Len(f)
      /\ r = f[n + 1] /\ run.next = n + 1 /\ b \in Book /\ WellFormed(b)
  BY <1>0, RowNumber
<1>2. book = Applied(b, f, n)
  BY DEF RowsTrack
<1>3. /\ w \in Policies /\ w[1] = Key(r)
      /\ book' \in Book
      /\ \A x \in Clients : book'.customer[x] = IF x = r.client THEN "live" ELSE book.customer[x]
      /\ \A k \in Keys : book'.issued[k] = IF k = Key(r) THEN w[2] ELSE book.issued[k]
      /\ \A k \in Keys : book'.live[k] = IF k = Key(r) THEN TRUE ELSE book.live[k]
      /\ \A q \in Policies : book'.claims[q] =
           IF q = w /\ r.content \in ClaimValues
           THEN WithClaim(book.claims[q], r.content) ELSE book.claims[q]
      /\ \A q \in Policies : book'.anomaly[q] =
           IF q = w /\ r.content = "anomaly" THEN "open" ELSE book.anomaly[q]
  BY WriteFields
<1>4. PICK counts : Turn({w}, IF r.content = "anomaly" THEN {w} ELSE {}, counts)
  BY WriteFields
<1>5. /\ run'.file = f /\ run'.start = b /\ run'.next = run.next + 1
      /\ run'.seen = run.seen \cup {w}
      /\ run'.conflicting = run.conflicting \cup (IF r.content = "anomaly" THEN {w} ELSE {})
  BY SMTT(60), <1>4, TurnFields DEF Typed
<1>6. b.customer[r.client] # "archived" /\ r.content \notin {"invalid", "badclaim"}
  BY <1>0, ArchivedSince DEF WriteRow
<1>7. AcceptedNext(b, f, n)
  BY <1>1, <1>6 DEF AcceptedNext
<1>8. book' = Applied(b, f, n + 1)
  <2> DEFINE c == Applied(b, f, n + 1)
  <2>1. /\ \A x \in Clients : c.customer[x] = IF x = r.client THEN "live" ELSE book.customer[x]
        /\ \A k \in Keys : c.issued[k] = IF k = Key(r) THEN w[2] ELSE book.issued[k]
        /\ \A k \in Keys : c.live[k] = IF k = Key(r) THEN TRUE ELSE book.live[k]
        /\ \A p \in Policies : c.claims[p] =
             IF p = w /\ r.content \in ClaimValues
             THEN WithClaim(book.claims[p], r.content) ELSE book.claims[p]
        /\ \A p \in Policies : c.anomaly[p] =
             IF p = w /\ r.content = "anomaly" THEN "open" ELSE book.anomaly[p]
    <3> DEFINE a == Applied(b, f, n)
               q == f[n + 1]
    <3> HIDE DEF b, f, n, r, c
    <3>1. /\ \A x \in Clients : c.customer[x] = IF x = q.client THEN "live" ELSE a.customer[x]
          /\ \A k \in Keys : c.issued[k] = IF k = Key(q) THEN Written(a, q)[2] ELSE a.issued[k]
          /\ \A k \in Keys : c.live[k] = IF k = Key(q) THEN TRUE ELSE a.live[k]
          /\ \A p \in Policies : c.claims[p] =
               IF p = Written(a, q) /\ q.content \in ClaimValues
               THEN WithClaim(a.claims[p], q.content) ELSE a.claims[p]
          /\ \A p \in Policies : c.anomaly[p] =
               IF p = Written(a, q) /\ q.content = "anomaly" THEN "open" ELSE a.anomaly[p]
      BY <1>1, <1>7, AppliedRow DEF c
    <3>2. a = book /\ q = r /\ Written(a, q) = w
      BY <1>1, <1>2
    <3> HIDE DEF a, q, w
    <3>. QED
      BY <3>1, <3>2
  <2> HIDE DEF c, r, w
  <2>2. /\ \A x \in Clients : book'.customer[x] = c.customer[x]
        /\ \A k \in Keys : book'.issued[k] = c.issued[k]
        /\ \A k \in Keys : book'.live[k] = c.live[k]
    BY <1>3, <2>1
  <2>3. \A p \in Policies : book'.claims[p] = c.claims[p]
    BY <1>3, <2>1
  <2>4. \A p \in Policies : book'.anomaly[p] = c.anomaly[p]
    BY <1>3, <2>1
  <2>. QED
    BY <1>3, <2>2, <2>3, <2>4, BookSame DEF c
<1>9. \A p \in Policies : p \in run'.conflicting <=> Raises(b, f, n + 1, p)
  <2> TAKE p \in Policies
  <2>1. Raises(b, f, n + 1, p) <=> Raises(b, f, n, p) \/ (r.content = "anomaly" /\ p = w)
    BY <1>1, <1>2, <1>7, RaisesStep
  <2>2. p \in run.conflicting <=> Raises(b, f, n, p)
    BY DEF RowsTrack
  <2>. QED
    BY <1>5, <2>1, <2>2
<1>10. ASSUME NEW p \in Policies, b.anomaly[p] = "open"
       PROVE  p \in run'.seen <=> SeenBy(b, f, n + 1, p)
  <2> DEFINE new == /\ Key(r) = p[1] /\ r.content # "invalid"
                    /\ b.live[p[1]] /\ p = Last(b, p[1]) /\ b.customer[p[1][1]] # "archived"
  <2>1. SeenBy(b, f, n + 1, p) <=> SeenBy(b, f, n, p) \/ new
    <3> HIDE DEF b, f, n, r
    <3>. QED
      BY <1>1, SeenByStep
  <2>2. p \in run.seen <=> SeenBy(b, f, n, p)
    BY <1>10 DEF RowsTrack
  <2>3. p = w <=> new
    <3>1. /\ (book.live[p[1]] /\ p = Last(book, p[1])) <=> (b.live[p[1]] /\ p = Last(b, p[1]))
          /\ ~book.live[p[1]] => p # <<p[1], book.issued[p[1]] + 1>>
      <4> HIDE DEF b, f, n
      <4>. QED
        BY <1>1, <1>2, <1>10, LastAgain
    <3>2. w = <<Key(r), IF book.live[Key(r)] THEN book.issued[Key(r)] ELSE book.issued[Key(r)] + 1>>
      BY DEF Written
    <3>3. p = w <=> Key(r) = p[1] /\ b.live[p[1]] /\ p = Last(b, p[1])
      BY <1>3, <3>1, <3>2 DEF Last
    <3>4. Key(r) = p[1] => p[1][1] = r.client
      BY <1>0, ArchivedSince
    <3>. QED
      BY <1>6, <3>3, <3>4
  <2>. QED
    BY <1>5, <2>1, <2>2, <2>3
<1>11. run'.next - 1 = n + 1
  BY <1>1, <1>5
<1>. QED
  BY SMTT(60), <1>5, <1>8, <1>9, <1>10, <1>11 DEF RowsTrack

\* The end of a load clears what Settled says (Clear).
LEMMA ClearLoads ==
    ASSUME Typed, RowsTrack, Clear, ~run.dry
    PROVE  book' = Loaded(run.start, run.file)
<1> DEFINE b == run.start
           f == run.file
           N == Len(f)
           A == Applied(b, f, N)
<1>0. f \in Seq(Row) /\ N \in 0..Len(f) /\ N \in Nat /\ b \in Book /\ WellFormed(b)
  <2>1. f \in Seq(Row) /\ N \in Nat
    BY FilesAreRows DEF Typed, RunTyped
  <2>. QED
    BY <2>1 DEF Typed, RunTyped
<1>1. /\ run.next - 1 = N
      /\ book' = [customer |-> book.customer, issued |-> book.issued,
                  live |-> book.live, claims |-> book.claims,
                  anomaly |-> [p \in Policies |->
                      IF p \in Stale THEN Reason(p) ELSE book.anomaly[p]]]
  BY <1>0, ClearFields
<1>2. /\ book = A
      /\ \A p \in Policies : p \in run.conflicting <=> Raises(b, f, N, p)
      /\ \A p \in Policies : b.anomaly[p] = "open" => (p \in run.seen <=> SeenBy(b, f, N, p))
  BY <1>1 DEF RowsTrack
<1>3. \A p \in Policies : (IF p \in Stale THEN Reason(p) ELSE book.anomaly[p]) = Settled(b, f, p)
  <2> TAKE p \in Policies
  <2>1. Raises(b, f, N, p) <=> Conflicts(b, f, N, p[1]) /\ p = Last(A, p[1])
    <3>1. A.issued[p[1]] = Issued(b, f, N, p[1])
      BY PolicyParts, AppliedFields
    <3>. QED
      BY <3>1, PolicyParts DEF Raises, Last
  <2>2. A.anomaly[p] = "open" /\ ~Raises(b, f, N, p) => b.anomaly[p] = "open"
    BY AppliedFields DEF Raises
  <2>3. SeenBy(b, f, N, p) <=> Seen(b, f, p)
    BY DEF SeenBy, Seen
  <2>4. p \in Stale <=> A.anomaly[p] = "open" /\ ~Raises(b, f, N, p)
    BY <1>2 DEF Stale
  <2>5. Settled(b, f, p) = IF A.anomaly[p] # "open" \/ Raises(b, f, N, p) THEN A.anomaly[p]
                           ELSE IF Seen(b, f, p) THEN "corrected" ELSE "absent"
    BY <2>1 DEF Settled, Confirmed
  <2>6. p \in Stale => Reason(p) = IF Seen(b, f, p) THEN "corrected" ELSE "absent"
    BY <1>2, <2>2, <2>3, <2>4 DEF Reason
  <2> HIDE DEF A
  <2>. QED
    BY <1>2, <2>4, <2>5, <2>6
<1> DEFINE T == [p \in Policies |-> Settled(b, f, p)]
<1>4. [p \in Policies |-> IF p \in Stale THEN Reason(p) ELSE book.anomaly[p]] = T
  BY <1>3
<1>5. A = [customer |-> A.customer, issued |-> A.issued, live |-> A.live,
           claims |-> A.claims, anomaly |-> A.anomaly]
  BY DEF Applied
<1>6. Loaded(b, f) = [A EXCEPT !.anomaly = T]
  BY DEF Loaded
<1> HIDE DEF A, T
<1>7. Loaded(b, f) = [customer |-> A.customer, issued |-> A.issued, live |-> A.live,
                      claims |-> A.claims, anomaly |-> T]
  BY <1>5, <1>6
<1>. QED
  BY <1>1, <1>2, <1>4, <1>7

\* Every step keeps track (Next).
LEMMA NextTracks == ASSUME Typed, Tracks, [Next]_vars PROVE Tracks'
<1>1. ASSUME NEW f \in Files, NEW dry \in BOOLEAN, Start(f, dry) PROVE Tracks'
  <2>1. /\ run' = [pc |-> "rows", dry |-> dry, file |-> f, next |-> 1, start |-> book,
                   seen |-> {}, conflicting |-> {}, counts |-> NoCounts]
        /\ book' = book
    BY <1>1 DEF Start, Idle
  <2>2. /\ book = Applied(book, f, 0)
        /\ \A p : ~Raises(book, f, 0, p) /\ ~SeenBy(book, f, 0, p)
    BY NoRows DEF Typed
  <2>3. run'.next - 1 = 0
    BY <2>1
  <2>4. RowsTrack'
    BY <2>1, <2>2, <2>3 DEF RowsTrack
  <2>. QED
    BY <2>1, <2>4 DEF Tracks
<1>2. CASE RefuseRow \/ RefuseArchived \/ RefuseClaim
  <2>1. /\ AtRow /\ run.pc = "rows" /\ book' = book
        /\ \E seen, counts : Turn(seen, {}, counts)
    BY <1>2 DEF RefuseRow, RefuseArchived, RefuseClaim, AtRow
  <2>2. run'.pc = run.pc /\ run'.dry = run.dry /\ run'.start = run.start
    BY <2>1, TurnFields DEF Typed
  <2>3. ~run.dry => RowsTrack'
    BY <1>2, <2>1, RefusedTracks DEF Tracks
  <2>. QED
    BY <2>1, <2>2, <2>3 DEF Tracks
<1>3. CASE PreviewRow
  <2>1. /\ run.pc = "rows" /\ run.dry /\ book' = book
        /\ \E seen, conflicting, counts : Turn(seen, conflicting, counts)
    BY <1>3 DEF PreviewRow, AtRow
  <2>2. run'.pc = run.pc /\ run'.dry = run.dry /\ run'.start = run.start
    BY <2>1, TurnFields DEF Typed
  <2>. QED
    BY <2>1, <2>2 DEF Tracks
<1>4. CASE WriteRow
  <2>1. run.pc = "rows" /\ ~run.dry
    BY <1>4 DEF WriteRow, AtRow
  <2>2. \E seen, conflicting, counts : Turn(seen, conflicting, counts)
    BY <1>4, WriteFields
  <2>3. run'.pc = run.pc /\ run'.dry = run.dry
    BY <2>2, TurnFields DEF Typed
  <2>4. RowsTrack'
    BY <1>4, <2>1, WrittenTracks DEF Tracks
  <2>. QED
    BY <2>1, <2>3, <2>4 DEF Tracks
<1>5. CASE Clear
  <2>1. /\ run.pc = "rows" /\ run'.pc = "done" /\ run'.dry = run.dry
        /\ run'.file = run.file /\ run'.start = run.start
        /\ run.dry => book' = book
    BY <1>5, ClearFields
  <2>2. ~run.dry => book' = Loaded(run.start, run.file)
    BY <1>5, <2>1, ClearLoads DEF Tracks
  <2>. QED
    BY <2>1, <2>2 DEF Tracks
<1>6. CASE Die \/ Exit
  <2>1. run'.pc = "idle"
    BY <1>6 DEF Die, Exit, Idle
  <2>. QED
    BY <2>1 DEF Tracks
<1>7. CASE UNCHANGED vars
  BY <1>7 DEF vars, Tracks, RowsTrack
<1>. QED
  BY <1>1, <1>2, <1>3, <1>4, <1>5, <1>6, <1>7 DEF Next

\* From wherever a load is, or dies, or has ended, loading the same file leads
\* to the book that load leads to (RestartEndsTheSame; FR-035, FR-043).
THEOREM RestartIsSafe == Spec => []RestartEndsTheSame
<1>1. Init => Typed /\ Tracks
  <2>1. Init => Tracks
    BY DEF Init, Tracks, Idle
  <2>. QED
    BY <2>1, InitTyped
<1>2. Typed /\ Tracks /\ [Next]_vars => (Typed /\ Tracks)'
  BY NextTyped, NextTracks
<1>3. Typed /\ Tracks => RestartEndsTheSame
  <2> SUFFICES ASSUME Typed, Tracks, run.pc # "idle", ~run.dry
               PROVE  Loaded(book, run.file) = Loaded(run.start, run.file)
    BY DEF RestartEndsTheSame
  <2>1. /\ run.file \in Seq(Row) /\ Len(run.file) \in Nat
        /\ run.next - 1 \in 0..Len(run.file)
        /\ run.start \in Book /\ WellFormed(run.start)
    BY FilesAreRows DEF Typed, RunTyped
  <2>2. CASE run.pc = "rows"
    <3>1. book = Applied(run.start, run.file, run.next - 1)
      BY <2>2 DEF Tracks, RowsTrack
    <3>. QED
      BY <2>1, <3>1, RestartAfterCrash
  <2>3. CASE run.pc = "done"
    <3>1. book = Loaded(run.start, run.file)
      BY <2>3 DEF Tracks
    <3>. QED
      BY <2>1, <3>1, LoadIdempotent
  <2>. QED
    BY <2>2, <2>3 DEF Typed, RunTyped
<1>. QED
  BY <1>1, <1>2, <1>3, PTL DEF Spec
-----------------------------------------------------------------------------
\* The book a load shows while it is under way (Contract).
Shown == IF run.pc = "rows" THEN run.start ELSE book

\* LoadContract speaks of the same effect (LoadEffect).
LEMMA SameEffect ==
    /\ \A b, f, n : Contract!Applied(b, f, n) = Applied(b, f, n)
    /\ \A b, f, p : /\ Contract!Confirmed(b, f, p) <=> Confirmed(b, f, p)
                    /\ Contract!Observed(b, f, p) <=> Observed(b, f, p)
                    /\ Contract!Appears(b, f, p) <=> Appears(b, f, p)
<1>1. \A b, f, n, k : Contract!Conflicts(b, f, n, k) <=> Conflicts(b, f, n, k)
  BY DEF Contract!Conflicts, Conflicts, Contract!Named, Named, Contract!Key, Key,
         Contract!Accepted, Accepted
<1>2. \A b, f, n : Contract!Applied(b, f, n) = Applied(b, f, n)
  BY DEF Contract!Applied, Applied, Contract!Policies, Policies, Contract!Keys, Keys,
         Contract!Issued, Issued, Contract!Issues, Issues, Contract!WithClaim, WithClaim,
         Contract!LastClaim, LastClaim, Contract!Max, Max, Contract!Claimed, Claimed,
         Contract!Conflicts, Conflicts, Contract!Named, Named, Contract!Key, Key,
         Contract!Accepted, Accepted
<1>3. \A b, f, p : Contract!Confirmed(b, f, p) <=> Confirmed(b, f, p)
  BY <1>1, <1>2 DEF Contract!Confirmed, Confirmed, Contract!Last, Last
<1>4. \A b, p : Contract!Matched(b, p) <=> Matched(b, p)
  BY DEF Contract!Matched, Matched, Contract!Last, Last
<1>5. \A b, f, p : Contract!Observed(b, f, p) <=> Observed(b, f, p)
  BY <1>4 DEF Contract!Observed, Observed, Contract!Named, Named, Contract!Key, Key,
              Contract!Accepted, Accepted
<1>6. \A b, f, p : Contract!Appears(b, f, p) <=> Appears(b, f, p)
  BY <1>4 DEF Contract!Appears, Appears, Contract!Key, Key
<1>. QED
  BY <1>2, <1>3, <1>5, <1>6

\* An anomaly the rows leave open and none confirms becomes corrected if a row
\* showed it, and absent if no row is about it (Settled, Observed, Appears).
LEMMA SettledAsObserved ==
    ASSUME NEW b, NEW f \in Seq(Row), NEW p \in Policies,
           Applied(b, f, Len(f)).anomaly[p] = "open", ~Confirmed(b, f, p)
    PROVE  /\ Settled(b, f, p) \in {"corrected", "absent"}
           /\ Observed(b, f, p) => Settled(b, f, p) = "corrected" /\ Appears(b, f, p)
           /\ ~Appears(b, f, p) => Settled(b, f, p) = "absent"
<1>1. Settled(b, f, p) = IF Seen(b, f, p) THEN "corrected" ELSE "absent"
  BY DEF Settled
<1>2. Seen(b, f, p) => Appears(b, f, p)
  BY DEF Seen, Appears, Matched
<1>3. Observed(b, f, p) => Seen(b, f, p) /\ Appears(b, f, p)
  <2> SUFFICES ASSUME Observed(b, f, p) PROVE Seen(b, f, p) /\ Appears(b, f, p)
    OBVIOUS
  <2>1. PICK i \in Named(b, f, Len(f), p[1]) : TRUE
    BY DEF Observed
  <2>2. /\ i \in 1..Len(f) /\ Key(f[i]) = p[1] /\ f[i].content # "invalid"
        /\ b.customer[f[i].client] # "archived"
    BY <2>1 DEF Named, Accepted
  <2>3. p[1][1] = f[i].client
    BY <2>2 DEF Key
  <2>. QED
    BY <2>2, <2>3 DEF Observed, Matched, Seen, Appears
<1>. QED
  BY <1>1, <1>2, <1>3

\* The book a load leaves is one the contract allows (Loaded, Contract!Load).
LEMMA LoadedMeetsContract ==
    ASSUME NEW f \in Seq(Row), Shown \in Book, Shown' = Loaded(Shown, f)
    PROVE  Contract!Load(f)
<1> DEFINE A == Applied(Shown, f, Len(f))
<1>1. Shown' = [A EXCEPT !.anomaly = [p \in Policies |-> Settled(Shown, f, p)]]
  BY DEF Loaded
<1>2. Shown'.anomaly = [p \in Policies |-> Settled(Shown, f, p)]
  BY <1>1 DEF Applied
<1>3. \A p \in Policies : A.anomaly[p] \in AnomalyStates
  BY AppliedFields DEF Book, AnomalyStates
<1>4. Shown'.anomaly \in [Policies -> AnomalyStates]
  BY <1>2, <1>3 DEF Settled, AnomalyStates
<1>5. \A p \in Policies : Shown'.anomaly[p] \in Contract!Outcomes(f, p)
  <2> TAKE p \in Policies
  <2>1. Shown'.anomaly[p] = Settled(Shown, f, p)
    BY <1>2
  <2>2. Contract!Outcomes(f, p) =
          CASE A.anomaly[p] # "open" \/ Confirmed(Shown, f, p) -> {A.anomaly[p]}
            [] A.anomaly[p] = "open" /\ ~Confirmed(Shown, f, p) /\ Observed(Shown, f, p) -> {"corrected"}
            [] A.anomaly[p] = "open" /\ ~Confirmed(Shown, f, p) /\ ~Appears(Shown, f, p) -> {"absent"}
            [] OTHER -> {"open", "corrected", "absent"}
    BY SameEffect DEF Contract!Outcomes, Shown
  <2> HIDE DEF A
  <2>3. CASE A.anomaly[p] # "open" \/ Confirmed(Shown, f, p)
    <3>1. Settled(Shown, f, p) = A.anomaly[p]
      BY <2>3 DEF Settled, A
    <3>. QED
      BY <2>1, <2>2, <2>3, <3>1
  <2>4. CASE A.anomaly[p] = "open" /\ ~Confirmed(Shown, f, p)
    <3>1. /\ Settled(Shown, f, p) \in {"corrected", "absent"}
          /\ Observed(Shown, f, p) => Settled(Shown, f, p) = "corrected" /\ Appears(Shown, f, p)
          /\ ~Appears(Shown, f, p) => Settled(Shown, f, p) = "absent"
      BY <2>4, SettledAsObserved DEF A
    <3>. QED
      BY <2>1, <2>2, <2>4, <3>1
  <2>. QED
    BY <2>3, <2>4
<1>6. Shown' = [A EXCEPT !.anomaly = Shown'.anomaly]
  BY <1>1, <1>2
<1>. QED
  BY <1>4, <1>5, <1>6, SameEffect
     DEF Contract!Load, Contract!AnomalyStates, AnomalyStates, Contract!Policies, Policies,
         Contract!Keys, Keys, Shown

\* A load, whatever its rows and wherever it dies, implements LoadContract
\* (ImplementsContract): the step that ends it does what the file as a whole
\* calls for and clears what a row showed to be corrected, and what no row is
\* about as absent; the one that kills it leaves the effect of a prefix, and
\* every other step is a stutter.
THEOREM LoadImplementsContract == Spec => ImplementsContract
<1>1. Init => Typed /\ Tracks
  <2>1. Init => Tracks
    BY DEF Init, Tracks, Idle
  <2>. QED
    BY <2>1, InitTyped
<1>2. Typed /\ Tracks /\ [Next]_vars => (Typed /\ Tracks)'
  BY NextTyped, NextTracks
<1>3. Init => Contract!Init
  BY DEF Init, Idle, Contract!Init
<1>4. Typed /\ Tracks /\ [Next]_vars => [Contract!Next]_Shown
  <2> SUFFICES ASSUME Typed, Tracks, [Next]_vars, Shown' # Shown PROVE Contract!Next
    OBVIOUS
  <2>1. \E f \in Files : Contract!Load(f)
                         \/ \E n \in 0..Len(f) : Shown' = Applied(Shown, f, n)
    <3>1. CASE \E f \in Files, dry \in BOOLEAN : Start(f, dry)
      BY <3>1 DEF Start, Idle, Shown
    <3>2. CASE RefuseRow \/ PreviewRow \/ RefuseArchived \/ RefuseClaim \/ WriteRow
      <4>1. run.pc = "rows" /\ \E seen, conflicting, counts : Turn(seen, conflicting, counts)
        <5>1. CASE WriteRow
          BY <5>1, WriteFields DEF WriteRow, AtRow
        <5>. QED
          BY SMTT(60), <3>2, <5>1 DEF RefuseRow, PreviewRow, RefuseArchived, RefuseClaim, AtRow
      <4>2. run'.pc = run.pc /\ run'.start = run.start
        BY <4>1, TurnFields DEF Typed
      <4>. QED
        BY <4>1, <4>2 DEF Shown
    <3>3. CASE Clear
      <4>1. /\ run.pc = "rows" /\ run'.pc = "done" /\ run.file \in Files
            /\ run.dry => book' = book
        BY <3>3, ClearFields DEF Typed, RunTyped
      <4>2. run.dry => Shown' = Shown
        BY <4>1 DEF Tracks, Shown
      <4>3. ~run.dry => Shown' = Loaded(Shown, run.file)
        BY <3>3, <4>1, ClearLoads DEF Tracks, Shown
      <4>4. run.file \in Seq(Row) /\ Shown \in Book
        BY <4>1, FilesAreRows DEF Typed, RunTyped, Shown
      <4>5. ~run.dry => Contract!Load(run.file)
        BY <4>3, <4>4, LoadedMeetsContract
      <4>. QED
        BY <4>1, <4>2, <4>5
    <3>4. CASE Die
      <4>1. run.pc = "rows" /\ run'.pc = "idle" /\ book' = book /\ run.file \in Files
        BY <3>4 DEF Die, Idle, Typed, RunTyped
      <4>2. run.dry => Shown' = Shown
        BY <4>1 DEF Tracks, Shown
      <4>3. ~run.dry => Shown' = Applied(Shown, run.file, run.next - 1)
        BY <4>1 DEF Tracks, RowsTrack, Shown
      <4>4. run.next - 1 \in 0..Len(run.file)
        BY FilesAreRows DEF Typed, RunTyped
      <4>. QED
        BY <4>1, <4>2, <4>3, <4>4
    <3>5. CASE Exit
      BY <3>5 DEF Exit, Idle, Shown
    <3>6. CASE UNCHANGED vars
      BY <3>6 DEF vars, Shown
    <3>. QED
      BY <3>1, <3>2, <3>3, <3>4, <3>5, <3>6 DEF Next
  <2>. QED
    BY <2>1, SameEffect DEF Contract!Next, Contract!DieAt, Shown
<1>. QED
  BY <1>1, <1>2, <1>3, <1>4, PTL DEF Spec, ImplementsContract, Contract!Spec, Shown
-----------------------------------------------------------------------------
\* An entry that opens an anomaly.
Opens(e) == e \in {"recorded", "reraised"}

\* What TrailTellsState says of one policy's trail t and anomaly s.
Tells(t, s) ==
    /\ \A i \in 1..Len(t) : /\ (t[i] = "recorded") <=> (i = 1)
                            /\ i > 1 => Opens(t[i]) # Opens(t[i - 1])
    /\ s = IF t = <<>> THEN "none"
           ELSE IF Opens(t[Len(t)]) THEN "open"
           ELSE IF t[Len(t)] = "cleared_corrected" THEN "corrected" ELSE "absent"

\* One more entry that opens a closed trail or closes an open one.
LEMMA TellsMore ==
    ASSUME NEW t \in Seq(Trails), NEW s, Tells(t, s), NEW e \in Trails, NEW s2,
           (e = "recorded") <=> (s = "none"),
           s # "none" => (Opens(e) <=> s # "open"),
           s = "none" => e = "recorded",
           s2 = IF Opens(e) THEN "open"
                ELSE IF e = "cleared_corrected" THEN "corrected" ELSE "absent"
    PROVE  Tells(Append(t, e), s2)
<1> DEFINE u == Append(t, e)
           n == Len(t)
<1>1. /\ n \in Nat /\ Len(u) = n + 1 /\ u[n + 1] = e /\ u # <<>>
      /\ \A i \in 1..n : u[i] = t[i]
  OBVIOUS
<1>2. s = "none" <=> t = <<>>
  BY DEF Tells
<1>3. t = <<>> <=> n = 0
  OBVIOUS
<1>4. n > 0 => (Opens(t[n]) <=> s = "open")
  BY <1>3 DEF Tells
<1> HIDE DEF u, n
<1>5. ASSUME NEW i \in 1..(n + 1)
      PROVE  /\ (u[i] = "recorded") <=> (i = 1)
             /\ i > 1 => Opens(u[i]) # Opens(u[i - 1])
  <2>1. CASE i \in 1..n
    <3>1. u[i] = t[i]
      BY <1>1, <2>1
    <3>2. i > 1 => u[i - 1] = t[i - 1]
      BY <1>1, <2>1
    <3>. QED
      BY <2>1, <3>1, <3>2 DEF Tells, n
  <2>2. CASE i = n + 1
    <3>1. (u[i] = "recorded") <=> (i = 1)
      BY <1>1, <1>2, <1>3, <2>2 DEF n
    <3>2. i > 1 => n > 0 /\ u[i - 1] = t[n]
      BY <1>1, <2>2
    <3>3. i > 1 => Opens(e) # Opens(t[n])
      <4>1. i > 1 => (Opens(e) <=> ~Opens(t[n]))
        BY <1>2, <1>3, <1>4, <3>2 DEF n
      <4>. QED
        BY <4>1 DEF Opens
    <3>. QED
      BY <1>1, <2>2, <3>1, <3>2, <3>3
  <2>. QED
    BY <1>1, <2>1, <2>2
<1>6. Tells(u, s2)
  BY <1>1, <1>5 DEF Tells
<1>. QED
  BY <1>6 DEF u

\* The trail of every policy tells its anomaly's state.
Told == \A p \in Policies : Tells(trail[p], book.anomaly[p])

\* A row that goes through keeps it (_record_anomaly, WriteRow).
LEMMA WriteTold == ASSUME Typed, Told, WriteRow PROVE Told'
<1> DEFINE r == Current
           w == Written(book, r)
<1>1. /\ w \in Policies
      /\ \A q \in Policies : book'.anomaly[q] =
           IF q = w /\ r.content = "anomaly" THEN "open" ELSE book.anomaly[q]
      /\ trail' = [trail EXCEPT ![w] = @ \o IF r.content = "anomaly" THEN Raised(w) ELSE <<>>]
  BY WriteFields
<1>2. /\ trail \in [Policies -> Seq(Trails)]
      /\ \A q \in Policies : book.anomaly[q] \in AnomalyStates
  BY DEF Typed, Book
<1> HIDE DEF r, w
<1>3. SUFFICES ASSUME NEW q \in Policies PROVE Tells(trail[q], book.anomaly[q])'
  BY DEF Told
<1>4. Tells(trail[q], book.anomaly[q]) /\ trail[q] \in Seq(Trails)
  BY <1>2 DEF Told
<1>5. CASE q # w \/ r.content # "anomaly" \/ book.anomaly[q] = "open"
  <2>1. trail'[q] = trail[q] /\ book'.anomaly[q] = book.anomaly[q]
    BY <1>1, <1>2, <1>4, <1>5 DEF Raised
  <2>. QED
    BY <1>4, <2>1
<1>6. CASE q = w /\ r.content = "anomaly" /\ book.anomaly[q] # "open"
  <2> DEFINE e == IF book.anomaly[q] = "none" THEN "recorded" ELSE "reraised"
  <2>1. Raised(q) = <<e>>
    BY <1>2, <1>6 DEF Raised
  <2>2. trail[q] \o <<e>> = Append(trail[q], e)
    BY <1>4
  <2>3. trail'[q] = Append(trail[q], e) /\ book'.anomaly[q] = "open"
    BY <1>1, <1>2, <1>6, <2>1, <2>2
  <2>4. e \in Trails /\ Opens(e) /\ (e = "recorded" <=> book.anomaly[q] = "none")
    BY DEF Trails, Opens
  <2> HIDE DEF e
  <2>5. Tells(Append(trail[q], e), "open")
    BY <1>4, <1>6, <2>4, TellsMore
  <2>. QED
    BY <2>3, <2>5
<1>. QED
  BY <1>5, <1>6

\* The end of a load keeps it (_clear_stale_anomalies, Clear).
LEMMA ClearTold == ASSUME Typed, Told, Clear PROVE Told'
<1>1. CASE run.dry
  BY <1>1, ClearFields DEF Told
<1>2. CASE ~run.dry
  <2>1. SUFFICES ASSUME NEW p \in Policies PROVE Tells(trail[p], book.anomaly[p])'
    BY DEF Told
  <2>2. Tells(trail[p], book.anomaly[p]) /\ trail[p] \in Seq(Trails)
    BY DEF Told, Typed
  <2> DEFINE e == IF p \in run.seen THEN "cleared_corrected" ELSE "cleared_absent"
  <2>3. /\ book'.anomaly[p] = IF p \in Stale THEN Reason(p) ELSE book.anomaly[p]
        /\ trail'[p] = IF p \notin Stale THEN trail[p] ELSE Append(trail[p], e)
    <3>1. book'.anomaly = [q \in Policies |->
                              IF q \in Stale THEN Reason(q) ELSE book.anomaly[q]]
      BY <1>2, ClearFields
    <3>2. trail' = [q \in Policies |->
                       IF q \notin Stale THEN trail[q]
                       ELSE Append(trail[q], IF q \in run.seen THEN "cleared_corrected"
                                                               ELSE "cleared_absent")]
      BY <1>2, ClearFields
    <3>. QED
      BY <3>1, <3>2
  <2>4. CASE p \notin Stale
    BY <2>2, <2>3, <2>4
  <2>5. CASE p \in Stale
    <3>1. book.anomaly[p] = "open"
      BY <2>5 DEF Stale
    <3>2. e \in Trails /\ ~Opens(e) /\ e # "recorded"
      BY DEF Trails, Opens
    <3>3. Reason(p) = IF e = "cleared_corrected" THEN "corrected" ELSE "absent"
      BY DEF Reason
    <3> HIDE DEF e
    <3>4. Tells(Append(trail[p], e), Reason(p))
      BY <2>2, <3>1, <3>2, <3>3, TellsMore
    <3>. QED
      BY <2>3, <2>5, <3>4
  <2>. QED
    BY <2>4, <2>5
<1>. QED
  BY <1>1, <1>2

\* The trail a book starts with tells its anomalies (Init).
LEMMA InitTold == ASSUME Init PROVE Told
<1>1. SUFFICES ASSUME NEW p \in Policies PROVE Tells(trail[p], book.anomaly[p])
  BY DEF Told
<1>2. book.anomaly[p] \in AnomalyStates /\ trail[p] = FirstTrail(book.anomaly[p])
  BY BooksAssumption DEF Init, Book
<1>3. CASE book.anomaly[p] = "none"
  BY <1>2, <1>3 DEF FirstTrail, Tells
<1>4. CASE book.anomaly[p] = "open"
  <2>1. trail[p] = <<"recorded">>
    BY <1>2, <1>4 DEF FirstTrail
  <2>. QED
    BY <1>4, <2>1 DEF Tells, Opens
<1>5. CASE book.anomaly[p] = "corrected"
  <2>1. trail[p] = <<"recorded", "cleared_corrected">>
    BY <1>2, <1>5 DEF FirstTrail
  <2>. QED
    BY <1>5, <2>1 DEF Tells, Opens
<1>6. CASE book.anomaly[p] = "absent"
  <2>1. trail[p] = <<"recorded", "cleared_absent">>
    BY <1>2, <1>6 DEF FirstTrail
  <2>. QED
    BY <1>6, <2>1 DEF Tells, Opens
<1>. QED
  BY <1>2, <1>3, <1>4, <1>5, <1>6 DEF AnomalyStates

\* The audit trail alone tells the state of every anomaly and why it was
\* cleared, however often it was cleared and raised again (TrailTellsState;
\* FR-048a, SC-013).
THEOREM TrailIsTrue == Spec => []TrailTellsState
<1>1. Init => Typed /\ Told
  BY InitTyped, InitTold
<1>2. Typed /\ Told /\ [Next]_vars => (Typed /\ Told)'
  <2> SUFFICES ASSUME Typed, Told, [Next]_vars PROVE Told'
    BY NextTyped
  <2>1. CASE WriteRow
    BY <2>1, WriteTold
  <2>2. CASE Clear
    BY <2>2, ClearTold
  <2>3. CASE UNCHANGED <<book, trail>>
    BY <2>3 DEF Told
  <2>. QED
    BY <2>1, <2>2, <2>3 DEF Next, Start, RefuseRow, PreviewRow, RefuseArchived, RefuseClaim,
                            Die, Exit, vars
<1>3. Told => TrailTellsState
  BY DEF Told, Tells, Opens, TrailTellsState
<1>. QED
  BY <1>1, <1>2, <1>3, PTL DEF Spec
-----------------------------------------------------------------------------
\* The records the first n rows create, kind by kind: what Report counts of the
\* whole file.
NewCustomers(b, f, n) == {c \in Clients : /\ b.customer[c] = "absent"
                                          /\ \E i \in Accepted(b, f, n) : f[i].client = c}
NewPolicies(b, f, n)  == {k \in Keys : Issues(b, f, n, k)}
NewClaims(b, f, n)    == {k \in Keys : /\ Claimed(b, f, n, k) # {}
                                       /\ \/ Issues(b, f, n, k)
                                          \/ b.claims[Last(b, k)] = <<>>}
Saying(b, f, n, s)    == {i \in Accepted(b, f, n) : f[i].content = s}

\* Their numbers.
CreatedBy(b, f, n) ==
    [kind \in Kinds |-> Cardinality([customer |-> NewCustomers(b, f, n),
                                     policy   |-> NewPolicies(b, f, n),
                                     claim    |-> NewClaims(b, f, n)][kind])]

\* The report of the first n rows, before anything is cleared.
Tally(b, f, n) ==
    [created   |-> CreatedBy(b, f, n),
     refused   |-> n - Cardinality(Accepted(b, f, n)),
     skipped   |-> Cardinality(Saying(b, f, n, "skipped")),
     recorded  |-> Cardinality(Saying(b, f, n, "anomaly")),
     corrected |-> 0,
     absent    |-> 0]

\* A run whose report is to be that of the file as a whole.
Exact == run.dry => Plain(run.start, run.file)

\* While the rows are read the counts are those of the rows read so far.
CountsTrack ==
    LET b == run.start
        f == run.file
        n == run.next - 1
    IN  run.pc = "rows" /\ Exact =>
          /\ run.counts = Tally(b, f, n)
          /\ IsFiniteSet(NewCustomers(b, f, n)) /\ IsFiniteSet(NewPolicies(b, f, n))
          /\ IsFiniteSet(NewClaims(b, f, n))

\* The policies of b that the first n rows name with one of the contents S.
NamedWith(b, f, n, S) ==
    {p \in Policies : /\ b.live[p[1]] /\ p = Last(b, p[1])
                      /\ \E i \in 1..n : Key(f[i]) = p[1] /\ f[i].content \in S}

\* The contents of rows that are looked up in a preview.
LookedUp == {"skipped", "anomaly"} \cup ClaimValues

\* A dry run of a plain file fills the two Python sets from the book it reads.
DrySets ==
    LET b == run.start
        f == run.file
        n == run.next - 1
    IN  run.pc = "rows" /\ run.dry /\ Plain(b, f) =>
          /\ run.seen = NamedWith(b, f, n, LookedUp)
          /\ run.conflicting = NamedWith(b, f, n, {"anomaly"})

\* What is new in the row after the first n, if it is accepted.
IsNewCustomer(b, f, n) ==
    /\ b.customer[f[n + 1].client] = "absent"
    /\ ~\E i \in Accepted(b, f, n) : f[i].client = f[n + 1].client
IsNewPolicy(b, f, n) == ~b.live[Key(f[n + 1])] /\ Named(b, f, n, Key(f[n + 1])) = {}
IsNewClaim(b, f, n) ==
    /\ f[n + 1].content \in ClaimValues /\ Claimed(b, f, n, Key(f[n + 1])) = {}
    /\ ~b.live[Key(f[n + 1])] \/ b.claims[Last(b, Key(f[n + 1]))] = <<>>

\* A finite set that gets one element more, or none.
LEMMA OneMore ==
    ASSUME NEW S, IsFiniteSet(S), NEW T, NEW x, NEW more \in {0, 1},
           \/ more = 1 /\ T = S \cup {x} /\ x \notin S
           \/ more = 0 /\ T = S
    PROVE  IsFiniteSet(T) /\ Cardinality(T) = Cardinality(S) + more
<1>1. Cardinality(S) \in Nat
  BY FS_CardinalityType
<1>2. IsFiniteSet(S \cup {x}) /\ x \notin S => Cardinality(S \cup {x}) = Cardinality(S) + 1
  BY FS_AddElement
<1>. QED
  BY <1>1, <1>2, FS_AddElement

\* The row after the first n is one (Row).
LEMMA NextRow ==
    ASSUME NEW f \in Seq(Row), NEW n \in Nat, n < Len(f)
    PROVE  /\ f[n + 1] \in Row /\ f[n + 1].client \in Clients
           /\ Key(f[n + 1]) \in Keys /\ Key(f[n + 1])[1] = f[n + 1].client
<1>1. n + 1 \in 1..Len(f)
  OBVIOUS
<1>2. f[n + 1] \in Row
  BY <1>1
<1>. QED
  BY <1>2 DEF Row, Key, Keys

\* The customer an accepted row creates (NewCustomers).
LEMMA NewCustomersStep ==
    ASSUME NEW b \in Book, NEW f \in Seq(Row), NEW n \in Nat, n < Len(f),
           AcceptedNext(b, f, n)
    PROVE  /\ IsNewCustomer(b, f, n) =>
                /\ NewCustomers(b, f, n + 1) = NewCustomers(b, f, n) \cup {f[n + 1].client}
                /\ f[n + 1].client \notin NewCustomers(b, f, n)
           /\ ~IsNewCustomer(b, f, n) => NewCustomers(b, f, n + 1) = NewCustomers(b, f, n)
<1> DEFINE x == f[n + 1].client
<1>1. Accepted(b, f, n + 1) = Accepted(b, f, n) \cup {n + 1}
  BY AcceptedStep
<1>2. x \in Clients
  BY NextRow
<1>3. \A c : (\E i \in Accepted(b, f, n + 1) : f[i].client = c)
               <=> c = x \/ \E i \in Accepted(b, f, n) : f[i].client = c
  BY <1>1
<1>. QED
  BY <1>2, <1>3 DEF NewCustomers, IsNewCustomer

\* The policy it creates (NewPolicies).
LEMMA NewPoliciesStep ==
    ASSUME NEW b \in Book, NEW f \in Seq(Row), NEW n \in Nat, n < Len(f),
           AcceptedNext(b, f, n)
    PROVE  /\ IsNewPolicy(b, f, n) =>
                /\ NewPolicies(b, f, n + 1) = NewPolicies(b, f, n) \cup {Key(f[n + 1])}
                /\ Key(f[n + 1]) \notin NewPolicies(b, f, n)
           /\ ~IsNewPolicy(b, f, n) => NewPolicies(b, f, n + 1) = NewPolicies(b, f, n)
<1>1. Key(f[n + 1]) \in Keys
  BY NextRow
<1>2. \A k : NamesOnly(b, f, n, f[n + 1], k)
  BY NamedStep
<1>3. \A k : Issues(b, f, n + 1, k)
               <=> Issues(b, f, n, k) \/ (k = Key(f[n + 1]) /\ ~b.live[k])
  BY <1>2 DEF NamesOnly, Issues
<1>. QED
  BY <1>1, <1>3 DEF NewPolicies, IsNewPolicy, Issues

\* A key some row names has a new policy unless it has a live one (Issues).
LEMMA ClaimsOfKey ==
    ASSUME NEW b, NEW f, NEW n, NEW k
    PROVE  k \in NewClaims(b, f, n)
             <=> /\ k \in Keys /\ Claimed(b, f, n, k) # {}
                 /\ ~b.live[k] \/ b.claims[Last(b, k)] = <<>>
<1>1. Claimed(b, f, n, k) # {} => Named(b, f, n, k) # {}
  BY DEF Claimed
<1>. QED
  BY <1>1 DEF NewClaims, Issues

\* The claim it creates (NewClaims).
LEMMA NewClaimsStep ==
    ASSUME NEW b \in Book, NEW f \in Seq(Row), NEW n \in Nat, n < Len(f),
           AcceptedNext(b, f, n)
    PROVE  /\ IsNewClaim(b, f, n) =>
                /\ NewClaims(b, f, n + 1) = NewClaims(b, f, n) \cup {Key(f[n + 1])}
                /\ Key(f[n + 1]) \notin NewClaims(b, f, n)
           /\ ~IsNewClaim(b, f, n) => NewClaims(b, f, n + 1) = NewClaims(b, f, n)
<1>1. Key(f[n + 1]) \in Keys
  BY NextRow
<1>2. \A k : NamesOnly(b, f, n, f[n + 1], k)
  BY NamedStep
<1>3. \A k : Claimed(b, f, n + 1, k) # {}
               <=> Claimed(b, f, n, k) # {} \/ (k = Key(f[n + 1]) /\ f[n + 1].content \in ClaimValues)
  BY <1>2 DEF NamesOnly
<1>4. \A k : k \in NewClaims(b, f, n + 1)
               <=> k \in NewClaims(b, f, n) \/ (k = Key(f[n + 1]) /\ IsNewClaim(b, f, n))
  <2> TAKE k
  <2>. QED
    BY <1>1, <1>3, ClaimsOfKey DEF IsNewClaim
<1>5. IsNewClaim(b, f, n) => Key(f[n + 1]) \notin NewClaims(b, f, n)
  BY ClaimsOfKey DEF IsNewClaim
<1>. QED
  BY <1>4, <1>5

\* The rows that say s (Saying).
LEMMA SayingStep ==
    ASSUME NEW b, NEW f, NEW n \in Nat, NEW s
    PROVE  /\ AcceptedNext(b, f, n) /\ f[n + 1].content = s =>
                Saying(b, f, n + 1, s) = Saying(b, f, n, s) \cup {n + 1}
           /\ ~(AcceptedNext(b, f, n) /\ f[n + 1].content = s) =>
                Saying(b, f, n + 1, s) = Saying(b, f, n, s)
           /\ n + 1 \notin Saying(b, f, n, s) /\ n + 1 \notin Accepted(b, f, n)
           /\ IsFiniteSet(Accepted(b, f, n)) /\ IsFiniteSet(Saying(b, f, n, s))
<1>1. /\ AcceptedNext(b, f, n) => Accepted(b, f, n + 1) = Accepted(b, f, n) \cup {n + 1}
      /\ ~AcceptedNext(b, f, n) => Accepted(b, f, n + 1) = Accepted(b, f, n)
      /\ Accepted(b, f, n) \subseteq 1..n
  BY AcceptedStep
<1>2. n + 1 \notin 1..n /\ IsFiniteSet(1..n)
  BY FS_Interval
<1>3. IsFiniteSet(Accepted(b, f, n))
  BY <1>1, <1>2, FS_Subset
<1>4. Saying(b, f, n, s) \subseteq Accepted(b, f, n)
  BY DEF Saying
<1>5. IsFiniteSet(Saying(b, f, n, s))
  BY <1>3, <1>4, FS_Subset
<1>. QED
  BY <1>1, <1>2, <1>3, <1>4, <1>5 DEF Saying

\* The counts with four of the fields replaced (Counted).
LEMMA FourFields ==
    ASSUME NEW c, NEW d, NEW created, NEW refused, NEW skipped, NEW recorded,
           c = [created |-> c.created, refused |-> c.refused, skipped |-> c.skipped,
                recorded |-> c.recorded, corrected |-> c.corrected, absent |-> c.absent],
           d = [c EXCEPT !.created = created, !.refused = refused,
                         !.skipped = skipped, !.recorded = recorded]
    PROVE  d = [created |-> created, refused |-> refused, skipped |-> skipped,
                recorded |-> recorded, corrected |-> c.corrected, absent |-> c.absent]
  OBVIOUS

\* The counts after one more row (Counted).
LEMMA CountedIs ==
    ASSUME NEW created, NEW refused, NEW skipped, NEW recorded, NEW corrected, NEW absent,
           run.counts = [created |-> created, refused |-> refused, skipped |-> skipped,
                         recorded |-> recorded, corrected |-> corrected, absent |-> absent],
           NEW kinds, NEW outcome
    PROVE  Counted(kinds, outcome) =
             [created   |-> [kind \in Kinds |-> created[kind] + IF kind \in kinds THEN 1 ELSE 0],
              refused   |-> refused + IF outcome = "refused" THEN 1 ELSE 0,
              skipped   |-> skipped + IF outcome = "skipped" THEN 1 ELSE 0,
              recorded  |-> recorded + IF outcome = "anomaly" THEN 1 ELSE 0,
              corrected |-> corrected,
              absent    |-> absent]
<1> DEFINE fresh == [kind \in Kinds |-> created[kind] + IF kind \in kinds THEN 1 ELSE 0]
           r == refused + IF outcome = "refused" THEN 1 ELSE 0
           s == skipped + IF outcome = "skipped" THEN 1 ELSE 0
           a == recorded + IF outcome = "anomaly" THEN 1 ELSE 0
<1>1. /\ run.counts.created = created /\ run.counts.refused = refused
      /\ run.counts.skipped = skipped /\ run.counts.recorded = recorded
      /\ run.counts.corrected = corrected /\ run.counts.absent = absent
  OBVIOUS
<1>2. Counted(kinds, outcome) =
        [run.counts EXCEPT !.created = fresh, !.refused = r, !.skipped = s, !.recorded = a]
  BY ZenonT(60), <1>1 DEF Counted
<1> HIDE DEF fresh, r, s, a
<1>3. Counted(kinds, outcome) =
        [created |-> fresh, refused |-> r, skipped |-> s, recorded |-> a,
         corrected |-> corrected, absent |-> absent]
  <2> DEFINE c == run.counts
             d == Counted(kinds, outcome)
  <2>1. d = [c EXCEPT !.created = fresh, !.refused = r, !.skipped = s, !.recorded = a]
    BY <1>2
  <2>2. c = [created |-> c.created, refused |-> c.refused, skipped |-> c.skipped,
             recorded |-> c.recorded, corrected |-> c.corrected, absent |-> c.absent]
    OBVIOUS
  <2>3. c.corrected = corrected /\ c.absent = absent
    OBVIOUS
  <2> HIDE DEF c, d
  <2>4. d = [created |-> fresh, refused |-> r, skipped |-> s, recorded |-> a,
             corrected |-> c.corrected, absent |-> c.absent]
    BY <2>1, <2>2, FourFields
  <2>. QED
    BY <2>3, <2>4 DEF d
<1>. QED
  BY <1>3 DEF fresh, r, s, a

\* The tally, field by field (Tally).
LEMMA TallyIs ==
    ASSUME NEW b, NEW f, NEW n
    PROVE  /\ Tally(b, f, n) =
                [created   |-> CreatedBy(b, f, n),
                 refused   |-> n - Cardinality(Accepted(b, f, n)),
                 skipped   |-> Cardinality(Saying(b, f, n, "skipped")),
                 recorded  |-> Cardinality(Saying(b, f, n, "anomaly")),
                 corrected |-> 0, absent |-> 0]
           /\ CreatedBy(b, f, n) = [kind \in Kinds |-> CreatedBy(b, f, n)[kind]]
           /\ CreatedBy(b, f, n)["customer"] = Cardinality(NewCustomers(b, f, n))
           /\ CreatedBy(b, f, n)["policy"] = Cardinality(NewPolicies(b, f, n))
           /\ CreatedBy(b, f, n)["claim"] = Cardinality(NewClaims(b, f, n))
  BY DEF Tally, CreatedBy, Kinds

\* Counts that are those of a tally, field by field (Tally).
LEMMA IsTally ==
    ASSUME NEW b, NEW f, NEW n, NEW c, NEW refused, NEW skipped, NEW recorded,
           c = [created |-> CreatedBy(b, f, n), refused |-> refused, skipped |-> skipped,
                recorded |-> recorded, corrected |-> 0, absent |-> 0],
           refused = n - Cardinality(Accepted(b, f, n)),
           skipped = Cardinality(Saying(b, f, n, "skipped")),
           recorded = Cardinality(Saying(b, f, n, "anomaly"))
    PROVE  c = Tally(b, f, n)
  BY ZenonT(60), TallyIs

\* The counts of a row that goes through, in a run or in a preview (Counted).
LEMMA CountedAccepted ==
    ASSUME NEW b \in Book, NEW f \in Seq(Row), NEW n \in Nat, n < Len(f),
           AcceptedNext(b, f, n), run.counts = Tally(b, f, n),
           IsFiniteSet(NewCustomers(b, f, n)), IsFiniteSet(NewPolicies(b, f, n)),
           IsFiniteSet(NewClaims(b, f, n)),
           NEW kinds \in SUBSET Kinds,
           "customer" \in kinds <=> IsNewCustomer(b, f, n),
           "policy" \in kinds <=> IsNewPolicy(b, f, n),
           "claim" \in kinds <=> IsNewClaim(b, f, n)
    PROVE  /\ Counted(kinds, Outcome(f[n + 1])) = Tally(b, f, n + 1)
           /\ IsFiniteSet(NewCustomers(b, f, n + 1)) /\ IsFiniteSet(NewPolicies(b, f, n + 1))
           /\ IsFiniteSet(NewClaims(b, f, n + 1))
<1> DEFINE r == f[n + 1]
           one(more) == IF more THEN 1 ELSE 0
<1>1. /\ IsFiniteSet(NewCustomers(b, f, n + 1))
      /\ Cardinality(NewCustomers(b, f, n + 1))
           = Cardinality(NewCustomers(b, f, n)) + one("customer" \in kinds)
  <2>1. PICK more \in {0, 1} : more = one("customer" \in kinds)
    OBVIOUS
  <2>2. \/ /\ more = 1 /\ NewCustomers(b, f, n + 1) = NewCustomers(b, f, n) \cup {f[n + 1].client}
           /\ f[n + 1].client \notin NewCustomers(b, f, n)
        \/ more = 0 /\ NewCustomers(b, f, n + 1) = NewCustomers(b, f, n)
    BY <2>1, NewCustomersStep
  <2>3. /\ IsFiniteSet(NewCustomers(b, f, n + 1))
        /\ Cardinality(NewCustomers(b, f, n + 1)) = Cardinality(NewCustomers(b, f, n)) + more
    BY <2>2, OneMore
  <2>. QED
    BY <2>1, <2>3
<1>2. /\ IsFiniteSet(NewPolicies(b, f, n + 1))
      /\ Cardinality(NewPolicies(b, f, n + 1))
           = Cardinality(NewPolicies(b, f, n)) + one("policy" \in kinds)
  <2>1. PICK more \in {0, 1} : more = one("policy" \in kinds)
    OBVIOUS
  <2>2. \/ /\ more = 1 /\ NewPolicies(b, f, n + 1) = NewPolicies(b, f, n) \cup {Key(f[n + 1])}
           /\ Key(f[n + 1]) \notin NewPolicies(b, f, n)
        \/ more = 0 /\ NewPolicies(b, f, n + 1) = NewPolicies(b, f, n)
    BY <2>1, NewPoliciesStep
  <2>3. /\ IsFiniteSet(NewPolicies(b, f, n + 1))
        /\ Cardinality(NewPolicies(b, f, n + 1)) = Cardinality(NewPolicies(b, f, n)) + more
    BY <2>2, OneMore
  <2>. QED
    BY <2>1, <2>3
<1>3. /\ IsFiniteSet(NewClaims(b, f, n + 1))
      /\ Cardinality(NewClaims(b, f, n + 1))
           = Cardinality(NewClaims(b, f, n)) + one("claim" \in kinds)
  <2>1. PICK more \in {0, 1} : more = one("claim" \in kinds)
    OBVIOUS
  <2>2. \/ /\ more = 1 /\ NewClaims(b, f, n + 1) = NewClaims(b, f, n) \cup {Key(f[n + 1])}
           /\ Key(f[n + 1]) \notin NewClaims(b, f, n)
        \/ more = 0 /\ NewClaims(b, f, n + 1) = NewClaims(b, f, n)
    BY <2>1, NewClaimsStep
  <2>3. /\ IsFiniteSet(NewClaims(b, f, n + 1))
        /\ Cardinality(NewClaims(b, f, n + 1)) = Cardinality(NewClaims(b, f, n)) + more
    BY <2>2, OneMore
  <2>. QED
    BY <2>1, <2>3
<1>4. (n + 1) - Cardinality(Accepted(b, f, n + 1)) = n - Cardinality(Accepted(b, f, n))
  <2>1. /\ Accepted(b, f, n + 1) = Accepted(b, f, n) \cup {n + 1}
        /\ n + 1 \notin Accepted(b, f, n) /\ IsFiniteSet(Accepted(b, f, n))
    BY AcceptedStep, SayingStep
  <2>2. /\ Cardinality(Accepted(b, f, n)) \in Nat
        /\ Cardinality(Accepted(b, f, n + 1)) = Cardinality(Accepted(b, f, n)) + 1
    BY <2>1, FS_CardinalityType, FS_AddElement
  <2>. QED
    BY <2>2
<1>5. \A s \in {"skipped", "anomaly"} :
        /\ Cardinality(Saying(b, f, n + 1, s)) = Cardinality(Saying(b, f, n, s)) + one(r.content = s)
        /\ (Outcome(r) = s) <=> (r.content = s)
  <2> TAKE s \in {"skipped", "anomaly"}
  <2>1. (Outcome(r) = s) <=> (r.content = s)
    BY DEF Outcome
  <2>2. PICK more \in {0, 1} : more = one(r.content = s)
    OBVIOUS
  <2>3. /\ IsFiniteSet(Saying(b, f, n, s))
        /\ \/ more = 1 /\ Saying(b, f, n + 1, s) = Saying(b, f, n, s) \cup {n + 1}
              /\ n + 1 \notin Saying(b, f, n, s)
           \/ more = 0 /\ Saying(b, f, n + 1, s) = Saying(b, f, n, s)
    BY <2>2, SayingStep
  <2>4. Cardinality(Saying(b, f, n + 1, s)) = Cardinality(Saying(b, f, n, s)) + more
    BY <2>3, OneMore
  <2>. QED
    BY <2>1, <2>2, <2>4
<1>6. Outcome(r) # "refused"
  BY DEF Outcome
<1>7. CreatedBy(b, f, n + 1)
        = [kind \in Kinds |-> CreatedBy(b, f, n)[kind] + IF kind \in kinds THEN 1 ELSE 0]
  <2>1. \A kind \in Kinds : CreatedBy(b, f, n + 1)[kind]
                              = CreatedBy(b, f, n)[kind] + one(kind \in kinds)
    BY <1>1, <1>2, <1>3, TallyIs DEF Kinds
  <2>2. CreatedBy(b, f, n + 1) = [kind \in Kinds |-> CreatedBy(b, f, n + 1)[kind]]
    BY TallyIs
  <2>. QED
    BY <2>1, <2>2
<1>8. Counted(kinds, Outcome(r)) =
        [created   |-> CreatedBy(b, f, n + 1),
         refused   |-> n - Cardinality(Accepted(b, f, n)) + 0,
         skipped   |-> Cardinality(Saying(b, f, n, "skipped")) + one(r.content = "skipped"),
         recorded  |-> Cardinality(Saying(b, f, n, "anomaly")) + one(r.content = "anomaly"),
         corrected |-> 0, absent |-> 0]
  <2>1. /\ Outcome(r) # "refused"
        /\ Outcome(r) = "skipped" <=> r.content = "skipped"
        /\ Outcome(r) = "anomaly" <=> r.content = "anomaly"
    BY <1>5, <1>6
  <2> HIDE DEF r
  <2>. QED
    BY <1>7, <2>1, CountedIs, TallyIs
<1>9. n - Cardinality(Accepted(b, f, n)) + 0 = (n + 1) - Cardinality(Accepted(b, f, n + 1))
  <2>1. Cardinality(Accepted(b, f, n)) \in Nat
    BY SayingStep, FS_CardinalityType
  <2>. QED
    BY <1>4, <2>1
<1>10. /\ Cardinality(Saying(b, f, n + 1, "skipped"))
            = Cardinality(Saying(b, f, n, "skipped")) + one(r.content = "skipped")
       /\ Cardinality(Saying(b, f, n + 1, "anomaly"))
            = Cardinality(Saying(b, f, n, "anomaly")) + one(r.content = "anomaly")
  BY <1>5
<1> HIDE DEF one, r
<1>11. Counted(kinds, Outcome(r)) = Tally(b, f, n + 1)
  <2> DEFINE m == n + 1
             c == Counted(kinds, Outcome(r))
             x == n - Cardinality(Accepted(b, f, n)) + 0
             s == Cardinality(Saying(b, f, n, "skipped")) + one(r.content = "skipped")
             a == Cardinality(Saying(b, f, n, "anomaly")) + one(r.content = "anomaly")
  <2>1. c = [created |-> CreatedBy(b, f, m), refused |-> x, skipped |-> s, recorded |-> a,
             corrected |-> 0, absent |-> 0]
    BY Zenon, <1>8
  <2>2. x = m - Cardinality(Accepted(b, f, m))
    BY <1>9
  <2>3. /\ s = Cardinality(Saying(b, f, m, "skipped"))
        /\ a = Cardinality(Saying(b, f, m, "anomaly"))
    BY <1>9, <1>10
  <2> HIDE DEF m, c, x, s, a
  <2>4. c = Tally(b, f, m)
    BY <2>1, <2>2, <2>3, IsTally
  <2>. QED
    BY <2>4 DEF c, m
<1>. QED
  BY <1>1, <1>2, <1>3, <1>11 DEF r

\* The counts of a row that does not (RefuseRow, RefuseArchived, RefuseClaim).
LEMMA CountedRefused ==
    ASSUME NEW b \in Book, NEW f \in Seq(Row), NEW n \in Nat, n < Len(f),
           ~AcceptedNext(b, f, n), run.counts = Tally(b, f, n),
           IsFiniteSet(NewCustomers(b, f, n)), IsFiniteSet(NewPolicies(b, f, n)),
           IsFiniteSet(NewClaims(b, f, n))
    PROVE  /\ Counted({}, "refused") = Tally(b, f, n + 1)
           /\ NewCustomers(b, f, n + 1) = NewCustomers(b, f, n)
           /\ NewPolicies(b, f, n + 1) = NewPolicies(b, f, n)
           /\ NewClaims(b, f, n + 1) = NewClaims(b, f, n)
<1>1. Accepted(b, f, n + 1) = Accepted(b, f, n)
  BY AcceptedStep
<1>2. \A k : /\ Named(b, f, n + 1, k) = Named(b, f, n, k)
              /\ Claimed(b, f, n + 1, k) = Claimed(b, f, n, k)
  BY <1>1 DEF Named, Claimed
<1>3. /\ NewCustomers(b, f, n + 1) = NewCustomers(b, f, n)
      /\ NewPolicies(b, f, n + 1) = NewPolicies(b, f, n)
      /\ NewClaims(b, f, n + 1) = NewClaims(b, f, n)
  BY <1>1, <1>2 DEF NewCustomers, NewPolicies, NewClaims, Issues
<1>4. /\ \A s : Saying(b, f, n + 1, s) = Saying(b, f, n, s)
      /\ CreatedBy(b, f, n + 1) = CreatedBy(b, f, n)
  BY <1>1, <1>3 DEF Saying, CreatedBy
<1>5. CreatedBy(b, f, n)
        = [kind \in Kinds |-> CreatedBy(b, f, n)[kind] + IF kind \in {} THEN 1 ELSE 0]
  <2>1. \A kind \in Kinds : CreatedBy(b, f, n)[kind] \in Nat
    BY TallyIs, FS_CardinalityType DEF Kinds
  <2>2. \A kind \in Kinds : CreatedBy(b, f, n)[kind]
                              = CreatedBy(b, f, n)[kind] + IF kind \in {} THEN 1 ELSE 0
    BY <2>1
  <2>3. CreatedBy(b, f, n) = [kind \in Kinds |-> CreatedBy(b, f, n)[kind]]
    BY TallyIs
  <2>. QED
    BY <2>2, <2>3
<1>6. /\ Cardinality(Accepted(b, f, n)) \in Nat
      /\ \A s : Cardinality(Saying(b, f, n, s)) \in Nat
  BY SayingStep, FS_CardinalityType
<1>7. Counted({}, "refused") =
        [created   |-> CreatedBy(b, f, n + 1),
         refused   |-> n - Cardinality(Accepted(b, f, n)) + 1,
         skipped   |-> Cardinality(Saying(b, f, n, "skipped")) + 0,
         recorded  |-> Cardinality(Saying(b, f, n, "anomaly")) + 0,
         corrected |-> 0, absent |-> 0]
  BY <1>4, <1>5, CountedIs, TallyIs
<1>8. /\ n - Cardinality(Accepted(b, f, n)) + 1 = (n + 1) - Cardinality(Accepted(b, f, n + 1))
      /\ \A s : Cardinality(Saying(b, f, n, s)) + 0 = Cardinality(Saying(b, f, n + 1, s))
  BY <1>1, <1>4, <1>6
<1>9. Counted({}, "refused") = Tally(b, f, n + 1)
  <2> DEFINE m == n + 1
             c == Counted({}, "refused")
             x == n - Cardinality(Accepted(b, f, n)) + 1
             s == Cardinality(Saying(b, f, n, "skipped")) + 0
             a == Cardinality(Saying(b, f, n, "anomaly")) + 0
  <2>1. c = [created |-> CreatedBy(b, f, m), refused |-> x, skipped |-> s, recorded |-> a,
             corrected |-> 0, absent |-> 0]
    BY Zenon, <1>7
  <2>2. x = m - Cardinality(Accepted(b, f, m))
    BY Zenon, <1>8
  <2>3. /\ s = Cardinality(Saying(b, f, m, "skipped"))
        /\ a = Cardinality(Saying(b, f, m, "anomaly"))
    BY <1>8
  <2> HIDE DEF m, c, x, s, a
  <2>4. c = Tally(b, f, m)
    BY <2>1, <2>2, <2>3, IsTally
  <2>. QED
    BY <2>4 DEF c, m
<1>. QED
  BY <1>3, <1>9

\* What a row leaves of the counts (Turn).
LEMMA TurnCounts ==
    ASSUME NEW seen, NEW conflicting, NEW counts, RunTyped, Turn(seen, conflicting, counts)
    PROVE  run'.counts = counts
  BY DEF RunTyped, Shape, Turn

\* A list with a claim is not empty (WithClaim).
LEMMA WithClaimThere ==
    ASSUME NEW s \in ClaimLists, NEW v
    PROVE  WithClaim(s, v) # <<>>
<1>1. PICK n \in 0..MaxClaims : s \in [1..n -> ClaimValues]
  BY DEF ClaimLists
<1>2. CASE s = <<>>
  BY <1>2 DEF WithClaim
<1>3. CASE s # <<>>
  <2>1. n # 0
    BY <1>1, <1>3
  <2>2. 1 \in DOMAIN [s EXCEPT ![1] = v]
    BY <1>1, <2>1, BoundAssumption
  <2>3. 1 \notin DOMAIN <<>>
    OBVIOUS
  <2>. QED
    BY <1>3, <2>2, <2>3 DEF WithClaim
<1>. QED
  BY <1>2, <1>3

\* The policy a row writes has a claim already if an earlier row gave it one or
\* it is a live policy of the start that had one (Applied, ExistingClaim).
LEMMA FirstClaim ==
    ASSUME NEW b \in Book, WellFormed(b), NEW f \in Seq(Row), NEW n \in Nat,
           NEW r \in Row, Key(r) \in Keys, Written(Applied(b, f, n), r) \in Policies
    PROVE  Applied(b, f, n).claims[Written(Applied(b, f, n), r)] = <<>>
             <=> /\ Claimed(b, f, n, Key(r)) = {}
                 /\ ~b.live[Key(r)] \/ b.claims[Last(b, Key(r))] = <<>>
<1> DEFINE a == Applied(b, f, n)
           k == Key(r)
           w == Written(a, r)
<1>0. k \in Keys /\ w \in Policies
  OBVIOUS
<1>1. /\ a.issued[k] = Issued(b, f, n, k)
      /\ a.live[k] = (b.live[k] \/ Named(b, f, n, k) # {})
      /\ a.claims[w] = IF w[2] = Issued(b, f, n, w[1]) /\ Claimed(b, f, n, w[1]) # {}
                       THEN WithClaim(b.claims[w], LastClaim(b, f, n, w[1])) ELSE b.claims[w]
  <2> HIDE DEF k, w
  <2>. QED
    BY <1>0, AppliedFields
<1>2. w = <<k, IF a.live[k] THEN a.issued[k] ELSE a.issued[k] + 1>>
  BY DEF Written
<1>3. Claimed(b, f, n, k) # {} => Named(b, f, n, k) # {}
  BY DEF Claimed
<1>4. b.issued[k] \in Nat /\ w[1] = k /\ w \in Policies /\ b.claims[w] \in ClaimLists
  BY <1>2, BoundAssumption DEF Book
<1>5. w[2] > b.issued[k] => b.claims[w] = <<>>
  BY <1>4 DEF WellFormed
<1>6. WithClaim(b.claims[w], LastClaim(b, f, n, k)) # <<>>
  BY <1>4, WithClaimThere
<1>7. b.live[k] \in BOOLEAN
  BY DEF Book
<1> HIDE DEF a, k, w
<1>8. CASE b.live[k]
  <2>1. Issued(b, f, n, k) = b.issued[k] /\ w = Last(b, k)
    BY <1>1, <1>2, <1>8 DEF Issued, Issues, Last
  <2>. QED
    BY <1>1, <1>4, <1>6, <1>8, <2>1 DEF Last, a, k, w
<1>9. CASE ~b.live[k] /\ Named(b, f, n, k) # {}
  <2>1. Issued(b, f, n, k) = b.issued[k] + 1 /\ w[2] = b.issued[k] + 1
    BY <1>1, <1>2, <1>9 DEF Issued, Issues
  <2>2. b.claims[w] = <<>>
    BY <1>4, <1>5, <2>1
  <2>. QED
    BY <1>1, <1>4, <1>6, <1>9, <2>1, <2>2 DEF a, k, w
<1>10. CASE ~b.live[k] /\ Named(b, f, n, k) = {}
  <2>1. w[2] = b.issued[k] + 1
    BY <1>1, <1>2, <1>10 DEF Issued, Issues
  <2>2. b.claims[w] = <<>>
    BY <1>4, <1>5, <2>1
  <2>. QED
    BY <1>1, <1>3, <1>4, <1>10, <2>2 DEF a, k, w
<1>. QED
  BY <1>7, <1>8, <1>9, <1>10

\* Rows that carry a claim (Outcome).
LEMMA ClaimOutcome ==
    ASSUME NEW r \in Row, r.content \notin {"invalid", "badclaim"}
    PROVE  (Outcome(r) = "claim") <=> (r.content \in ClaimValues)
  BY ContentAssumption DEF Outcome, Row

\* A row that goes through counts what is new in it (WriteRow).
LEMMA WrittenCounts ==
    ASSUME Typed, RowsTrack, CountsTrack, WriteRow
    PROVE  CountsTrack'
<1> DEFINE b == run.start
           f == run.file
           n == run.next - 1
           r == Current
           k == Key(r)
           p == Written(book, r)
           isNew == [customer |-> book.customer[r.client] = "absent",
                     policy   |-> ~book.live[k],
                     claim    |-> Outcome(r) = "claim" /\ ~ExistingClaim(p)]
           kinds == {kind \in Kinds : isNew[kind]}
<1>0. AtRow /\ run.pc = "rows" /\ ~run.dry
  BY DEF WriteRow, AtRow
<1>1. /\ f \in Seq(Row) /\ n \in Nat /\ n < Len(f)
      /\ r = f[n + 1] /\ run.next = n + 1 /\ b \in Book /\ WellFormed(b)
      /\ r \in Row /\ k \in Keys /\ r.client \in Clients
  BY <1>0, RowNumber, RowKey
<1>2. b.customer[r.client] # "archived" /\ r.content \notin {"invalid", "badclaim"}
  BY <1>0, ArchivedSince DEF WriteRow
<1>3. AcceptedNext(b, f, n)
  BY <1>1, <1>2 DEF AcceptedNext
<1>4. book = Applied(b, f, n) /\ p \in Policies
  BY WriteFields DEF RowsTrack
<1>5. /\ run.counts = Tally(b, f, n)
      /\ IsFiniteSet(NewCustomers(b, f, n)) /\ IsFiniteSet(NewPolicies(b, f, n))
      /\ IsFiniteSet(NewClaims(b, f, n))
  BY <1>0 DEF CountsTrack, Exact
<1>6. /\ "customer" \in kinds <=> book.customer[r.client] = "absent"
      /\ "policy" \in kinds <=> ~book.live[k]
      /\ "claim" \in kinds <=> Outcome(r) = "claim" /\ ~ExistingClaim(p)
      /\ kinds \subseteq Kinds
  BY DEF Kinds
<1>7. "customer" \in kinds <=> IsNewCustomer(b, f, n)
  <2>1. book.customer[r.client] =
          IF \E i \in Accepted(b, f, n) : f[i].client = r.client THEN "live" ELSE b.customer[r.client]
    <3> DEFINE x == r.client
    <3>1. x \in Clients
      BY <1>1
    <3> HIDE DEF b, f, n, x
    <3>2. Applied(b, f, n).customer[x] =
            IF \E i \in Accepted(b, f, n) : f[i].client = x THEN "live" ELSE b.customer[x]
      BY <3>1, AppliedFields
    <3>. QED
      BY <1>4, <3>2 DEF x
  <2>2. IsNewCustomer(b, f, n) <=> /\ b.customer[r.client] = "absent"
                                   /\ ~\E i \in Accepted(b, f, n) : f[i].client = r.client
    BY <1>1 DEF IsNewCustomer
  <2>3. book.customer[r.client] = "absent" <=> IsNewCustomer(b, f, n)
    BY <2>1, <2>2
  <2>. QED
    BY <1>6, <2>3
<1>8. "policy" \in kinds <=> IsNewPolicy(b, f, n)
  <2>1. book.live[k] = (b.live[k] \/ Named(b, f, n, k) # {})
    BY <1>1, <1>4, AppliedFields
  <2>. QED
    BY <1>1, <1>6, <2>1 DEF IsNewPolicy
<1>9. "claim" \in kinds <=> IsNewClaim(b, f, n)
  <2>1. book.claims[p] = <<>>
          <=> Claimed(b, f, n, k) = {} /\ (~b.live[k] \/ b.claims[Last(b, k)] = <<>>)
    BY <1>1, <1>4, FirstClaim
  <2>2. (Outcome(r) = "claim") <=> (r.content \in ClaimValues)
    BY <1>1, <1>2, ClaimOutcome
  <2>. QED
    BY <1>1, <1>6, <2>1, <2>2 DEF IsNewClaim, ExistingClaim
<1>10. \E conflicting : Turn({p}, conflicting, Counted(kinds, Outcome(r)))
  BY ZenonT(60) DEF WriteRow, Written
<1>11. PICK conflicting : Turn({p}, conflicting, Counted(kinds, Outcome(r)))
  BY <1>10
<1> HIDE DEF isNew, kinds
<1>12. /\ run'.pc = run.pc /\ run'.dry = run.dry /\ run'.file = f
       /\ run'.start = b /\ run'.next = run.next + 1
       /\ run'.counts = Counted(kinds, Outcome(r))
  BY <1>11, TurnFields, TurnCounts DEF Typed
<1>13. run'.next - 1 = n + 1
  BY <1>1, <1>12
<1>14. /\ Counted(kinds, Outcome(f[n + 1])) = Tally(b, f, n + 1)
       /\ IsFiniteSet(NewCustomers(b, f, n + 1)) /\ IsFiniteSet(NewPolicies(b, f, n + 1))
       /\ IsFiniteSet(NewClaims(b, f, n + 1))
  <2> HIDE DEF b, f, n
  <2>. QED
    BY <1>1, <1>3, <1>5, <1>6, <1>7, <1>8, <1>9, CountedAccepted
<1>15. Outcome(r) = Outcome(f[n + 1])
  BY <1>1
<1>. QED
  BY <1>12, <1>13, <1>14, <1>15 DEF CountsTrack

\* A refused row counts as one (RefuseRow, RefuseArchived, RefuseClaim).
LEMMA RefusedCounts ==
    ASSUME Typed, ~run.dry => RowsTrack, CountsTrack,
           RefuseRow \/ RefuseArchived \/ RefuseClaim
    PROVE  CountsTrack'
<1> DEFINE b == run.start
           f == run.file
           n == run.next - 1
           r == Current
<1>0. AtRow /\ run.pc = "rows"
  BY DEF RefuseRow, RefuseArchived, RefuseClaim, AtRow
<1>1. /\ f \in Seq(Row) /\ n \in Nat /\ n < Len(f)
      /\ r = f[n + 1] /\ run.next = n + 1 /\ b \in Book
  BY <1>0, RowNumber
<1>2. ~AcceptedNext(b, f, n)
  <2>1. RefuseRow => r.content = "invalid"
    BY DEF RefuseRow
  <2>2. RefuseClaim => r.content = "badclaim"
    BY DEF RefuseClaim
  <2>3. RefuseArchived => b.customer[r.client] = "archived"
    BY <1>0, ArchivedSince DEF RefuseArchived
  <2>. QED
    BY <1>1, <2>1, <2>2, <2>3 DEF AcceptedNext
<1>3. PICK seen, conflicting : Turn(seen, conflicting, Counted({}, "refused"))
  BY DEF RefuseRow, RefuseArchived, RefuseClaim
<1>4. /\ run'.pc = run.pc /\ run'.dry = run.dry /\ run'.file = f
      /\ run'.start = b /\ run'.next = run.next + 1
      /\ run'.counts = Counted({}, "refused")
  BY <1>3, TurnFields, TurnCounts DEF Typed
<1>5. run'.next - 1 = n + 1
  BY <1>1, <1>4
<1>6. ASSUME Exact
      PROVE  /\ Counted({}, "refused") = Tally(b, f, n + 1)
             /\ IsFiniteSet(NewCustomers(b, f, n + 1)) /\ IsFiniteSet(NewPolicies(b, f, n + 1))
             /\ IsFiniteSet(NewClaims(b, f, n + 1))
  <2>1. /\ run.counts = Tally(b, f, n)
        /\ IsFiniteSet(NewCustomers(b, f, n)) /\ IsFiniteSet(NewPolicies(b, f, n))
        /\ IsFiniteSet(NewClaims(b, f, n))
    BY <1>0, <1>6 DEF CountsTrack
  <2> HIDE DEF b, f, n
  <2>. QED
    BY <1>1, <1>2, <2>1, CountedRefused
<1>7. Exact' <=> Exact
  BY <1>4 DEF Exact
<1>. QED
  BY <1>4, <1>5, <1>6, <1>7 DEF CountsTrack

\* No row of a plain file but the next is of its customer (Plain).
LEMMA PlainNext ==
    ASSUME NEW b \in Book, NEW f \in Seq(Row), NEW n \in Nat, n < Len(f), Plain(b, f),
           f[n + 1].content # "invalid"
    PROVE  /\ AcceptedNext(b, f, n)
           /\ ~\E i \in Accepted(b, f, n) : f[i].client = f[n + 1].client
           /\ Named(b, f, n, Key(f[n + 1])) = {} /\ Claimed(b, f, n, Key(f[n + 1])) = {}
<1>1. n + 1 \in 1..Len(f) /\ \A i \in 1..n : i \in 1..Len(f) /\ i # n + 1
  OBVIOUS
<1>2. \A i \in 1..n : f[i].client # f[n + 1].client
  BY <1>1 DEF Plain
<1>3. Accepted(b, f, n) \subseteq 1..n
  BY AcceptedStep
<1>4. \A i \in Accepted(b, f, n) : Key(f[i]) # Key(f[n + 1])
  BY <1>2, <1>3 DEF Key
<1>. QED
  BY <1>1, <1>2, <1>3, <1>4 DEF AcceptedNext, Plain, Named, Claimed

\* A preview of a plain file counts what the row would make (PreviewRow).
LEMMA PreviewCounts ==
    ASSUME Typed, book = run.start, CountsTrack, PreviewRow
    PROVE  CountsTrack'
<1> DEFINE b == run.start
           f == run.file
           n == run.next - 1
           r == Current
           k == Key(r)
           old == ExistingPolicy(r)
           isNew == [customer |-> book.customer[r.client] = "absent",
                     policy   |-> old = {},
                     claim    |-> /\ Outcome(r) = "claim"
                                  /\ \A p \in old : ~ExistingClaim(p)]
           kinds == {kind \in Kinds : isNew[kind]}
<1>0. AtRow /\ run.pc = "rows" /\ run.dry /\ r.content # "invalid"
  BY DEF PreviewRow, AtRow
<1>1. /\ f \in Seq(Row) /\ n \in Nat /\ n < Len(f)
      /\ r = f[n + 1] /\ run.next = n + 1 /\ b \in Book
      /\ r \in Row /\ k \in Keys /\ r.client \in Clients
  BY <1>0, RowNumber, RowKey
<1>2. \E conflicting : Turn(old, conflicting, Counted(kinds, Outcome(r)))
  BY ZenonT(60) DEF PreviewRow
<1>3. PICK conflicting : Turn(old, conflicting, Counted(kinds, Outcome(r)))
  BY <1>2
<1>4. /\ "customer" \in kinds <=> book.customer[r.client] = "absent"
      /\ "policy" \in kinds <=> ~book.live[k]
      /\ "claim" \in kinds <=> /\ Outcome(r) = "claim"
                               /\ ~book.live[k] \/ book.claims[Last(book, k)] = <<>>
      /\ kinds \subseteq Kinds
  BY DEF Kinds, ExistingPolicy, ExistingClaim
<1> HIDE DEF isNew, kinds, old
<1>5. /\ run'.pc = run.pc /\ run'.dry = run.dry /\ run'.file = f
      /\ run'.start = b /\ run'.next = run.next + 1
      /\ run'.counts = Counted(kinds, Outcome(r))
  BY <1>3, TurnFields, TurnCounts DEF Typed
<1>6. run'.next - 1 = n + 1
  BY <1>1, <1>5
<1>7. ASSUME Exact
      PROVE  /\ Counted(kinds, Outcome(r)) = Tally(b, f, n + 1)
             /\ IsFiniteSet(NewCustomers(b, f, n + 1)) /\ IsFiniteSet(NewPolicies(b, f, n + 1))
             /\ IsFiniteSet(NewClaims(b, f, n + 1))
  <2>1. /\ run.counts = Tally(b, f, n)
        /\ IsFiniteSet(NewCustomers(b, f, n)) /\ IsFiniteSet(NewPolicies(b, f, n))
        /\ IsFiniteSet(NewClaims(b, f, n))
    BY <1>0, <1>7 DEF CountsTrack
  <2>2. Plain(b, f)
    BY <1>0, <1>7 DEF Exact
  <2>3. /\ AcceptedNext(b, f, n)
        /\ ~\E i \in Accepted(b, f, n) : f[i].client = f[n + 1].client
        /\ Named(b, f, n, Key(f[n + 1])) = {} /\ Claimed(b, f, n, Key(f[n + 1])) = {}
    BY <1>0, <1>1, <2>2, PlainNext
  <2>4. (Outcome(r) = "claim") <=> (r.content \in ClaimValues)
    <3>1. r.content \notin {"invalid", "badclaim"}
      BY <1>1, <2>3 DEF AcceptedNext
    <3>. QED
      BY <1>1, <3>1, ClaimOutcome
  <2>5. /\ "customer" \in kinds <=> IsNewCustomer(b, f, n)
        /\ "policy" \in kinds <=> IsNewPolicy(b, f, n)
        /\ "claim" \in kinds <=> IsNewClaim(b, f, n)
    BY <1>1, <1>4, <2>3, <2>4 DEF IsNewCustomer, IsNewPolicy, IsNewClaim
  <2>6. Outcome(r) = Outcome(f[n + 1])
    BY <1>1
  <2> HIDE DEF b, f, n
  <2>. QED
    BY <1>1, <1>4, <2>1, <2>3, <2>5, <2>6, CountedAccepted
<1>8. Exact' <=> Exact
  BY <1>5 DEF Exact
<1>. QED
  BY <1>5, <1>6, <1>7, <1>8 DEF CountsTrack

\* Before the first row nothing is counted (NoCounts).
LEMMA NoRowsCounted ==
    ASSUME NEW b \in Book, NEW f
    PROVE  /\ NoCounts = Tally(b, f, 0)
           /\ IsFiniteSet(NewCustomers(b, f, 0)) /\ IsFiniteSet(NewPolicies(b, f, 0))
           /\ IsFiniteSet(NewClaims(b, f, 0))
<1>1. Accepted(b, f, 0) = {}
  BY DEF Accepted
<1>2. \A k : Named(b, f, 0, k) = {} /\ Claimed(b, f, 0, k) = {}
  BY <1>1 DEF Named, Claimed
<1>3. /\ NewCustomers(b, f, 0) = {} /\ NewPolicies(b, f, 0) = {} /\ NewClaims(b, f, 0) = {}
      /\ \A s : Saying(b, f, 0, s) = {}
  BY <1>1, <1>2 DEF NewCustomers, NewPolicies, NewClaims, Saying, Issues
<1>4. IsFiniteSet({}) /\ Cardinality({}) = 0
  BY FS_EmptySet
<1>5. CreatedBy(b, f, 0) = [kind \in Kinds |-> 0]
  <2>1. \A kind \in Kinds : CreatedBy(b, f, 0)[kind] = 0
    BY <1>3, <1>4, TallyIs DEF Kinds
  <2>2. CreatedBy(b, f, 0) = [kind \in Kinds |-> CreatedBy(b, f, 0)[kind]]
    BY TallyIs
  <2>. QED
    BY <2>1, <2>2
<1>6. NoCounts = Tally(b, f, 0)
  <2>1. NoCounts = [created |-> CreatedBy(b, f, 0), refused |-> 0, skipped |-> 0,
                    recorded |-> 0, corrected |-> 0, absent |-> 0]
    BY <1>5 DEF NoCounts
  <2>2. /\ 0 = 0 - Cardinality(Accepted(b, f, 0))
        /\ 0 = Cardinality(Saying(b, f, 0, "skipped"))
        /\ 0 = Cardinality(Saying(b, f, 0, "anomaly"))
    BY <1>1, <1>3, <1>4
  <2>. QED
    BY <2>1, <2>2, IsTally
<1>. QED
  BY <1>3, <1>4, <1>6
-----------------------------------------------------------------------------
\* What one row more names (NamedWith).
LEMMA NamedWithStep ==
    ASSUME NEW b \in Book, WellFormed(b), NEW f \in Seq(Row), NEW n \in Nat, n < Len(f), NEW S
    PROVE  NamedWith(b, f, n + 1, S) =
             NamedWith(b, f, n, S) \cup
               (IF f[n + 1].content \in S /\ b.live[Key(f[n + 1])]
                THEN {Last(b, Key(f[n + 1]))} ELSE {})
<1> DEFINE k == Key(f[n + 1])
<1>1. k \in Keys /\ 1..(n + 1) = (1..n) \cup {n + 1}
  BY NextRow
<1>2. b.live[k] => Last(b, k) \in Policies /\ Last(b, k)[1] = k
  BY <1>1, LastIsPolicy DEF WellFormed
<1>3. \A p : (\E i \in 1..(n + 1) : Key(f[i]) = p[1] /\ f[i].content \in S)
               <=> \/ \E i \in 1..n : Key(f[i]) = p[1] /\ f[i].content \in S
                   \/ k = p[1] /\ f[n + 1].content \in S
  BY <1>1
<1> HIDE DEF k
<1>4. \A p : p \in NamedWith(b, f, n + 1, S)
               <=> \/ p \in NamedWith(b, f, n, S)
                   \/ p = Last(b, k) /\ b.live[k] /\ f[n + 1].content \in S
  BY <1>2, <1>3 DEF NamedWith
<1>. QED
  BY <1>4 DEF k

\* A dry run looks its rows up in the book it started from (RefuseRow,
\* PreviewRow).
LEMMA DryRow ==
    ASSUME Typed, book = run.start, run.dry, DrySets,
           RefuseRow \/ PreviewRow \/ RefuseArchived \/ RefuseClaim \/ WriteRow
    PROVE  DrySets'
<1> DEFINE b == run.start
           f == run.file
           n == run.next - 1
           r == Current
           k == Key(r)
<1>0. AtRow /\ run.pc = "rows" /\ (RefuseRow \/ PreviewRow)
  BY DEF RefuseRow, PreviewRow, RefuseArchived, RefuseClaim, WriteRow, AtRow
<1>1. /\ f \in Seq(Row) /\ n \in Nat /\ n < Len(f) /\ run.next = n + 1 /\ r = f[n + 1]
      /\ b \in Book /\ WellFormed(b) /\ r \in Row
  BY <1>0, RowNumber, RowKey
<1>2. PICK seen, conflicting, counts :
        /\ Turn(seen, conflicting, counts)
        /\ r.content = "invalid" => seen = {} /\ conflicting = {}
        /\ r.content # "invalid" => /\ seen = ExistingPolicy(r)
                                    /\ conflicting = PreviewConflict(r)
  <2>1. CASE RefuseRow
    BY <2>1 DEF RefuseRow
  <2>2. CASE PreviewRow
    BY <2>2 DEF PreviewRow
  <2>. QED
    BY <1>0, <2>1, <2>2
<1>3. /\ run'.pc = run.pc /\ run'.dry = run.dry /\ run'.file = f
      /\ run'.start = b /\ run'.next = run.next + 1
      /\ run'.seen = run.seen \cup seen /\ run'.conflicting = run.conflicting \cup conflicting
  BY <1>2, TurnFields DEF Typed
<1>4. run'.next - 1 = n + 1
  BY <1>1, <1>3
<1>5. ASSUME Plain(b, f)
      PROVE  /\ run'.seen = NamedWith(b, f, n + 1, LookedUp)
             /\ run'.conflicting = NamedWith(b, f, n + 1, {"anomaly"})
  <2>1. /\ run.seen = NamedWith(b, f, n, LookedUp)
        /\ run.conflicting = NamedWith(b, f, n, {"anomaly"})
    BY <1>0, <1>5 DEF DrySets
  <2>2. n + 1 \in 1..Len(f)
    BY <1>1
  <2>3. (r.content \in LookedUp) <=> (r.content # "invalid")
    BY <1>1, <1>5, <2>2, ContentAssumption DEF LookedUp, Row, Plain
  <2>4. seen = IF r.content \in LookedUp /\ b.live[k] THEN {Last(b, k)} ELSE {}
    BY <1>2, <2>3 DEF ExistingPolicy
  <2>5. conflicting = IF r.content \in {"anomaly"} /\ b.live[k] THEN {Last(b, k)} ELSE {}
    BY <1>2 DEF ExistingPolicy, PreviewConflict
  <2> HIDE DEF b, f, n, r
  <2>6. /\ NamedWith(b, f, n + 1, LookedUp) = NamedWith(b, f, n, LookedUp) \cup seen
        /\ NamedWith(b, f, n + 1, {"anomaly"}) = NamedWith(b, f, n, {"anomaly"}) \cup conflicting
    <3>1. \A S : NamedWith(b, f, n + 1, S) =
                   NamedWith(b, f, n, S) \cup
                     (IF r.content \in S /\ b.live[k] THEN {Last(b, k)} ELSE {})
      BY <1>1, NamedWithStep
    <3>. QED
      BY <2>4, <2>5, <3>1
  <2>. QED
    BY <1>3, <2>1, <2>6
<1>. QED
  BY <1>3, <1>4, <1>5 DEF DrySets

\* What a load makes of an anomaly (Settled, Loaded).
LEMMA LoadedAnomaly ==
    ASSUME NEW b \in Book, NEW f \in Seq(Row), NEW p \in Policies
    PROVE  LET a == Applied(b, f, Len(f)).anomaly[p]
           IN  /\ a = IF Raises(b, f, Len(f), p) THEN "open" ELSE b.anomaly[p]
               /\ Loaded(b, f).anomaly[p] =
                    IF a # "open" \/ Raises(b, f, Len(f), p) THEN a
                    ELSE IF Seen(b, f, p) THEN "corrected" ELSE "absent"
<1> DEFINE N == Len(f)
           A == Applied(b, f, N)
<1>1. A.anomaly[p] = IF Raises(b, f, N, p) THEN "open" ELSE b.anomaly[p]
  BY AppliedFields DEF Raises
<1>2. Raises(b, f, N, p) <=> Conflicts(b, f, N, p[1]) /\ p = Last(A, p[1])
  <2>1. A.issued[p[1]] = Issued(b, f, N, p[1])
    BY PolicyParts, AppliedFields
  <2>. QED
    BY <2>1, PolicyParts DEF Raises, Last
<1>3. Loaded(b, f).anomaly[p] = Settled(b, f, p)
  BY DEF Loaded, Applied
<1>4. Settled(b, f, p) = IF A.anomaly[p] # "open" \/ Raises(b, f, N, p) THEN A.anomaly[p]
                         ELSE IF Seen(b, f, p) THEN "corrected" ELSE "absent"
  BY <1>2 DEF Settled, Confirmed
<1>. QED
  BY <1>1, <1>3, <1>4

\* The anomalies a load clears for reason s, as the command finds them and as
\* the file tells them.
Cleared(s)      == {p \in Policies : p \in Stale /\ Reason(p) = s}
Turned(b, f, s) == {p \in Policies : b.anomaly[p] # s /\ Loaded(b, f).anomaly[p] = s}

\* They are the same after a run that wrote its rows (_clear_stale_anomalies).
LEMMA RunClears ==
    ASSUME Typed, RowsTrack, Clear, ~run.dry, NEW s \in {"corrected", "absent"}
    PROVE  Cleared(s) = Turned(run.start, run.file, s)
<1> DEFINE b == run.start
           f == run.file
<1>1. /\ book' = Loaded(b, f)
      /\ \A p \in Policies : book'.anomaly[p] = IF p \in Stale THEN Reason(p) ELSE book.anomaly[p]
  BY ClearLoads, ClearFields
<1>2. /\ book = Applied(b, f, Len(f))
      /\ \A p \in Policies : p \in run.conflicting <=> Raises(b, f, Len(f), p)
      /\ f \in Seq(Row) /\ b \in Book
  <2>1. f \in Seq(Row) /\ Len(f) \in Nat /\ b \in Book
    BY FilesAreRows DEF Typed, RunTyped
  <2>2. run.next - 1 = Len(f)
    BY <2>1, ClearFields
  <2>. QED
    BY <2>1, <2>2 DEF RowsTrack
<1>3. ASSUME NEW p \in Policies
      PROVE  p \in Cleared(s) <=> p \in Turned(b, f, s)
  <2>1. book.anomaly[p] = IF Raises(b, f, Len(f), p) THEN "open" ELSE b.anomaly[p]
    <3> HIDE DEF b, f
    <3>. QED
      BY <1>2, LoadedAnomaly
  <2>2. p \in Stale <=> book.anomaly[p] = "open" /\ ~Raises(b, f, Len(f), p)
    BY <1>2 DEF Stale
  <2>3. Loaded(b, f).anomaly[p] = IF p \in Stale THEN Reason(p) ELSE book.anomaly[p]
    BY <1>1
  <2> HIDE DEF b, f
  <2>4. p \in Cleared(s) <=> p \in Stale /\ Reason(p) = s
    BY DEF Cleared
  <2>5. p \in Turned(b, f, s) <=> b.anomaly[p] # s /\ Loaded(b, f).anomaly[p] = s
    BY DEF Turned
  <2>. QED
    BY <2>1, <2>2, <2>3, <2>4, <2>5
<1>. QED
  BY <1>3 DEF Cleared, Turned

\* What a plain file says of an anomaly open at the start (Seen, Conflicts).
LEMMA PlainSays ==
    ASSUME NEW b \in Book, WellFormed(b), NEW f \in Seq(Row), Plain(b, f),
           NEW p \in Policies, b.anomaly[p] = "open"
    PROVE  /\ Raises(b, f, Len(f), p) <=> p \in NamedWith(b, f, Len(f), {"anomaly"})
           /\ Seen(b, f, p) <=> p \in NamedWith(b, f, Len(f), LookedUp)
<1> DEFINE N == Len(f)
           k == p[1]
<1>1. /\ k \in Keys /\ p[2] \in Nat /\ p = <<k, p[2]>> /\ p[2] <= b.issued[k]
      /\ b.issued[k] \in Nat
  <2>1. k \in Keys /\ p[2] \in Nat /\ p = <<k, p[2]>> /\ b.issued[k] \in Nat
    BY PolicyParts, BoundAssumption DEF Book
  <2>2. ~(p[2] > b.issued[k])
    BY DEF WellFormed
  <2>. QED
    BY <2>1, <2>2
<1>2. \A i \in 1..N : /\ f[i] \in Row /\ f[i].content # "badclaim"
                      /\ b.customer[f[i].client] # "archived"
                      /\ Key(f[i])[1] = f[i].client
  BY DEF Plain, Key
<1>3. Conflicts(b, f, N, k) <=> \E i \in 1..N : Key(f[i]) = k /\ f[i].content \in {"anomaly"}
  BY <1>2 DEF Conflicts, Named, Accepted
<1>4. Conflicts(b, f, N, k) => Named(b, f, N, k) # {}
  BY DEF Conflicts
<1>5. Conflicts(b, f, N, k) /\ p[2] = Issued(b, f, N, k) <=>
        Conflicts(b, f, N, k) /\ b.live[k] /\ p[2] = b.issued[k]
  BY <1>1, <1>4 DEF Issued, Issues
<1>6. p = Last(b, k) <=> p[2] = b.issued[k]
  BY <1>1 DEF Last
<1>7. Raises(b, f, N, p) <=> p \in NamedWith(b, f, N, {"anomaly"})
  BY <1>3, <1>5, <1>6 DEF Raises, NamedWith
<1>8. \A i \in 1..N : (f[i].content # "invalid") <=> (f[i].content \in LookedUp)
  BY <1>2, ContentAssumption DEF LookedUp, Row
<1>9. Seen(b, f, p) <=> p \in NamedWith(b, f, N, LookedUp)
  <2>1. \A i \in 1..N : Key(f[i]) = k => b.customer[k[1]] # "archived"
    BY <1>2
  <2>. QED
    BY <1>8, <2>1 DEF Seen, NamedWith
<1>. QED
  BY <1>7, <1>9

\* They are the same after a dry run of a plain file (_clear_stale_anomalies).
LEMMA DryRunClears ==
    ASSUME Typed, book = run.start, DrySets, Clear, run.dry, Plain(run.start, run.file),
           NEW s \in {"corrected", "absent"}
    PROVE  Cleared(s) = Turned(run.start, run.file, s)
<1> DEFINE b == run.start
           f == run.file
<1>1. /\ run.seen = NamedWith(b, f, Len(f), LookedUp)
      /\ run.conflicting = NamedWith(b, f, Len(f), {"anomaly"})
      /\ f \in Seq(Row) /\ b \in Book /\ WellFormed(b)
  <2>1. f \in Seq(Row) /\ Len(f) \in Nat /\ b \in Book /\ WellFormed(b)
    BY FilesAreRows DEF Typed, RunTyped
  <2>2. run.next - 1 = Len(f) /\ run.pc = "rows"
    BY <2>1, ClearFields
  <2>. QED
    BY <2>1, <2>2 DEF DrySets
<1>2. ASSUME NEW p \in Policies
      PROVE  p \in Cleared(s) <=> p \in Turned(b, f, s)
  <2>1. p \in Stale <=> b.anomaly[p] = "open" /\ p \notin run.conflicting
    BY DEF Stale
  <2>2. p \in Cleared(s) <=> p \in Stale /\ Reason(p) = s
    BY DEF Cleared
  <2>3. Reason(p) = IF p \in run.seen THEN "corrected" ELSE "absent"
    BY DEF Reason
  <2>4. Plain(b, f)
    OBVIOUS
  <2> HIDE DEF b, f
  <2>5. p \in Turned(b, f, s) <=> b.anomaly[p] # s /\ Loaded(b, f).anomaly[p] = s
    BY DEF Turned
  <2>6. /\ Loaded(b, f).anomaly[p] =
             IF Raises(b, f, Len(f), p) THEN "open"
             ELSE IF b.anomaly[p] # "open" THEN b.anomaly[p]
             ELSE IF Seen(b, f, p) THEN "corrected" ELSE "absent"
    BY <1>1, LoadedAnomaly
  <2>7. b.anomaly[p] = "open" =>
          /\ Raises(b, f, Len(f), p) <=> p \in run.conflicting
          /\ Seen(b, f, p) <=> p \in run.seen
    BY <1>1, <2>4, PlainSays
  <2>. QED
    BY <2>1, <2>2, <2>3, <2>5, <2>6, <2>7
<1>. QED
  BY <1>2 DEF Cleared, Turned

\* The report, field by field (Report).
LEMMA ReportIs ==
    ASSUME NEW b, NEW f
    PROVE  Report(b, f) =
             [created   |-> CreatedBy(b, f, Len(f)),
              refused   |-> Len(f) - Cardinality(Accepted(b, f, Len(f))),
              skipped   |-> Cardinality(Saying(b, f, Len(f), "skipped")),
              recorded  |-> Cardinality(Saying(b, f, Len(f), "anomaly")),
              corrected |-> Cardinality(Turned(b, f, "corrected")),
              absent    |-> Cardinality(Turned(b, f, "absent"))]
  BY DEF Report, CreatedBy, NewCustomers, NewPolicies, NewClaims, Saying, Turned, Kinds

\* The counts with the two last fields replaced (Clear).
LEMMA TwoFields ==
    ASSUME NEW c, NEW d, NEW corrected, NEW absent,
           c = [created |-> c.created, refused |-> c.refused, skipped |-> c.skipped,
                recorded |-> c.recorded, corrected |-> c.corrected, absent |-> c.absent],
           d = [c EXCEPT !.corrected = corrected, !.absent = absent]
    PROVE  d = [created |-> c.created, refused |-> c.refused, skipped |-> c.skipped,
                recorded |-> c.recorded, corrected |-> corrected, absent |-> absent]
  OBVIOUS

\* What the end of a load makes of the counts (Clear).
LEMMA ClearCounts ==
    ASSUME Typed, Clear, NEW created, NEW refused, NEW skipped, NEW recorded,
           run.counts = [created |-> created, refused |-> refused, skipped |-> skipped,
                         recorded |-> recorded, corrected |-> 0, absent |-> 0]
    PROVE  run'.counts = [created |-> created, refused |-> refused, skipped |-> skipped,
                          recorded |-> recorded,
                          corrected |-> Cardinality(Cleared("corrected")),
                          absent |-> Cardinality(Cleared("absent"))]
<1> DEFINE c == run.counts
           x == Cardinality(Cleared("corrected"))
           y == Cardinality(Cleared("absent"))
           d == run'.counts
<1>1. /\ {p \in Stale : Reason(p) = "corrected"} = Cleared("corrected")
      /\ {p \in Stale : Reason(p) = "absent"} = Cleared("absent")
  BY DEF Cleared, Stale
<1>2. run' = [run EXCEPT !.pc = "done", !.counts.corrected = x, !.counts.absent = y]
  BY <1>1 DEF Clear
<1>3. run = [pc |-> run.pc, dry |-> run.dry, file |-> run.file, next |-> run.next,
             start |-> run.start, seen |-> run.seen, conflicting |-> run.conflicting,
             counts |-> run.counts]
  BY DEF Typed, RunTyped, Shape
<1> HIDE DEF x, y
<1>4. d = [c EXCEPT !.corrected = x, !.absent = y]
  BY <1>2, <1>3
<1>5. c = [created |-> c.created, refused |-> c.refused, skipped |-> c.skipped,
           recorded |-> c.recorded, corrected |-> c.corrected, absent |-> c.absent]
      /\ c.created = created /\ c.refused = refused /\ c.skipped = skipped
      /\ c.recorded = recorded
  OBVIOUS
<1>6. d = [created |-> c.created, refused |-> c.refused, skipped |-> c.skipped,
           recorded |-> c.recorded, corrected |-> x, absent |-> y]
  <2> HIDE DEF c, d
  <2>. QED
    BY <1>4, <1>5, TwoFields
<1>7. d = [created |-> created, refused |-> refused, skipped |-> skipped,
           recorded |-> recorded, corrected |-> x, absent |-> y]
  <2> HIDE DEF c, d
  <2>. QED
    BY <1>5, <1>6
<1>. QED
  BY <1>7 DEF x, y

\* The report of a load is that of the file as a whole (Clear).
LEMMA ClearReports ==
    ASSUME Typed, Tracks, CountsTrack, DrySets, Clear, Exact
    PROVE  run'.counts = Report(run.start, run.file)
<1> DEFINE b == run.start
           f == run.file
<1>1. run.pc = "rows" /\ run.next - 1 = Len(f)
  <2>1. Len(f) \in Nat
    BY FilesAreRows DEF Typed, RunTyped
  <2>. QED
    BY <2>1, ClearFields
<1>2. run.counts = Tally(b, f, Len(f))
  BY <1>1 DEF CountsTrack
<1>3. \A s \in {"corrected", "absent"} : Cleared(s) = Turned(b, f, s)
  BY <1>1, RunClears, DryRunClears DEF Exact, Tracks
<1>4. run'.counts = [created |-> CreatedBy(b, f, Len(f)),
                     refused |-> Len(f) - Cardinality(Accepted(b, f, Len(f))),
                     skipped |-> Cardinality(Saying(b, f, Len(f), "skipped")),
                     recorded |-> Cardinality(Saying(b, f, Len(f), "anomaly")),
                     corrected |-> Cardinality(Cleared("corrected")),
                     absent |-> Cardinality(Cleared("absent"))]
  BY <1>2, TallyIs, ClearCounts
<1>. QED
  BY <1>3, <1>4, ReportIs

\* What is reported at the end is what was counted up to it.
Reports == CountsTrack /\ DrySets /\ ReportIsTrue

\* Every step keeps the counts right (Next).
LEMMA NextReports ==
    ASSUME Typed, Tracks, Reports, [Next]_vars
    PROVE  Reports'
<1>1. ASSUME NEW f \in Files, NEW dry \in BOOLEAN, Start(f, dry) PROVE Reports'
  <2>1. /\ run' = [pc |-> "rows", dry |-> dry, file |-> f, next |-> 1, start |-> book,
                   seen |-> {}, conflicting |-> {}, counts |-> NoCounts]
        /\ run'.next - 1 = 0
    <3>1. run' = [pc |-> "rows", dry |-> dry, file |-> f, next |-> 1, start |-> book,
                  seen |-> {}, conflicting |-> {}, counts |-> NoCounts]
      BY <1>1 DEF Start, Idle
    <3>. QED
      BY <3>1
  <2>2. /\ NoCounts = Tally(book, f, 0)
        /\ IsFiniteSet(NewCustomers(book, f, 0)) /\ IsFiniteSet(NewPolicies(book, f, 0))
        /\ IsFiniteSet(NewClaims(book, f, 0))
    BY NoRowsCounted DEF Typed
  <2>3. \A S : NamedWith(book, f, 0, S) = {}
    BY DEF NamedWith
  <2>. QED
    BY <2>1, <2>2, <2>3 DEF Reports, CountsTrack, DrySets, ReportIsTrue
<1>2. CASE RefuseRow \/ PreviewRow \/ RefuseArchived \/ RefuseClaim \/ WriteRow
  <2>1. run.pc = "rows"
    BY <1>2 DEF RefuseRow, PreviewRow, RefuseArchived, RefuseClaim, WriteRow, AtRow
  <2>2. \E seen, conflicting, counts : Turn(seen, conflicting, counts)
    <3>1. CASE WriteRow
      BY <3>1, WriteFields
    <3>. QED
      BY SMTT(60), <1>2, <3>1 DEF RefuseRow, PreviewRow, RefuseArchived, RefuseClaim
  <2>3. run'.pc = "rows" /\ run'.dry = run.dry
    BY <2>1, <2>2, TurnFields DEF Typed
  <2>4. ~run.dry => RowsTrack
    BY <2>1 DEF Tracks
  <2>5. run.dry => book = run.start
    BY <2>1 DEF Tracks
  <2>6. CountsTrack'
    <3>1. CASE WriteRow
      <4>1. ~run.dry
        BY <3>1 DEF WriteRow
      <4>. QED
        BY <2>4, <3>1, <4>1, WrittenCounts DEF Reports
    <3>2. CASE PreviewRow
      <4>1. run.dry
        BY <3>2 DEF PreviewRow
      <4>. QED
        BY <2>5, <3>2, <4>1, PreviewCounts DEF Reports
    <3>3. CASE RefuseRow \/ RefuseArchived \/ RefuseClaim
      BY <2>4, <3>3, RefusedCounts DEF Reports
    <3>. QED
      BY <1>2, <3>1, <3>2, <3>3
  <2>7. DrySets'
    <3>1. CASE run.dry
      BY <1>2, <2>5, <3>1, DryRow DEF Reports
    <3>2. CASE ~run.dry
      BY <2>3, <3>2 DEF DrySets
    <3>. QED
      BY <3>1, <3>2
  <2>. QED
    BY <2>3, <2>6, <2>7 DEF Reports, ReportIsTrue
<1>3. CASE Clear
  <2>1. /\ run'.pc = "done" /\ run'.dry = run.dry
        /\ run'.file = run.file /\ run'.start = run.start
    BY <1>3, ClearFields
  <2>2. Exact => run'.counts = Report(run.start, run.file)
    BY <1>3, ClearReports DEF Reports
  <2>. QED
    BY <2>1, <2>2 DEF Reports, CountsTrack, DrySets, ReportIsTrue, Exact
<1>4. CASE Die \/ Exit
  <2>1. run'.pc = "idle"
    BY <1>4 DEF Die, Exit, Idle
  <2>. QED
    BY <2>1 DEF Reports, CountsTrack, DrySets, ReportIsTrue
<1>5. CASE UNCHANGED vars
  BY <1>5 DEF vars, Reports, CountsTrack, DrySets, ReportIsTrue, Exact
<1>. QED
  BY <1>1, <1>2, <1>3, <1>4, <1>5 DEF Next

\* What a run reports is true of the file as a whole, and a dry run reports
\* what the real one would, for every plain file (ReportIsTrue; handle and the
\* counts it prints).
THEOREM ReportsAreTrue == Spec => []ReportIsTrue
<1>1. Init => Typed /\ Tracks /\ Reports
  <2>1. Init => Tracks /\ Reports
    BY DEF Init, Tracks, Reports, CountsTrack, DrySets, ReportIsTrue, Idle
  <2>. QED
    BY <2>1, InitTyped
<1>2. Typed /\ Tracks /\ Reports /\ [Next]_vars => (Typed /\ Tracks /\ Reports)'
  BY NextTyped, NextTracks, NextReports
<1>3. Reports => ReportIsTrue
  BY DEF Reports
<1>. QED
  BY <1>1, <1>2, <1>3, PTL DEF Spec
=============================================================================
