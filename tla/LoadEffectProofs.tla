--------------------------- MODULE LoadEffectProofs ---------------------------
(***************************************************************************)
(* A load may be started again: after a load that ended, or one that died  *)
(* after any prefix of the rows, the same file leads to the same book.     *)
(***************************************************************************)
EXTENDS LoadEffect, TLAPS

\* A book c in which the same customers are archived as in b.
SameArchive(b, c) ==
    \A x \in Clients : c.customer[x] = "archived" <=> b.customer[x] = "archived"

\* Then the same rows are accepted, and say the same (Accepted and what is
\* built from it).
LEMMA SameRows ==
    ASSUME NEW b, NEW c, NEW f \in Seq(Row), NEW n \in 0..Len(f), SameArchive(b, c)
    PROVE  /\ Accepted(c, f, n) = Accepted(b, f, n)
           /\ \A k : /\ Named(c, f, n, k) = Named(b, f, n, k)
                     /\ Claimed(c, f, n, k) = Claimed(b, f, n, k)
                     /\ Conflicts(c, f, n, k) <=> Conflicts(b, f, n, k)
                     /\ LastClaim(c, f, n, k) = LastClaim(b, f, n, k)
<1>1. \A i \in 1..n : f[i] \in Row
  OBVIOUS
<1>2. \A i \in 1..n : f[i].client \in Clients
  BY <1>1 DEF Row
<1>3. Accepted(c, f, n) = Accepted(b, f, n)
  BY <1>2 DEF Accepted, SameArchive
<1>4. \A k : Named(c, f, n, k) = Named(b, f, n, k)
  BY <1>3 DEF Named
<1>5. \A k : Claimed(c, f, n, k) = Claimed(b, f, n, k)
  BY <1>4 DEF Claimed
<1>6. \A k : Conflicts(c, f, n, k) <=> Conflicts(b, f, n, k)
  BY <1>4 DEF Conflicts
<1>7. \A k : LastClaim(c, f, n, k) = LastClaim(b, f, n, k)
  BY <1>5 DEF LastClaim
<1>. QED
  BY <1>3, <1>4, <1>5, <1>6, <1>7

\* A prefix names, claims and conflicts no more than the whole (Named and what
\* is built from it).
LEMMA Prefix ==
    ASSUME NEW b, NEW f \in Seq(Row), NEW n \in 0..Len(f), NEW k
    PROVE  /\ Accepted(b, f, n) \subseteq Accepted(b, f, Len(f))
           /\ Named(b, f, n, k) \subseteq Named(b, f, Len(f), k)
           /\ Claimed(b, f, n, k) \subseteq Claimed(b, f, Len(f), k)
           /\ Claimed(b, f, n, k) \subseteq Named(b, f, n, k)
           /\ Conflicts(b, f, n, k) => Conflicts(b, f, Len(f), k)
           /\ Conflicts(b, f, n, k) => Named(b, f, n, k) # {}
<1>1. Len(f) \in Nat /\ 1..n \subseteq 1..Len(f)
  OBVIOUS
<1>2. Accepted(b, f, n) \subseteq Accepted(b, f, Len(f))
  BY <1>1 DEF Accepted
<1>3. Named(b, f, n, k) \subseteq Named(b, f, Len(f), k)
  BY <1>2 DEF Named
<1>. QED
  BY <1>2, <1>3 DEF Claimed, Conflicts

\* Writing a policy's claim twice is writing the second (WithClaim).
LEMMA WithClaimTwice ==
    ASSUME NEW s \in ClaimLists, NEW v, NEW w
    PROVE  WithClaim(WithClaim(s, v), w) = WithClaim(s, w)
<1>1. PICK n \in 0..MaxClaims : s \in [1..n -> ClaimValues]
  BY DEF ClaimLists
<1>2. CASE s = <<>>
  <2>1. WithClaim(s, v) = <<v>>
    BY <1>2 DEF WithClaim
  <2>2. <<v>> # <<>> /\ [<<v>> EXCEPT ![1] = w] = <<w>>
    OBVIOUS
  <2>. QED
    BY <1>2, <2>1, <2>2 DEF WithClaim
<1>3. CASE s # <<>>
  <2>1. n # 0
    BY <1>1, <1>3
  <2>2. 1 \in DOMAIN s
    BY <1>1, <2>1, BoundAssumption
  <2>3. WithClaim(s, v) = [s EXCEPT ![1] = v]
    BY <1>3 DEF WithClaim
  <2>4. [s EXCEPT ![1] = v] # <<>>
    <3>1. DOMAIN [s EXCEPT ![1] = v] = DOMAIN s
      OBVIOUS
    <3>2. DOMAIN <<>> = {}
      OBVIOUS
    <3>. QED
      BY <2>2, <3>1, <3>2
  <2>5. [[s EXCEPT ![1] = v] EXCEPT ![1] = w] = [s EXCEPT ![1] = w]
    OBVIOUS
  <2>. QED
    BY <1>3, <2>3, <2>4, <2>5 DEF WithClaim
<1>. QED
  BY <1>2, <1>3
-----------------------------------------------------------------------------
\* What Applied makes of each table (Applied).
LEMMA AppliedFields ==
    ASSUME NEW b, NEW f, NEW n
    PROVE  LET a == Applied(b, f, n)
           IN  /\ \A x \in Clients : a.customer[x] =
                    IF \E i \in Accepted(b, f, n) : f[i].client = x THEN "live" ELSE b.customer[x]
               /\ \A k \in Keys : a.issued[k] = Issued(b, f, n, k)
               /\ \A k \in Keys : a.live[k] = (b.live[k] \/ Named(b, f, n, k) # {})
               /\ \A p \in Policies : a.claims[p] =
                    IF p[2] = Issued(b, f, n, p[1]) /\ Claimed(b, f, n, p[1]) # {}
                    THEN WithClaim(b.claims[p], LastClaim(b, f, n, p[1])) ELSE b.claims[p]
               /\ \A p \in Policies : a.anomaly[p] =
                    IF p[2] = Issued(b, f, n, p[1]) /\ Conflicts(b, f, n, p[1])
                    THEN "open" ELSE b.anomaly[p]
  BY DEF Applied

\* No customer is archived or taken out of the archive (Applied, Loaded).
LEMMA ArchiveKept ==
    ASSUME NEW b, NEW f \in Seq(Row), NEW n \in 0..Len(f)
    PROVE  SameArchive(b, Applied(b, f, n)) /\ SameArchive(b, Loaded(b, f))
<1>1. \A x \in Clients : Applied(b, f, n).customer[x] =
        IF \E i \in Accepted(b, f, n) : f[i].client = x THEN "live" ELSE b.customer[x]
  BY DEF Applied
<1>2. \A x \in Clients : Loaded(b, f).customer[x] =
        IF \E i \in Accepted(b, f, Len(f)) : f[i].client = x THEN "live" ELSE b.customer[x]
  BY DEF Loaded, Applied
<1>3. \A x : (\E i \in Accepted(b, f, n) : f[i].client = x) => b.customer[x] # "archived"
  BY DEF Accepted
<1>4. \A x : (\E i \in Accepted(b, f, Len(f)) : f[i].client = x) => b.customer[x] # "archived"
  BY DEF Accepted
<1>5. SameArchive(b, Applied(b, f, n))
  BY <1>1, <1>3 DEF SameArchive
<1>6. SameArchive(b, Loaded(b, f))
  BY <1>2, <1>4 DEF SameArchive
<1>. QED
  BY <1>5, <1>6

\* Every key a policy is of is a key, and its number is one (Policies).
LEMMA PolicyParts ==
    ASSUME NEW p \in Policies
    PROVE  /\ p[1] \in Keys /\ p[2] \in 1..MaxIssued /\ p = <<p[1], p[2]>>
           /\ p[1][1] \in Clients
  BY DEF Policies, Keys

\* A load that goes on from a prefix issues no policy twice (Issued).
LEMMA IssuedOnce ==
    ASSUME NEW b \in Book, NEW f \in Seq(Row), NEW n \in 0..Len(f), NEW k \in Keys
    PROVE  /\ Issued(Applied(b, f, n), f, Len(f), k) = Issued(b, f, Len(f), k)
           /\ Named(b, f, n, k) # {} => Issued(b, f, n, k) = Issued(b, f, Len(f), k)
<1> DEFINE a == Applied(b, f, n)
<1>1. a.issued[k] = Issued(b, f, n, k) /\ a.live[k] = (b.live[k] \/ Named(b, f, n, k) # {})
  BY AppliedFields
<1>2. Named(a, f, Len(f), k) = Named(b, f, Len(f), k)
  <2>1. SameArchive(b, a)
    BY ArchiveKept
  <2>2. Len(f) \in 0..Len(f)
    OBVIOUS
  <2>. QED
    BY <2>1, <2>2, SameRows
<1>3. Named(b, f, n, k) \subseteq Named(b, f, Len(f), k)
  BY Prefix
<1>. QED
  BY <1>1, <1>2, <1>3 DEF Issued, Issues

\* Two books that agree after the rows, table by table, are then the same
\* (Applied).
LEMMA AppliedSame ==
    ASSUME NEW b, NEW c, NEW f, NEW m, NEW n,
           \A x \in Clients : Applied(c, f, m).customer[x] = Applied(b, f, n).customer[x],
           \A k \in Keys : Applied(c, f, m).issued[k] = Applied(b, f, n).issued[k],
           \A k \in Keys : Applied(c, f, m).live[k] = Applied(b, f, n).live[k],
           \A p \in Policies : Applied(c, f, m).claims[p] = Applied(b, f, n).claims[p],
           \A p \in Policies : Applied(c, f, m).anomaly[p] = Applied(b, f, n).anomaly[p]
    PROVE  Applied(c, f, m) = Applied(b, f, n)
<1> DEFINE A == Applied(b, f, n)
           C == Applied(c, f, m)
           Table(a) == [customer |-> [x \in Clients |-> a.customer[x]],
                        issued   |-> [k \in Keys |-> a.issued[k]],
                        live     |-> [k \in Keys |-> a.live[k]],
                        claims   |-> [p \in Policies |-> a.claims[p]],
                        anomaly  |-> [p \in Policies |-> a.anomaly[p]]]
<1>1. A = Table(A)
  BY ZenonT(60) DEF Applied
<1>2. C = Table(C)
  BY ZenonT(60) DEF Applied
<1>3. Table(A) = Table(C)
  <2> HIDE DEF A, C
  <2>1. [x \in Clients |-> A.customer[x]] = [x \in Clients |-> C.customer[x]]
    BY DEF A, C
  <2>2. [k \in Keys |-> A.issued[k]] = [k \in Keys |-> C.issued[k]]
    BY DEF A, C
  <2>3. [k \in Keys |-> A.live[k]] = [k \in Keys |-> C.live[k]]
    BY DEF A, C
  <2>4. [p \in Policies |-> A.claims[p]] = [p \in Policies |-> C.claims[p]]
    BY DEF A, C
  <2>5. [p \in Policies |-> A.anomaly[p]] = [p \in Policies |-> C.anomaly[p]]
    BY DEF A, C
  <2>. QED
    BY <2>1, <2>2, <2>3, <2>4, <2>5
<1>. QED
  BY <1>1, <1>2, <1>3

\* Going on from a prefix of the rows with all of them comes to the same as
\* starting with all of them: customers, policies and claims are matched and
\* not made again (Applied).
LEMMA AppliedAgain ==
    ASSUME NEW b \in Book, NEW f \in Seq(Row), NEW n \in 0..Len(f)
    PROVE  Applied(Applied(b, f, n), f, Len(f)) = Applied(b, f, Len(f))
<1> DEFINE a == Applied(b, f, n)
           N == Len(f)
<1> HIDE DEF a
<1>0. N \in 0..Len(f) /\ SameArchive(b, a)
  <2>1. SameArchive(b, a)
    BY ArchiveKept DEF a
  <2>2. N \in 0..Len(f)
    OBVIOUS
  <2>. QED
    BY <2>1, <2>2
<1>1. /\ Accepted(a, f, N) = Accepted(b, f, N)
      /\ \A k : /\ Named(a, f, N, k) = Named(b, f, N, k)
                /\ Claimed(a, f, N, k) = Claimed(b, f, N, k)
                /\ Conflicts(a, f, N, k) <=> Conflicts(b, f, N, k)
                /\ LastClaim(a, f, N, k) = LastClaim(b, f, N, k)
  BY <1>0, SameRows
<1>2. \A x \in Clients : Applied(a, f, N).customer[x] = Applied(b, f, N).customer[x]
  <2> TAKE x \in Clients
  <2>1. a.customer[x] = IF \E i \in Accepted(b, f, n) : f[i].client = x
                        THEN "live" ELSE b.customer[x]
    BY AppliedFields DEF a
  <2>2. Applied(a, f, N).customer[x] = IF \E i \in Accepted(b, f, N) : f[i].client = x
                                       THEN "live" ELSE a.customer[x]
    BY <1>1, AppliedFields
  <2>3. Applied(b, f, N).customer[x] = IF \E i \in Accepted(b, f, N) : f[i].client = x
                                       THEN "live" ELSE b.customer[x]
    BY AppliedFields
  <2>4. Accepted(b, f, n) \subseteq Accepted(b, f, N)
    BY Prefix
  <2>. QED
    BY <2>1, <2>2, <2>3, <2>4
<1>3. \A k \in Keys : Applied(a, f, N).issued[k] = Applied(b, f, N).issued[k]
  BY AppliedFields, IssuedOnce DEF a
<1>4. \A k \in Keys : Applied(a, f, N).live[k] = Applied(b, f, N).live[k]
  <2> TAKE k \in Keys
  <2>1. a.live[k] = (b.live[k] \/ Named(b, f, n, k) # {})
    BY AppliedFields DEF a
  <2>2. Applied(a, f, N).live[k] = (a.live[k] \/ Named(b, f, N, k) # {})
    BY <1>1, AppliedFields
  <2>3. Applied(b, f, N).live[k] = (b.live[k] \/ Named(b, f, N, k) # {})
    BY AppliedFields
  <2>4. Named(b, f, n, k) \subseteq Named(b, f, N, k)
    BY Prefix
  <2>. QED
    BY <2>1, <2>2, <2>3, <2>4
<1>5. \A p \in Policies : Applied(a, f, N).claims[p] = Applied(b, f, N).claims[p]
  <2> TAKE p \in Policies
  <2> DEFINE k == p[1]
             L == LastClaim(b, f, N, k)
             M == LastClaim(b, f, n, k)
  <2>1. a.claims[p] = IF p[2] = Issued(b, f, n, k) /\ Claimed(b, f, n, k) # {}
                      THEN WithClaim(b.claims[p], M) ELSE b.claims[p]
    BY AppliedFields DEF a
  <2>2. Issued(a, f, N, k) = Issued(b, f, N, k)
    BY IssuedOnce, PolicyParts DEF a
  <2>3. Applied(a, f, N).claims[p] = IF p[2] = Issued(b, f, N, k) /\ Claimed(b, f, N, k) # {}
                                     THEN WithClaim(a.claims[p], L) ELSE a.claims[p]
    BY <1>1, <2>2, AppliedFields
  <2>4. Applied(b, f, N).claims[p] = IF p[2] = Issued(b, f, N, k) /\ Claimed(b, f, N, k) # {}
                                     THEN WithClaim(b.claims[p], L) ELSE b.claims[p]
    BY AppliedFields
  <2>5. Claimed(b, f, n, k) # {} => /\ Claimed(b, f, N, k) # {}
                                    /\ Issued(b, f, n, k) = Issued(b, f, N, k)
    <3>1. Claimed(b, f, n, k) \subseteq Claimed(b, f, N, k)
      BY Prefix
    <3>2. Claimed(b, f, n, k) \subseteq Named(b, f, n, k)
      BY Prefix
    <3>3. Named(b, f, n, k) # {} => Issued(b, f, n, k) = Issued(b, f, N, k)
      BY IssuedOnce, PolicyParts
    <3>. QED
      BY <3>1, <3>2, <3>3
  <2>6. WithClaim(WithClaim(b.claims[p], M), L) = WithClaim(b.claims[p], L)
    BY WithClaimTwice DEF Book
  <2>. QED
    BY <2>1, <2>3, <2>4, <2>5, <2>6
<1>6. \A p \in Policies : Applied(a, f, N).anomaly[p] = Applied(b, f, N).anomaly[p]
  <2> TAKE p \in Policies
  <2> DEFINE k == p[1]
  <2>1. a.anomaly[p] = IF p[2] = Issued(b, f, n, k) /\ Conflicts(b, f, n, k)
                       THEN "open" ELSE b.anomaly[p]
    BY AppliedFields DEF a
  <2>2. Issued(a, f, N, k) = Issued(b, f, N, k)
    BY IssuedOnce, PolicyParts DEF a
  <2>3. Applied(a, f, N).anomaly[p] = IF p[2] = Issued(b, f, N, k) /\ Conflicts(b, f, N, k)
                                      THEN "open" ELSE a.anomaly[p]
    BY <1>1, <2>2, AppliedFields
  <2>4. Applied(b, f, N).anomaly[p] = IF p[2] = Issued(b, f, N, k) /\ Conflicts(b, f, N, k)
                                      THEN "open" ELSE b.anomaly[p]
    BY AppliedFields
  <2>5. Conflicts(b, f, n, k) => /\ Conflicts(b, f, N, k)
                                 /\ Issued(b, f, n, k) = Issued(b, f, N, k)
    <3>1. Conflicts(b, f, n, k) => Conflicts(b, f, N, k) /\ Named(b, f, n, k) # {}
      BY Prefix
    <3>2. Named(b, f, n, k) # {} => Issued(b, f, n, k) = Issued(b, f, N, k)
      BY IssuedOnce, PolicyParts
    <3>. QED
      BY <3>1, <3>2
  <2>. QED
    BY <2>1, <2>3, <2>4, <2>5
<1>7. Applied(a, f, N) = Applied(b, f, N)
  BY <1>2, <1>3, <1>4, <1>5, <1>6, AppliedSame
<1>. QED
  BY <1>7 DEF a

-----------------------------------------------------------------------------
\* A policy with an open anomaly from before the load is its key's live one
\* after a prefix of the rows if and only if it was before (Applied): a policy
\* issued meanwhile has no anomaly of that time.
LEMMA LastAgain ==
    ASSUME NEW b \in Book, WellFormed(b), NEW f \in Seq(Row), NEW n \in 0..Len(f),
           NEW p \in Policies, b.anomaly[p] = "open"
    PROVE  LET a == Applied(b, f, n)
           IN  /\ (a.live[p[1]] /\ p = Last(a, p[1])) <=> (b.live[p[1]] /\ p = Last(b, p[1]))
               /\ ~a.live[p[1]] => p # <<p[1], a.issued[p[1]] + 1>>
<1> DEFINE a == Applied(b, f, n)
           k == p[1]
<1> HIDE DEF a
<1>1. k \in Keys /\ p[2] \in 1..MaxIssued /\ p = <<k, p[2]>> /\ k[1] \in Clients
  BY PolicyParts
<1>2. b.issued[k] \in Nat /\ b.live[k] \in BOOLEAN /\ p[2] \in Nat
  BY <1>1, BoundAssumption DEF Book
<1>3. p[2] <= b.issued[k]
  BY <1>1, <1>2 DEF WellFormed
<1>4. a.issued[k] = Issued(b, f, n, k) /\ a.live[k] = (b.live[k] \/ Named(b, f, n, k) # {})
  BY <1>1, AppliedFields DEF a
<1>5. p = Last(a, k) <=> p[2] = a.issued[k]
  BY <1>1 DEF Last
<1>6. p = Last(b, k) <=> p[2] = b.issued[k]
  BY <1>1 DEF Last
<1>7. ~a.live[k] => p # <<k, a.issued[k] + 1>>
  <2>1. ~a.live[k] => a.issued[k] = b.issued[k]
    BY <1>4 DEF Issues, Issued
  <2>2. p[2] # b.issued[k] + 1
    BY <1>2, <1>3
  <2>. QED
    BY <1>1, <2>1, <2>2
<1>8. CASE Issues(b, f, n, k)
  <2>1. ~b.live[k] /\ a.issued[k] = b.issued[k] + 1
    BY <1>4, <1>8 DEF Issues, Issued
  <2>. QED
    BY <1>2, <1>3, <1>5, <1>7, <2>1 DEF a
<1>9. CASE ~Issues(b, f, n, k)
  <2>1. a.issued[k] = b.issued[k] /\ (b.live[k] \/ Named(b, f, n, k) = {})
    BY <1>4, <1>9 DEF Issues, Issued
  <2>2. a.live[k] = b.live[k]
    BY <1>2, <1>4, <2>1
  <2>. QED
    BY <1>5, <1>6, <1>7, <2>1, <2>2 DEF a
<1>. QED
  BY <1>8, <1>9

\* So the file has something to say about the same of them (Seen).
LEMMA SeenAgain ==
    ASSUME NEW b \in Book, WellFormed(b), NEW f \in Seq(Row), NEW n \in 0..Len(f),
           NEW p \in Policies, b.anomaly[p] = "open"
    PROVE  Seen(Applied(b, f, n), f, p) <=> Seen(b, f, p)
<1> DEFINE a == Applied(b, f, n)
<1>1. p[1][1] \in Clients
  BY PolicyParts
<1>2. a.customer[p[1][1]] = "archived" <=> b.customer[p[1][1]] = "archived"
  BY <1>1, ArchiveKept DEF SameArchive
<1>3. (a.live[p[1]] /\ p = Last(a, p[1])) <=> (b.live[p[1]] /\ p = Last(b, p[1]))
  BY LastAgain
<1> HIDE DEF a
<1>4. Seen(a, f, p) <=> Seen(b, f, p)
  BY <1>2, <1>3 DEF Seen
<1>. QED
  BY <1>4 DEF a

\* A load that died after any prefix of the rows and is started again with the
\* same file leads to the book the first would have led to (FR-035 and FR-043:
\* rows commit one by one and the anomalies are cleared at the end, handle and
\* _clear_stale_anomalies of loaddataset.py).
THEOREM RestartAfterCrash ==
    ASSUME NEW b \in Book, WellFormed(b), NEW f \in Seq(Row), NEW n \in 0..Len(f)
    PROVE  Loaded(Applied(b, f, n), f) = Loaded(b, f)
<1> DEFINE a == Applied(b, f, n)
           N == Len(f)
           A == Applied(b, f, N)
<1> HIDE DEF a, A
<1>1. Applied(a, f, N) = A
  BY AppliedAgain DEF a, A
<1>2. \A k : Conflicts(a, f, N, k) <=> Conflicts(b, f, N, k)
  <2>1. SameArchive(b, a)
    BY ArchiveKept DEF a
  <2>2. N \in 0..Len(f)
    OBVIOUS
  <2>. QED
    BY <2>1, <2>2, SameRows
<1>3. \A p \in Policies : Settled(a, f, p) = Settled(b, f, p)
  <2> TAKE p \in Policies
  <2> DEFINE keep == A.anomaly[p] # "open" \/ (Conflicts(b, f, N, p[1]) /\ p = Last(A, p[1]))
  <2>1. Settled(a, f, p) = IF keep THEN A.anomaly[p]
                           ELSE IF Seen(a, f, p) THEN "corrected" ELSE "absent"
    BY <1>1, <1>2 DEF Settled, Confirmed
  <2>2. Settled(b, f, p) = IF keep THEN A.anomaly[p]
                           ELSE IF Seen(b, f, p) THEN "corrected" ELSE "absent"
    BY DEF Settled, Confirmed, A
  <2>3. ~keep => b.anomaly[p] = "open"
    <3>1. A.anomaly[p] = IF p[2] = Issued(b, f, N, p[1]) /\ Conflicts(b, f, N, p[1])
                         THEN "open" ELSE b.anomaly[p]
      BY AppliedFields DEF A
    <3>2. A.issued[p[1]] = Issued(b, f, N, p[1])
      BY AppliedFields, PolicyParts DEF A
    <3>3. p[2] = Issued(b, f, N, p[1]) => p = Last(A, p[1])
      BY <3>2, PolicyParts DEF Last
    <3>. QED
      BY <3>1, <3>3
  <2>4. b.anomaly[p] = "open" => (Seen(a, f, p) <=> Seen(b, f, p))
    BY SeenAgain DEF a
  <2>. QED
    BY <2>1, <2>2, <2>3, <2>4
<1>4. Loaded(a, f) = Loaded(b, f)
  BY <1>1, <1>3 DEF Loaded, A
<1>. QED
  BY <1>4 DEF a

\* Loading a file a second time changes nothing ("idempotent on both", the help
\* text of loaddataset.py, FR-035).
THEOREM LoadIdempotent ==
    ASSUME NEW b \in Book, NEW f \in Seq(Row)
    PROVE  Loaded(Loaded(b, f), f) = Loaded(b, f)
<1> DEFINE N == Len(f)
           A == Applied(b, f, N)
           L == Loaded(b, f)
           M == Applied(L, f, N)
<1> HIDE DEF A, L, M
<1>0. N \in 0..Len(f)
  OBVIOUS
<1>1. L = [A EXCEPT !.anomaly = [p \in Policies |-> Settled(b, f, p)]]
  BY DEF L, Loaded, A
<1>2. A = [customer |-> A.customer, issued |-> A.issued, live |-> A.live,
           claims |-> A.claims, anomaly |-> A.anomaly]
  BY DEF A, Applied
<1>3. /\ L.customer = A.customer /\ L.issued = A.issued /\ L.live = A.live
      /\ L.claims = A.claims
      /\ L.anomaly = [p \in Policies |-> Settled(b, f, p)]
  BY <1>1, <1>2
<1>4. Applied(A, f, N) = A
  BY <1>0, AppliedAgain DEF A
<1>5. /\ Accepted(L, f, N) = Accepted(b, f, N)
      /\ \A k : /\ Named(L, f, N, k) = Named(b, f, N, k)
                /\ Claimed(L, f, N, k) = Claimed(b, f, N, k)
                /\ Conflicts(L, f, N, k) <=> Conflicts(b, f, N, k)
                /\ LastClaim(L, f, N, k) = LastClaim(b, f, N, k)
  <2>1. SameArchive(b, L)
    BY <1>0, ArchiveKept DEF L
  <2>. QED
    BY <1>0, <2>1, SameRows
<1>6. /\ Accepted(A, f, N) = Accepted(b, f, N)
      /\ \A k : /\ Named(A, f, N, k) = Named(b, f, N, k)
                /\ Claimed(A, f, N, k) = Claimed(b, f, N, k)
                /\ LastClaim(A, f, N, k) = LastClaim(b, f, N, k)
  <2>1. SameArchive(b, A)
    BY <1>0, ArchiveKept DEF A
  <2>. QED
    BY <1>0, <2>1, SameRows
<1>7. \A k : Issued(L, f, N, k) = Issued(A, f, N, k)
  BY <1>3, <1>5, <1>6 DEF Issued, Issues
<1>8. /\ \A x \in Clients : M.customer[x] = A.customer[x]
      /\ \A k \in Keys : M.issued[k] = A.issued[k]
      /\ \A k \in Keys : M.live[k] = A.live[k]
      /\ \A p \in Policies : M.claims[p] = A.claims[p]
  <2> DEFINE R == Applied(A, f, N)
  <2>1. \A x \in Clients : M.customer[x] = R.customer[x]
    BY <1>3, <1>5, <1>6, AppliedFields DEF M
  <2>2. \A k \in Keys : M.issued[k] = R.issued[k]
    BY <1>7, AppliedFields DEF M
  <2>3. \A k \in Keys : M.live[k] = R.live[k]
    BY <1>3, <1>5, <1>6, AppliedFields DEF M
  <2>4. \A p \in Policies : M.claims[p] = R.claims[p]
    <3> TAKE p \in Policies
    <3> DEFINE named == p[2] = Issued(A, f, N, p[1]) /\ Claimed(b, f, N, p[1]) # {}
               last  == LastClaim(b, f, N, p[1])
    <3>1. M.claims[p] = IF named THEN WithClaim(L.claims[p], last) ELSE L.claims[p]
      BY <1>5, <1>7, AppliedFields DEF M
    <3>2. R.claims[p] = IF named THEN WithClaim(A.claims[p], last) ELSE A.claims[p]
      BY <1>6, AppliedFields
    <3>. QED
      BY <1>3, <3>1, <3>2
  <2>. QED
    BY <1>4, <2>1, <2>2, <2>3, <2>4
<1>9. \A p \in Policies : Settled(L, f, p) = Settled(b, f, p)
  <2> TAKE p \in Policies
  <2> DEFINE raised == p[2] = A.issued[p[1]] /\ Conflicts(b, f, N, p[1])
  <2>1. A.anomaly[p] = IF raised THEN "open" ELSE b.anomaly[p]
    BY AppliedFields, PolicyParts DEF A
  <2>2. M.anomaly[p] = IF raised THEN "open" ELSE Settled(b, f, p)
    <3>1. M.anomaly[p] = IF p[2] = Issued(L, f, N, p[1]) /\ Conflicts(b, f, N, p[1])
                         THEN "open" ELSE L.anomaly[p]
      BY <1>5, AppliedFields DEF M
    <3>2. Issued(L, f, N, p[1]) = A.issued[p[1]]
      BY <1>8, AppliedFields, PolicyParts DEF M
    <3>. QED
      BY <1>3, <3>1, <3>2
  <2>3. (Conflicts(b, f, N, p[1]) /\ p = Last(A, p[1])) <=> raised
    BY PolicyParts DEF Last
  <2>4. (Conflicts(L, f, N, p[1]) /\ p = Last(M, p[1])) <=> raised
    BY <1>5, <1>8, PolicyParts DEF Last
  <2>5. Settled(b, f, p) = IF A.anomaly[p] # "open" \/ raised THEN A.anomaly[p]
                           ELSE IF Seen(b, f, p) THEN "corrected" ELSE "absent"
    BY <2>3 DEF Settled, Confirmed, A
  <2>6. Settled(L, f, p) = IF M.anomaly[p] # "open" \/ raised THEN M.anomaly[p]
                           ELSE IF Seen(L, f, p) THEN "corrected" ELSE "absent"
    BY <2>4 DEF Settled, Confirmed, M
  <2>7. Settled(b, f, p) = "open" <=> raised
    BY <2>1, <2>5
  <2>. QED
    BY <2>1, <2>2, <2>5, <2>6, <2>7
<1>10. Loaded(L, f) = Loaded(b, f)
  <2> DEFINE T == [p \in Policies |-> Settled(b, f, p)]
  <2>1. [p \in Policies |-> Settled(L, f, p)] = T
    BY <1>9
  <2>2. Loaded(L, f) = [M EXCEPT !.anomaly = T]
    BY <2>1 DEF Loaded, M
  <2>3. M = [customer |-> [x \in Clients |-> M.customer[x]],
             issued |-> [k \in Keys |-> M.issued[k]], live |-> [k \in Keys |-> M.live[k]],
             claims |-> [p \in Policies |-> M.claims[p]], anomaly |-> M.anomaly]
    BY DEF M, Applied
  <2>4. A = [customer |-> [x \in Clients |-> A.customer[x]],
             issued |-> [k \in Keys |-> A.issued[k]], live |-> [k \in Keys |-> A.live[k]],
             claims |-> [p \in Policies |-> A.claims[p]], anomaly |-> A.anomaly]
    BY DEF A, Applied
  <2>5. /\ [x \in Clients |-> M.customer[x]] = [x \in Clients |-> A.customer[x]]
        /\ [k \in Keys |-> M.issued[k]] = [k \in Keys |-> A.issued[k]]
        /\ [k \in Keys |-> M.live[k]] = [k \in Keys |-> A.live[k]]
        /\ [p \in Policies |-> M.claims[p]] = [p \in Policies |-> A.claims[p]]
    BY <1>8
  <2>6. /\ M.customer = A.customer /\ M.issued = A.issued
        /\ M.live = A.live /\ M.claims = A.claims
    BY <2>3, <2>4, <2>5
  <2> HIDE DEF T
  <2>7. [M EXCEPT !.anomaly = T]
          = [customer |-> M.customer, issued |-> M.issued, live |-> M.live,
             claims |-> M.claims, anomaly |-> T]
    BY <2>3
  <2>8. [A EXCEPT !.anomaly = T]
          = [customer |-> A.customer, issued |-> A.issued, live |-> A.live,
             claims |-> A.claims, anomaly |-> T]
    BY <1>2
  <2>. QED
    BY <1>1, <2>2, <2>6, <2>7, <2>8 DEF T, L
<1>. QED
  BY <1>10 DEF L

-----------------------------------------------------------------------------
\* The row after the first n is accepted.
AcceptedNext(b, f, n) == /\ f[n + 1].content \notin {"invalid", "badclaim"}
                         /\ b.customer[f[n + 1].client] # "archived"

\* One row more is accepted, or none (Accepted).
LEMMA AcceptedStep ==
    ASSUME NEW b, NEW f, NEW n \in Nat
    PROVE  /\ ~AcceptedNext(b, f, n) => Accepted(b, f, n + 1) = Accepted(b, f, n)
           /\ AcceptedNext(b, f, n) => Accepted(b, f, n + 1) = Accepted(b, f, n) \cup {n + 1}
           /\ Accepted(b, f, n) \subseteq 1..n
<1>1. 1..(n + 1) = (1..n) \cup {n + 1}
  OBVIOUS
<1>2. n + 1 \notin 1..n
  OBVIOUS
<1>. QED
  BY <1>1, <1>2 DEF Accepted, AcceptedNext

\* A refused row leaves no trace in the effect (Applied).
LEMMA AppliedRefused ==
    ASSUME NEW b, NEW f, NEW n \in Nat,
           \/ f[n + 1].content \in {"invalid", "badclaim"}
           \/ b.customer[f[n + 1].client] = "archived"
    PROVE  /\ Applied(b, f, n + 1) = Applied(b, f, n)
           /\ \A k : /\ Conflicts(b, f, n + 1, k) <=> Conflicts(b, f, n, k)
                     /\ Issued(b, f, n + 1, k) = Issued(b, f, n, k)
<1>0. ~AcceptedNext(b, f, n)
  BY DEF AcceptedNext
<1>1. Accepted(b, f, n + 1) = Accepted(b, f, n)
  BY <1>0, AcceptedStep
<1>2. \A k : Named(b, f, n + 1, k) = Named(b, f, n, k)
  BY <1>1 DEF Named
<1>3. \A k : Claimed(b, f, n + 1, k) = Claimed(b, f, n, k)
  BY <1>2 DEF Claimed
<1>4. \A k : Conflicts(b, f, n + 1, k) <=> Conflicts(b, f, n, k)
  BY <1>2 DEF Conflicts
<1>5. \A k : LastClaim(b, f, n + 1, k) = LastClaim(b, f, n, k)
  BY <1>3 DEF LastClaim
<1>6. \A k : Issued(b, f, n + 1, k) = Issued(b, f, n, k)
  BY <1>2 DEF Issued, Issues
<1>7. /\ \A x \in Clients : Applied(b, f, n + 1).customer[x] = Applied(b, f, n).customer[x]
      /\ \A k \in Keys : Applied(b, f, n + 1).issued[k] = Applied(b, f, n).issued[k]
      /\ \A k \in Keys : Applied(b, f, n + 1).live[k] = Applied(b, f, n).live[k]
  BY <1>1, <1>2, <1>6, AppliedFields
<1>8. \A p \in Policies : Applied(b, f, n + 1).claims[p] = Applied(b, f, n).claims[p]
  <2> TAKE p \in Policies
  <2> DEFINE hit == p[2] = Issued(b, f, n, p[1]) /\ Claimed(b, f, n, p[1]) # {}
             v   == LastClaim(b, f, n, p[1])
  <2>1. Applied(b, f, n + 1).claims[p] = IF hit THEN WithClaim(b.claims[p], v) ELSE b.claims[p]
    BY <1>3, <1>5, <1>6, AppliedFields
  <2>2. Applied(b, f, n).claims[p] = IF hit THEN WithClaim(b.claims[p], v) ELSE b.claims[p]
    BY AppliedFields
  <2>. QED
    BY <2>1, <2>2
<1>9. \A p \in Policies : Applied(b, f, n + 1).anomaly[p] = Applied(b, f, n).anomaly[p]
  BY <1>4, <1>6, AppliedFields
<1>10. Applied(b, f, n + 1) = Applied(b, f, n)
  BY <1>7, <1>8, <1>9, AppliedSame
<1>. QED
  BY <1>4, <1>6, <1>10

\* The policy an accepted row writes, given the book a of the rows before it.
Written(a, r) ==
    <<Key(r), IF a.live[Key(r)] THEN a.issued[Key(r)] ELSE a.issued[Key(r)] + 1>>

\* What one more row r, accepted, changes in the rows that name k.
NamesOnly(b, f, n, r, k) ==
    /\ k # Key(r) => Named(b, f, n + 1, k) = Named(b, f, n, k)
    /\ k = Key(r) => Named(b, f, n + 1, k) # {}
    /\ ~(k = Key(r) /\ r.content \in ClaimValues)
         => /\ Claimed(b, f, n + 1, k) = Claimed(b, f, n, k)
            /\ LastClaim(b, f, n + 1, k) = LastClaim(b, f, n, k)
    /\ k = Key(r) /\ r.content \in ClaimValues
         => /\ Claimed(b, f, n + 1, k) # {}
            /\ LastClaim(b, f, n + 1, k) = r.content
    /\ Conflicts(b, f, n + 1, k)
         <=> Conflicts(b, f, n, k) \/ (k = Key(r) /\ r.content = "anomaly")

\* An accepted row is named by its own key and by no other (Named, Claimed,
\* Conflicts, LastClaim).
LEMMA NamedStep ==
    ASSUME NEW b, NEW f \in Seq(Row), NEW n \in Nat, n < Len(f), AcceptedNext(b, f, n)
    PROVE  \A k : NamesOnly(b, f, n, f[n + 1], k)
<1> TAKE k
<1> DEFINE r == f[n + 1]
<1>1. /\ Accepted(b, f, n + 1) = Accepted(b, f, n) \cup {n + 1}
      /\ Accepted(b, f, n) \subseteq 1..n
  BY AcceptedStep
<1>2. k # Key(r) => Named(b, f, n + 1, k) = Named(b, f, n, k)
  BY <1>1 DEF Named
<1>3. k = Key(r) => Named(b, f, n + 1, k) = Named(b, f, n, k) \cup {n + 1}
  BY <1>1 DEF Named
<1>4. ~(k = Key(r) /\ r.content \in ClaimValues) => Claimed(b, f, n + 1, k) = Claimed(b, f, n, k)
  BY <1>2, <1>3 DEF Claimed
<1>5. ASSUME k = Key(r), r.content \in ClaimValues
      PROVE  LastClaim(b, f, n + 1, k) = r.content /\ Claimed(b, f, n + 1, k) # {}
  <2> DEFINE C == Claimed(b, f, n + 1, k)
  <2>1. n + 1 \in C
    BY <1>3, <1>5 DEF Claimed
  <2>2. C \subseteq 1..(n + 1)
    BY <1>1, <1>3, <1>5 DEF Claimed, Named
  <2> HIDE DEF C
  <2>3. \A x \in C : n + 1 >= x
    BY <2>2
  <2>4. Max(C) \in C /\ \A x \in C : Max(C) >= x
    BY <2>1, <2>3 DEF Max
  <2>5. Max(C) = n + 1
    <3>1. Max(C) \in 1..(n + 1) /\ Max(C) >= n + 1
      BY <2>1, <2>2, <2>4
    <3>. QED
      BY <3>1
  <2>. QED
    BY <2>1, <2>5 DEF LastClaim, C
<1>6. Conflicts(b, f, n + 1, k)
        <=> Conflicts(b, f, n, k) \/ (k = Key(r) /\ r.content = "anomaly")
  <2>1. CASE k # Key(r)
    BY <1>2, <2>1 DEF Conflicts
  <2>2. CASE k = Key(r)
    BY <1>3, <2>2 DEF Conflicts
  <2>. QED
    BY <2>1, <2>2
<1>7. ~(k = Key(r) /\ r.content \in ClaimValues)
        => LastClaim(b, f, n + 1, k) = LastClaim(b, f, n, k)
  BY <1>4 DEF LastClaim
<1>. QED
  BY <1>2, <1>3, <1>4, <1>5, <1>6, <1>7 DEF NamesOnly

\* The policy numbers after an accepted row (Issued).
LEMMA IssuedStep ==
    ASSUME NEW b \in Book, NEW f \in Seq(Row), NEW n \in Nat, n < Len(f),
           AcceptedNext(b, f, n), NEW k \in Keys
    PROVE  LET a == Applied(b, f, n)
               r == f[n + 1]
           IN  /\ Issued(b, f, n + 1, k) =
                    IF k = Key(r) THEN Written(a, r)[2] ELSE Issued(b, f, n, k)
               /\ Named(b, f, n, k) # {} => Issued(b, f, n + 1, k) = Issued(b, f, n, k)
<1> DEFINE a == Applied(b, f, n)
           r == f[n + 1]
<1>0. NamesOnly(b, f, n, r, k)
  BY NamedStep
<1>1. a.issued[k] = Issued(b, f, n, k) /\ a.live[k] = (b.live[k] \/ Named(b, f, n, k) # {})
  BY AppliedFields
<1> HIDE DEF a
<1>2. CASE k = Key(r)
  <2>1. Named(b, f, n + 1, k) # {}
    BY <1>0, <1>2 DEF NamesOnly
  <2>2. Written(a, r)[2] = IF a.live[k] THEN a.issued[k] ELSE a.issued[k] + 1
    BY <1>2 DEF Written
  <2>3. CASE Issues(b, f, n, k)
    <3>1. a.live[k] /\ Issues(b, f, n + 1, k)
      BY <1>1, <2>1, <2>3 DEF Issues
    <3>. QED
      BY <1>1, <1>2, <2>2, <2>3, <3>1 DEF Issued, a
  <2>4. CASE ~Issues(b, f, n, k)
    <3>1. a.issued[k] = b.issued[k]
      BY <1>1, <2>4 DEF Issued
    <3>2. a.live[k] <=> b.live[k]
      BY <1>1, <2>4 DEF Issues
    <3>3. Issues(b, f, n + 1, k) <=> ~b.live[k]
      BY <2>1 DEF Issues
    <3>4. Named(b, f, n, k) # {} => b.live[k]
      BY <2>4 DEF Issues
    <3>5. Issued(b, f, n + 1, k) = Written(a, r)[2]
      BY <2>2, <3>1, <3>2, <3>3 DEF Issued
    <3>. QED
      BY <1>1, <1>2, <2>2, <3>2, <3>4, <3>5 DEF a
  <2>. QED
    BY <2>3, <2>4
<1>3. CASE k # Key(r)
  <2>1. Named(b, f, n + 1, k) = Named(b, f, n, k)
    BY <1>0, <1>3 DEF NamesOnly
  <2>. QED
    BY <1>3, <2>1 DEF Issued, Issues
<1>. QED
  BY <1>2, <1>3

\* What an accepted row makes of each table: its customer and policy are live,
\* its claim written, its conflict open, and nothing else changes (Applied).
LEMMA AppliedRow ==
    ASSUME NEW b \in Book, NEW f \in Seq(Row), NEW n \in Nat, n < Len(f),
           AcceptedNext(b, f, n)
    PROVE  LET a == Applied(b, f, n)
               c == Applied(b, f, n + 1)
               r == f[n + 1]
               w == Written(a, r)
           IN  /\ \A x \in Clients : c.customer[x] = IF x = r.client THEN "live" ELSE a.customer[x]
               /\ \A k \in Keys : c.issued[k] = IF k = Key(r) THEN w[2] ELSE a.issued[k]
               /\ \A k \in Keys : c.live[k] = IF k = Key(r) THEN TRUE ELSE a.live[k]
               /\ \A p \in Policies : c.claims[p] =
                    IF p = w /\ r.content \in ClaimValues
                    THEN WithClaim(a.claims[p], r.content) ELSE a.claims[p]
               /\ \A p \in Policies : c.anomaly[p] =
                    IF p = w /\ r.content = "anomaly" THEN "open" ELSE a.anomaly[p]
<1> DEFINE a == Applied(b, f, n)
           c == Applied(b, f, n + 1)
           r == f[n + 1]
           w == Written(a, r)
<1>0. \A k : NamesOnly(b, f, n, r, k)
  BY NamedStep
<1>1. \A x \in Clients : c.customer[x] = IF x = r.client THEN "live" ELSE a.customer[x]
  <2> TAKE x \in Clients
  <2>1. Accepted(b, f, n + 1) = Accepted(b, f, n) \cup {n + 1}
    BY AcceptedStep
  <2>2. c.customer[x] = IF \E i \in Accepted(b, f, n + 1) : f[i].client = x
                        THEN "live" ELSE b.customer[x]
    BY AppliedFields
  <2>3. a.customer[x] = IF \E i \in Accepted(b, f, n) : f[i].client = x
                        THEN "live" ELSE b.customer[x]
    BY AppliedFields
  <2> HIDE DEF a, c
  <2>. QED
    BY <2>1, <2>2, <2>3
<1>2. \A k \in Keys : c.issued[k] = Issued(b, f, n + 1, k) /\ a.issued[k] = Issued(b, f, n, k)
  BY AppliedFields
<1>3. \A k \in Keys : c.issued[k] = IF k = Key(r) THEN w[2] ELSE a.issued[k]
  BY <1>2, IssuedStep
<1>4. \A k \in Keys : c.live[k] = IF k = Key(r) THEN TRUE ELSE a.live[k]
  <2> TAKE k \in Keys
  <2>1. /\ c.live[k] = (b.live[k] \/ Named(b, f, n + 1, k) # {})
        /\ a.live[k] = (b.live[k] \/ Named(b, f, n, k) # {})
    BY AppliedFields
  <2>2. /\ k # Key(r) => Named(b, f, n + 1, k) = Named(b, f, n, k)
        /\ k = Key(r) => Named(b, f, n + 1, k) # {}
    BY <1>0 DEF NamesOnly
  <2> HIDE DEF a, c
  <2>. QED
    BY <2>1, <2>2
<1>5. \A p \in Policies : p = w <=> p[1] = Key(r) /\ p[2] = Issued(b, f, n + 1, p[1])
  <2> TAKE p \in Policies
  <2>1. p = <<p[1], p[2]>> /\ p[1] \in Keys
    BY PolicyParts
  <2>2. w = <<Key(r), w[2]>>
    BY DEF Written
  <2>3. p[1] = Key(r) => Issued(b, f, n + 1, p[1]) = w[2]
    BY <2>1, IssuedStep
  <2> HIDE DEF w
  <2>. QED
    BY <2>1, <2>2, <2>3
<1>6. \A p \in Policies : c.claims[p] = IF p = w /\ r.content \in ClaimValues
                                        THEN WithClaim(a.claims[p], r.content) ELSE a.claims[p]
  <2> TAKE p \in Policies
  <2> DEFINE k  == p[1]
             C  == Claimed(b, f, n, k)
             C1 == Claimed(b, f, n + 1, k)
             l  == LastClaim(b, f, n, k)
             l1 == LastClaim(b, f, n + 1, k)
             i  == Issued(b, f, n, k)
             i1 == Issued(b, f, n + 1, k)
             claims == r.content \in ClaimValues
  <2>1. a.claims[p] = IF p[2] = i /\ C # {} THEN WithClaim(b.claims[p], l) ELSE b.claims[p]
    BY AppliedFields
  <2>2. c.claims[p] = IF p[2] = i1 /\ C1 # {} THEN WithClaim(b.claims[p], l1) ELSE b.claims[p]
    BY AppliedFields
  <2>3. ~(k = Key(r) /\ claims) => C1 = C /\ l1 = l
    BY <1>0 DEF NamesOnly
  <2>4. k = Key(r) /\ claims => C1 # {} /\ l1 = r.content
    BY <1>0 DEF NamesOnly
  <2>5. C # {} => i1 = i
    <3>1. C \subseteq Named(b, f, n, k)
      BY DEF Claimed
    <3>. QED
      BY <3>1, PolicyParts, IssuedStep
  <2>6. \A v : WithClaim(WithClaim(b.claims[p], l), v) = WithClaim(b.claims[p], v)
    BY WithClaimTwice DEF Book
  <2>7. p = w <=> k = Key(r) /\ p[2] = i1
    BY <1>5
  <2> HIDE DEF a, c, w, k, C, C1, l, l1, i, i1, r, claims
  <2>8. CASE p = w /\ claims
    <3>1. c.claims[p] = WithClaim(b.claims[p], r.content)
      BY <2>2, <2>4, <2>7, <2>8
    <3>2. WithClaim(a.claims[p], r.content) = WithClaim(b.claims[p], r.content)
      BY <2>1, <2>6
    <3>. QED
      BY <2>8, <3>1, <3>2 DEF claims
  <2>9. CASE ~(p = w /\ claims)
    <3>1. c.claims[p] = a.claims[p]
      <4>1. CASE k = Key(r) /\ claims
        BY <2>1, <2>2, <2>5, <2>7, <2>9, <4>1
      <4>2. CASE ~(k = Key(r) /\ claims)
        BY <2>1, <2>2, <2>3, <2>5, <4>2
      <4>. QED
        BY <4>1, <4>2
    <3>. QED
      BY <2>9, <3>1 DEF claims
  <2>. QED
    BY <2>8, <2>9
<1>7. \A p \in Policies : c.anomaly[p] = IF p = w /\ r.content = "anomaly"
                                         THEN "open" ELSE a.anomaly[p]
  <2> TAKE p \in Policies
  <2> DEFINE k  == p[1]
             C  == Conflicts(b, f, n, k)
             C1 == Conflicts(b, f, n + 1, k)
             i  == Issued(b, f, n, k)
             i1 == Issued(b, f, n + 1, k)
  <2>1. a.anomaly[p] = IF p[2] = i /\ C THEN "open" ELSE b.anomaly[p]
    BY AppliedFields
  <2>2. c.anomaly[p] = IF p[2] = i1 /\ C1 THEN "open" ELSE b.anomaly[p]
    BY AppliedFields
  <2>3. C1 <=> C \/ (k = Key(r) /\ r.content = "anomaly")
    BY <1>0 DEF NamesOnly
  <2>4. k # Key(r) => i1 = i
    BY PolicyParts, IssuedStep
  <2>5. C => i1 = i
    <3>1. C => Named(b, f, n, k) # {}
      BY DEF Conflicts
    <3>. QED
      BY <3>1, PolicyParts, IssuedStep
  <2>6. p = w <=> k = Key(r) /\ p[2] = i1
    BY <1>5
  <2> HIDE DEF a, c, w, k, C, C1, i, i1
  <2>. QED
    BY <2>1, <2>2, <2>3, <2>4, <2>5, <2>6
<1>. QED
  BY <1>1, <1>3, <1>4, <1>6, <1>7

-----------------------------------------------------------------------------
\* The claims of a policy that got one more row (WithClaim).
LEMMA WithClaimIsList ==
    ASSUME NEW s \in ClaimLists, NEW v \in ClaimValues
    PROVE  WithClaim(s, v) \in ClaimLists
<1>1. PICK n \in 0..MaxClaims : s \in [1..n -> ClaimValues]
  BY DEF ClaimLists
<1>2. CASE s = <<>>
  <2>1. <<v>> \in [1..1 -> ClaimValues] /\ 1 \in 0..MaxClaims
    BY BoundAssumption
  <2>. QED
    BY <1>2, <2>1 DEF WithClaim, ClaimLists
<1>3. CASE s # <<>>
  <2>1. [s EXCEPT ![1] = v] \in [1..n -> ClaimValues]
    BY <1>1
  <2>. QED
    BY <1>3, <2>1 DEF WithClaim, ClaimLists
<1>. QED
  BY <1>2, <1>3
=============================================================================
