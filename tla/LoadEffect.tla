----------------------------- MODULE LoadEffect -----------------------------
(***************************************************************************)
(* What the rows of a file, all of them or a prefix, make of a book, said  *)
(* of the file as a whole and not row by row: first what the rows call     *)
(* for, then why loaddataset clears an anomaly, and its report.            *)
(***************************************************************************)
EXTENDS LoadBook, FiniteSetsExt

\* The rows among the first n that are not refused. A row of an archived
\* customer is: no policy may be filed under an archived customer.
Accepted(b, f, n) ==
    {i \in 1..n : /\ f[i].content \notin {"invalid", "badclaim"}
                  /\ b.customer[f[i].client] # "archived"}

Named(b, f, n, k)  == {i \in Accepted(b, f, n) : Key(f[i]) = k}
Claimed(b, f, n, k) == {i \in Named(b, f, n, k) : f[i].content \in ClaimValues}
Conflicts(b, f, n, k) == \E i \in Named(b, f, n, k) : f[i].content = "anomaly"

\* The claim of the last row that carries one.
LastClaim(b, f, n, k) == f[Max(Claimed(b, f, n, k))].content

\* A key named by an accepted row and without a live policy gets a new one.
Issues(b, f, n, k) == ~b.live[k] /\ Named(b, f, n, k) # {}
Issued(b, f, n, k) == IF Issues(b, f, n, k) THEN b.issued[k] + 1 ELSE b.issued[k]

\* A claim row writes the oldest live claim of its policy, or a first one.
WithClaim(s, v) == IF s = <<>> THEN <<v>> ELSE [s EXCEPT ![1] = v]

\* The book after the first n rows of f, before anything is cleared.
Applied(b, f, n) ==
    [customer |-> [c \in Clients |->
        IF \E i \in Accepted(b, f, n) : f[i].client = c THEN "live" ELSE b.customer[c]],
     issued |-> [k \in Keys |-> Issued(b, f, n, k)],
     live   |-> [k \in Keys |-> b.live[k] \/ Named(b, f, n, k) # {}],
     claims |-> [p \in Policies |->
        IF p[2] = Issued(b, f, n, p[1]) /\ Claimed(b, f, n, p[1]) # {}
        THEN WithClaim(b.claims[p], LastClaim(b, f, n, p[1])) ELSE b.claims[p]],
     anomaly |-> [p \in Policies |->
        IF p[2] = Issued(b, f, n, p[1]) /\ Conflicts(b, f, n, p[1])
        THEN "open" ELSE b.anomaly[p]]]

\* Rows are matched with the live policy of their key, and say nothing of one
\* archived before.
Matched(b, p) == b.live[p[1]] /\ p = Last(b, p[1])

\* Some row is about policy p; one of them was accepted, so that its status and
\* amount were observed.
Appears(b, f, p)  == Matched(b, p) /\ \E i \in 1..Len(f) : Key(f[i]) = p[1]
Observed(b, f, p) == Matched(b, p) /\ Named(b, f, Len(f), p[1]) # {}

\* Some accepted row confirms the anomaly of p.
Confirmed(b, f, p) ==
    Conflicts(b, f, Len(f), p[1]) /\ p = Last(Applied(b, f, Len(f)), p[1])
-----------------------------------------------------------------------------
\* The policies loaddataset holds to have been in the file, in its last step. A
\* row refused for its claim counts (policies_seen is filled before the claim
\* is validated, and not emptied when the row is rolled back), an earlier
\* refused one does not.
Seen(b, f, p) ==
    /\ b.live[p[1]] /\ p = Last(b, p[1]) /\ b.customer[p[1][1]] # "archived"
    /\ \E i \in 1..Len(f) : Key(f[i]) = p[1] /\ f[i].content # "invalid"

\* An anomaly once loaddataset has read the whole file: open if an accepted row
\* confirms it, and cleared otherwise.
Settled(b, f, p) ==
    LET a == Applied(b, f, Len(f))
    IN  IF a.anomaly[p] # "open" \/ Confirmed(b, f, p) THEN a.anomaly[p]
        ELSE IF Seen(b, f, p) THEN "corrected" ELSE "absent"

\* The book loaddataset leaves after the whole file.
Loaded(b, f) ==
    [Applied(b, f, Len(f)) EXCEPT !.anomaly = [p \in Policies |-> Settled(b, f, p)]]
-----------------------------------------------------------------------------
\* The report of a load: rows refused, records created, No Claim rows skipped,
\* conflicts recorded, anomalies cleared for either reason.
Report(b, f) ==
    LET n   == Len(f)
        new == [customer |-> {c \in Clients : /\ b.customer[c] = "absent"
                                              /\ \E i \in Accepted(b, f, n) : f[i].client = c},
                policy   |-> {k \in Keys : Issues(b, f, n, k)},
                claim    |-> {k \in Keys : /\ Claimed(b, f, n, k) # {}
                                           /\ \/ Issues(b, f, n, k)
                                              \/ b.claims[Last(b, k)] = <<>>}]
        turned(s) == {p \in Policies : b.anomaly[p] # s /\ Loaded(b, f).anomaly[p] = s}
        saying(s) == {i \in Accepted(b, f, n) : f[i].content = s}
    IN  [created   |-> [kind \in {"customer", "policy", "claim"} |-> Cardinality(new[kind])],
         refused   |-> n - Cardinality(Accepted(b, f, n)),
         skipped   |-> Cardinality(saying("skipped")),
         recorded  |-> Cardinality(saying("anomaly")),
         corrected |-> Cardinality(turned("corrected")),
         absent    |-> Cardinality(turned("absent"))]
=============================================================================
