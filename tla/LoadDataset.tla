---------------------------- MODULE LoadDataset ----------------------------
(***************************************************************************)
(* The loaddataset command, row by row. Each row is validated, then its    *)
(* customer, policy and claim are written in one transaction with their    *)
(* audit entries, or none of them is. Two Python sets remember across rows *)
(* which policies were seen and which conflicted; a transaction of its own *)
(* clears the stale anomalies at the end. The process may die between any  *)
(* two transactions. A dry run goes through the rows and writes nothing.   *)
(***************************************************************************)
EXTENDS LoadEffect

CONSTANTS
    Files,          \* the files an operator may load
    MaxLoads        \* bound: loads started

ASSUME FilesAssumption == Files \subseteq Seq(Row)
ASSUME LoadsAssumption == MaxLoads \in Nat

VARIABLES
    book,       \* the committed database
    trail,      \* audit actions of each policy's anomaly, oldest first
    run,        \* the command under way
    loads       \* loads started so far

vars == <<book, trail, run, loads>>

Kinds == {"customer", "policy", "claim"}
NoCounts == [created |-> [kind \in Kinds |-> 0], refused |-> 0, skipped |-> 0,
             recorded |-> 0, corrected |-> 0, absent |-> 0]
-----------------------------------------------------------------------------
Trails == {"recorded", "reraised", "cleared_corrected", "cleared_absent"}

TypeOK ==
    /\ book \in Book /\ WellFormed(book)
    /\ trail \in [Policies -> Seq(Trails)]
    /\ run.pc \in {"idle", "rows", "done"} /\ run.dry \in BOOLEAN
    /\ run.file \in Files \cup {<<>>} /\ run.next \in 1..(Len(run.file) + 1)
    /\ run.start \in Book
    /\ run.conflicting \subseteq run.seen /\ run.seen \subseteq Policies
    /\ \A p \in run.seen : book.live[p[1]] /\ p = Last(book, p[1])
    /\ loads \in 0..MaxLoads

Idle(b) == [pc |-> "idle", dry |-> FALSE, file |-> <<>>, next |-> 1, start |-> b,
            seen |-> {}, conflicting |-> {}, counts |-> NoCounts]

\* The trail an anomaly in state s has when it has been cleared at most once.
FirstTrail(s) == CASE s = "none" -> <<>>
                   [] s = "open" -> <<"recorded">>
                   [] s = "corrected" -> <<"recorded", "cleared_corrected">>
                   [] s = "absent" -> <<"recorded", "cleared_absent">>

\* Whatever earlier loads and the API have left.
Init ==
    /\ book \in Books
    /\ trail = [p \in Policies |-> FirstTrail(book.anomaly[p])]
    /\ run = Idle(book)
    /\ loads = 0

\* handle() reads and checks the whole file before the first row.
Start(f, dry) ==
    /\ run.pc = "idle" /\ loads < MaxLoads
    /\ \A k \in Keys : book.live[k] \/ book.issued[k] < MaxIssued     \* bound
    /\ run' = [Idle(book) EXCEPT !.pc = "rows", !.dry = dry, !.file = f]
    /\ loads' = loads + 1
    /\ UNCHANGED <<book, trail>>

\* The counts after one more row, of which created kinds are new records.
Counted(created, outcome) ==
    [run.counts EXCEPT !.created = [kind \in Kinds |-> @[kind] + IF kind \in created THEN 1 ELSE 0],
                       !.refused  = @ + IF outcome = "refused" THEN 1 ELSE 0,
                       !.skipped  = @ + IF outcome = "skipped" THEN 1 ELSE 0,
                       !.recorded = @ + IF outcome = "anomaly" THEN 1 ELSE 0]

Outcome(r) == IF r.content \in {"skipped", "anomaly"} THEN r.content ELSE "claim"

Turn(seen, conflicting, counts) ==
    run' = [run EXCEPT !.next = @ + 1, !.seen = @ \cup seen,
                       !.conflicting = @ \cup conflicting, !.counts = counts]

Current == run.file[run.next]
AtRow == run.pc = "rows" /\ run.next <= Len(run.file)

\* Fault variant: the policy is looked up among archived rows as well.
ExistingPolicyArchived(r) == IF book.issued[Key(r)] > 0 THEN {Last(book, Key(r))} ELSE {}

\* Among live rows only: an archived policy is not resurrected.
ExistingPolicy(r) == IF book.live[Key(r)] THEN {Last(book, Key(r))} ELSE {}
ExistingClaim(p)  == book.claims[p] # <<>>

\* Refused before any write, dry or not.
RefuseRow ==
    /\ AtRow /\ Current.content = "invalid"
    /\ Turn({}, {}, Counted({}, "refused"))
    /\ UNCHANGED <<book, trail, loads>>

\* Fault variant: a dry run forgets which policies conflicted.
PreviewConflictNone(r) == {}

PreviewConflict(r) == IF r.content = "anomaly" THEN ExistingPolicy(r) ELSE {}

\* A dry run looks the row's policy up and assumes the rest would be accepted.
PreviewRow ==
    LET r == Current
        old == ExistingPolicy(r)
        isNew == [customer |-> book.customer[r.client] = "absent",
                  policy   |-> old = {},
                  claim    |-> /\ Outcome(r) = "claim"
                               /\ \A p \in old : ~ExistingClaim(p)]
    IN  /\ AtRow /\ run.dry /\ r.content # "invalid"
        /\ Turn(old, PreviewConflict(r),
                Counted({kind \in Kinds : isNew[kind]}, Outcome(r)))
        /\ UNCHANGED <<book, trail, loads>>

\* PolicySerializer refuses an archived customer; the customer's save is
\* rolled back with it and the policy is not marked as seen.
RefuseArchived ==
    /\ AtRow /\ ~run.dry /\ Current.content # "invalid"
    /\ book.customer[Current.client] = "archived"
    /\ Turn({}, {}, Counted({}, "refused"))
    /\ UNCHANGED <<book, trail, loads>>

\* ClaimSerializer refuses the claim: customer and policy are rolled back, but
\* policies_seen keeps the policy. A policy this row would have issued has a
\* primary key no row will ever have, which is as good as none.
RefuseClaim ==
    /\ AtRow /\ ~run.dry /\ Current.content = "badclaim"
    /\ book.customer[Current.client] # "archived"
    /\ Turn(ExistingPolicy(Current), {}, Counted({}, "refused"))
    /\ UNCHANGED <<book, trail, loads>>

\* Fault variant: each load files the claim again.
SavedClaimsAgain(s, r) ==
    IF Outcome(r) # "claim" THEN s
    ELSE IF Len(s) < MaxClaims THEN Append(s, r.content) ELSE s

\* The live claims s of a policy after a row r: its claim, if it has one,
\* replaces the first of them or is the first.
SavedClaims(s, r) ==
    IF Outcome(r) # "claim" THEN s
    ELSE IF s = <<>> THEN <<r.content>> ELSE [s EXCEPT ![1] = r.content]

\* Fault variant: an anomaly that conflicts again is reopened without an entry.
RaisedQuietly(p) == IF book.anomaly[p] = "none" THEN <<"recorded">> ELSE <<>>

\* _record_anomaly: create, reopen or refresh. Only the first two are audited.
Raised(p) == CASE book.anomaly[p] = "none" -> <<"recorded">>
               [] book.anomaly[p] = "open" -> <<>>
               [] OTHER -> <<"reraised">>

\* The transaction of a row that goes through.
WriteRow ==
    LET r == Current
        k == Key(r)
        n == IF book.live[k] THEN book.issued[k] ELSE book.issued[k] + 1
        p == <<k, n>>
        isNew == [customer |-> book.customer[r.client] = "absent",
                  policy   |-> ~book.live[k],
                  claim    |-> Outcome(r) = "claim" /\ ~ExistingClaim(p)]
    IN  /\ AtRow /\ ~run.dry /\ r.content \notin {"invalid", "badclaim"}
        /\ book.customer[r.client] # "archived"
        /\ book' = [book EXCEPT
              !.customer[r.client] = "live",
              !.issued[k] = n,
              !.live[k] = TRUE,
              !.claims[p] = SavedClaims(@, r),
              !.anomaly[p] = IF r.content = "anomaly" THEN "open" ELSE @]
        /\ trail' = [trail EXCEPT ![p] = @ \o IF r.content = "anomaly" THEN Raised(p) ELSE <<>>]
        /\ Turn({p}, IF r.content = "anomaly" THEN {p} ELSE {},
                Counted({kind \in Kinds : isNew[kind]}, Outcome(r)))
        /\ UNCHANGED loads

\* Fault variant: an anomaly stays open for as long as its policy is in the file.
StaleUnseen == {p \in Policies : book.anomaly[p] = "open" /\ p \notin run.seen}

\* Open anomalies whose policy did not conflict in this run.
Stale == {p \in Policies : book.anomaly[p] = "open" /\ p \notin run.conflicting}
Reason(p) == IF p \in run.seen THEN "corrected" ELSE "absent"

\* _clear_stale_anomalies and the report; a dry run only counts.
Clear ==
    /\ run.pc = "rows" /\ run.next > Len(run.file)
    /\ run' = [run EXCEPT
          !.pc = "done",
          !.counts.corrected = Cardinality({p \in Stale : Reason(p) = "corrected"}),
          !.counts.absent = Cardinality({p \in Stale : Reason(p) = "absent"})]
    /\ \/ run.dry /\ UNCHANGED <<book, trail>>
       \/ /\ ~run.dry
          /\ book' = [book EXCEPT !.anomaly = [p \in Policies |->
                         IF p \in Stale THEN Reason(p) ELSE @[p]]]
          /\ trail' = [p \in Policies |->
                         IF p \notin Stale THEN trail[p]
                         ELSE Append(trail[p], IF p \in run.seen THEN "cleared_corrected"
                                                                 ELSE "cleared_absent")]
    /\ UNCHANGED loads

\* The process dies, or an exception that is not a refusal ends the command;
\* the transaction open at that moment is rolled back.
Die ==
    /\ run.pc = "rows"
    /\ run' = Idle(book)
    /\ UNCHANGED <<book, trail, loads>>

\* The command has printed its counts.
Exit ==
    /\ run.pc = "done"
    /\ run' = Idle(book)
    /\ UNCHANGED <<book, trail, loads>>

Next == \/ \E f \in Files, dry \in BOOLEAN : Start(f, dry)
        \/ RefuseRow \/ PreviewRow \/ RefuseArchived \/ RefuseClaim \/ WriteRow
        \/ Clear \/ Die \/ Exit

Spec == Init /\ [][Next]_vars
-----------------------------------------------------------------------------
\* Between its first row and its end a load shows the book it started from.
Contract == INSTANCE LoadContract
              WITH book <- IF run.pc = "rows" THEN run.start ELSE book

\* A load, whatever its rows and wherever it dies, does what LoadContract
\* says of the file as a whole, and a dry run does nothing (handle,
\* _process_row and _clear_stale_anomalies of loaddataset.py).
ImplementsContract == Contract!Spec

\* "The system MUST distinguish the two reasons": an anomaly is cleared as
\* corrected only if an accepted row of its policy showed that it no longer
\* conflicts, "the load observed the resolution directly", and as absent only
\* if "the row did not appear in the latest load at all" (FR-044 of specs/004;
\* policies_seen and _clear_stale_anomalies).
ClearedAsObserved ==
    [][\A p \in Policies :
          book.anomaly[p] = "open" =>
             /\ book'.anomaly[p] = "corrected" => Observed(run.start, run.file, p)
             /\ book'.anomaly[p] = "absent" => ~Appears(run.start, run.file, p)]_vars

\* "Idempotent on both", and safe to start again: from wherever a load is, or
\* dies, or has ended, loading the same file leads to the book that load leads
\* to (the help text of the command, FR-035 and FR-043 of specs/004).
RestartEndsTheSame ==
    run.pc # "idle" /\ ~run.dry
      => Loaded(book, run.file) = Loaded(run.start, run.file)

\* The audit trail alone tells each anomaly's state and why it was cleared,
\* however often it was cleared and raised again (FR-048a, SC-013): only
\* _record_anomaly and _clear_stale_anomalies write either.
TrailTellsState ==
    \A p \in Policies :
       LET t == trail[p]
           opens(i) == t[i] \in {"recorded", "reraised"}
       IN  /\ \A i \in 1..Len(t) : /\ (t[i] = "recorded") <=> (i = 1)
                                   /\ i > 1 => opens(i) # opens(i - 1)
           /\ book.anomaly[p] =
                IF t = <<>> THEN "none"
                ELSE IF opens(Len(t)) THEN "open"
                ELSE IF t[Len(t)] = "cleared_corrected" THEN "corrected" ELSE "absent"

\* A file whose preview can be exact: the preview sees neither the effect of
\* earlier rows nor what only the real run's serializers refuse.
Plain(b, f) ==
    /\ \A i, j \in 1..Len(f) : i # j => f[i].client # f[j].client
    /\ \A i \in 1..Len(f) : /\ f[i].content # "badclaim"
                            /\ b.customer[f[i].client] # "archived"

\* "A preview that reports a different number than the real run would make dry
\* run useless": what a run reports is true of the file as a whole, and a dry
\* run reports what the real one would, for every plain file (handle and the
\* counts it prints).
ReportIsTrue ==
    run.pc = "done" /\ (run.dry => Plain(run.start, run.file))
      => run.counts = Report(run.start, run.file)
=============================================================================
