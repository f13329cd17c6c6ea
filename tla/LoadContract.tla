---------------------------- MODULE LoadContract ----------------------------
(***************************************************************************)
(* What a load promises, said of the file as a whole: one step takes the   *)
(* book to what the accepted rows, all of them together, call for, and     *)
(* clears the anomalies no accepted row confirms, for the reason FR-044 of *)
(* specs/004 gives: corrected if an accepted row showed it, absent if no   *)
(* row appeared. FR-044 has no reason for an anomaly that only refused     *)
(* rows are about, and neither has the contract. A load that dies half way *)
(* leaves the effect of a prefix of the rows and clears nothing.           *)
(***************************************************************************)
EXTENDS LoadEffect

CONSTANT Files          \* the files an operator may load, sequences of rows

VARIABLE book

Init == book \in Books

\* What may become of the anomaly of p.
Outcomes(f, p) ==
    LET a == Applied(book, f, Len(f)).anomaly[p]
    IN  CASE a # "open" \/ Confirmed(book, f, p) -> {a}
          [] a = "open" /\ ~Confirmed(book, f, p) /\ Observed(book, f, p) -> {"corrected"}
          [] a = "open" /\ ~Confirmed(book, f, p) /\ ~Appears(book, f, p) -> {"absent"}
          [] OTHER -> {"open", "corrected", "absent"}

Load(f) ==
    /\ book' = [Applied(book, f, Len(f)) EXCEPT !.anomaly = book'.anomaly]
    /\ book'.anomaly \in [Policies -> AnomalyStates]
    /\ \A p \in Policies : book'.anomaly[p] \in Outcomes(f, p)

DieAt(f, n) == book' = Applied(book, f, n)

Next == \E f \in Files : Load(f) \/ \E n \in 0..Len(f) : DieAt(f, n)

Spec == Init /\ [][Next]_book
=============================================================================
