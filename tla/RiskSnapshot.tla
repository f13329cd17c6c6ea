---------------------------- MODULE RiskSnapshot ----------------------------
(***************************************************************************)
(* What a computation reads. score_customer fetches the customer, lists    *)
(* its live policies and reads their claims in three queries; a history    *)
(* variable collects every combination of data the customer really had     *)
(* from the first of them on.                                              *)
(***************************************************************************)
EXTENDS RiskRecompute

VARIABLE seen    \* per process: the facts of its customer since its fetch

snapshotVars == <<vars, seen>>

SnapshotInit == Init /\ seen = [p \in Procs |-> {}]

\* The facts that held before the fetch are forgotten with the last computation.
Remember ==
    seen' = [p \in Procs |->
               IF proc'[p].pc = "idle" THEN {}
               ELSE (IF proc[p].pc = "idle" THEN {} ELSE seen[p])
                      \cup {FactsOf(proc[p].cust)'}]

SnapshotNext == Next /\ Remember

SnapshotSpec == SnapshotInit /\ [][SnapshotNext]_snapshotVars
-----------------------------------------------------------------------------
\* FR-037: the computation reads "a single consistent snapshot, so a change
\* occurring mid-computation cannot produce an assessment mixing old and new
\* values": the score belongs to data the customer had at one instant.
ConsistentSnapshot ==
    \A p \in Procs :
       proc[p].pc = "scored" => \E f \in seen[p] : Score(f) = proc[p].score
=============================================================================
