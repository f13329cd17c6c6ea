------------------------------ MODULE LoadBook ------------------------------
(***************************************************************************)
(* What a dataset load reads and writes: the rows of the CSV file and the  *)
(* customers, policies, claims and load anomalies they are matched with.   *)
(*                                                                         *)
(* A policy is the n-th one issued to a customer for a type: the live      *)
(* (customer, type) constraint leaves at most the last one live, and an    *)
(* archived one never comes back through a load. The values of customers   *)
(* and policies are left out; a claim keeps one, to tell which row won.    *)
(***************************************************************************)
EXTENDS Naturals, Sequences, FiniteSets

CONSTANTS
    Clients, Types,     \* client_id and policy_type of a row
    ClaimValues,        \* status and amount of a claim ClaimSerializer accepts
    MaxIssued,          \* bound: policies ever issued for one customer and type
    MaxClaims,          \* bound: live claims of one policy
    Books               \* what earlier loads and the API may have left

ASSUME BoundAssumption == MaxIssued \in Nat /\ MaxClaims \in Nat \ {0}
ASSUME ContentAssumption ==
    ClaimValues \cap {"invalid", "badclaim", "skipped", "anomaly"} = {}

Keys     == Clients \X Types
Policies == Keys \X (1..MaxIssued)

\* What a row says, after the checks that need no database: "invalid" is
\* refused before anything is written (customer or policy fields, an amount
\* that cannot be parsed); "skipped" and "anomaly" are the two No Claim rows,
\* without and with an amount; "badclaim" carries a claim that only
\* ClaimSerializer, inside the transaction, refuses.
Row == [client : Clients, type : Types,
        content : {"invalid", "badclaim", "skipped", "anomaly"} \cup ClaimValues]

Key(r) == <<r.client, r.type>>

AnomalyStates == {"none", "open", "corrected", "absent"}

ClaimLists == UNION {[1..n -> ClaimValues] : n \in 0..MaxClaims}

Book == [customer : [Clients -> {"absent", "live", "archived"}],
         issued   : [Keys -> 0..MaxIssued],        \* policies so far
         live     : [Keys -> BOOLEAN],             \* is the last one live
         claims   : [Policies -> ClaimLists],      \* its live claims, oldest first
         anomaly  : [Policies -> AnomalyStates]]

\* The policy a row of key k would be matched with.
Last(b, k) == <<k, b.issued[k]>>

\* What any sequence of loads and API writes keeps true of a book.
WellFormed(b) ==
    /\ \A k \in Keys : /\ b.live[k] => b.issued[k] > 0
                       /\ b.issued[k] > 0 => b.customer[k[1]] # "absent"
    /\ \A p \in Policies : p[2] > b.issued[p[1]]
                             => b.claims[p] = <<>> /\ b.anomaly[p] = "none"

ASSUME BooksAssumption == \A b \in Books : b \in Book /\ WellFormed(b)
=============================================================================
