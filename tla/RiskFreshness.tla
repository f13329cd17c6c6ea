---------------------------- MODULE RiskFreshness ----------------------------
(***************************************************************************)
(* When a stored assessment may be flagged is_stale. Two history variables *)
(* tell the computations, and the assessments they left, whose customer a  *)
(* request has written to since the computation fetched it.                *)
(***************************************************************************)
EXTENDS RiskRecompute

VARIABLES
    disturbed,    \* computations under way that a request has overlapped
    touched       \* customers written to since their assessment's computation began

freshnessVars == <<vars, disturbed, touched>>

FreshnessInit == Init /\ disturbed = {} /\ touched = {}

\* What _is_stale and score_customer look at.
Records(c) == <<customer[c],
                [p \in LivePolicies(c) |-> policy[p]],
                [k \in LiveClaims(LivePolicies(c)) |-> claim[k]]>>

\* A request commits, and customer c is not what it was.
Writes(c) ==
    /\ \E e \in Editors : draft[e] # NoDraft /\ draft'[e] = NoDraft
    /\ Records(c)' # Records(c)

\* Computation p writes the assessment of customer c.
Stores(p, c) == /\ proc[p].pc = "scored" /\ proc[p].cust = c /\ proc'[p].pc = "idle"
                /\ assessment'[c] # assessment[c]

Follow ==
    /\ disturbed' = {p \in Procs : /\ proc[p].pc # "idle" /\ proc'[p].pc # "idle"
                                   /\ p \in disturbed \/ Writes(proc[p].cust)}
    /\ touched' = {c \in Customers :
                     IF \E p \in Procs : Stores(p, c)
                       THEN \E p \in disturbed : Stores(p, c)
                       ELSE c \in touched \/ Writes(c)}

\* Next, each of its parts followed.
FreshnessNext ==
    \/ \E e \in Editors : Write(e) /\ Follow
    \/ \E c \in Customers : RunHook(c) /\ Follow
    \/ \E c \in Customers : LoseHook(c) /\ Follow
    \/ \E w \in Workers : Run(w) /\ Follow
    \/ \E w \in Workers : WorkerCrash(w) /\ Follow
    \/ \E m \in Managers : Manual(m) /\ Follow

FreshnessSpec == FreshnessInit /\ [][FreshnessNext]_freshnessVars
-----------------------------------------------------------------------------
\* "A customer whose data has not changed since their assessment was computed
\* is not reported as out of date" (specs/005, US5, scenario 3): neither the
\* computation's own writes nor those of another computation flag it, only a
\* request that wrote to the customer after the computation began to read.
UntouchedIsFresh ==
    \A c \in Customers : Assessed(c) /\ c \notin touched => ~IsStale(c)
=============================================================================
