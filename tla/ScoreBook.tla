------------------------------ MODULE ScoreBook ------------------------------
(***************************************************************************)
(* What automatic recompute promises: a score may lag behind the data it   *)
(* is derived from only while a recompute is due, and the debt is settled  *)
(* only by the score of the data as they are. How that comes about, with   *)
(* callbacks, a queue, retries and reads one after another, is left open.  *)
(***************************************************************************)
CONSTANTS Customers, Facts, Score(_), Scores, Unscored

VARIABLES
    live,       \* customers that are not archived
    facts,      \* per customer: the data it is scored on
    score,      \* per customer: the stored score, or Unscored
    due         \* customers that are owed a recompute

vars == <<live, facts, score, due>>

Current(c) == score[c] \in {Unscored, Score(facts[c])}

Init ==
    /\ live \subseteq Customers
    /\ facts \in [Customers -> Facts]
    /\ score \in [Customers -> Scores \cup {Unscored}]
    /\ due = {}
    /\ \A c \in live : Current(c)

\* A record of c is written, or c itself is.
Edit(c) ==
    /\ \E f \in Facts : facts' = [facts EXCEPT ![c] = f]
    /\ live' \in {live, live \cup {c}, live \ {c}}
    /\ due' = due \cup {c}
    /\ UNCHANGED score

\* A recompute stores a score. If it is not that of the current data, another
\* recompute is due.
Rescore(c) ==
    /\ c \in live \cap due /\ score[c] # Unscored
    /\ \E s \in Scores : score' = [score EXCEPT ![c] = s]
    /\ \/ due' = due
       \/ due' = due \ {c} /\ Current(c)'
    /\ UNCHANGED <<live, facts>>

\* There is nothing to recompute for a customer that is archived or unscored.
Skip(c) ==
    /\ c \in due
    /\ c \notin live \/ score[c] = Unscored
    /\ due' = due \ {c}
    /\ UNCHANGED <<live, facts, score>>

Next == \E c \in Customers : Edit(c) \/ Rescore(c) \/ Skip(c)

Spec == Init /\ [][Next]_vars

\* The promise as an invariant: a live customer no recompute is due for has the
\* score of the data as they are, if any.
Settled == \A c \in live \ due : Current(c)
=============================================================================
