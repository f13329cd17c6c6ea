---------------------------- MODULE MCLoadDataset ----------------------------
EXTENDS LoadDataset

CONSTANTS c1, c2, t1, t2, v1, v2

Profile(n, alive, s, a) == [issued |-> n, live |-> alive, claims |-> s, anomaly |-> a]

\* What a key may look like: nothing; a live policy with or without claims, its
\* anomaly in any state; an archived policy, its anomaly still open or not.
Nothing  == Profile(0, FALSE, <<>>, "none")
Open     == Profile(1, TRUE, <<>>, "open")
Profiles == {Nothing, Open}
              \cup {Profile(1, TRUE, <<>>, a) : a \in {"none", "corrected", "absent"}}
              \cup {Profile(1, TRUE, <<v2, v1>>, a) : a \in {"none", "open"}}
              \cup {Profile(1, FALSE, <<>>, a) : a \in {"open", "absent"}}

\* The key of interest in any state, the first of the others open or nothing.
BookOf(status, q, r) ==
    LET at(k) == CASE k = <<c1, t1>> -> q [] k = <<c1, t2>> -> r [] k = <<c2, t1>> -> r
                   [] OTHER -> Nothing
    IN  [customer |-> [c \in Clients |-> IF c = c2 /\ r = Nothing THEN "absent" ELSE status],
         issued   |-> [k \in Keys |-> at(k).issued],
         live     |-> [k \in Keys |-> at(k).live],
         claims   |-> [p \in Policies |-> IF p[2] = 1 THEN at(p[1]).claims ELSE <<>>],
         anomaly  |-> [p \in Policies |-> IF p[2] = 1 THEN at(p[1]).anomaly ELSE "none"]]

MCBooks ==
    {b \in {BookOf(status, q, r) : status \in {"absent", "live", "archived"},
                                   q \in Profiles, r \in {Nothing, Open}} : WellFormed(b)}

\* Every content for the key of interest, for the others one that raises their
\* anomaly or leaves it to be cleared.
Rows == {r \in Row : \/ Key(r) = <<c1, t1>>
                     \/ Key(r) = <<c1, t2>> /\ r.content = "anomaly"
                     \/ Key(r) = <<c2, t1>> /\ r.content \in {"anomaly", v1}}

MCFiles == {<<>>} \cup [1..1 -> Rows] \cup [1..2 -> Rows]
=============================================================================
