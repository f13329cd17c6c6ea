---------------------------- MODULE MCRecordStore ----------------------------
EXTENDS RecordStore, TLC

CONSTANTS c1, c2, p1, p2, k1, u1, t1, t2, v1, v2

A(parent, type, archived) ==
    [parent |-> parent, type |-> type, value |-> v1, archived |-> archived]

\* The editors are interchangeable.
MCEditors == Permutations(Editors)

\* Two customers, the second removed or not; one policy or two, the second in
\* the other slot, in the slot of the first and removed, or of the second
\* customer; a claim on the first policy or a place for one; an account.
MCStores ==
    {[i \in Ids |-> CASE i = c1 -> A(Nothing, Nothing, FALSE)
                      [] i = c2 -> A(Nothing, Nothing, gone)
                      [] i = p1 -> A(c1, t1, FALSE)
                      [] i = p2 -> other
                      [] i = k1 -> IF gone THEN Nothing ELSE A(p1, Nothing, FALSE)
                      [] i = u1 -> A(Nothing, Nothing, FALSE)] :
        gone \in BOOLEAN,
        other \in {Nothing, A(c1, t2, FALSE), A(c1, t1, TRUE), A(c2, t1, FALSE)}}
=============================================================================
