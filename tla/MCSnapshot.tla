----------------------------- MODULE MCSnapshot -----------------------------
(* Small instances of Snapshot for TLC. *)
EXTENDS Snapshot, TLC

CONSTANTS n1, n2, k1, b1

Nodes == {n1, n2}
NodeSymmetry == Permutations(Nodes)
OneKey == {k1}
OneByte == {b1}

PutOf(cas) == [op |-> "put", key |-> k1, value |-> b1, ttl |-> 0,
               expiresAt |-> 0, cas |-> cas, version |-> 0]
Removal == [op |-> "remove", key |-> k1]

Puts == {PutOf(FALSE)}
CreatesAndRemovals == {PutOf(TRUE), Removal}   \* put-if-absent
=============================================================================
