--------------------------- MODULE MCReplication ---------------------------
(* Small instances of Replication for TLC. *)
EXTENDS ReplicationRefinement, TLC

CONSTANTS n1, n2, k1, k2, b1

Nodes == {n1, n2}
NodeSymmetry == Permutations(Nodes)
OneKey == {k1}
TwoKeys == {k1, k2}
OneByte == {b1}

PutOf(k, v, ttl) == [op |-> "put", key |-> k, value |-> v, ttl |-> ttl,
                     expiresAt |-> 0, cas |-> FALSE, version |-> 0]
CasOf(k, v, ttl, version) == [PutOf(k, v, ttl) EXCEPT !.cas = TRUE,
                                                      !.version = version]
TouchOf(k, ttl) == [op |-> "touch", key |-> k, ttl |-> ttl, expiresAt |-> 0]
RemoveOf(k) == [op |-> "remove", key |-> k]
IncrementOf(k, delta) == [op |-> "increment", key |-> k, initial |-> 0,
                          delta |-> delta, ttl |-> 0, expiresAt |-> 0]
RecordOf(k, v, ttl) == [key |-> k, value |-> v, ttl |-> ttl, expiresAt |-> 0]
BatchOf(records) == [op |-> "batch", records |-> records]

\* Every operation, TTLs and failing CAS, a batch that writes one key twice
\* and one that aborts on a nil key.
AllRequests ==
  {PutOf(k1, b1, 1), TouchOf(k1, 1), RemoveOf(k1), IncrementOf(k1, 1)}
    \cup {CasOf(k1, b1, 0, v) : v \in {0, 2}}
    \cup {BatchOf(<<RecordOf(k1, b1, 1), RecordOf(k1, 1, 0)>>),
          BatchOf(<<RecordOf(k1, b1, 0), RecordOf(NilKey, b1, 0)>>)}

\* The requests that replay over a newer store brings back to the same end:
\* neither Increment nor Touch, whose result depends on what the key holds.
ReplayableRequests ==
  {PutOf(k1, b1, 1), CasOf(k1, 1, 0, 0)}

TtlBatches == {BatchOf(<<RecordOf(k1, b1, 1), RecordOf(k2, b1, 1)>>)}
IncrementRequests == {IncrementOf(k1, 1)}
PlainPuts == {PutOf(k1, b1, 0)}
=============================================================================
