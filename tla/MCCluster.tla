---------------------------- MODULE MCCluster -------------------------------
(* A small instance of Cluster for TLC. *)
EXTENDS Cluster

CONSTANTS n0, n1, n2, q1, q2, shared

ThreeNodes == {n0, n1, n2}
NoNodes == {}
NoTokens == {}
TwoRequests == {q1, q2}

\* Every joiner carries the pre-shared secret.
SharedOnly == [n \in Node \ {n0} |-> {shared}]

ClusterMode == {TRUE}

\* What operators ask for: to add a node that was moved, under its new address, or
\* under the address of another node; to remove a voter, or the seed.
OperatorRequests ==
  {[op |-> "add", id |-> n0, addr |-> Private(n0, 1)],
   [op |-> "add", id |-> n1, addr |-> Private(n0, 0)],
   [op |-> "remove", id |-> n2], [op |-> "remove", id |-> n0]}
OnlySeed == {n0}
=============================================================================
