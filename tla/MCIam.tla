------------------------------- MODULE MCIam --------------------------------
(* Small instances of Iam for TLC. *)
EXTENDS Iam, TLC

CONSTANTS n0, n1, alice, bob, q1, q2

TwoNodes == {n0, n1}
Bob == {bob}
TwoNames == {alice, bob}
TwoRequests == {q1, q2}

\* What a name comes to own, and its deletion.
Credentials ==
  [ops |-> {"mint", "issue", "revokeCredential", "group", "delete"},
   names |-> {alice}, nodes |-> {n0}, preMarker |-> TRUE, maxWrite |-> 4, maxTerm |-> 1]

\* Service accounts, which have their first token from their creation.
Accounts ==
  [ops |-> {"create", "issue", "revokeCredential", "delete"},
   names |-> {bob}, nodes |-> {n0}, preMarker |-> FALSE, maxWrite |-> 5, maxTerm |-> 1]

\* The shared policy record.
Bindings ==
  [ops |-> {"grant", "revoke", "delete"},
   names |-> TwoNames, nodes |-> {n0}, preMarker |-> TRUE, maxWrite |-> 4, maxTerm |-> 1]

\* A deletion that is raced, and the deletion after it, perhaps on the next leader.
Races ==
  [ops |-> {"mint", "delete"},
   names |-> {alice}, nodes |-> TwoNodes, preMarker |-> TRUE, maxWrite |-> 5, maxTerm |-> 2]

Setup(old, writes) ==
  [ops |-> {"bootstrap", "status", "delete"},
   names |-> {alice}, nodes |-> TwoNodes, preMarker |-> old, maxWrite |-> writes,
   maxTerm |-> 1]

IdentitiesAndSetup ==
  {Credentials, Accounts, Bindings, Races, Setup(TRUE, 3), Setup(FALSE, 4)}

RequestSymmetry == Permutations(TwoRequests)
=============================================================================
