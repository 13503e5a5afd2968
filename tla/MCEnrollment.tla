---------------------------- MODULE MCEnrollment ----------------------------
(* A small instance of Enrollment for TLC. *)
EXTENDS Enrollment, TLC

CONSTANTS n0, n1, q1, q2, t1, shared

TwoNodes == {n0, n1}
OneToken == {t1}
TwoRequests == {q1, q2}

\* A joiner carries the pre-shared secret or the minted token.
AnyToken == [n \in Node \ {n0} |-> {shared, t1}]

BothModes == {TRUE, FALSE}

RequestSymmetry == Permutations(TwoRequests)
=============================================================================
