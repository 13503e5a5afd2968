------------------------------ MODULE MCAudit -------------------------------
(* Small instances of Audit for TLC. *)
EXTENDS Audit

CONSTANTS n1, n2, n3, ca1, ca2, pw1

Nodes == {n1, n2, n3}
OneCA == {ca1}
SealedOrPlain == {pw1, Plain}
FullAndPair == {<<n1, n2, n3>>, <<n2, n1>>}
TwoOfThem == {n1, n2}

\* Node files: a node's key is named after it.
FilesOf(n, ca, id, notAfter) ==
  [key |-> n, cert |-> Issue(ca, id, n, ProofOfPossession(n, id), notAfter)]
Proper == [n \in Nodes |-> FilesOf(n, ca1, n, 0)]
Expiring == [Proper EXCEPT ![n2] = FilesOf(n2, ca1, n2, 1)]
Odd ==
  { Proper,
    [Proper EXCEPT ![n3] = [key |-> None, cert |-> None]],
    [Proper EXCEPT ![n3] = [key |-> n3, cert |-> Proper[n2].cert]],
    Expiring,
    [Proper EXCEPT ![n3] = FilesOf(n3, ca2, n3, 0)],
    [Proper EXCEPT ![n3] = FilesOf(n3, ca1, n2, 0)] }
NoneOrOneFork == {{}, {n2}}

AllDuties == {"certify", "verify", "restore"}

\* The odd deployments belong to certification, the proper one to the rest; the
\* other choices of Init vary only where something depends on them.
MCInit ==
  /\ AuditInit
  /\ files # Proper => duty = "certify" /\ forked = {}
  /\ clock = IF files = Expiring THEN 1 ELSE MaxClock
  /\ duty # "restore" => ~replicating
  /\ duty = "restore" => forked = {}
  /\ duty = "verify" => forked # {}
  /\ faults = IF duty = "restore" THEN 0 ELSE MaxFault - 1
\* A dump to be verified is an export, or a streamed one that was refused.
MCNext == AuditNext /\ (duty = "verify" => writer' = Absent)
MCSpec == MCInit /\ [][MCNext]_avars /\ AuditFairness
=============================================================================
