------------------------------ MODULE Cluster ------------------------------
(***************************************************************************)
(* A cluster from its first start to its life as a formed cluster: nodes    *)
(* enroll until all of them are voters (Enrollment), and from then on       *)
(* operators, moving machines and reconcilers change the configuration the  *)
(* enrollments left (Membership).                                           *)
(***************************************************************************)
EXTENDS Enrollment, Membership

ASSUME ClusterAssumption == Peer = Node /\ First = Seed

cvars == <<vars, mvars>>

ClusterInit == Init /\ MemberInit

\* Formation is over.  Bound: of the states it ends in, the later life is explored
\* from the one where no enrollment was repeated, the seed still leads and one of
\* the joiners came first; Membership looks at none of what tells them apart.
Settled ==
  /\ voters = Node /\ leader = Seed
  /\ \A n \in Node : state[n] = "up" /\ applied[n] = Len(history)
  /\ \A r \in Request : req[r] = Free
  /\ signed[Shared] = Cardinality(Node) - 1
  /\ disk[CHOOSE n \in Node : n # Seed].key = 2

InCluster(A) == Settled /\ A /\ UNCHANGED vars

ClusterNext ==
  \/ Next /\ UNCHANGED mvars
  \/ InCluster(MemberNext)

\* As for Enrollment; raft elects, replicates and commits, and every reconciler's
\* ticker goes on.
ClusterFairness ==
  /\ Fairness
  /\ WF_cvars(InCluster(CommitEntry))
  /\ WF_cvars(InCluster(LeaseExpires))
  /\ WF_cvars(InCluster(chief = Nobody /\ \E n \in Peer : ElectChief(n)))
  /\ \A n \in Peer : /\ WF_cvars(InCluster(MemberStep(n)))
                     /\ WF_cvars(InCluster(ReplicateTo(n)))

ClusterSpec == ClusterInit /\ [][ClusterNext]_cvars /\ ClusterFairness

\* AddressReconciler in a cluster that formed under the seed's private address: as
\* AddressReconciled, from the moment formation is over.
MembersReconciled == <>Settled => AddressReconciled
=============================================================================
