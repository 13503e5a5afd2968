------------------------------ MODULE Registry ------------------------------
(***************************************************************************)
(* The records of the system tenant as a console handler meets them through *)
(* KeyValueService: writes go through the raft leader and return once the   *)
(* leader's own FSM has applied them; reads are of the local replica, which *)
(* may be behind, also on a leader that was elected a moment ago.           *)
(*                                                                         *)
(* The module fixes no record format: an element of history is the whole    *)
(* system tenant after one more committed write.                            *)
(***************************************************************************)
EXTENDS Naturals, Sequences

CONSTANTS
  Node,
  None     \* no leader, no record

VARIABLES
  history,  \* the states the committed writes produced, oldest first
  applied,  \* per node: how far its replica is
  leader

registryVars == <<history, applied, leader>>

RegistryInit(records) ==
  /\ history = <<records>>
  /\ applied = [n \in Node |-> 1]
  /\ leader = None

\* What a Get or GetArea on node n sees.
Local(n) == history[applied[n]]

\* The state a committed write is decided on.
Committed == history[Len(history)]

\* FSM.Apply of the next entry on a node that is behind.
CatchUp(n) ==
  /\ applied[n] < Len(history)
  /\ applied' = [applied EXCEPT ![n] = @ + 1]
  /\ UNCHANGED <<history, leader>>

\* A write that took effect, seen from the node that proposed it.
Commits(n, records) ==
  /\ history' = Append(history, records)
  /\ applied' = [applied EXCEPT ![n] = Len(history) + 1]
  /\ UNCHANGED leader

\* A compare-and-set that was refused: an entry all the same, so the proposer's
\* replica is up to date when the call returns.
Refused(n) ==
  /\ applied' = [applied EXCEPT ![n] = Len(history)]
  /\ UNCHANGED <<history, leader>>

=============================================================================
