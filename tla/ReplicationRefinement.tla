----------------------- MODULE ReplicationRefinement -----------------------
(***************************************************************************)
(* The replicated store, while no node restarts or fails a transaction,     *)
(* implements SingleCopy: the copy is the one of a node that has applied    *)
(* the most, the version is what that node has applied.                     *)
(***************************************************************************)
EXTENDS Replication

Foremost == CHOOSE n \in Node : \A m \in Node : applied[m] <= applied[n]

StampedCommands == {Stamp(r, t) : r \in Requests, t \in 0 .. MaxClock}

Abstract == INSTANCE SingleCopy WITH
  Commands <- StampedCommands, MaxVersion <- MaxIndex,
  kv <- store[Foremost], version <- applied[Foremost]

\* FSM.Apply on any node, in any interleaving of nodes, proposals, elections and
\* sweeps, looks to a client of the foremost node like one command executed on
\* the single copy, and to everybody else like nothing at all.
ImplementsSingleCopy == Abstract!Spec
=============================================================================
