------------------------------ MODULE Snapshot ------------------------------
(***************************************************************************)
(* Raft snapshots over the replicated write path: FSM.Snapshot hands out a  *)
(* reference to the storage (pkg/replication/fsm.go), Persist streams a     *)
(* badger backup into the sink later, while entries keep being applied      *)
(* (pkg/replication/snapshot.go), and FSM.Restore loads such a stream into  *)
(* the badger store of a node that lags behind the compacted log or that    *)
(* restarts.                                                                *)
(*                                                                         *)
(* badger is external.  Every commit takes the next timestamp of the node's *)
(* own oracle; compaction drops delete markers; a backup carries records    *)
(* and remaining markers with their timestamps; a load writes them at those *)
(* timestamps into the tree that is there, where the highest timestamp of a *)
(* key is the one that is read.                                             *)
(***************************************************************************)
EXTENDS Replication, FiniteSetsExt

CONSTANTS
  NoSnapshot,
  SnapshotThreshold   \* raft: entries since the last snapshot that call for a new one

ASSUME SnapshotAssumption == SnapshotThreshold \in Nat \ {0}

VARIABLES
  ts,        \* badger: the last commit timestamp of each node
  at,        \* badger: timestamp of each key's newest version or marker
  headAt,    \* badger: timestamp of the chain head record
  taking,    \* raft: index of a snapshot between FSM.Snapshot and Persist
  snapshot,  \* raft: the latest snapshot each node keeps
  loads      \* auxiliary: what each node's store has been loaded with

badgerVars == <<ts, at, headAt>>
snapVars == <<taking, snapshot, loads>>
svars == <<vars, badgerVars, snapVars>>

Backup == [index : Nat, through : Nat, store : Store, at : [Key -> Nat],
           head : HashChain, headAt : Nat, stale : BOOLEAN]

NoLoad == [through |-> 0, stale |-> FALSE, remote |-> FALSE, gap |-> FALSE]

SnapshotInit ==
  /\ Init
  /\ ts = [n \in Node |-> 0]
  /\ at = [n \in Node |-> [k \in Key |-> 0]]
  /\ headAt = [n \in Node |-> 0]
  /\ taking = [n \in Node |-> NoSnapshot]
  /\ snapshot = [n \in Node |-> NoSnapshot]
  /\ loads = [n \in Node |-> NoLoad]

-----------------------------------------------------------------------------
(***************************************************************************)
(* The FSM's transactions, with their timestamps.                           *)
(***************************************************************************)
\* The keys in the write set of a command's transaction; none, no commit.
WriteSet(db, cmd) ==
  CASE cmd.op = "put"       -> IF PutAccepted(db, cmd) THEN {cmd.key} ELSE {}
    [] cmd.op = "touch"     -> IF TouchAccepted(db, cmd) THEN {cmd.key} ELSE {}
    [] cmd.op \in {"remove", "increment"} -> {cmd.key} \ {NilKey}
    [] cmd.op = "batch"     -> {k \in Key : BatchAccepted(cmd.records)
                                   /\ WritesTo(cmd.records, k) # {}}
    [] cmd.op = "reclaim"   -> {k \in Key : Reclaims(db, cmd, k)}

StampedApply(n) ==
  /\ Apply(n)
  /\ LET K == IF faults' = faults THEN WriteSet(store[n], NextEntry(n).cmd)
              ELSE {}
     IN /\ ts' = [ts EXCEPT ![n] = IF K = {} THEN @ ELSE @ + 1]
        /\ at' = [at EXCEPT ![n] = [k \in Key |-> IF k \in K THEN ts[n] + 1
                                                 ELSE @[k]]]
  /\ UNCHANGED <<headAt, snapVars>>

StampedAdvanceChain(n) ==
  /\ advanceChain(n)
  /\ IF faults' = faults
     THEN /\ ts' = [ts EXCEPT ![n] = @ + 1]
          /\ headAt' = [headAt EXCEPT ![n] = ts[n] + 1]
     ELSE UNCHANGED <<ts, headAt>>
  /\ UNCHANGED <<at, snapVars>>

-----------------------------------------------------------------------------
(***************************************************************************)
(* Taking a snapshot.  Snapshot runs between two entries and keeps only a   *)
(* reference; Persist runs on raft's snapshot goroutine.                    *)
(***************************************************************************)
SnapshotIndex(n) == IF snapshot[n] = NoSnapshot THEN 0 ELSE snapshot[n].index

FsmSnapshotMidEntry(n) ==
  /\ pc[n] = "chained"
  /\ taking[n] = NoSnapshot
  /\ taking' = [taking EXCEPT ![n] = applied[n] + 1]
  /\ UNCHANGED <<vars, badgerVars, snapshot, loads>>

FsmSnapshot(n) ==
  /\ pc[n] = "idle"
  /\ taking[n] = NoSnapshot
  /\ applied[n] >= SnapshotIndex(n) + SnapshotThreshold
  /\ taking' = [taking EXCEPT ![n] = applied[n]]
  /\ UNCHANGED <<vars, badgerVars, snapshot, loads>>

Persist(n) ==
  /\ taking[n] # NoSnapshot
  /\ snapshot' = [snapshot EXCEPT ![n] =
                    [index |-> taking[n],
                     through |-> Max({applied[n], loads[n].through}),
                     store |-> store[n], at |-> at[n],
                     head |-> head[n], headAt |-> headAt[n],
                     stale |-> loads[n].stale]]
  /\ taking' = [taking EXCEPT ![n] = NoSnapshot]
  /\ UNCHANGED <<vars, badgerVars, loads>>

-----------------------------------------------------------------------------
(***************************************************************************)
(* FSM.Restore: badger.Load of the stream, and nothing else.                *)
(***************************************************************************)
Loaded(n, b) == {k \in Key : b.at[k] > 0 /\ b.at[k] >= at[n][k]}

Load(n, b) ==
  /\ store' = [store EXCEPT ![n] =
                 [k \in Key |-> IF k \in Loaded(n, b) THEN b.store[k] ELSE @[k]]]
  /\ at' = [at EXCEPT ![n] =
              [k \in Key |-> IF k \in Loaded(n, b) THEN b.at[k] ELSE @[k]]]
  /\ IF b.headAt >= headAt[n]
     THEN /\ head' = [head EXCEPT ![n] = b.head]
          /\ headAt' = [headAt EXCEPT ![n] = b.headAt]
     ELSE UNCHANGED <<head, headAt>>
  /\ ts' = [ts EXCEPT ![n] = Max({@, b.headAt} \cup {b.at[k] : k \in Key})]

\* raft sends a follower the leader's snapshot when the entries it needs have
\* been compacted away.  The FSM keeps the chain it has in memory.
InstallSnapshot(n) ==
  /\ leader \notin {None, n}
  /\ snapshot[leader] # NoSnapshot
  /\ pc[n] = "idle"
  /\ applied[n] < snapshot[leader].index
  /\ Load(n, snapshot[leader])
  /\ applied' = [applied EXCEPT ![n] = snapshot[leader].index]
  /\ snapshot' = [snapshot EXCEPT ![n] = snapshot[leader]]
  /\ loads' = [loads EXCEPT ![n] =
                 [through |-> Max({@.through, snapshot[leader].through}),
                  stale   |-> @.stale \/ ts[n] > 0 \/ snapshot[leader].stale,
                  remote  |-> TRUE,
                  gap     |-> @.gap]]
  /\ UNCHANGED <<raftVars, pc, chain, envVars, sweep, acked, ref, taking>>

\* After a restart PostConstruct seeds the chain from the head in badger, then
\* raft restores the node's own latest snapshot and replays from there.
SeededFromGenesis(n) == Genesis

SeededChain(n) == head[n]

\* raft will not hand the FSM again what the snapshot covers, and the head on
\* disk, a write of which was lost, has not all of it.
HeadLags(n) ==
  \E i \in head[n].index + 1 .. SnapshotIndex(n) : log[i].cmd # Noop

RestartFromSnapshot(n) ==
  /\ MayCrash
  /\ crashes' = [crashes EXCEPT ![n] = @ + 1]
  /\ IF snapshot[n] = NoSnapshot
     THEN UNCHANGED <<store, head, badgerVars>>
     ELSE Load(n, snapshot[n])
  /\ applied' = [applied EXCEPT ![n] = SnapshotIndex(n)]
  /\ pc' = [pc EXCEPT ![n] = "idle"]
  /\ chain' = [chain EXCEPT ![n] = SeededChain(n)]
  /\ sweep' = [sweep EXCEPT ![n] = {}]
  /\ leader' = IF leader = n THEN None ELSE leader
  /\ taking' = [taking EXCEPT ![n] = NoSnapshot]
  /\ loads' = [loads EXCEPT ![n].gap = @ \/ HeadLags(n)]
  /\ UNCHANGED <<log, commitIndex, term, clock, faults, acked, ref, snapshot>>

\* badger: compaction drops the delete marker of a key.
Compact(n, k) ==
  /\ store[n][k] = Absent
  /\ at[n][k] > 0
  /\ at' = [at EXCEPT ![n][k] = 0]
  /\ UNCHANGED <<vars, ts, headAt, snapVars>>

\* What the write path does apart from the FSM's own transactions.
Elsewhere ==
  /\ \/ Commit
     \/ \E n \in Node :
          \/ LeaderElected(n)
          \/ \E r \in Requests : Propose(n, r)
          \/ SkipNoop(n)
          \/ Tick(n)
          \/ ReclaimScan(n)
          \/ ReclaimPropose(n)
          \/ ReclaimAbandon(n)
  /\ UNCHANGED <<badgerVars, snapVars>>

SnapshotNext ==
  \/ Elsewhere
  \/ \E n \in Node :
       \/ StampedAdvanceChain(n)
       \/ StampedApply(n)
       \/ FsmSnapshot(n)
       \/ Persist(n)
       \/ InstallSnapshot(n)
       \/ RestartFromSnapshot(n)
       \/ \E k \in Key : Compact(n, k)

SnapshotSpec == SnapshotInit /\ [][SnapshotNext]_svars

-----------------------------------------------------------------------------
(***************************************************************************)
(* Properties.                                                             *)
(***************************************************************************)

\* FSM.Restore on a node that starts empty: although Persist may have captured
\* entries behind the snapshot's index, the node holds what the log defines as
\* soon as it has applied as much as the backup contained.
JoinConverges ==
  \A n \in Node :
    /\ \A m \in Node : crashes[m] = 0 /\ faults[m] = 0
    /\ ~loads[n].stale
    /\ applied[n] >= loads[n].through
    => store[n] = Prefix(applied[n]).store

\* FSM.PostConstruct with a snapshot: a node that only ever restarts from its
\* own snapshots derives the digest of the committed log, although raft replays
\* no entry before the snapshot, unless it restarted with a head that lags behind
\* the snapshot; and only a failed write of its own can bring it there.
OwnSnapshotKeepsChain ==
  \A n \in Node : ~loads[n].remote =>
    IF loads[n].gap THEN faults[n] > 0
    ELSE \A c \in {chain[n], head[n]} : c.digest = Prefix(c.index).digest

\* "The head is persisted so it survives snapshots and restarts" (fsm.go): the
\* chain of a node that was sent a snapshot is still the one of the log.
ChainSurvivesSnapshots ==
  \A n \in Node : loads[n].remote => chain[n].digest = Prefix(chain[n].index).digest

=============================================================================
