--------------------------- MODULE SnapshotProofs ---------------------------
(***************************************************************************)
(* Snapshots and the hash chain, for any number of nodes, keys, entries,    *)
(* crashes and snapshots: restarting from its own snapshots costs a node    *)
(* nothing of its chain, although raft hands it only what came after them.  *)
(***************************************************************************)
EXTENDS Snapshot, ReplicationProofs, WellFoundedInduction

\* What raft keeps of a snapshot never runs ahead of the node that keeps it.
Snapshots ==
  /\ DOMAIN snapshot = Node /\ DOMAIN taking = Node /\ DOMAIN loads = Node
  /\ DOMAIN ts = Node /\ DOMAIN at = Node /\ DOMAIN headAt = Node
  /\ \A n \in Node :
       /\ {"remote", "gap"} \subseteq DOMAIN loads[n]
       /\ taking[n] # NoSnapshot => taking[n] \in 0 .. applied[n]
       /\ snapshot[n] # NoSnapshot => /\ snapshot[n].index \in 0 .. applied[n]
                                      /\ snapshot[n].store \in Store
                                      /\ snapshot[n].head \in HashChain

Own(n) == ~loads[n].remote

\* Until a write is lost the head record is the chain.  Until a restart finds it behind
\* the snapshot, both are right and the chain has folded what was applied.
Right(c) == c.index <= commitIndex /\ c.digest = Prefix(c.index).digest

KeepsChain(n) ==
  /\ faults[n] = 0 => head[n] = chain[n] /\ ~loads[n].gap
  /\ ~loads[n].gap =>
       /\ Right(chain[n]) /\ Right(head[n])
       /\ \A i \in 1 .. applied[n] : log[i].cmd # Noop => i <= chain[n].index

\* Of a snapshot and the store, the later one has the head.
Timed(n) ==
  /\ ts[n] \in Nat /\ headAt[n] \in 0 .. ts[n]
  /\ DOMAIN at[n] = Key /\ \A k \in Key : at[n][k] \in 0 .. ts[n]
  /\ snapshot[n] # NoSnapshot =>
       /\ snapshot[n].headAt \in 0 .. headAt[n]
       /\ snapshot[n].headAt = headAt[n] => snapshot[n].head = head[n]
       /\ \A k \in Key : snapshot[n].at[k] \in 0 .. ts[n]

SnapInv ==
  /\ Base /\ RefInv /\ NoopsKeepDigest /\ Snapshots
  /\ \A n \in Node : Own(n) => KeepsChain(n) /\ Timed(n)

-----------------------------------------------------------------------------
(***************************************************************************)
(* The log and its outcomes.                                                *)
(***************************************************************************)
History ==
  /\ commitIndex \in Nat /\ commitIndex' \in Nat /\ commitIndex <= commitIndex'
  /\ \A i \in 1 .. commitIndex : log'[i] = log[i]
  /\ \A i \in 1 .. commitIndex + 1 : ref'[i] = ref[i]

LEMMA SnapTypes ==
  ASSUME SnapInv
  PROVE  /\ commitIndex \in Nat /\ applied \in [Node -> 0 .. commitIndex]
         /\ chain \in [Node -> HashChain] /\ head \in [Node -> HashChain]
         /\ store \in [Node -> Store] /\ faults \in [Node -> Nat]
         /\ \A n \in Node : applied[n] \in Nat /\ applied[n] <= commitIndex
                            /\ chain[n].index \in Nat /\ head[n].index \in Nat
<1>1. /\ commitIndex \in Nat /\ applied \in [Node -> 0 .. commitIndex]
      /\ chain \in [Node -> HashChain] /\ head \in [Node -> HashChain]
      /\ store \in [Node -> Store] /\ faults \in [Node -> Nat]
  BY BaseTypes, Zenon DEF SnapInv
<1>2. ASSUME NEW n \in Node PROVE applied[n] \in Nat /\ applied[n] <= commitIndex
  BY <1>1
<1>3. ASSUME NEW n \in Node PROVE chain[n].index \in Nat /\ head[n].index \in Nat
  BY <1>1 DEF HashChain
<1> QED BY <1>1, <1>2, <1>3, Zenon

\* The steps of the write path.
LEMMA WritePathCore ==
  ASSUME SnapInv, Next
  PROVE  Base' /\ RefInv' /\ NoopsKeepDigest' /\ History
<1>1. Base' /\ RefInv' /\ NoopsKeepDigest'
  BY BaseStep, RefStep, NoopsStep, Zenon DEF SnapInv
<1>2. commitIndex \in Nat
  BY SnapTypes, Zenon
<1>3. commitIndex' \in Nat
  BY <1>1 DEF Base, TypeOK
<1> QED BY <1>1, <1>2, <1>3, HistoryStable, Zenon DEF History, SnapInv

LEMMA ElsewhereIsNext == Elsewhere => Next
BY Zenon DEF Elsewhere, Next

\* A node that restores a stream leaves the log alone, and holds typed records.
LEMMA RestoreCore ==
  ASSUME SnapInv, NEW n \in Node, InstallSnapshot(n) \/ RestartFromSnapshot(n)
  PROVE  /\ Base' /\ RefInv' /\ NoopsKeepDigest' /\ History
         /\ \A m \in Node : m # n => chain'[m] = chain[m] /\ head'[m] = head[m]
                                     /\ applied'[m] = applied[m]
<1>t. /\ log \in Seq(Entry) /\ commitIndex \in 0 .. Len(log) /\ commitIndex \in Nat
      /\ term \in Nat /\ leader \in Node \cup {None} /\ clock \in [Node -> Nat]
      /\ applied \in [Node -> 0 .. commitIndex] /\ acked \in 0 .. commitIndex
      /\ pc \in [Node -> {"idle", "chained"}] /\ store \in [Node -> Store]
      /\ head \in [Node -> HashChain] /\ chain \in [Node -> HashChain]
      /\ sweep \in [Node -> SUBSET ReclaimEntry]
      /\ crashes \in [Node -> Nat] /\ faults \in [Node -> Nat]
      /\ ref \in Seq(Result) /\ Len(ref) = commitIndex + 1
  BY BaseTypes, Zenon DEF SnapInv
<1>0. /\ log' = log /\ commitIndex' = commitIndex /\ ref' = ref /\ term' = term
      /\ clock' = clock /\ acked' = acked /\ faults' = faults
  BY Zenon DEF InstallSnapshot, RestartFromSnapshot, raftVars, envVars
<1>1. ASSUME NEW b, b.store \in Store, b.head \in HashChain, Load(n, b)
      PROVE  /\ store' \in [Node -> Store] /\ head' \in [Node -> HashChain]
             /\ \A m \in Node : m # n => head'[m] = head[m]
  <2> DEFINE f == [k \in Key |-> IF k \in Loaded(n, b) THEN b.store[k] ELSE store[n][k]]
  <2>1. f \in Store
    BY <1>1, <1>t DEF Store
  <2>2. store' = [store EXCEPT ![n] = f]
    BY <1>1, Zenon DEF Load
  <2> HIDE DEF f
  <2>3. store' \in [Node -> Store]
    BY <1>t, <2>1, <2>2, Zenon
  <2>4. head' = head \/ head' = [head EXCEPT ![n] = b.head]
    BY <1>1, Zenon DEF Load
  <2> QED BY <1>1, <1>t, <2>3, <2>4, Zenon
<1>2. CASE InstallSnapshot(n)
  <2>1. /\ leader \in Node /\ snapshot[leader] # NoSnapshot /\ Load(n, snapshot[leader])
        /\ applied' = [applied EXCEPT ![n] = snapshot[leader].index]
        /\ pc' = pc /\ chain' = chain /\ crashes' = crashes /\ sweep' = sweep
        /\ leader' = leader /\ pc[n] = "idle"
    BY <1>2, <1>t, Zenon DEF InstallSnapshot, raftVars, envVars
  <2>2. /\ snapshot[leader].index \in 0 .. applied[leader]
        /\ snapshot[leader].store \in Store /\ snapshot[leader].head \in HashChain
    BY <2>1, Zenon DEF SnapInv, Snapshots
  <2>3. /\ store' \in [Node -> Store] /\ head' \in [Node -> HashChain]
        /\ \A m \in Node : m # n => head'[m] = head[m]
    BY <1>1, <2>1, <2>2, Zenon
  <2>4. snapshot[leader].index \in 0 .. commitIndex
    BY <2>1, <2>2, SnapTypes
  <2>5. /\ applied' \in [Node -> 0 .. commitIndex]
        /\ \A m \in Node : m # n => applied'[m] = applied[m]
    BY <1>t, <2>1, <2>4, Zenon
  <2>6. TypeOK'
    BY <1>0, <1>t, <2>1, <2>3, <2>5, Zenon DEF TypeOK, Result
  <2>7. Chained'
    <3> SUFFICES ASSUME NEW m \in Node, pc[m] = "chained"
                 PROVE  /\ applied'[m] < commitIndex
                        /\ log[applied'[m] + 1].cmd # Noop
                        /\ applied'[m] < chain[m].index
      BY <1>0, <2>1, Zenon DEF Chained, NextEntry
    <3>1. applied'[m] = applied[m]
      BY <2>1, <2>5
    <3> QED BY <3>1, Zenon DEF SnapInv, Base, Chained, NextEntry
  <2>8. RefInv' /\ NoopsKeepDigest'
    BY <1>0, Zenon DEF SnapInv, RefInv, NoopsKeepDigest, Quiet, Prefix
  <2>9. History
    BY <1>0, <1>t DEF History
  <2> QED BY <2>1, <2>3, <2>5, <2>6, <2>7, <2>8, <2>9, Zenon DEF Base
<1>3. CASE RestartFromSnapshot(n)
  <2>1. /\ applied' = [applied EXCEPT ![n] = SnapshotIndex(n)]
        /\ pc' = [pc EXCEPT ![n] = "idle"]
        /\ chain' = [chain EXCEPT ![n] = head[n]]
        /\ sweep' = [sweep EXCEPT ![n] = {}]
        /\ leader' \in {leader, None}
        /\ crashes' = [crashes EXCEPT ![n] = @ + 1]
        /\ snapshot[n] = NoSnapshot => store' = store /\ head' = head
        /\ snapshot[n] # NoSnapshot => Load(n, snapshot[n])
    BY <1>3, Zenon DEF RestartFromSnapshot, SeededChain
  <2>2. /\ store' \in [Node -> Store] /\ head' \in [Node -> HashChain]
        /\ \A m \in Node : m # n => head'[m] = head[m]
    BY <1>1, <1>t, <2>1, Zenon DEF SnapInv, Snapshots
  <2>3. SnapshotIndex(n) \in 0 .. commitIndex
    <3>1. snapshot[n] # NoSnapshot => snapshot[n].index \in 0 .. applied[n]
      BY Zenon DEF SnapInv, Snapshots
    <3> QED BY <3>1, SnapTypes DEF SnapshotIndex
  <2>4. /\ applied' \in [Node -> 0 .. commitIndex] /\ pc' \in [Node -> {"idle", "chained"}]
        /\ chain' \in [Node -> HashChain] /\ sweep' \in [Node -> SUBSET ReclaimEntry]
        /\ leader' \in Node \cup {None}
        /\ \A m \in Node : m # n => /\ applied'[m] = applied[m] /\ chain'[m] = chain[m]
                                    /\ pc'[m] = pc[m]
        /\ pc'[n] = "idle"
    BY <1>t, <2>1, <2>3
  <2>5. crashes' \in [Node -> Nat]
    BY <1>t, <2>1
  <2>6. TypeOK'
    BY <1>0, <1>t, <2>2, <2>4, <2>5, Zenon DEF TypeOK, Result
  <2>7. Chained'
    <3> SUFFICES ASSUME NEW m \in Node, pc'[m] = "chained"
                 PROVE  /\ applied'[m] < commitIndex
                        /\ log[applied'[m] + 1].cmd # Noop
                        /\ applied'[m] < chain'[m].index
      BY <1>0, Zenon DEF Chained, NextEntry
    <3>1. m # n
      BY <2>4
    <3>2. applied'[m] = applied[m] /\ chain'[m] = chain[m] /\ pc[m] = "chained"
      BY <2>4, <3>1
    <3> QED BY <3>2, Zenon DEF SnapInv, Base, Chained, NextEntry
  <2>8. RefInv' /\ NoopsKeepDigest'
    BY <1>0, Zenon DEF SnapInv, RefInv, NoopsKeepDigest, Quiet, Prefix
  <2>9. History
    BY <1>0, <1>t DEF History
  <2> QED BY <2>2, <2>4, <2>6, <2>7, <2>8, <2>9, Zenon DEF Base
<1> QED BY <1>2, <1>3

-----------------------------------------------------------------------------
(***************************************************************************)
(* One node.                                                                *)
(***************************************************************************)
\* A chain that is right stays right: outcomes do not change.
LEMMA RightKept ==
  ASSUME History, NEW c, c.index \in Nat, Right(c)
  PROVE  c.index <= commitIndex' /\ c.digest = ref'[c.index + 1].digest
<1>1. c.index \in 0 .. commitIndex /\ commitIndex <= commitIndex'
      /\ commitIndex \in Nat /\ commitIndex' \in Nat
  BY DEF Right, History
<1>2. c.index + 1 \in 1 .. commitIndex + 1 /\ c.index <= commitIndex'
  BY <1>1
<1>3. c.digest = ref'[c.index + 1].digest
  BY <1>2, Zenon DEF Right, Prefix, History
<1> QED BY <1>2, <1>3, Zenon

LEMMA ChainKept ==
  ASSUME SnapInv, History, NEW n \in Node, KeepsChain(n),
         chain'[n] = chain[n], head'[n] = head[n], loads'[n] = loads[n],
         faults'[n] = 0 => faults[n] = 0,
         \/ applied'[n] \in 0 .. applied[n]
         \/ /\ applied'[n] = applied[n] + 1
            /\ log'[applied[n] + 1].cmd # Noop => applied[n] + 1 <= chain[n].index
  PROVE  KeepsChain(n)'
<1>0. /\ commitIndex \in Nat /\ applied[n] \in Nat /\ applied[n] <= commitIndex
      /\ chain[n].index \in Nat /\ head[n].index \in Nat
  BY SnapTypes, Zenon
<1>1. ASSUME ~loads[n].gap
      PROVE  /\ Right(chain[n]) /\ Right(head[n])
             /\ \A i \in 1 .. applied[n] : log[i].cmd # Noop => i <= chain[n].index
  BY <1>1, Zenon DEF KeepsChain
<1>2. ASSUME ~loads[n].gap PROVE Right(chain[n])' /\ Right(head[n])'
  <2>1. /\ chain[n].index <= commitIndex'
        /\ chain[n].digest = ref'[chain[n].index + 1].digest
    BY <1>0, <1>1, <1>2, RightKept, Zenon
  <2>2. head[n].index <= commitIndex' /\ head[n].digest = ref'[head[n].index + 1].digest
    BY <1>0, <1>1, <1>2, RightKept, Zenon
  <2> QED BY <2>1, <2>2, Zenon DEF Right, Prefix
<1>3. ASSUME ~loads[n].gap, NEW i \in 1 .. applied'[n], log'[i].cmd # Noop
      PROVE  i <= chain[n].index
  <2>1. CASE i \in 1 .. applied[n]
    <3>1. i \in 1 .. commitIndex
      BY <1>0, <2>1
    <3>2. log[i].cmd # Noop
      BY <1>3, <3>1, Zenon DEF History
    <3> QED BY <1>1, <1>3, <2>1, <3>2, Zenon
  <2>2. CASE i \notin 1 .. applied[n]
    <3>1. i = applied[n] + 1 /\ applied'[n] = applied[n] + 1
      BY <1>0, <2>2
    <3> QED BY <1>0, <1>3, <3>1
  <2> QED BY <2>1, <2>2
<1>4. faults'[n] = 0 => head'[n] = chain'[n] /\ ~loads'[n].gap
  BY Zenon DEF KeepsChain
<1> QED BY <1>2, <1>3, <1>4, Zenon DEF KeepsChain

\* A restart that does not find the head behind the snapshot.
LEMMA ChainSeeded ==
  ASSUME SnapInv, History, NEW n \in Node, KeepsChain(n), log' = log,
         chain'[n] = head[n], head'[n] = head[n], faults'[n] = faults[n],
         applied'[n] = SnapshotIndex(n), SnapshotIndex(n) \in 0 .. applied[n],
         loads'[n].gap = (loads[n].gap \/ HeadLags(n))
  PROVE  KeepsChain(n)'
<1>0. /\ commitIndex \in Nat /\ applied[n] \in Nat /\ applied[n] <= commitIndex
      /\ chain[n].index \in Nat /\ head[n].index \in Nat
  BY SnapTypes, Zenon
<1>1. ASSUME faults[n] = 0 PROVE ~loads[n].gap /\ ~HeadLags(n)
  <2>1. head[n] = chain[n] /\ ~loads[n].gap
    BY <1>1, Zenon DEF KeepsChain
  <2>2. \A i \in 1 .. applied[n] : log[i].cmd # Noop => i <= head[n].index
    BY <2>1, Zenon DEF KeepsChain
  <2>3. ASSUME NEW i \in head[n].index + 1 .. SnapshotIndex(n), log[i].cmd # Noop
        PROVE  FALSE
    <3>1. i \in 1 .. applied[n] /\ ~(i <= head[n].index)
      BY <1>0
    <3> QED BY <2>2, <2>3, <3>1, Zenon
  <2> QED BY <2>1, <2>3, Zenon DEF HeadLags
<1>2. ASSUME ~loads'[n].gap PROVE Right(chain[n])' /\ Right(head[n])'
  <2>1. Right(head[n])
    BY <1>2, Zenon DEF KeepsChain
  <2>2. head[n].index <= commitIndex' /\ head[n].digest = ref'[head[n].index + 1].digest
    BY <1>0, <2>1, RightKept, Zenon
  <2> QED BY <2>2, Zenon DEF Right, Prefix
<1>3. ASSUME ~loads'[n].gap, NEW i \in 1 .. applied'[n], log'[i].cmd # Noop
      PROVE  i <= head[n].index
  <2>1. ~HeadLags(n) /\ log[i].cmd # Noop
    BY <1>3, Zenon
  <2>2. ~(i \in head[n].index + 1 .. SnapshotIndex(n))
    BY <2>1, Zenon DEF HeadLags
  <2> QED BY <1>0, <2>2
<1>4. faults'[n] = 0 => head'[n] = chain'[n] /\ ~loads'[n].gap
  BY <1>1, Zenon
<1> QED BY <1>2, <1>3, <1>4, Zenon DEF KeepsChain

Untouched(n) ==
  /\ chain'[n] = chain[n] /\ head'[n] = head[n] /\ applied'[n] = applied[n]
  /\ ts'[n] = ts[n] /\ at'[n] = at[n] /\ headAt'[n] = headAt[n]
  /\ taking'[n] = taking[n] /\ snapshot'[n] = snapshot[n] /\ loads'[n] = loads[n]
  /\ faults'[n] = faults[n]

\* What Snapshots says of one node.
Snapped(n) ==
  /\ {"remote", "gap"} \subseteq DOMAIN loads[n]
  /\ taking[n] # NoSnapshot => taking[n] \in 0 .. applied[n]
  /\ snapshot[n] # NoSnapshot => /\ snapshot[n].index \in 0 .. applied[n]
                                 /\ snapshot[n].store \in Store
                                 /\ snapshot[n].head \in HashChain

Fine(n) == Snapped(n) /\ (Own(n) => KeepsChain(n) /\ Timed(n))

Domains ==
  /\ DOMAIN snapshot = Node /\ DOMAIN taking = Node /\ DOMAIN loads = Node
  /\ DOMAIN ts = Node /\ DOMAIN at = Node /\ DOMAIN headAt = Node

LEMMA SnapParts == SnapInv <=> /\ Base /\ RefInv /\ NoopsKeepDigest /\ Domains
                               /\ \A n \in Node : Fine(n)
BY Zenon DEF SnapInv, Snapshots, Domains, Fine, Snapped

LEMMA Undisturbing ==
  ASSUME SnapInv, History, NEW n \in Node, Untouched(n)
  PROVE  Fine(n)'
<1>1. Fine(n)
  BY SnapParts, Zenon
<1>2. Snapped(n)'
  BY <1>1, Zenon DEF Fine, Snapped, Untouched
<1>3. ASSUME Own(n)' PROVE KeepsChain(n)' /\ Timed(n)'
  <2>1. KeepsChain(n) /\ Timed(n)
    BY <1>1, <1>3, Zenon DEF Fine, Own, Untouched
  <2>2. Timed(n)'
    BY <2>1, Zenon DEF Timed, Untouched
  <2>3. applied[n] \in 0 .. applied[n]
    BY SnapTypes
  <2>4. KeepsChain(n)'
    BY <2>1, <2>3, ChainKept, Zenon DEF Untouched
  <2> QED BY <2>2, <2>4
<1> QED BY <1>2, <1>3, Zenon DEF Fine

\* A node applies an entry or skips one of raft's.
LEMMA FineApplied ==
  ASSUME SnapInv, History, NEW n \in Node,
         chain'[n] = chain[n], head'[n] = head[n], applied'[n] = applied[n] + 1,
         log'[applied[n] + 1].cmd # Noop => applied[n] + 1 <= chain[n].index,
         taking'[n] = taking[n], snapshot'[n] = snapshot[n], loads'[n] = loads[n],
         headAt'[n] = headAt[n], faults'[n] = 0 => faults[n] = 0,
         \/ ts'[n] = ts[n] /\ at'[n] = at[n]
         \/ /\ ts'[n] \in {ts[n], ts[n] + 1} /\ DOMAIN at'[n] = Key
            /\ \A k \in Key : at'[n][k] \in {at[n][k], ts'[n]}
  PROVE  Fine(n)'
<1>0. applied[n] \in Nat /\ Fine(n)
  BY SnapTypes, SnapParts, Zenon
<1>1. Snapped(n)'
  <2>1. 0 .. applied[n] \subseteq 0 .. applied'[n]
    BY <1>0
  <2> QED BY <1>0, <2>1, Zenon DEF Fine, Snapped
<1>2. ASSUME Own(n)' PROVE KeepsChain(n)' /\ Timed(n)'
  <2>1. KeepsChain(n) /\ Timed(n)
    BY <1>0, <1>2, Zenon DEF Fine, Own
  <2>2. KeepsChain(n)'
    BY <2>1, ChainKept, Zenon
  <2>3. CASE ts'[n] = ts[n] /\ at'[n] = at[n]
    BY <2>1, <2>2, <2>3, Zenon DEF Timed
  <2>4. CASE /\ ts'[n] \in {ts[n], ts[n] + 1} /\ DOMAIN at'[n] = Key
             /\ \A k \in Key : at'[n][k] \in {at[n][k], ts'[n]}
    <3>1. 0 .. ts[n] \subseteq 0 .. ts'[n] /\ ts'[n] \in 0 .. ts'[n] /\ ts'[n] \in Nat
      BY <2>1, <2>4 DEF Timed
    <3>2. \A k \in Key : at'[n][k] \in 0 .. ts'[n]
      BY <2>1, <2>4, <3>1, Zenon DEF Timed
    <3> QED BY <2>1, <2>2, <2>4, <3>1, <3>2, Zenon DEF Timed
  <2> QED BY <2>3, <2>4, Zenon
<1> QED BY <1>1, <1>2, Zenon DEF Fine

\* A node folds the next entry into its chain.
LEMMA FineAdvanced ==
  ASSUME SnapInv, NEW n \in Node, StampedAdvanceChain(n), Base'
  PROVE  Fine(n)'
<1> DEFINE c == Advance(chain[n], applied[n] + 1, NextEntry(n).term, NextEntry(n).cmd)
<1>0. /\ applied[n] \in Nat /\ commitIndex \in Nat /\ Fine(n) /\ faults \in [Node -> Nat]
      /\ head \in [Node -> HashChain] /\ chain \in [Node -> HashChain]
  BY SnapTypes, SnapParts, Zenon
<1>1. /\ applied[n] < commitIndex /\ NextEntry(n).cmd # Noop
      /\ chain' = [chain EXCEPT ![n] = c]
      /\ \/ head' = [head EXCEPT ![n] = c] /\ faults' = faults
         \/ head' = head /\ faults' = [faults EXCEPT ![n] = @ + 1]
      /\ applied' = applied /\ taking' = taking /\ snapshot' = snapshot
      /\ loads' = loads /\ at' = at
      /\ log' = log /\ commitIndex' = commitIndex /\ ref' = ref
  BY Zenon DEF StampedAdvanceChain, advanceChain, FsmReady, raftVars, snapVars
<1>2. IF faults' = faults THEN /\ ts' = [ts EXCEPT ![n] = @ + 1]
                               /\ headAt' = [headAt EXCEPT ![n] = ts[n] + 1]
      ELSE ts' = ts /\ headAt' = headAt
  BY Zenon DEF StampedAdvanceChain
<1>3. Snapped(n)'
  BY <1>0, <1>1, Zenon DEF Fine, Snapped
<1>4. ASSUME Own(n)' PROVE KeepsChain(n)' /\ Timed(n)'
  <2>3. KeepsChain(n) /\ Timed(n)
    BY <1>0, <1>1, <1>4, Zenon DEF Fine, Own
  <2>4. ASSUME ~loads[n].gap PROVE Right(c)
    <3>1. /\ Right(chain[n])
          /\ \A i \in 1 .. applied[n] : log[i].cmd # Noop => i <= chain[n].index
      BY <2>3, <2>4, Zenon DEF KeepsChain
    <3> QED BY <1>1, <3>1, ChainAdvances, Zenon DEF SnapInv, Right
  <2>5. c \in HashChain /\ c.index \in Nat /\ chain[n].index <= c.index /\ chain[n].index \in Nat
    <3> DEFINE i == applied[n] + 1
    <3>1. i \in Nat /\ chain[n] \in HashChain
      BY <1>0
    <3>2. NextEntry(n).cmd \in Command /\ NextEntry(n).term \in Nat
      BY <1>1, NextEntryType, Zenon DEF SnapInv
    <3> HIDE DEF i
    <3>3. /\ Advance(chain[n], i, NextEntry(n).term, NextEntry(n).cmd) \in HashChain
          /\ chain[n].index <= Advance(chain[n], i, NextEntry(n).term, NextEntry(n).cmd).index
      BY <3>1, <3>2, AdvanceFacts, Zenon
    <3>4. c \in HashChain /\ chain[n].index <= c.index
      BY <3>3 DEF i
    <3> HIDE DEF c
    <3> QED BY <3>1, <3>4 DEF HashChain
  <2> HIDE DEF c
  <2>6. /\ chain'[n] = c
        /\ \/ faults' = faults /\ head'[n] = c
           \/ faults'[n] # 0 /\ faults' # faults /\ head'[n] = head[n]
    <3>1. chain'[n] = c
      BY <1>0, <1>1, Zenon
    <3>2. CASE head' = [head EXCEPT ![n] = c] /\ faults' = faults
      BY <1>0, <3>1, <3>2, Zenon
    <3>3. CASE head' = head /\ faults' = [faults EXCEPT ![n] = @ + 1]
      <4>1. faults'[n] # 0 /\ faults'[n] # faults[n]
        BY <1>0, <3>3
      <4> QED BY <3>1, <3>3, <4>1, Zenon
    <3> QED BY <1>1, <3>2, <3>3, Zenon
  <2>7. ASSUME ~loads[n].gap
        PROVE  \A i \in 1 .. applied[n] : log[i].cmd # Noop => i <= c.index
    <3> SUFFICES ASSUME NEW i \in 1 .. applied[n], log[i].cmd # Noop PROVE i <= c.index
      BY Zenon
    <3>1. i <= chain[n].index
      BY <2>3, <2>7, Zenon DEF KeepsChain
    <3> QED BY <1>0, <2>5, <3>1
  <2>8. KeepsChain(n)'
    <3>1. ASSUME ~loads[n].gap PROVE Right(chain[n])' /\ Right(head[n])'
      <4>1. Right(c) /\ Right(head[n])
        BY <2>3, <2>4, <3>1, Zenon DEF KeepsChain
      <4> QED BY <1>1, <2>6, <4>1, Zenon DEF Right, Prefix
    <3>2. faults'[n] = 0 => head'[n] = chain'[n] /\ ~loads[n].gap
      BY <2>3, <2>6, Zenon DEF KeepsChain
    <3> QED BY <1>1, <2>6, <2>7, <3>1, <3>2, Zenon DEF KeepsChain
  <2>9. CASE faults' = faults
    <3>1. ts'[n] = ts[n] + 1 /\ headAt'[n] = ts[n] + 1
      BY <1>2, <2>9, Zenon DEF SnapInv, Snapshots
    <3>2. ts[n] \in Nat /\ headAt[n] \in 0 .. ts[n]
      BY <2>3, Zenon DEF Timed
    <3>3. /\ ts'[n] \in Nat /\ headAt'[n] \in 0 .. ts'[n] /\ 0 .. ts[n] \subseteq 0 .. ts'[n]
          /\ 0 .. headAt[n] \subseteq 0 .. headAt'[n] /\ headAt'[n] \notin 0 .. headAt[n]
      BY <3>1, <3>2
    <3>4. Timed(n)'
      BY <1>1, <2>3, <3>3, Zenon DEF Timed
    <3> QED BY <2>8, <3>4
  <2>10. CASE faults' # faults
    <3>1. ts' = ts /\ headAt' = headAt /\ head'[n] = head[n]
      BY <1>2, <2>6, <2>10, Zenon
    <3>2. Timed(n)'
      BY <1>1, <2>3, <3>1, Zenon DEF Timed
    <3> QED BY <2>8, <3>2
  <2> QED BY <2>9, <2>10
<1> QED BY <1>3, <1>4, Zenon DEF Fine

\* Persist: the backup has the head that is there now.
LEMMA FinePersisted ==
  ASSUME SnapInv, NEW n \in Node, Persist(n)
  PROVE  Fine(n)'
<1> DEFINE b == [index |-> taking[n], through |-> Max({applied[n], loads[n].through}),
                 store |-> store[n], at |-> at[n], head |-> head[n],
                 headAt |-> headAt[n], stale |-> loads[n].stale]
<1>0. /\ Fine(n) /\ head[n] \in HashChain /\ store[n] \in Store
      /\ DOMAIN snapshot = Node /\ DOMAIN taking = Node
  BY SnapTypes, SnapParts, Zenon DEF Domains
<1>1. /\ taking[n] # NoSnapshot /\ snapshot' = [snapshot EXCEPT ![n] = b]
      /\ taking' = [taking EXCEPT ![n] = NoSnapshot]
      /\ applied' = applied /\ chain' = chain /\ head' = head /\ faults' = faults
      /\ log' = log /\ commitIndex' = commitIndex /\ ref' = ref
      /\ ts' = ts /\ at' = at /\ headAt' = headAt /\ loads' = loads
  BY Zenon DEF Persist, vars, raftVars, fsmVars, envVars, badgerVars
<1>2. snapshot'[n] = b /\ taking'[n] = NoSnapshot
  BY <1>0, <1>1, Zenon
<1>3. /\ b.index = taking[n] /\ b.store = store[n] /\ b.at = at[n] /\ b.head = head[n]
      /\ b.headAt = headAt[n]
  OBVIOUS
<1> HIDE DEF b
<1>4. Snapped(n)'
  BY <1>0, <1>1, <1>2, <1>3, Zenon DEF Fine, Snapped
<1>5. ASSUME Own(n)' PROVE KeepsChain(n)' /\ Timed(n)'
  <2>1. KeepsChain(n) /\ Timed(n)
    BY <1>0, <1>1, <1>5, Zenon DEF Fine, Own
  <2>2. KeepsChain(n)'
    BY <1>1, <2>1, Zenon DEF KeepsChain, Right, Prefix
  <2>3. headAt[n] \in 0 .. headAt[n]
    BY <2>1 DEF Timed
  <2>4. Timed(n)'
    BY <1>1, <1>2, <1>3, <2>1, <2>3, Zenon DEF Timed
  <2> QED BY <2>2, <2>4
<1> QED BY <1>4, <1>5, Zenon DEF Fine

\* badger.Load of a stream in which nothing is newer moves no timestamp.
LEMMA OldStream ==
  ASSUME SnapInv, NEW n \in Node, NEW b, Load(n, b), Timed(n),
         b.headAt \in 0 .. headAt[n], b.headAt = headAt[n] => b.head = head[n],
         \A k \in Key : b.at[k] \in 0 .. ts[n]
  PROVE  /\ head'[n] = head[n] /\ headAt'[n] = headAt[n] /\ ts'[n] = ts[n]
         /\ DOMAIN at'[n] = Key /\ \A k \in Key : at'[n][k] \in 0 .. ts[n]
<1>0. /\ ts[n] \in Nat /\ headAt[n] \in 0 .. ts[n] /\ head \in [Node -> HashChain]
      /\ DOMAIN ts = Node /\ DOMAIN at = Node /\ DOMAIN headAt = Node
      /\ \A k \in Key : at[n][k] \in 0 .. ts[n]
  BY SnapTypes, Zenon DEF Timed, SnapInv, Snapshots
<1>1. head'[n] = head[n] /\ headAt'[n] = headAt[n]
  <2>1. CASE b.headAt >= headAt[n]
    <3>1. b.headAt = headAt[n]
      BY <1>0, <2>1
    <3> QED BY <1>0, <2>1, <3>1, Zenon DEF Load
  <2>2. CASE ~(b.headAt >= headAt[n])
    BY <2>2, Zenon DEF Load
  <2> QED BY <2>1, <2>2
<1>2. ts'[n] = ts[n]
  <2> DEFINE S == {ts[n], b.headAt} \cup {b.at[k] : k \in Key}
  <2>1. ts[n] \in S /\ \A y \in S : y \in Nat /\ y <= ts[n]
    BY <1>0
  <2>2. ts' = [ts EXCEPT ![n] = Max(S)]
    BY Zenon DEF Load
  <2> HIDE DEF S
  <2>3. ts[n] \in S /\ \A y \in S : ts[n] >= y
    BY <1>0, <2>1
  <2>4. Max(S) \in S /\ \A y \in S : Max(S) >= y
    BY <2>3, Zenon DEF Max
  <2>5. Max(S) = ts[n]
    BY <1>0, <2>1, <2>4
  <2> QED BY <1>0, <2>2, <2>5, Zenon
<1>3. at'[n] = [k \in Key |-> IF k \in Loaded(n, b) THEN b.at[k] ELSE at[n][k]]
  BY <1>0, Zenon DEF Load
<1> QED BY <1>0, <1>1, <1>2, <1>3

\* A restart from the node's own snapshot.
LEMMA FineRestarted ==
  ASSUME SnapInv, NEW n \in Node, RestartFromSnapshot(n), History
  PROVE  Fine(n)'
<1>0. /\ Fine(n) /\ applied \in [Node -> 0 .. commitIndex] /\ applied[n] \in Nat
      /\ chain \in [Node -> HashChain] /\ DOMAIN taking = Node /\ DOMAIN loads = Node
  BY SnapTypes, SnapParts, Zenon DEF Domains
<1>1. /\ applied' = [applied EXCEPT ![n] = SnapshotIndex(n)]
      /\ chain' = [chain EXCEPT ![n] = head[n]]
      /\ taking' = [taking EXCEPT ![n] = NoSnapshot]
      /\ snapshot' = snapshot /\ faults' = faults /\ log' = log
      /\ loads' = [loads EXCEPT ![n].gap = @ \/ HeadLags(n)]
      /\ snapshot[n] = NoSnapshot => /\ head' = head /\ ts' = ts /\ at' = at
                                     /\ headAt' = headAt
      /\ snapshot[n] # NoSnapshot => Load(n, snapshot[n])
  BY Zenon DEF RestartFromSnapshot, SeededChain, badgerVars
<1>2. applied'[n] = SnapshotIndex(n) /\ chain'[n] = head[n] /\ taking'[n] = NoSnapshot
  BY <1>0, <1>1, Zenon
<1>3. snapshot[n] # NoSnapshot => /\ snapshot[n].index = SnapshotIndex(n)
                                  /\ snapshot[n].index \in 0 .. applied[n]
  BY <1>0, Zenon DEF SnapshotIndex, Fine, Snapped
<1>4. SnapshotIndex(n) \in 0 .. applied[n]
  BY <1>0, <1>3 DEF SnapshotIndex
<1>5. Snapped(n)'
  <2>1. SnapshotIndex(n) \in 0 .. SnapshotIndex(n)
    BY <1>4
  <2> QED BY <1>0, <1>1, <1>2, <1>3, <2>1, Zenon DEF Fine, Snapped
<1>g. /\ loads'[n].remote = loads[n].remote
      /\ loads'[n].gap = (loads[n].gap \/ HeadLags(n))
  <2>1. loads'[n] = [loads[n] EXCEPT !.gap = @ \/ HeadLags(n)]
    BY <1>0, <1>1, Zenon
  <2>2. {"remote", "gap"} \subseteq DOMAIN loads[n]
    BY SnapParts, <1>0, Zenon DEF Fine, Snapped
  <2> QED BY <2>1, <2>2
<1>6. ASSUME Own(n)' PROVE KeepsChain(n)' /\ Timed(n)'
  <2>1. KeepsChain(n) /\ Timed(n)
    BY <1>0, <1>6, <1>g, Zenon DEF Fine, Own
  <2>2. CASE snapshot[n] = NoSnapshot
    <3>1. head'[n] = head[n]
      BY <1>1, <2>2, Zenon
    <3>2. KeepsChain(n)'
      BY <1>1, <1>2, <1>4, <1>g, <2>1, <3>1, ChainSeeded, Zenon
    <3>3. Timed(n)'
      BY <1>1, <2>1, <2>2, Zenon DEF Timed
    <3> QED BY <3>2, <3>3
  <2>3. CASE snapshot[n] # NoSnapshot
    <3> DEFINE b == snapshot[n]
    <3>1. /\ b.headAt \in 0 .. headAt[n] /\ (b.headAt = headAt[n] => b.head = head[n])
          /\ \A k \in Key : b.at[k] \in 0 .. ts[n]
      BY <2>1, <2>3, Zenon DEF Timed
    <3>2. /\ head'[n] = head[n] /\ headAt'[n] = headAt[n] /\ ts'[n] = ts[n]
          /\ DOMAIN at'[n] = Key /\ \A k \in Key : at'[n][k] \in 0 .. ts[n]
      BY <1>1, <2>1, <2>3, <3>1, OldStream, Zenon
    <3>4. KeepsChain(n)'
      BY <1>1, <1>2, <1>4, <1>g, <2>1, <3>2, ChainSeeded, Zenon
    <3>5. Timed(n)'
      BY <1>1, <2>1, <3>1, <3>2, Zenon DEF Timed
    <3> QED BY <3>4, <3>5
  <2> QED BY <2>2, <2>3
<1> QED BY <1>5, <1>6, Zenon DEF Fine

-----------------------------------------------------------------------------
(***************************************************************************)
(* Every step, and the theorem.                                             *)
(***************************************************************************)
\* What a step of node n leaves alone, apart from the write path's own variables.
Elsewheres(n) ==
  /\ Domains'
  /\ \A m \in Node : m # n =>
       /\ ts'[m] = ts[m] /\ at'[m] = at[m] /\ headAt'[m] = headAt[m]
       /\ taking'[m] = taking[m] /\ snapshot'[m] = snapshot[m] /\ loads'[m] = loads[m]

LEMMA OneNode ==
  ASSUME SnapInv, NEW n \in Node,
         \/ StampedAdvanceChain(n) \/ StampedApply(n) \/ FsmSnapshot(n) \/ Persist(n)
         \/ InstallSnapshot(n) \/ RestartFromSnapshot(n) \/ \E k \in Key : Compact(n, k)
  PROVE  Elsewheres(n)
<1>0. Domains
  BY SnapParts, Zenon
<1>1. CASE StampedAdvanceChain(n)
  BY <1>0, <1>1, Zenon DEF StampedAdvanceChain, snapVars, Elsewheres, Domains
<1>2. CASE StampedApply(n)
  BY <1>0, <1>2, Zenon DEF StampedApply, snapVars, Elsewheres, Domains
<1>3. CASE FsmSnapshot(n) \/ Persist(n)
  BY <1>0, <1>3, Zenon DEF FsmSnapshot, Persist, badgerVars, Elsewheres, Domains
<1>4. ASSUME NEW b, Load(n, b)
      PROVE  /\ DOMAIN ts' = Node /\ DOMAIN at' = Node /\ DOMAIN headAt' = Node
             /\ \A m \in Node : m # n => ts'[m] = ts[m] /\ at'[m] = at[m]
                                         /\ headAt'[m] = headAt[m]
  BY <1>0, <1>4, Zenon DEF Load, Domains
<1>5. CASE InstallSnapshot(n)
  <2>1. /\ Load(n, snapshot[leader]) /\ taking' = taking
        /\ snapshot' = [snapshot EXCEPT ![n] = snapshot[leader]]
    BY <1>5, Zenon DEF InstallSnapshot
  <2>2. DOMAIN loads' = Node /\ \A m \in Node : m # n => loads'[m] = loads[m]
    BY <1>0, <1>5, Zenon DEF InstallSnapshot, Domains
  <2> QED BY <1>0, <1>4, <2>1, <2>2, Zenon DEF Elsewheres, Domains
<1>6. CASE RestartFromSnapshot(n)
  <2>1. /\ taking' = [taking EXCEPT ![n] = NoSnapshot] /\ snapshot' = snapshot
        /\ loads' = [loads EXCEPT ![n].gap = @ \/ HeadLags(n)]
        /\ (ts' = ts /\ at' = at /\ headAt' = headAt) \/ Load(n, snapshot[n])
    BY <1>6, Zenon DEF RestartFromSnapshot, badgerVars
  <2> QED BY <1>0, <1>4, <2>1, Zenon DEF Elsewheres, Domains
<1>7. ASSUME NEW k \in Key, Compact(n, k) PROVE Elsewheres(n)
  BY <1>0, <1>7, Zenon DEF Compact, snapVars, Elsewheres, Domains
<1> QED BY <1>1, <1>2, <1>3, <1>5, <1>6, <1>7, Zenon

LEMMA OthersFine ==
  ASSUME SnapInv, History, NEW n \in Node, Elsewheres(n), Fine(n)',
         Base', RefInv', NoopsKeepDigest',
         \A m \in Node : m # n => /\ chain'[m] = chain[m] /\ head'[m] = head[m]
                                  /\ applied'[m] = applied[m] /\ faults'[m] = faults[m]
  PROVE  SnapInv'
<1>1. ASSUME NEW m \in Node PROVE Fine(m)'
  <2>1. m # n => Untouched(m)
    BY Zenon DEF Elsewheres, Untouched
  <2> QED BY <2>1, Undisturbing, Zenon
<1>2. SnapInv' <=> /\ Base' /\ RefInv' /\ NoopsKeepDigest' /\ Domains'
                   /\ \A m \in Node : Fine(m)'
  BY Zenon DEF SnapInv, Snapshots, Domains, Fine, Snapped
<1> QED BY <1>1, <1>2, Zenon DEF Elsewheres

\* The log, the chains and the rest of the write path do not move.
LEMMA PathStill ==
  ASSUME SnapInv, UNCHANGED vars
  PROVE  /\ Base' /\ RefInv' /\ NoopsKeepDigest' /\ History
         /\ applied' = applied /\ chain' = chain /\ head' = head /\ faults' = faults
         /\ store' = store /\ log' = log /\ commitIndex' = commitIndex /\ ref' = ref
<1>1. Base' /\ RefInv' /\ NoopsKeepDigest'
  BY BaseStep, RefStep, NoopsStep, Zenon DEF SnapInv
<1>2. /\ applied' = applied /\ chain' = chain /\ head' = head /\ faults' = faults
      /\ store' = store /\ log' = log /\ commitIndex' = commitIndex /\ ref' = ref
  BY Zenon DEF vars, raftVars, fsmVars, envVars
<1>3. commitIndex \in Nat
  BY SnapTypes, Zenon
<1> QED BY <1>1, <1>2, <1>3 DEF History

LEMMA SnapElsewhere ==
  ASSUME SnapInv, Elsewhere
  PROVE  SnapInv'
<1>0. Base' /\ RefInv' /\ NoopsKeepDigest' /\ History /\ Domains
      /\ applied \in [Node -> 0 .. commitIndex]
  BY ElsewhereIsNext, WritePathCore, SnapParts, SnapTypes, Zenon
<1>1. /\ ts' = ts /\ at' = at /\ headAt' = headAt
      /\ taking' = taking /\ snapshot' = snapshot /\ loads' = loads
  BY Zenon DEF Elsewhere, badgerVars, snapVars
<1>2. /\ chain' = chain /\ head' = head /\ faults' = faults
      /\ applied' = applied \/ \E n \in Node : SkipNoop(n)
  BY Zenon DEF Elsewhere, Commit, LeaderElected, Propose, SkipNoop, Tick, ReclaimScan,
               ReclaimPropose, ReclaimAbandon, fsmVars, envVars
<1>3. ASSUME NEW m \in Node PROVE Fine(m)'
  <2>1. CASE applied'[m] = applied[m]
    BY <1>0, <1>1, <1>2, <2>1, Undisturbing, Zenon DEF Untouched
  <2>2. CASE SkipNoop(m)
    <3>1. /\ applied' = [applied EXCEPT ![m] = @ + 1] /\ log' = log
          /\ log[applied[m] + 1].cmd = Noop
      BY <2>2, Zenon DEF SkipNoop, FsmReady, NextEntry, raftVars
    <3>2. applied'[m] = applied[m] + 1
      BY <1>0, <3>1, Zenon
    <3> QED BY <1>0, <1>1, <1>2, <3>1, <3>2, FineApplied, Zenon
  <2>3. ASSUME NEW n \in Node, n # m, SkipNoop(n) PROVE applied'[m] = applied[m]
    BY <1>0, <2>3, Zenon DEF SkipNoop
  <2> QED BY <1>2, <2>1, <2>2, <2>3, Zenon
<1>4. Domains'
  BY <1>0, <1>1, Zenon DEF Domains
<1> QED BY <1>0, <1>3, <1>4, Zenon DEF SnapInv, Snapshots, Domains, Fine, Snapped

LEMMA SnapApply ==
  ASSUME SnapInv, NEW n \in Node, StampedApply(n)
  PROVE  SnapInv'
<1>0. Apply(n) /\ Next
  BY Zenon DEF StampedApply, Next
<1>1. Base' /\ RefInv' /\ NoopsKeepDigest' /\ History /\ Elsewheres(n) /\ Domains
  BY <1>0, WritePathCore, OneNode, SnapParts, Zenon
<1>2. /\ applied \in [Node -> 0 .. commitIndex] /\ applied[n] \in Nat
      /\ faults \in [Node -> Nat] /\ chain[n].index \in Nat
  BY SnapTypes, Zenon
<1>3. /\ applied' = [applied EXCEPT ![n] = @ + 1] /\ chain' = chain /\ head' = head
      /\ faults' = faults \/ faults' = [faults EXCEPT ![n] = @ + 1]
      /\ taking' = taking /\ snapshot' = snapshot /\ loads' = loads /\ headAt' = headAt
      /\ log' = log /\ pc[n] = "chained"
  BY <1>0, Zenon DEF Apply, StampedApply, raftVars, snapVars
<1>4. applied[n] + 1 <= chain[n].index
  <2>1. applied[n] < chain[n].index
    BY <1>3, Zenon DEF SnapInv, Base, Chained
  <2> QED BY <1>2, <2>1
<1>5. applied'[n] = applied[n] + 1 /\ (faults'[n] = 0 => faults'[n] = faults[n])
  <2>1. faults' = [faults EXCEPT ![n] = @ + 1] => faults'[n] # 0
    BY <1>2
  <2>2. applied'[n] = applied[n] + 1
    BY <1>2, <1>3, Zenon
  <2> QED BY <1>3, <2>1, <2>2, Zenon
<1>6. /\ ts'[n] \in {ts[n], ts[n] + 1} /\ DOMAIN at'[n] = Key
      /\ \A k \in Key : at'[n][k] \in {at[n][k], ts'[n]}
  <2> DEFINE K == IF faults' = faults THEN WriteSet(store[n], NextEntry(n).cmd) ELSE {}
  <2>1. /\ ts' = [ts EXCEPT ![n] = IF K = {} THEN @ ELSE @ + 1]
        /\ at' = [at EXCEPT ![n] = [k \in Key |-> IF k \in K THEN ts[n] + 1 ELSE @[k]]]
    BY Zenon DEF StampedApply
  <2> HIDE DEF K
  <2>2. /\ ts'[n] = IF K = {} THEN ts[n] ELSE ts[n] + 1
        /\ at'[n] = [k \in Key |-> IF k \in K THEN ts[n] + 1 ELSE at[n][k]]
    BY <1>1, <2>1, Zenon DEF Domains
  <2>3. CASE K # {}
    BY <2>2, <2>3, Zenon
  <2>4. CASE K = {}
    BY <2>2, <2>4, Zenon
  <2> QED BY <2>3, <2>4
<1>7. Fine(n)'
  BY <1>1, <1>3, <1>4, <1>5, <1>6, FineApplied, Zenon
<1>8. \A m \in Node : m # n => /\ chain'[m] = chain[m] /\ head'[m] = head[m]
                               /\ applied'[m] = applied[m] /\ faults'[m] = faults[m]
  BY <1>2, <1>3, Zenon
<1> QED BY <1>1, <1>7, <1>8, OthersFine, Zenon

LEMMA SnapAdvance ==
  ASSUME SnapInv, NEW n \in Node, StampedAdvanceChain(n)
  PROVE  SnapInv'
<1>0. advanceChain(n) /\ Next
  BY Zenon DEF StampedAdvanceChain, Next
<1>1. Base' /\ RefInv' /\ NoopsKeepDigest' /\ History /\ Elsewheres(n)
  BY <1>0, WritePathCore, OneNode, Zenon
<1>2. /\ applied' = applied /\ faults \in [Node -> Nat]
      /\ chain \in [Node -> HashChain] /\ head \in [Node -> HashChain]
  BY <1>0, SnapTypes, Zenon DEF advanceChain
<1>3. \A m \in Node : m # n => /\ chain'[m] = chain[m] /\ head'[m] = head[m]
                               /\ applied'[m] = applied[m] /\ faults'[m] = faults[m]
  BY <1>0, <1>2, Zenon DEF advanceChain
<1>4. Fine(n)'
  BY <1>1, FineAdvanced, Zenon
<1> QED BY <1>1, <1>3, <1>4, OthersFine, Zenon

LEMMA SnapRestore ==
  ASSUME SnapInv, NEW n \in Node, InstallSnapshot(n) \/ RestartFromSnapshot(n)
  PROVE  SnapInv'
<1>1. /\ Base' /\ RefInv' /\ NoopsKeepDigest' /\ History /\ Elsewheres(n)
      /\ \A m \in Node : m # n => chain'[m] = chain[m] /\ head'[m] = head[m]
                                  /\ applied'[m] = applied[m]
  BY RestoreCore, OneNode, Zenon
<1>2. faults' = faults
  BY Zenon DEF InstallSnapshot, RestartFromSnapshot, envVars
<1>3. CASE RestartFromSnapshot(n)
  BY <1>1, <1>2, <1>3, FineRestarted, OthersFine, Zenon
<1>4. CASE InstallSnapshot(n)
  <2> DEFINE b == snapshot[leader]
  <2>1. /\ leader \in Node /\ b # NoSnapshot
        /\ applied' = [applied EXCEPT ![n] = b.index]
        /\ snapshot' = [snapshot EXCEPT ![n] = b] /\ taking' = taking
    BY <1>4, BaseTypes, Zenon DEF InstallSnapshot, SnapInv
  <2>2. /\ Snapped(n) /\ Snapped(leader) /\ Domains
        /\ applied \in [Node -> 0 .. commitIndex] /\ applied[n] \in Nat
        /\ applied[leader] \in Nat
    BY <2>1, SnapParts, SnapTypes, Zenon DEF Fine
  <2>3. /\ applied[n] < b.index /\ b.store \in Store /\ b.head \in HashChain
        /\ b.index \in 0 .. applied[leader]
    BY <1>4, <2>1, <2>2, Zenon DEF InstallSnapshot, Snapped
  <2>4. /\ b.index \in 0 .. b.index /\ 0 .. applied[n] \subseteq 0 .. b.index
    BY <2>2, <2>3
  <2>5. applied'[n] = b.index /\ snapshot'[n] = b
    BY <2>1, <2>2, Zenon DEF Domains
  <2> HIDE DEF b
  <2>6. loads'[n].remote /\ {"remote", "gap"} \subseteq DOMAIN loads'[n]
    <3> DEFINE r == [through |-> Max({loads[n].through, snapshot[leader].through}),
                     stale |-> loads[n].stale \/ ts[n] > 0 \/ snapshot[leader].stale,
                     remote |-> TRUE, gap |-> loads[n].gap]
    <3>1. loads' = [loads EXCEPT ![n] = r]
      BY <1>4, Zenon DEF InstallSnapshot
    <3>2. r.remote /\ {"remote", "gap"} \subseteq DOMAIN r
      OBVIOUS
    <3> HIDE DEF r
    <3> QED BY <2>2, <3>1, <3>2, Zenon DEF Domains
  <2>7. Snapped(n)'
    BY <2>1, <2>2, <2>3, <2>4, <2>5, <2>6, Zenon DEF Snapped
  <2>8. Fine(n)'
    BY <2>6, <2>7, Zenon DEF Fine, Own
  <2> QED BY <1>1, <1>2, <2>8, OthersFine, Zenon
<1> QED BY <1>3, <1>4

LEMMA SnapLocal ==
  ASSUME SnapInv, NEW n \in Node,
         FsmSnapshot(n) \/ Persist(n) \/ \E k \in Key : Compact(n, k)
  PROVE  SnapInv'
<1>1. UNCHANGED vars /\ Elsewheres(n)
  <2>1. UNCHANGED vars
    BY Zenon DEF FsmSnapshot, Persist, Compact
  <2> QED BY <2>1, OneNode, Zenon
<1>2. /\ Base' /\ RefInv' /\ NoopsKeepDigest' /\ History
      /\ applied' = applied /\ chain' = chain /\ head' = head /\ faults' = faults
      /\ log' = log /\ commitIndex' = commitIndex /\ ref' = ref
  BY <1>1, PathStill, Zenon
<1>3. Fine(n) /\ Domains /\ applied[n] \in Nat
  BY SnapParts, SnapTypes, Zenon
<1>4. CASE Persist(n)
  BY <1>1, <1>2, <1>4, FinePersisted, OthersFine, Zenon
<1>5. CASE FsmSnapshot(n)
  <2>1. /\ taking' = [taking EXCEPT ![n] = applied[n]] /\ snapshot' = snapshot
        /\ loads' = loads /\ ts' = ts /\ at' = at /\ headAt' = headAt
    BY <1>5, Zenon DEF FsmSnapshot, badgerVars
  <2>2. taking'[n] = applied[n] /\ applied[n] \in 0 .. applied[n]
    BY <1>3, <2>1 DEF Domains
  <2>3. Snapped(n)'
    BY <1>2, <1>3, <2>1, <2>2, Zenon DEF Fine, Snapped
  <2>4. Own(n)' => KeepsChain(n)' /\ Timed(n)'
    BY <1>2, <1>3, <2>1, Zenon DEF Fine, Own, KeepsChain, Right, Timed, Prefix
  <2>5. Fine(n)'
    BY <2>3, <2>4, Zenon DEF Fine
  <2> QED BY <1>1, <1>2, <2>5, OthersFine, Zenon
<1>6. ASSUME NEW k \in Key, Compact(n, k) PROVE SnapInv'
  <2>1. /\ at' = [at EXCEPT ![n][k] = 0] /\ snapshot' = snapshot /\ taking' = taking
        /\ loads' = loads /\ ts' = ts /\ headAt' = headAt
    BY <1>6, Zenon DEF Compact, snapVars
  <2>2. at'[n] = [at[n] EXCEPT ![k] = 0]
    BY <1>3, <2>1, Zenon DEF Domains
  <2>3. Snapped(n)'
    BY <1>2, <1>3, <2>1, Zenon DEF Fine, Snapped
  <2>4. ASSUME Own(n)' PROVE KeepsChain(n)' /\ Timed(n)'
    <3>1. KeepsChain(n) /\ Timed(n)
      BY <1>2, <1>3, <2>1, <2>4, Zenon DEF Fine, Own
    <3>2. KeepsChain(n)'
      BY <1>2, <2>1, <3>1, Zenon DEF KeepsChain, Right, Prefix
    <3>3. DOMAIN at'[n] = Key /\ 0 \in 0 .. ts[n]
      BY <2>2, <3>1 DEF Timed
    <3>4. \A j \in Key : at'[n][j] \in 0 .. ts[n]
      BY <2>2, <3>1, <3>3, Zenon DEF Timed
    <3>5. Timed(n)'
      BY <1>2, <2>1, <3>1, <3>3, <3>4, Zenon DEF Timed
    <3> QED BY <3>2, <3>5
  <2>5. Fine(n)'
    BY <2>3, <2>4, Zenon DEF Fine
  <2> QED BY <1>1, <1>2, <2>5, OthersFine, Zenon
<1> QED BY <1>4, <1>5, <1>6, Zenon

LEMMA SnapStep == SnapInv /\ [SnapshotNext]_svars => SnapInv'
<1> SUFFICES ASSUME SnapInv, [SnapshotNext]_svars PROVE SnapInv'
  BY Zenon
<1>1. CASE UNCHANGED svars
  <2>1. /\ UNCHANGED vars /\ ts' = ts /\ at' = at /\ headAt' = headAt
        /\ taking' = taking /\ snapshot' = snapshot /\ loads' = loads
    BY <1>1, Zenon DEF svars, badgerVars, snapVars
  <2>2. /\ Base' /\ RefInv' /\ NoopsKeepDigest' /\ History
        /\ applied' = applied /\ chain' = chain /\ head' = head /\ faults' = faults
    BY <2>1, PathStill, Zenon
  <2>3. ASSUME NEW n \in Node PROVE Fine(n)'
    BY <2>1, <2>2, Undisturbing, Zenon DEF Untouched
  <2>4. Domains'
    BY <2>1, SnapParts, Zenon DEF Domains
  <2> QED BY <2>2, <2>3, <2>4, Zenon DEF SnapInv, Snapshots, Domains, Fine, Snapped
<1>2. CASE SnapshotNext
  BY <1>2, SnapElsewhere, SnapApply, SnapAdvance, SnapRestore, SnapLocal, Zenon
  DEF SnapshotNext
<1> QED BY <1>1, <1>2, Zenon

LEMMA SnapInit == SnapshotInit => SnapInv
<1> SUFFICES ASSUME SnapshotInit PROVE SnapInv
  BY Zenon
<1>1. Init /\ ChainInv
  BY ChainInit, Zenon DEF SnapshotInit
<1>2. Base /\ RefInv /\ NoopsKeepDigest /\ ChainAgreement /\ FoldedApplied
  BY <1>1, Zenon DEF ChainInv
<1>3. Snapshots
  BY DEF SnapshotInit, Snapshots, NoLoad
<1>4. ASSUME NEW n \in Node PROVE KeepsChain(n) /\ Timed(n)
  <2>1. head[n] = chain[n]
    BY <1>1, Zenon DEF Init
  <2>2. KeepsChain(n)
    <3>1. ~loads[n].gap
      BY DEF SnapshotInit, NoLoad
    <3> QED BY <1>2, <2>1, <3>1, Zenon DEF KeepsChain, Right, ChainAgreement, FoldedApplied
  <2>3. /\ ts[n] = 0 /\ headAt[n] = 0 /\ at[n] = [k \in Key |-> 0]
        /\ snapshot[n] = NoSnapshot
    BY Zenon DEF SnapshotInit
  <2>4. Timed(n)
    BY <2>3 DEF Timed
  <2> QED BY <2>2, <2>4
<1> QED BY <1>2, <1>3, <1>4, Zenon DEF SnapInv

\* FSM.PostConstruct with a snapshot: no stream of the node's own replaces a later head,
\* and unless a head write was lost the head covers the snapshot, so a node that restarts
\* from its own snapshots, however often, goes on with the digest of the committed log.
\* After a lost write it does so as long as no restart finds the head behind the snapshot.
THEOREM OwnSnapshotKeepsChainHolds == SnapshotSpec => []OwnSnapshotKeepsChain
<1>1. SnapInv => OwnSnapshotKeepsChain
  <2> SUFFICES ASSUME SnapInv, NEW n \in Node, ~loads[n].remote
               PROVE  IF loads[n].gap THEN faults[n] > 0
                      ELSE \A c \in {chain[n], head[n]} : c.digest = Prefix(c.index).digest
    BY DEF OwnSnapshotKeepsChain
  <2>1. KeepsChain(n) /\ faults[n] \in Nat
    BY SnapTypes, Zenon DEF SnapInv, Own
  <2>2. ASSUME loads[n].gap PROVE faults[n] > 0
    <3>1. faults[n] # 0
      BY <2>1, <2>2, Zenon DEF KeepsChain
    <3> QED BY <2>1, <3>1
  <2>3. ASSUME ~loads[n].gap
        PROVE  \A c \in {chain[n], head[n]} : c.digest = Prefix(c.index).digest
    BY <2>1, <2>3, Zenon DEF KeepsChain, Right
  <2> QED BY <2>2, <2>3, Zenon
<1> QED BY SnapInit, SnapStep, <1>1, PTL DEF SnapshotSpec

-----------------------------------------------------------------------------
(***************************************************************************)
(* Joining by snapshot.  A bounded set of numbers has a largest member, so  *)
(* badger's oracle resumes at a real timestamp.                             *)
(***************************************************************************)
LEMMA Least ==
  ASSUME NEW T, T \subseteq Nat, T # {}
  PROVE  \E x \in T : \A y \in T : x <= y
<1> DEFINE R == OpToRel(<, Nat)
<1>1. IsWellFoundedOn(R, Nat)
  BY NatLessThanWellFounded, Zenon
<1> HIDE DEF R
<1>2. PICK x \in T : \A y \in T : ~ (<<y, x>> \in R)
  BY <1>1, WFMin, Zenon
<1>3. \A y \in Nat : y < x => <<y, x>> \in R
  BY <1>2 DEF R, OpToRel
<1>4. ASSUME NEW y \in T PROVE x <= y
  <2>1. x \in Nat /\ y \in Nat
    BY <1>2
  <2>2. ~(y < x)
    BY <1>2, <1>3, <2>1, Zenon
  <2> QED BY <2>1, <2>2
<1> QED BY <1>4, Zenon

LEMMA MaxBounded ==
  ASSUME NEW S, S \subseteq Nat, S # {}, NEW B \in Nat, \A y \in S : y <= B
  PROVE  Max(S) \in S /\ \A y \in S : y <= Max(S)
<1> DEFINE T == {u \in Nat : \A y \in S : y <= u}
<1>1. T \subseteq Nat /\ B \in T
  OBVIOUS
<1>2. PICK u \in T : \A v \in T : u <= v
  <2> HIDE DEF T
  <2>1. T # {}
    BY <1>1
  <2> QED BY <1>1, <2>1, Least, Zenon
<1>3. u \in S
  <2> SUFFICES ASSUME u \notin S PROVE FALSE
    OBVIOUS
  <2>1. PICK s \in S : TRUE
    BY Zenon
  <2>2. \A y \in S : y \in Nat /\ y <= u /\ y # u
    BY <1>2
  <2>3. u - 1 \in Nat /\ \A y \in S : y <= u - 1
    BY <1>2, <2>1, <2>2
  <2>4. u - 1 \in T
    BY <2>3
  <2> QED BY <1>2, <2>4
<1>4. \A y \in S : u >= y
  BY <1>2
<1>5. Max(S) \in S /\ \A y \in S : Max(S) >= y
  BY <1>3, <1>4, Zenon DEF Max
<1> QED BY <1>5

\* The keys outside a command's write set keep their envelope.
LEMMA OutsideWriteSet ==
  ASSUME NEW db \in Store, NEW cmd \in Command, NEW cv \in Nat \ {0}, NEW t \in Nat,
         NEW k \in Key, k \notin WriteSet(db, cmd)
  PROVE  Exec(db, cmd, cv, t)[k] = db[k]
<1>1. CASE cmd.op = "put"
  <2>1. Exec(db, cmd, cv, t) = Put(db, cmd, cv, t)
    BY <1>1, ExecCases
  <2>2. PutAccepted(db, cmd) => cmd.key # k
    BY <1>1 DEF WriteSet
  <2> QED BY <2>1, <2>2 DEF Put, Store
<1>2. CASE cmd.op = "touch"
  <2>1. Exec(db, cmd, cv, t) = Touch(db, cmd, cv, t)
    BY <1>2, ExecCases
  <2>2. TouchAccepted(db, cmd) => cmd.key # k
    BY <1>2 DEF WriteSet
  <2> QED BY <2>1, <2>2 DEF Touch, Store
<1>3. CASE cmd.op = "remove"
  <2>1. Exec(db, cmd, cv, t) = Remove(db, cmd)
    BY <1>3, ExecCases
  <2>2. cmd.key = NilKey \/ cmd.key # k
    BY <1>3 DEF WriteSet
  <2> QED BY <2>1, <2>2 DEF Remove, Store
<1>4. CASE cmd.op = "increment"
  <2>1. Exec(db, cmd, cv, t) = Increment(db, cmd, cv, t)
    BY <1>4, ExecCases
  <2>2. cmd.key = NilKey \/ cmd.key # k
    BY <1>4 DEF WriteSet
  <2> QED BY <2>1, <2>2, Zenon DEF Increment, Store
<1>5. CASE cmd.op = "batch"
  <2>1. Exec(db, cmd, cv, t) = SetBatch(db, cmd, cv, t)
    BY <1>5, ExecCases
  <2>2. ~(BatchAccepted(cmd.records) /\ WritesTo(cmd.records, k) # {})
    BY <1>5 DEF WriteSet
  <2>3. ~(/\ BatchAccepted(cmd.records)
          /\ \E i \in DOMAIN cmd.records : IsLastWrite(cmd.records, k, i))
    BY <2>2 DEF IsLastWrite
  <2> QED BY <2>1, <2>3, Zenon DEF SetBatch
<1>6. CASE cmd.op = "reclaim"
  <2>1. Exec(db, cmd, cv, t) = Reclaim(db, cmd)
    BY <1>6, ExecCases
  <2>2. ~Reclaims(db, cmd, k)
    BY <1>6 DEF WriteSet
  <2> QED BY <2>1, <2>2, Zenon DEF Reclaim
<1> QED BY <1>1, <1>2, <1>3, <1>4, <1>5, <1>6, CommandCases

-----------------------------------------------------------------------------
(***************************************************************************)
(* A node that joins replays what the backup already contains, so the       *)
(* requests are those replay is harmless for.  But a backup is persisted    *)
(* after the snapshot's index was fixed, and a sweep behind that index may  *)
(* be in it: then a put-if-absent that the log rejects would be accepted.   *)
(* Either no client sends one, or nothing expires.                          *)
(***************************************************************************)
TimelessRecord(r) == r.ttl = 0 /\ r.expiresAt = 0

Timeless ==
  \A r \in Requests :
    /\ r.op = "put" => TimelessRecord(r)
    /\ r.op = "batch" => \A i \in DOMAIN r.records : TimelessRecord(r.records[i])

Joinable == Replayable /\ (Unconditional \/ Timeless)

TimelessCommand(cmd) ==
  /\ cmd.op \in {"put", "batch", "remove"}
  /\ cmd.op = "put" => cmd.expiresAt = 0
  /\ cmd.op = "batch" => \A i \in DOMAIN cmd.records : cmd.records[i].expiresAt = 0

LEMMA StampTimeless ==
  ASSUME NEW r \in ClientRequest, ReplayableRequest(r), NEW now \in Nat,
         r.op = "put" => TimelessRecord(r),
         r.op = "batch" => \A i \in DOMAIN r.records : TimelessRecord(r.records[i])
  PROVE  TimelessCommand(Stamp(r, now))
<1>0. resolveExpiry(0, 0, now) = 0
  BY DEF resolveExpiry
<1>1. CASE r \in PutRequest
  <2>1. r.op = "put" /\ Stamp(r, now) = StampExpiry(r, now)
    BY <1>1 DEF Stamp, PutRequest
  <2>2. /\ StampExpiry(r, now).op = r.op
        /\ StampExpiry(r, now).expiresAt = resolveExpiry(r.ttl, r.expiresAt, now)
    BY <1>1 DEF StampExpiry, PutRequest
  <2> QED BY <1>0, <2>1, <2>2 DEF TimelessCommand, TimelessRecord
<1>2. CASE r \in RemoveRequest
  BY <1>2 DEF Stamp, RemoveRequest, TimelessCommand
<1>3. CASE r \in BatchRequest
  <2> DEFINE recs == [i \in DOMAIN r.records |-> StampExpiry(r.records[i], now)]
  <2>1. r.op = "batch" /\ r.records \in Seq(BatchRecord)
    BY <1>3 DEF BatchRequest
  <2>2. Stamp(r, now) = [r EXCEPT !.records = recs]
    BY <2>1 DEF Stamp
  <2>3. ASSUME NEW i \in DOMAIN recs PROVE recs[i].expiresAt = 0
    <3>1. r.records[i] \in BatchRecord /\ TimelessRecord(r.records[i])
      BY <2>1, SeqElement
    <3>2. StampExpiry(r.records[i], now).expiresAt = resolveExpiry(0, 0, now)
      BY <3>1 DEF StampExpiry, BatchRecord, TimelessRecord
    <3> QED BY <1>0, <3>2
  <2> HIDE DEF recs
  <2>4. Stamp(r, now).records = recs /\ Stamp(r, now).op = "batch"
    BY <1>3, <2>1, <2>2 DEF BatchRequest
  <2> QED BY <2>3, <2>4 DEF TimelessCommand
<1>4. r \in PutRequest \cup RemoveRequest \cup BatchRequest
  BY DEF ReplayableRequest, ClientRequest, TouchRequest, IncrementRequest
<1> QED BY <1>1, <1>2, <1>3, <1>4

LEMMA TimelessEffect ==
  ASSUME NEW cmd \in Command, TimelessCommand(cmd), NEW e, NEW k \in Key, NEW cv,
         WrittenBy(e, cmd, k, cv)
  PROVE  e.expiresAt = 0
<1>1. e.expiresAt = CommandedExpiry(cmd, k) /\ WritesKey(cmd, k)
  BY DEF WrittenBy
<1>2. CASE cmd.op # "batch"
  <2>1. cmd.op = "put"
    BY <1>1, <1>2 DEF WritesKey, TimelessCommand
  <2> QED BY <1>1, <2>1 DEF CommandedExpiry, TimelessCommand
<1>3. CASE cmd.op = "batch"
  <2> DEFINE S == WritesTo(cmd.records, k)
             Last(i) == IsLastWrite(cmd.records, k, i)
  <2>1. cmd.records \in Seq(BatchRecord)
    BY <1>3 DEF Command, ClientRequest, PutRequest, TouchRequest, RemoveRequest,
                IncrementRequest, BatchRequest, ReclaimRequest
  <2>2. /\ S # {} /\ S \subseteq DOMAIN cmd.records /\ S \subseteq Nat
        /\ Len(cmd.records) \in Nat /\ \A i \in S : i <= Len(cmd.records)
    BY <1>1, <1>3, <2>1 DEF WritesKey, WritesTo
  <2> HIDE DEF S
  <2>3. Max(S) \in S /\ \A i \in S : i <= Max(S)
    BY <2>2, MaxBounded, Zenon
  <2>4. Max(S) \in DOMAIN cmd.records /\ Last(Max(S))
    BY <2>2, <2>3, Zenon DEF IsLastWrite, S
  <2> HIDE DEF Last
  <2>5. (CHOOSE i \in DOMAIN cmd.records : Last(i)) \in DOMAIN cmd.records
    BY <2>4, Zenon
  <2>6. cmd.records[CHOOSE i \in DOMAIN cmd.records : Last(i)].expiresAt = 0
    BY <1>3, <2>5, Zenon DEF TimelessCommand
  <2> QED BY <1>1, <1>3, <2>6, Zenon DEF CommandedExpiry, Last
<1> QED BY <1>2, <1>3

\* When nothing expires, nothing is swept.
NoExpiry ==
  /\ \A i \in 1 .. Len(log) : log[i].cmd # Noop => TimelessCommand(log[i].cmd)
  /\ \A n \in Node :
       /\ sweep[n] = {}
       /\ \A k \in Key : store[n][k] # Absent => store[n][k].expiresAt = 0

LEMMA NoExpiryStep ==
  ASSUME Replayable, Timeless, Base, LogStamped, NoExpiry, [Next]_vars
  PROVE  NoExpiry'
<1>t. /\ commitIndex \in Nat /\ commitIndex \in 0 .. Len(log) /\ Len(log) \in Nat
      /\ store \in [Node -> Store] /\ sweep \in [Node -> SUBSET ReclaimEntry]
      /\ clock \in [Node -> Nat] /\ applied \in [Node -> 0 .. commitIndex]
  BY BaseTypes, Zenon
<1>1. \A n \in Node : ~ReclaimPropose(n)
  BY Zenon DEF NoExpiry, ReclaimPropose
<1>2. ASSUME NEW i \in 1 .. Len(log'), log'[i].cmd # Noop
      PROVE  TimelessCommand(log'[i].cmd)
  <2>1. CASE i \in 1 .. Len(log) /\ log'[i] = log[i]
    BY <1>2, <2>1, Zenon DEF NoExpiry
  <2>2. ASSUME NEW n \in Node, NEW r \in Requests, log'[i].cmd = Stamp(r, clock[n])
        PROVE  TimelessCommand(log'[i].cmd)
    <3>1. /\ clock[n] \in Nat /\ r \in ClientRequest /\ ReplayableRequest(r)
          /\ r.op = "put" => TimelessRecord(r)
          /\ r.op = "batch" => \A j \in DOMAIN r.records : TimelessRecord(r.records[j])
      BY <1>t, ReplicationAssumption, Zenon DEF Replayable, Timeless
    <3> QED BY <2>2, <3>1, StampTimeless, Zenon
  <2>3. ASSUME NEW n \in Node, log'[i].cmd = [op |-> "reclaim", entries |-> sweep[n]]
        PROVE  i \in 1 .. Len(log) /\ log'[i] = log[i]
    <3>1. CASE log' = log
      BY <3>1, Zenon
    <3>2. CASE \E m \in Node, r \in Requests : Propose(m, r)
      <4>1. PICK m \in Node, r \in Requests : Propose(m, r)
        BY <3>2
      <4> DEFINE c == Stamp(r, clock[m])
                 e == [term |-> term, cmd |-> c]
      <4>2. clock[m] \in Nat /\ r \in ClientRequest /\ ReplayableRequest(r)
        BY <1>t, ReplicationAssumption, Zenon DEF Replayable
      <4>3. c \in Command /\ c.op # "reclaim"
        <5>1. c \in ClientRequest /\ ReplayableRequest(c)
          BY <4>2, StampFacts, StampReplayable, Zenon
        <5> HIDE DEF c
        <5> QED BY <5>1 DEF Command, ReplayableRequest
      <4>4. log' = Append(log, e)
        BY <4>1, Zenon DEF Propose, applyCommand
      <4> HIDE DEF c
      <4>5. e \in Entry /\ e.cmd = c /\ log \in Seq(Entry)
        BY <4>3, BaseTypes DEF Entry
      <4> HIDE DEF e
      <4>6. /\ Len(log') = Len(log) + 1
            /\ \A j \in 1 .. Len(log) : log'[j] = log[j]
            /\ log'[Len(log) + 1] = e
        BY <4>4, <4>5, AppendFacts
      <4>7. i \in 1 .. Len(log) \/ i = Len(log) + 1
        BY <1>t, <4>6
      <4>8. log'[i].cmd.op = "reclaim"
        BY <2>3
      <4> QED BY <4>3, <4>5, <4>6, <4>7, <4>8, Zenon
    <3>3. CASE \E m \in Node : LeaderElected(m)
      <4>1. PICK m \in Node : LeaderElected(m)
        BY <3>3
      <4> DEFINE e == [term |-> term + 1, cmd |-> Noop]
      <4>2. PICK keep \in commitIndex .. Len(log) : log' = Append(SubSeq(log, 1, keep), e)
        BY <4>1, Zenon DEF LeaderElected
      <4>3. e \in Entry /\ e.cmd = Noop /\ log \in Seq(Entry)
        <5>1. term \in Nat /\ log \in Seq(Entry)
          BY BaseTypes, Zenon
        <5> QED BY <5>1 DEF Entry
      <4> HIDE DEF e
      <4>4. keep \in 0 .. Len(log)
        BY <1>t, <4>2
      <4>5. /\ SubSeq(log, 1, keep) \in Seq(Entry)
            /\ Len(SubSeq(log, 1, keep)) = keep
            /\ \A j \in 1 .. keep : SubSeq(log, 1, keep)[j] = log[j]
        BY <4>3, <4>4, TruncateFacts
      <4>6. /\ Len(log') = keep + 1
            /\ \A j \in 1 .. keep : log'[j] = log[j]
            /\ log'[keep + 1] = e
        BY <4>2, <4>3, <4>5, AppendFacts
      <4>7. i \in 1 .. keep \/ i = keep + 1
        BY <4>4, <4>6
      <4>8. i \in 1 .. keep => i \in 1 .. Len(log)
        BY <4>4
      <4> QED BY <1>2, <4>3, <4>6, <4>7, <4>8, Zenon
    <3> QED BY <1>1, <3>1, <3>2, <3>3, Zenon
            DEF Next, Commit, advanceChain, Apply, SkipNoop, Restart, Tick, ReclaimScan,
                ReclaimAbandon, vars, raftVars
  <2> QED BY <1>2, <2>1, <2>2, <2>3, NewEntries, Zenon
<1>3. \A n \in Node : sweep'[n] = {}
  <2>1. ASSUME NEW n \in Node PROVE ~ReclaimScan(n)
    <3> SUFFICES ASSUME ReclaimScan(n) PROVE FALSE
      OBVIOUS
    <3>1. PICK found \in ScanExpired(store[n], clock[n], Limit) : found # {}
      BY Zenon DEF ReclaimScan
    <3>2. PICK e \in found : TRUE
      BY <3>1
    <3>3. store[n] \in Store
      BY <1>t, Zenon
    <3>4. /\ e \in ReclaimEntry /\ store[n][e.key] # Absent
          /\ IsExpired(store[n][e.key].expiresAt, clock[n])
      BY <3>2, <3>3, ScanExpiredType
    <3>5. e.key \in Key
      BY <3>4 DEF ReclaimEntry
    <3>6. store[n][e.key].expiresAt = 0
      BY <3>4, <3>5, Zenon DEF NoExpiry
    <3> QED BY <3>4, <3>6 DEF IsExpired
  <2>2. sweep' = sweep \/ \E n \in Node : sweep' = [sweep EXCEPT ![n] = {}]
    BY <1>1, <2>1, Zenon
    DEF Next, Commit, LeaderElected, Propose, advanceChain, Apply, SkipNoop, Restart, Tick,
        ReclaimAbandon, vars
  <2> QED BY <1>t, <2>2, Zenon DEF NoExpiry
<1>4. ASSUME NEW n \in Node, NEW k \in Key, store'[n][k] # Absent
      PROVE  store'[n][k].expiresAt = 0
  <2>1. CASE store' = store
    BY <1>4, <2>1, Zenon DEF NoExpiry
  <2>2. ASSUME NEW m \in Node, Apply(m), store' # store PROVE store'[n][k].expiresAt = 0
    <3> DEFINE i == applied[m] + 1
               new == Exec(store[m], log[i].cmd, i, clock[m])
    <3>1. pc[m] = "chained" /\ store' = [store EXCEPT ![m] = new]
      BY <2>2, Zenon DEF Apply, NextEntry
    <3>2. applied[m] < commitIndex /\ NextEntry(m).cmd # Noop
      BY <3>1, Zenon DEF Base, Chained
    <3>3. log[i].cmd \in Command /\ log[i].cmd # Noop /\ i \in 1 .. commitIndex
      BY <3>2, NextEntryType, Zenon DEF NextEntry
    <3>4. i \in Nat \ {0} /\ i \in 1 .. Len(log)
      BY <1>t, <3>3
    <3> HIDE DEF i
    <3>5. Stamped(log[i].cmd) /\ TimelessCommand(log[i].cmd)
      BY <3>3, <3>4, Zenon DEF LogStamped, NoExpiry
    <3>6. store[m] \in Store /\ clock[m] \in Nat
      BY <1>t, Zenon
    <3>7. \/ new[k] = store[m][k] \/ new[k] = Absent
          \/ WrittenBy(new[k], log[i].cmd, k, i)
      BY <3>3, <3>4, <3>5, <3>6, ExecEffect, Zenon
    <3> HIDE DEF new
    <3>8. store'[n] = store[n] \/ store'[n] = new
      BY <1>t, <3>1, Zenon
    <3>9. new[k] # Absent => new[k].expiresAt = 0
      <4>1. store[m][k] # Absent => store[m][k].expiresAt = 0
        BY Zenon DEF NoExpiry
      <4>2. WrittenBy(new[k], log[i].cmd, k, i) => new[k].expiresAt = 0
        BY <3>3, <3>5, TimelessEffect, Zenon
      <4> QED BY <3>7, <4>1, <4>2, Zenon
    <3> QED BY <1>4, <3>8, <3>9, Zenon DEF NoExpiry
  <2> QED BY <2>1, <2>2, Zenon
      DEF Next, Commit, LeaderElected, Propose, advanceChain, SkipNoop, Restart, Tick,
          ReclaimScan, ReclaimPropose, ReclaimAbandon, vars, fsmVars
<1> QED BY <1>2, <1>3, <1>4, Zenon DEF NoExpiry

\* A backup that is taken for an index behind what it contains: it is in step
\* with the history from that index on.
LEMMA FollowsBack ==
  ASSUME LogHistory, Unconditional \/ NoExpiry,
         NEW a \in 0 .. commitIndex, NEW i \in 0 .. a, NEW top \in a .. commitIndex,
         NEW e, NEW k \in Key, Follows(e, k, a, top)
  PROVE  Follows(e, k, i, top)
<1> DEFINE f == ref[i + 1].store[k]
<1>0. commitIndex \in Nat /\ commitIndex \in 0 .. Len(log) /\ Len(log) \in Nat
  BY BaseTypes, Zenon DEF LogHistory
<1>1. /\ \A j \in a + 1 .. top : j \in i + 1 .. top
      /\ \A j \in i + 1 .. a : j \in i + 1 .. top /\ j \in 1 .. Len(log)
      /\ i \in 0 .. commitIndex
  BY <1>0
<1>2. ASSUME f # Absent
      PROVE  \/ ref[a + 1].store[k] = f
             \/ \E j \in i + 1 .. top : Overwrites(log[j].cmd, k)
             \/ Unconditional /\ \E j \in i + 1 .. top : Sweeps(log[j].cmd, k, f.version)
  <2>1. \/ Prefix(a).store[k] = Prefix(i).store[k] \/ Pending(k, i, a) \/ Swept(k, i, a)
    BY <1>2, Zenon DEF LogHistory, RefLasting, Prefix
  <2>2. ASSUME NoExpiry, NEW j \in 1 .. Len(log), NEW v PROVE ~Sweeps(log[j].cmd, k, v)
    <3>1. log[j].cmd # Noop => log[j].cmd.op \in {"put", "batch", "remove"}
      BY <2>2, Zenon DEF NoExpiry, TimelessCommand
    <3> QED BY <3>1 DEF Sweeps, Noop
  <2> QED BY <1>1, <2>1, <2>2, Zenon DEF Pending, Swept, Prefix
<1>3. CASE e # Absent /\ e = ref[a + 1].store[k]
  <2> DEFINE w == e.version
  <2>1. Since(k, a, w)
    BY <1>3, Zenon DEF LogHistory, RefSettled, Prefix
  <2>2. w \in 1 .. a /\ \A j \in w .. a : ref[j + 1].store[k] = e
    BY <1>3, <2>1, Zenon DEF Since, Prefix
  <2> HIDE DEF w
  <2>3. i \in w .. a \/ (w \in i + 1 .. top /\ w \in w .. a)
    BY <1>0, <2>2
  <2> QED BY <1>3, <2>2, <2>3, Zenon DEF Follows, FollowsIn, w
<1>4. CASE e = Absent
  <2>1. CASE f = Absent
    BY <1>4, <2>1, Zenon DEF Follows, FollowsIn
  <2>2. CASE f # Absent
    <3>1. \/ e = ref[a + 1].store[k]
          \/ \E j \in a + 1 .. top : Overwrites(log[j].cmd, k)
          \/ /\ Unconditional
             /\ \E j \in a + 1 .. top : Sweeps(log[j].cmd, k, ref[a + 1].store[k].version)
      BY <1>4, Zenon DEF Follows, FollowsIn
    <3>2. ref[a + 1].store[k] = f => e # ref[a + 1].store[k]
      BY <1>4, <2>2
    <3> QED BY <1>1, <1>2, <1>4, <2>2, <3>1, <3>2, Zenon DEF Follows, FollowsIn
  <2> QED BY <2>1, <2>2
<1>5. CASE e # Absent /\ e # ref[a + 1].store[k]
  BY <1>1, <1>5, Zenon DEF Follows, FollowsIn
<1> QED BY <1>3, <1>4, <1>5

(***************************************************************************)
(* What a backup is worth, given the history it is read against.  Its       *)
(* timestamps are bounded, a key without one has no record, and unless its  *)
(* store was loaded over another one it is in step with the history.        *)
(***************************************************************************)
UnstampedAbsent(at1, db) == \A k \in Key : at1[k] = 0 => db[k] = Absent

CompleteIn(lg, rf, c, b) ==
  /\ b.headAt \in Nat /\ \A k \in Key : b.at[k] \in Nat
  /\ \E B \in Nat : b.headAt <= B /\ \A k \in Key : b.at[k] <= B
  /\ UnstampedAbsent(b.at, b.store)
  /\ \A k \in Key : b.store[k] # Absent =>
       /\ b.store[k].version \in 0 .. c
       /\ Timeless => b.store[k].expiresAt = 0
  /\ b.through \in 0 .. c /\ b.index \in 0 .. b.through
  /\ ~b.stale => \A k \in Key : FollowsIn(lg, rf, b.store[k], k, b.index, b.through)

Dated(n) ==
  /\ ts[n] \in Nat /\ headAt[n] \in 0 .. ts[n]
  /\ DOMAIN at[n] = Key /\ \A k \in Key : at[n][k] \in 0 .. ts[n]
  /\ UnstampedAbsent(at[n], store[n])

Caught(n) ==
  /\ loads[n].through \in 0 .. commitIndex
  /\ ~loads[n].stale => \A k \in Key :
       FollowsIn(log, ref, store[n][k], k, applied[n], loads[n].through)

Joining(n) ==
  /\ Dated(n) /\ Caught(n)
  /\ snapshot[n] # NoSnapshot => CompleteIn(log, ref, commitIndex, snapshot[n])

Well == \A m \in Node : crashes[m] = 0 /\ faults[m] = 0

Joined == /\ LogHistory /\ VersionsCommitted /\ (Timeless => NoExpiry)
          /\ \A n \in Node : Joining(n)

JoinInv == SnapInv /\ (Well => Joined)

LEMMA CompleteKept ==
  ASSUME NEW lg, NEW lg2, NEW rf, NEW rf2, NEW c \in Nat, NEW c2 \in Nat, c <= c2,
         \A i \in 1 .. c : lg2[i] = lg[i], \A i \in 1 .. c + 1 : rf2[i] = rf[i],
         NEW b, CompleteIn(lg, rf, c, b)
  PROVE  CompleteIn(lg2, rf2, c2, b)
<1>1. b.through \in 0 .. c /\ b.index \in 0 .. b.through
  BY Zenon DEF CompleteIn
<1>2. 0 .. c \subseteq 0 .. c2 /\ b.index \in 0 .. c /\ b.through <= b.through
  BY <1>1
<1>s. ASSUME NEW e, NEW k, NEW a \in 0 .. c, NEW top \in 0 .. c, top <= top,
             FollowsIn(lg, rf, e, k, a, top)
      PROVE  FollowsIn(lg2, rf2, e, k, a, top)
  BY <1>s, FollowsStable, Zenon
<1>3. ASSUME ~b.stale, NEW k \in Key
      PROVE  FollowsIn(lg2, rf2, b.store[k], k, b.index, b.through)
  <2>1. FollowsIn(lg, rf, b.store[k], k, b.index, b.through)
    BY <1>3, Zenon DEF CompleteIn
  <2> QED BY <1>1, <1>2, <1>s, <2>1, Zenon
<1> QED BY <1>2, <1>3, Zenon DEF CompleteIn

\* The history goes on while a node stays where it is.
LEMMA CaughtKept ==
  ASSUME SnapInv, History, NEW n \in Node, Caught(n),
         store'[n] = store[n], applied'[n] = applied[n], loads'[n] = loads[n]
  PROVE  Caught(n)'
<1>0. commitIndex \in Nat /\ commitIndex' \in Nat /\ commitIndex <= commitIndex'
      /\ applied[n] \in 0 .. commitIndex /\ loads[n].through \in 0 .. commitIndex
  BY SnapTypes, Zenon DEF History, Caught
<1>1. loads[n].through \in 0 .. commitIndex' /\ loads[n].through <= loads[n].through
  BY <1>0
<1>h. /\ \A i \in 1 .. commitIndex : log'[i] = log[i]
      /\ \A i \in 1 .. commitIndex + 1 : ref'[i] = ref[i]
  BY Zenon DEF History
<1>s. ASSUME NEW e, NEW k, NEW a \in 0 .. commitIndex, NEW top \in 0 .. commitIndex,
             top <= top, FollowsIn(log, ref, e, k, a, top)
      PROVE  FollowsIn(log', ref', e, k, a, top)
  BY <1>0, <1>h, <1>s, FollowsStable, Zenon
<1>2. ASSUME ~loads[n].stale, NEW k \in Key
      PROVE  FollowsIn(log', ref', store[n][k], k, applied[n], loads[n].through)
  <2>1. FollowsIn(log, ref, store[n][k], k, applied[n], loads[n].through)
    BY <1>2, Zenon DEF Caught
  <2> QED BY <1>0, <1>1, <1>s, <2>1, Zenon
<1> QED BY <1>1, <1>2, Zenon DEF Caught

LEMMA BackupKept ==
  ASSUME SnapInv, History, NEW n \in Node,
         snapshot[n] # NoSnapshot => CompleteIn(log, ref, commitIndex, snapshot[n]),
         snapshot'[n] = snapshot[n]
  PROVE  snapshot'[n] # NoSnapshot => CompleteIn(log', ref', commitIndex', snapshot'[n])
<1>1. /\ commitIndex \in Nat /\ commitIndex' \in Nat /\ commitIndex <= commitIndex'
      /\ \A i \in 1 .. commitIndex : log'[i] = log[i]
      /\ \A i \in 1 .. commitIndex + 1 : ref'[i] = ref[i]
  BY Zenon DEF History
<1>2. ASSUME snapshot[n] # NoSnapshot
      PROVE  CompleteIn(log', ref', commitIndex', snapshot[n])
  BY <1>1, <1>2, CompleteKept, Zenon
<1> QED BY <1>2, Zenon

LEMMA JoiningKept ==
  ASSUME SnapInv, History, NEW n \in Node, Joining(n),
         store'[n] = store[n], applied'[n] = applied[n], loads'[n] = loads[n],
         ts'[n] = ts[n], at'[n] = at[n], headAt'[n] = headAt[n],
         snapshot'[n] = snapshot[n]
  PROVE  Joining(n)'
<1>1. Dated(n)'
  BY Zenon DEF Joining, Dated, UnstampedAbsent
<1>2. Caught(n)'
  BY CaughtKept, Zenon DEF Joining
<1>3. snapshot'[n] # NoSnapshot => CompleteIn(log', ref', commitIndex', snapshot'[n])
  BY BackupKept, Zenon DEF Joining
<1> QED BY <1>1, <1>2, <1>3, Zenon DEF Joining

\* A cluster without a fault had none before.
LEMMA WellBefore ==
  ASSUME SnapInv, [SnapshotNext]_svars, Well'
  PROVE  Well /\ faults' = faults /\ \A n \in Node : ~RestartFromSnapshot(n)
<1>t. faults \in [Node -> Nat] /\ crashes \in [Node -> Nat]
  BY BaseTypes, Zenon DEF SnapInv
<1>1. ASSUME NEW n \in Node PROVE ~RestartFromSnapshot(n)
  <2> SUFFICES ASSUME RestartFromSnapshot(n) PROVE FALSE
    OBVIOUS
  <2>1. crashes' = [crashes EXCEPT ![n] = @ + 1]
    BY Zenon DEF RestartFromSnapshot
  <2>2. crashes'[n] # 0
    BY <1>t, <2>1
  <2> QED BY <2>2, Zenon DEF Well
<1>2. ASSUME NEW n \in Node PROVE faults' # [faults EXCEPT ![n] = @ + 1]
  <2> SUFFICES ASSUME faults' = [faults EXCEPT ![n] = @ + 1] PROVE FALSE
    OBVIOUS
  <2>1. faults'[n] # 0
    BY <1>t
  <2> QED BY <2>1, Zenon DEF Well
<1>3. ASSUME NEW n \in Node, StampedAdvanceChain(n) \/ StampedApply(n)
      PROVE  crashes' = crashes /\ faults' = faults
  BY <1>2, <1>3, Zenon DEF StampedAdvanceChain, StampedApply, advanceChain, Apply
<1>4. ASSUME NEW n \in Node,
             \/ FsmSnapshot(n) \/ Persist(n) \/ InstallSnapshot(n)
             \/ \E k \in Key : Compact(n, k)
      PROVE  crashes' = crashes /\ faults' = faults
  BY <1>4, Zenon DEF FsmSnapshot, Persist, InstallSnapshot, Compact, vars, envVars
<1>7. crashes' = crashes /\ faults' = faults
  <2>1. CASE Elsewhere
    BY <2>1, Zenon DEF Elsewhere, Commit, LeaderElected, Propose, SkipNoop, Tick,
                       ReclaimScan, ReclaimPropose, ReclaimAbandon, envVars
  <2>2. CASE UNCHANGED svars
    BY <2>2, Zenon DEF svars, vars, envVars
  <2> QED BY <1>1, <1>3, <1>4, <2>1, <2>2, Zenon DEF SnapshotNext
<1>8. Well
  BY <1>7, Zenon DEF Well
<1> QED BY <1>1, <1>7, <1>8, Zenon

\* The write path, apart from the FSM's transactions.
LEMMA JoinElsewhere ==
  ASSUME SnapInv, Joined, Elsewhere, NEW n \in Node
  PROVE  Joining(n)'
<1>0. /\ History /\ Domains /\ applied \in [Node -> 0 .. commitIndex] /\ commitIndex \in Nat
      /\ LogHistory /\ Joining(n)
  BY ElsewhereIsNext, WritePathCore, SnapParts, SnapTypes, Zenon DEF Joined
<1>1. /\ ts' = ts /\ at' = at /\ headAt' = headAt
      /\ taking' = taking /\ snapshot' = snapshot /\ loads' = loads
  BY Zenon DEF Elsewhere, badgerVars, snapVars
<1>2. store' = store /\ (applied' = applied \/ \E m \in Node : SkipNoop(m))
  BY Zenon DEF Elsewhere, Commit, LeaderElected, Propose, SkipNoop, Tick, ReclaimScan,
               ReclaimPropose, ReclaimAbandon, fsmVars
<1>3. CASE applied'[n] = applied[n]
  BY <1>0, <1>1, <1>2, <1>3, JoiningKept, Zenon
<1>4. CASE SkipNoop(n)
  <2> DEFINE i == applied[n] + 1
  <2>1. /\ applied' = [applied EXCEPT ![n] = i] /\ log' = log /\ ref' = ref
        /\ commitIndex' = commitIndex /\ applied[n] < commitIndex /\ log[i].cmd = Noop
    BY <1>4, Zenon DEF SkipNoop, FsmReady, NextEntry, raftVars
  <2>2. applied[n] \in 0 .. commitIndex
    BY <1>0, Zenon
  <2>3. i \in 1 .. commitIndex /\ i - 1 = applied[n]
    BY <1>0, <2>1, <2>2
  <2>4. applied'[n] = i
    BY <1>0, <2>1, Zenon
  <2> HIDE DEF i
  <2>5. Caught(n)
    BY <1>0, Zenon DEF Joining
  <2>6. loads[n].through \in 0 .. commitIndex
    BY <2>5, Zenon DEF Caught
  <2>7. ASSUME ~loads[n].stale, NEW k \in Key
        PROVE  FollowsIn(log, ref, store[n][k], k, i, loads[n].through)
    <3>1. Follows(store[n][k], k, i - 1, loads[n].through)
      BY <2>3, <2>5, <2>7, Zenon DEF Caught, Follows
    <3>2. Follows(store[n][k], k, i, loads[n].through)
      BY <1>0, <2>1, <2>3, <2>6, <3>1, FollowsNoop, Zenon
    <3> QED BY <3>2, Zenon DEF Follows
  <2>8. Caught(n)'
    BY <1>1, <1>2, <2>1, <2>4, <2>6, <2>7, Zenon DEF Caught
  <2>9. Dated(n)'
    BY <1>0, <1>1, <1>2, Zenon DEF Joining, Dated, UnstampedAbsent
  <2> QED BY <1>0, <1>1, <2>1, <2>8, <2>9, Zenon DEF Joining
<1>5. ASSUME NEW m \in Node, m # n, SkipNoop(m) PROVE applied'[n] = applied[n]
  BY <1>0, <1>5, Zenon DEF SkipNoop
<1> QED BY <1>2, <1>3, <1>4, <1>5, Zenon

\* FSM.Apply's transaction.
LEMMA JoinApply ==
  ASSUME SnapInv, Joined, NEW n \in Node, StampedApply(n), faults' = faults
  PROVE  Joining(n)'
<1> DEFINE i == applied[n] + 1
           cmd == log[i].cmd
           K == WriteSet(store[n], cmd)
           new == Exec(store[n], cmd, i, clock[n])
<1>0. /\ Domains /\ applied \in [Node -> 0 .. commitIndex] /\ commitIndex \in Nat
      /\ store \in [Node -> Store] /\ store[n] \in Store /\ applied[n] \in 0 .. commitIndex
      /\ LogHistory /\ Base /\ Dated(n) /\ Caught(n)
      /\ snapshot[n] # NoSnapshot => CompleteIn(log, ref, commitIndex, snapshot[n])
  BY SnapParts, SnapTypes, Zenon DEF Joined, Joining, LogHistory
<1>1. clock[n] \in Nat
  BY <1>0, BaseTypes, Zenon
<1>2. faults' # [faults EXCEPT ![n] = @ + 1]
  <2>1. faults \in [Node -> Nat]
    BY SnapTypes, Zenon
  <2> QED BY <2>1
<1>3. /\ pc[n] = "chained" /\ store' = [store EXCEPT ![n] = new]
      /\ applied' = [applied EXCEPT ![n] = i]
      /\ log' = log /\ ref' = ref /\ commitIndex' = commitIndex
      /\ headAt' = headAt /\ snapshot' = snapshot /\ loads' = loads
  BY <1>2, Zenon DEF StampedApply, Apply, NextEntry, raftVars, snapVars
<1>4. /\ ts' = [ts EXCEPT ![n] = IF K = {} THEN @ ELSE @ + 1]
      /\ at' = [at EXCEPT ![n] = [k \in Key |-> IF k \in K THEN ts[n] + 1 ELSE @[k]]]
  BY Zenon DEF StampedApply, NextEntry
<1>5. applied[n] < commitIndex /\ NextEntry(n).cmd # Noop
  BY <1>0, <1>3, Zenon DEF Base, Chained
<1>6. cmd \in Command /\ cmd # Noop
  BY <1>0, <1>5, NextEntryType, Zenon DEF NextEntry
<1>7. i \in 1 .. commitIndex /\ i \in Nat \ {0} /\ i - 1 = applied[n]
  BY <1>0, <1>5
<1>8. applied'[n] = i /\ store'[n] = new
  BY <1>0, <1>3, Zenon
<1>9. ASSUME NEW k \in Key, k \notin K PROVE new[k] = store[n][k]
  <2>1. /\ store[n] \in Store /\ cmd \in Command /\ i \in Nat \ {0} /\ clock[n] \in Nat
        /\ k \notin WriteSet(store[n], cmd)
    BY <1>0, <1>1, <1>6, <1>7, <1>9, Zenon
  <2> HIDE DEF cmd, i
  <2> QED BY <2>1, OutsideWriteSet
<1>10. /\ ts'[n] = IF K = {} THEN ts[n] ELSE ts[n] + 1
       /\ at'[n] = [k \in Key |-> IF k \in K THEN ts[n] + 1 ELSE at[n][k]]
  <2> HIDE DEF K
  <2> QED BY <1>0, <1>4, Zenon DEF Domains
<1>11. Dated(n)'
  <2> HIDE DEF K, new, i
  <2>1. /\ ts[n] \in Nat /\ headAt[n] \in 0 .. ts[n]
        /\ \A k \in Key : at[n][k] \in 0 .. ts[n]
        /\ \A k \in Key : at[n][k] = 0 => store[n][k] = Absent
    BY <1>0, Zenon DEF Dated, UnstampedAbsent
  <2>2. ts'[n] \in Nat /\ headAt[n] \in 0 .. ts'[n] /\ 0 .. ts[n] \subseteq 0 .. ts'[n]
        /\ ts[n] + 1 # 0
    BY <1>10, <2>1
  <2>3. \A k \in Key : k \in K => ts[n] + 1 \in 0 .. ts'[n]
    BY <1>10, <2>1
  <2>4. DOMAIN at'[n] = Key /\ \A k \in Key : at'[n][k] \in 0 .. ts'[n]
    BY <1>10, <2>1, <2>2, <2>3, Zenon
  <2>5. \A k \in Key : at'[n][k] = 0 => store'[n][k] = Absent
    BY <1>8, <1>9, <1>10, <2>1, <2>2, Zenon
  <2> QED BY <1>3, <2>2, <2>4, <2>5, Zenon DEF Dated, UnstampedAbsent
<1>12. Caught(n)'
  <2>1. loads[n].through \in 0 .. commitIndex
    BY <1>0, Zenon DEF Caught
  <2>2. ASSUME ~loads[n].stale, NEW k \in Key
        PROVE  FollowsIn(log, ref, new[k], k, i, loads[n].through)
    <3> HIDE DEF i
    <3>1. Follows(store[n][k], k, i - 1, loads[n].through)
      BY <1>0, <1>7, <2>2, Zenon DEF Caught, Follows
    <3>2. Follows(Exec(store[n], log[i].cmd, i, clock[n])[k], k, i, loads[n].through)
      BY <1>0, <1>1, <1>6, <1>7, <2>1, <3>1, FollowsStep, Zenon
    <3> QED BY <3>2, Zenon DEF Follows
  <2> HIDE DEF new, i
  <2> QED BY <1>3, <1>8, <2>1, <2>2, Zenon DEF Caught
<1> HIDE DEF i, new
<1> QED BY <1>0, <1>3, <1>11, <1>12, Zenon DEF Joining

\* StoreHead's transaction.
LEMMA JoinAdvance ==
  ASSUME SnapInv, Joined, NEW n \in Node, StampedAdvanceChain(n), faults' = faults
  PROVE  Joining(n)'
<1>0. Domains /\ Dated(n) /\ Joining(n)
  BY SnapParts, Zenon DEF Joined, Joining
<1>1. /\ store' = store /\ applied' = applied /\ at' = at /\ log' = log /\ ref' = ref
      /\ commitIndex' = commitIndex /\ snapshot' = snapshot /\ loads' = loads
      /\ ts' = [ts EXCEPT ![n] = @ + 1] /\ headAt' = [headAt EXCEPT ![n] = ts[n] + 1]
  BY Zenon DEF StampedAdvanceChain, advanceChain, raftVars, snapVars
<1>2. ts'[n] = ts[n] + 1 /\ headAt'[n] = ts[n] + 1
  BY <1>0, <1>1, Zenon DEF Domains
<1>3. ts'[n] \in Nat /\ headAt'[n] \in 0 .. ts'[n] /\ 0 .. ts[n] \subseteq 0 .. ts'[n]
  BY <1>0, <1>2 DEF Dated
<1>4. Dated(n)'
  BY <1>0, <1>1, <1>3, Zenon DEF Dated, UnstampedAbsent
<1> QED BY <1>0, <1>1, <1>4, Zenon DEF Joining, Caught

\* Persist: the backup is in step with the history from its index on.
LEMMA JoinPersist ==
  ASSUME Joinable, SnapInv, Joined, NEW n \in Node, Persist(n)
  PROVE  Joining(n)'
<1> DEFINE top == Max({applied[n], loads[n].through})
           b == [index |-> taking[n], through |-> top, store |-> store[n], at |-> at[n],
                 head |-> head[n], headAt |-> headAt[n], stale |-> loads[n].stale]
<1>0. /\ Domains /\ Snapped(n) /\ applied[n] \in Nat /\ applied[n] <= commitIndex
      /\ commitIndex \in Nat /\ store[n] \in Store
      /\ LogHistory /\ VersionsCommitted /\ (Timeless => NoExpiry)
      /\ Dated(n) /\ Caught(n) /\ Joining(n)
  BY SnapParts, SnapTypes, Zenon DEF Fine, Joined, Joining
<1>1. /\ taking[n] # NoSnapshot /\ snapshot' = [snapshot EXCEPT ![n] = b]
      /\ store' = store /\ applied' = applied /\ ts' = ts /\ at' = at
      /\ headAt' = headAt /\ loads' = loads
      /\ log' = log /\ commitIndex' = commitIndex /\ ref' = ref
  BY Zenon DEF Persist, vars, raftVars, fsmVars, badgerVars
<1>2. /\ taking[n] \in 0 .. applied[n] /\ loads[n].through \in 0 .. commitIndex
      /\ applied[n] \in 0 .. commitIndex
  <2>1. taking[n] \in 0 .. applied[n] /\ loads[n].through \in 0 .. commitIndex
    BY <1>0, <1>1, Zenon DEF Snapped, Caught
  <2> QED BY <1>0, <2>1
<1>3. /\ top \in 0 .. commitIndex /\ applied[n] <= top /\ loads[n].through <= top
  <2> DEFINE S == {applied[n], loads[n].through}
  <2>1. S \subseteq Nat /\ S # {} /\ \A y \in S : y <= commitIndex
    BY <1>0, <1>2
  <2>2. applied[n] \in S /\ loads[n].through \in S
    OBVIOUS
  <2> HIDE DEF S
  <2>3. Max(S) \in S /\ \A y \in S : y <= Max(S)
    BY <1>0, <2>1, MaxBounded, Zenon
  <2>4. /\ Max(S) \in Nat /\ Max(S) <= commitIndex
        /\ applied[n] <= Max(S) /\ loads[n].through <= Max(S)
    BY <2>1, <2>2, <2>3, Zenon
  <2>5. Max(S) \in 0 .. commitIndex
    BY <1>0, <2>4
  <2> QED BY <2>4, <2>5, Zenon DEF S
<1> HIDE DEF top
<1>4. ASSUME ~loads[n].stale, NEW k \in Key
      PROVE  FollowsIn(log, ref, store[n][k], k, taking[n], top)
  <2>1. FollowsIn(log, ref, store[n][k], k, applied[n], loads[n].through)
    BY <1>0, <1>4, Zenon DEF Caught
  <2>2. /\ \A j \in 1 .. commitIndex : log[j] = log[j]
        /\ \A j \in 1 .. commitIndex + 1 : ref[j] = ref[j]
    OBVIOUS
  <2>s. ASSUME NEW e, NEW a \in 0 .. commitIndex, NEW t1 \in 0 .. commitIndex,
               NEW t2 \in 0 .. commitIndex, t1 <= t2, FollowsIn(log, ref, e, k, a, t1)
        PROVE  FollowsIn(log, ref, e, k, a, t2)
    BY <1>0, <2>2, <2>s, FollowsStable, Zenon
  <2>3. Follows(store[n][k], k, applied[n], top)
    BY <1>2, <1>3, <2>1, <2>s, Zenon DEF Follows
  <2>4. top \in applied[n] .. commitIndex
    BY <1>0, <1>3
  <2>5. Unconditional \/ NoExpiry
    BY <1>0, Zenon DEF Joinable
  <2>6. Follows(store[n][k], k, taking[n], top)
    BY <1>0, <1>2, <2>3, <2>4, <2>5, FollowsBack, Zenon
  <2> QED BY <2>6, Zenon DEF Follows
<1>5. /\ b.index = taking[n] /\ b.through = top /\ b.store = store[n] /\ b.at = at[n]
      /\ b.headAt = headAt[n] /\ b.stale = loads[n].stale
  OBVIOUS
<1> HIDE DEF b
<1>6. CompleteIn(log, ref, commitIndex, b)
  <2>1. /\ ts[n] \in Nat /\ headAt[n] \in 0 .. ts[n]
        /\ \A k \in Key : at[n][k] \in 0 .. ts[n]
        /\ UnstampedAbsent(at[n], store[n])
    BY <1>0, Zenon DEF Dated
  <2>2. \A j \in 0 .. ts[n] : j \in Nat /\ j <= ts[n]
    BY <2>1
  <2>3. /\ headAt[n] \in Nat /\ \A k \in Key : at[n][k] \in Nat
        /\ headAt[n] <= ts[n] /\ \A k \in Key : at[n][k] <= ts[n]
    BY <2>1, <2>2, Zenon
  <2>4. taking[n] \in 0 .. top
    BY <1>0, <1>2, <1>3
  <2>5. ASSUME NEW k \in Key, store[n][k] # Absent
        PROVE  /\ store[n][k].version \in 0 .. commitIndex
               /\ Timeless => store[n][k].expiresAt = 0
    <3>1. store[n][k].version <= commitIndex
      BY <1>0, <2>5, Zenon DEF VersionsCommitted
    <3>2. store[n][k] \in Envelope
      BY <1>0, <2>5, Zenon DEF Store
    <3>3. store[n][k].version \in Nat
      BY <3>2 DEF Envelope
    <3>4. store[n][k].version \in 0 .. commitIndex
      BY <1>0, <3>1, <3>3
    <3> QED BY <1>0, <2>5, <3>4, Zenon DEF NoExpiry
  <2> QED BY <1>3, <1>4, <1>5, <2>1, <2>3, <2>4, <2>5, Zenon DEF CompleteIn
<1>7. snapshot'[n] = b
  BY <1>0, <1>1, Zenon DEF Domains
<1>8. Dated(n)' /\ Caught(n)'
  BY <1>0, <1>1, Zenon DEF Dated, UnstampedAbsent, Caught
<1> QED BY <1>1, <1>6, <1>7, <1>8, Zenon DEF Joining

\* FSM.Restore on a node that is sent a snapshot.
LEMMA JoinInstall ==
  ASSUME SnapInv, Joined, NEW n \in Node, InstallSnapshot(n)
  PROVE  Joining(n)'
<1> DEFINE b == snapshot[leader]
           top == Max({loads[n].through, b.through})
           r == [through |-> top, stale |-> loads[n].stale \/ ts[n] > 0 \/ b.stale,
                 remote |-> TRUE, gap |-> loads[n].gap]
<1>1. /\ leader \in Node /\ b # NoSnapshot /\ Load(n, b)
      /\ applied' = [applied EXCEPT ![n] = b.index]
      /\ snapshot' = [snapshot EXCEPT ![n] = b]
      /\ loads' = [loads EXCEPT ![n] = r]
      /\ log' = log /\ commitIndex' = commitIndex /\ ref' = ref
  BY BaseTypes, Zenon DEF InstallSnapshot, SnapInv, raftVars
<1>0. /\ Domains /\ applied \in [Node -> 0 .. commitIndex] /\ commitIndex \in Nat
      /\ store \in [Node -> Store]
      /\ Dated(n) /\ Caught(n) /\ CompleteIn(log, ref, commitIndex, b)
  BY <1>1, SnapParts, SnapTypes, Zenon DEF Joined, Joining
<1>2. r.through = top /\ (~r.stale => ~loads[n].stale /\ ~(ts[n] > 0) /\ ~b.stale)
  BY Zenon
<1> HIDE DEF r
<1>3. /\ loads[n].through \in 0 .. commitIndex /\ b.through \in 0 .. commitIndex
      /\ b.index \in 0 .. b.through
  BY <1>0, Zenon DEF Caught, CompleteIn
<1>4. top \in 0 .. commitIndex /\ b.through <= top
  <2> DEFINE S == {loads[n].through, b.through}
  <2>1. S \subseteq Nat /\ S # {} /\ \A y \in S : y <= commitIndex
    BY <1>0, <1>3
  <2>2. b.through \in S
    OBVIOUS
  <2> HIDE DEF S
  <2>3. Max(S) \in S /\ \A y \in S : y <= Max(S)
    BY <1>0, <2>1, MaxBounded, Zenon
  <2>4. Max(S) \in Nat /\ Max(S) <= commitIndex /\ b.through <= Max(S)
    BY <2>1, <2>2, <2>3, Zenon
  <2>5. Max(S) \in 0 .. commitIndex
    BY <1>0, <2>4
  <2> QED BY <2>4, <2>5, Zenon DEF S
<1> HIDE DEF top, b
<1>5. /\ applied'[n] = b.index /\ snapshot'[n] = b /\ loads'[n] = r
      /\ store'[n] = [k \in Key |-> IF k \in Loaded(n, b) THEN b.store[k] ELSE store[n][k]]
      /\ at'[n] = [k \in Key |-> IF k \in Loaded(n, b) THEN b.at[k] ELSE at[n][k]]
  BY <1>0, <1>1, Zenon DEF Domains, Load
<1>6. /\ ts[n] \in Nat /\ headAt[n] \in Nat /\ headAt[n] <= ts[n]
      /\ \A k \in Key : at[n][k] \in Nat /\ at[n][k] <= ts[n]
      /\ \A k \in Key : at[n][k] = 0 => store[n][k] = Absent
      /\ b.headAt \in Nat /\ \A k \in Key : b.at[k] \in Nat
      /\ \A k \in Key : b.at[k] = 0 => b.store[k] = Absent
  <2>1. /\ ts[n] \in Nat /\ headAt[n] \in 0 .. ts[n]
        /\ \A k \in Key : at[n][k] \in 0 .. ts[n]
        /\ \A k \in Key : at[n][k] = 0 => store[n][k] = Absent
        /\ b.headAt \in Nat /\ \A k \in Key : b.at[k] \in Nat
        /\ \A k \in Key : b.at[k] = 0 => b.store[k] = Absent
    BY <1>0, Zenon DEF Dated, UnstampedAbsent, CompleteIn
  <2>2. \A j \in 0 .. ts[n] : j \in Nat /\ j <= ts[n]
    BY <2>1
  <2> QED BY <2>1, <2>2, Zenon
<1>7. /\ ts'[n] \in Nat /\ ts[n] <= ts'[n] /\ b.headAt <= ts'[n]
      /\ \A k \in Key : b.at[k] <= ts'[n]
  <2> DEFINE S == {ts[n], b.headAt} \cup {b.at[k] : k \in Key}
  <2>1. ts' = [ts EXCEPT ![n] = Max(S)]
    BY <1>1, Zenon DEF Load
  <2>2. PICK B \in Nat : b.headAt <= B /\ \A k \in Key : b.at[k] <= B
    BY <1>0, Zenon DEF CompleteIn
  <2>3. /\ ts[n] + B \in Nat /\ ts[n] <= ts[n] + B /\ b.headAt <= ts[n] + B
        /\ \A j \in Nat : j <= B => j <= ts[n] + B
    BY <1>6, <2>2
  <2>4. /\ S \subseteq Nat /\ S # {} /\ \A y \in S : y <= ts[n] + B
        /\ ts[n] \in S /\ b.headAt \in S /\ \A k \in Key : b.at[k] \in S
    BY <1>6, <2>2, <2>3, Zenon
  <2> HIDE DEF S
  <2>5. Max(S) \in S /\ \A y \in S : y <= Max(S)
    BY <2>3, <2>4, MaxBounded, Zenon
  <2>6. ts'[n] = Max(S)
    BY <1>0, <2>1, Zenon DEF Domains
  <2> QED BY <2>4, <2>5, <2>6, Zenon
<1>8. Dated(n)'
  <2>1. headAt'[n] \in {headAt[n], b.headAt}
    BY <1>0, <1>1, Zenon DEF Domains, Load
  <2>2. \A j \in Nat : j <= ts[n] \/ j <= ts'[n] => j \in 0 .. ts'[n]
    BY <1>6, <1>7
  <2>3. headAt'[n] \in 0 .. ts'[n]
    BY <1>6, <1>7, <2>1, <2>2, Zenon
  <2>4. DOMAIN at'[n] = Key /\ \A k \in Key : at'[n][k] \in 0 .. ts'[n]
    BY <1>5, <1>6, <1>7, <2>2, Zenon
  <2>5. \A k \in Key : k \in Loaded(n, b) => b.at[k] # 0
    BY <1>6 DEF Loaded
  <2>6. \A k \in Key : at'[n][k] = 0 => store'[n][k] = Absent
    BY <1>5, <1>6, <2>5, Zenon
  <2> QED BY <1>7, <2>3, <2>4, <2>6, Zenon DEF Dated, UnstampedAbsent
<1>9. Caught(n)'
  <2>1. ASSUME ~r.stale, NEW k \in Key
        PROVE  FollowsIn(log, ref, store'[n][k], k, b.index, top)
    <3>1. ts[n] = 0 /\ ~b.stale
      BY <1>2, <1>6, <2>1
    <3>2. at[n][k] = 0
      BY <1>6, <3>1
    <3>3. store'[n][k] = b.store[k]
      <4>1. CASE k \in Loaded(n, b)
        BY <1>5, <4>1, Zenon
      <4>2. CASE k \notin Loaded(n, b)
        <5>1. b.at[k] = 0
          BY <1>6, <3>2, <4>2 DEF Loaded
        <5> QED BY <1>5, <1>6, <3>2, <4>2, <5>1, Zenon
      <4> QED BY <4>1, <4>2
    <3>4. FollowsIn(log, ref, b.store[k], k, b.index, b.through)
      BY <1>0, <3>1, Zenon DEF CompleteIn
    <3>5. b.index \in 0 .. commitIndex
      BY <1>0, <1>3
    <3>6. /\ \A j \in 1 .. commitIndex : log[j] = log[j]
          /\ \A j \in 1 .. commitIndex + 1 : ref[j] = ref[j]
      OBVIOUS
    <3>s. ASSUME NEW e, NEW a \in 0 .. commitIndex, NEW t1 \in 0 .. commitIndex,
                 NEW t2 \in 0 .. commitIndex, t1 <= t2, FollowsIn(log, ref, e, k, a, t1)
          PROVE  FollowsIn(log, ref, e, k, a, t2)
      BY <1>0, <3>6, <3>s, FollowsStable, Zenon
    <3>7. FollowsIn(log, ref, b.store[k], k, b.index, top)
      BY <1>3, <1>4, <3>4, <3>5, <3>s, Zenon
    <3> QED BY <3>3, <3>7, Zenon
  <2> QED BY <1>1, <1>2, <1>4, <1>5, <2>1, Zenon DEF Caught
<1> QED BY <1>0, <1>1, <1>5, <1>8, <1>9, Zenon DEF Joining

\* The records a stream brings in are committed ones, and do not expire if none does.
LEMMA InstallHistory ==
  ASSUME SnapInv, Joined, NEW n \in Node, InstallSnapshot(n)
  PROVE  LogHistory' /\ VersionsCommitted' /\ (Timeless => NoExpiry')
<1> DEFINE b == snapshot[leader]
<1>1. /\ leader \in Node /\ b # NoSnapshot /\ Load(n, b) /\ sweep' = sweep
      /\ log' = log /\ commitIndex' = commitIndex /\ ref' = ref
  BY BaseTypes, Zenon DEF InstallSnapshot, SnapInv, raftVars
<1>2. Base' /\ RefInv'
  BY RestoreCore, Zenon
<1>3. LogHistory'
  <2>1. LogStamped /\ LogReplayable /\ RefSettled /\ RefLasting
    BY Zenon DEF Joined, LogHistory
  <2>2. LogStamped' /\ LogReplayable'
    BY <1>1, <2>1, Zenon DEF LogStamped, LogReplayable
  <2>3. RefSettled'
    <3>1. \A i, k, v : Since(k, i, v)' <=> Since(k, i, v)
      BY <1>1, Zenon DEF Since, Prefix
    <3>2. \A i : Prefix(i)' = Prefix(i)
      BY <1>1, Zenon DEF Prefix
    <3> QED BY <1>1, <2>1, <3>1, <3>2, Zenon DEF RefSettled
  <2>4. RefLasting'
    BY <1>1, <2>1, Zenon DEF RefLasting, Pending, Swept, Prefix
  <2> QED BY <1>2, <2>2, <2>3, <2>4, Zenon DEF LogHistory
<1>4. CompleteIn(log, ref, commitIndex, b) /\ store \in [Node -> Store] /\ commitIndex \in Nat
  BY <1>1, SnapTypes, Zenon DEF Joined, Joining
<1> HIDE DEF b
<1>5. ASSUME NEW m \in Node, NEW k \in Key, store'[m][k] # Absent
      PROVE  \/ store'[m][k] = store[m][k]
             \/ b.store[k] # Absent /\ store'[m][k] = b.store[k]
  <2>1. store' = [store EXCEPT ![n] =
                    [j \in Key |-> IF j \in Loaded(n, b) THEN b.store[j] ELSE @[j]]]
    BY <1>1, Zenon DEF Load
  <2>2. CASE m # n
    BY <1>4, <2>1, <2>2, Zenon
  <2>3. CASE m = n
    <3>1. store'[n] = [j \in Key |-> IF j \in Loaded(n, b) THEN b.store[j] ELSE store[n][j]]
      BY <1>4, <2>1, Zenon
    <3> QED BY <1>5, <2>3, <3>1, Zenon
  <2> QED BY <2>2, <2>3
<1>6. \A k \in Key : b.store[k] # Absent =>
        /\ b.store[k].version <= commitIndex
        /\ Timeless => b.store[k].expiresAt = 0
  <2>1. \A k \in Key : b.store[k] # Absent =>
          /\ b.store[k].version \in 0 .. commitIndex
          /\ Timeless => b.store[k].expiresAt = 0
    BY <1>4, Zenon DEF CompleteIn
  <2>2. \A j \in 0 .. commitIndex : j <= commitIndex
    BY <1>4
  <2> QED BY <2>1, <2>2, Zenon
<1>7. VersionsCommitted'
  <2>1. ASSUME NEW m \in Node, NEW k \in Key, store'[m][k] # Absent
        PROVE  store'[m][k].version <= commitIndex
    <3>1. store[m][k] # Absent => store[m][k].version <= commitIndex
      BY Zenon DEF Joined, VersionsCommitted
    <3> QED BY <1>5, <1>6, <2>1, <3>1, Zenon
  <2> QED BY <1>1, <2>1, Zenon DEF Joined, VersionsCommitted
<1>8. ASSUME Timeless PROVE NoExpiry'
  <2>0. NoExpiry
    BY <1>8, Zenon DEF Joined
  <2>1. ASSUME NEW m \in Node, NEW k \in Key, store'[m][k] # Absent
        PROVE  store'[m][k].expiresAt = 0
    <3>1. store[m][k] # Absent => store[m][k].expiresAt = 0
      BY <2>0, Zenon DEF NoExpiry
    <3> QED BY <1>5, <1>6, <1>8, <2>1, <3>1, Zenon
  <2> QED BY <1>1, <2>0, <2>1, Zenon DEF NoExpiry
<1> QED BY <1>3, <1>7, <1>8

LEMMA JoinCompact ==
  ASSUME SnapInv, Joined, NEW n \in Node, NEW k \in Key, Compact(n, k)
  PROVE  Joining(n)'
<1>0. Domains /\ Joining(n) /\ Dated(n)
  BY SnapParts, Zenon DEF Joined, Joining
<1>1. /\ at' = [at EXCEPT ![n][k] = 0] /\ snapshot' = snapshot /\ loads' = loads
      /\ ts' = ts /\ headAt' = headAt /\ store[n][k] = Absent
      /\ store' = store /\ applied' = applied /\ log' = log /\ ref' = ref
      /\ commitIndex' = commitIndex
  BY Zenon DEF Compact, snapVars, vars, raftVars, fsmVars
<1>2. at'[n] = [at[n] EXCEPT ![k] = 0]
  BY <1>0, <1>1, Zenon DEF Domains
<1>3. ts[n] \in Nat /\ DOMAIN at[n] = Key /\ 0 \in 0 .. ts[n]
  BY <1>0 DEF Dated
<1>4. /\ DOMAIN at'[n] = Key
      /\ \A j \in Key : at'[n][j] \in 0 .. ts[n]
      /\ \A j \in Key : at'[n][j] = 0 => store[n][j] = Absent
  <2>1. DOMAIN at'[n] = Key /\ \A j \in Key : at'[n][j] = IF j = k THEN 0 ELSE at[n][j]
    BY <1>2, <1>3, Zenon
  <2>2. /\ \A j \in Key : at[n][j] \in 0 .. ts[n]
        /\ \A j \in Key : at[n][j] = 0 => store[n][j] = Absent
    BY <1>0, Zenon DEF Dated, UnstampedAbsent
  <2> QED BY <1>1, <1>3, <2>1, <2>2, Zenon
<1>5. Dated(n)'
  BY <1>0, <1>1, <1>4, Zenon DEF Dated, UnstampedAbsent
<1> QED BY <1>0, <1>1, <1>5, Zenon DEF Joining, Caught

LEMMA JoinInit == SnapshotInit => JoinInv
<1> SUFFICES ASSUME SnapshotInit PROVE JoinInv
  BY Zenon
<1>0. Init /\ SnapInv
  BY SnapInit, Zenon DEF SnapshotInit
<1>1. LogHistory /\ VersionsCommitted
  BY <1>0, HistoryInit, Zenon
<1>2. NoExpiry
  <2>1. log = << >> /\ \A n \in Node : sweep[n] = {} /\ \A k \in Key : store[n][k] = Absent
    BY <1>0 DEF Init, EmptyStore
  <2>2. \A i \in 1 .. Len(log) : FALSE
    BY <2>1
  <2> QED BY <2>1, <2>2, Zenon DEF NoExpiry
<1>3. ASSUME NEW n \in Node PROVE Joining(n)
  <2>1. /\ ts[n] = 0 /\ headAt[n] = 0 /\ at[n] = [k \in Key |-> 0]
        /\ snapshot[n] = NoSnapshot /\ loads[n] = NoLoad /\ commitIndex = 0
        /\ \A k \in Key : store[n][k] = Absent
        /\ \A k \in Key : store[n][k] = ref[applied[n] + 1].store[k]
    BY <1>0 DEF SnapshotInit, Init, EmptyStore
  <2>2. Dated(n)
    BY <2>1 DEF Dated, UnstampedAbsent
  <2>3. loads[n].through \in 0 .. commitIndex
    BY <2>1 DEF NoLoad
  <2>4. Caught(n)
    BY <2>1, <2>3, Zenon DEF Caught, FollowsIn
  <2> QED BY <2>1, <2>2, <2>4, Zenon DEF Joining
<1> QED BY <1>0, <1>1, <1>2, <1>3, Zenon DEF JoinInv, Joined

LEMMA JoinStep ==
  ASSUME Joinable
  PROVE  JoinInv /\ [SnapshotNext]_svars => JoinInv'
<1> SUFFICES ASSUME JoinInv, [SnapshotNext]_svars, Well' PROVE Joined'
  BY SnapStep, Zenon DEF JoinInv
<1>0. SnapInv /\ Well /\ Joined /\ faults' = faults /\ Replayable
      /\ \A n \in Node : ~RestartFromSnapshot(n)
  BY WellBefore, Zenon DEF JoinInv, Joinable
<1>1. ASSUME [Next]_vars PROVE LogHistory' /\ VersionsCommitted' /\ (Timeless => NoExpiry')
  BY <1>0, <1>1, HistoryStep, NoExpiryStep, Zenon DEF Joined, LogHistory
<1>2. ASSUME NEW n \in Node, Joining(n)', Elsewheres(n), History,
             \A m \in Node : m # n => store'[m] = store[m] /\ applied'[m] = applied[m]
      PROVE  \A m \in Node : Joining(m)'
  <2> SUFFICES ASSUME NEW m \in Node, m # n PROVE Joining(m)'
    BY <1>2, Zenon
  <2>1. Joining(m)
    BY <1>0, Zenon DEF Joined
  <2>2. /\ ts'[m] = ts[m] /\ at'[m] = at[m] /\ headAt'[m] = headAt[m]
        /\ snapshot'[m] = snapshot[m] /\ loads'[m] = loads[m]
    BY <1>2, Zenon DEF Elsewheres
  <2> QED BY <1>0, <1>2, <2>1, <2>2, JoiningKept, Zenon
<1>t. store \in [Node -> Store] /\ applied \in [Node -> 0 .. commitIndex]
  BY <1>0, SnapTypes, Zenon
<1>3. CASE Elsewhere
  <2>1. Next
    BY <1>3, ElsewhereIsNext, Zenon
  <2>2. \A n \in Node : Joining(n)'
    BY <1>0, <1>3, JoinElsewhere, Zenon
  <2> QED BY <1>1, <2>1, <2>2, Zenon DEF Joined
<1>4. ASSUME NEW n \in Node, StampedApply(n) PROVE Joined'
  <2>1. Next /\ Apply(n)
    BY <1>4, Zenon DEF StampedApply, Next
  <2>2. History /\ Elsewheres(n) /\ Joining(n)'
    BY <1>0, <1>4, <2>1, WritePathCore, OneNode, JoinApply, Zenon
  <2>3. \A m \in Node : m # n => store'[m] = store[m] /\ applied'[m] = applied[m]
    BY <1>t, <2>1, Zenon DEF Apply
  <2> QED BY <1>1, <1>2, <2>1, <2>2, <2>3, Zenon DEF Joined
<1>5. ASSUME NEW n \in Node, StampedAdvanceChain(n) PROVE Joined'
  <2>1. Next /\ advanceChain(n)
    BY <1>5, Zenon DEF StampedAdvanceChain, Next
  <2>2. History /\ Elsewheres(n) /\ Joining(n)'
    BY <1>0, <1>5, <2>1, WritePathCore, OneNode, JoinAdvance, Zenon
  <2>3. store' = store /\ applied' = applied
    BY <2>1, Zenon DEF advanceChain
  <2> QED BY <1>1, <1>2, <2>1, <2>2, <2>3, Zenon DEF Joined
<1>6. ASSUME NEW n \in Node, Elsewheres(n), UNCHANGED vars, Joining(n)' PROVE Joined'
  <2>1. History /\ store' = store /\ applied' = applied
    BY <1>0, <1>6, PathStill, Zenon
  <2> QED BY <1>1, <1>2, <1>6, <2>1, Zenon DEF Joined
<1>7. ASSUME NEW n \in Node, FsmSnapshot(n) PROVE Joined'
  <2>1. UNCHANGED vars /\ Elsewheres(n)
    BY <1>0, <1>7, OneNode, Zenon DEF FsmSnapshot
  <2>2. History /\ store' = store /\ applied' = applied
    BY <1>0, <2>1, PathStill, Zenon
  <2>3. /\ ts' = ts /\ at' = at /\ headAt' = headAt /\ snapshot' = snapshot
        /\ loads' = loads
    BY <1>7, Zenon DEF FsmSnapshot, badgerVars
  <2>4. Joining(n)'
    BY <1>0, <2>2, <2>3, JoiningKept, Zenon DEF Joined
  <2> QED BY <1>6, <2>1, <2>4, Zenon
<1>8. ASSUME NEW n \in Node, Persist(n) PROVE Joined'
  <2>1. UNCHANGED vars /\ Elsewheres(n)
    BY <1>0, <1>8, OneNode, Zenon DEF Persist
  <2> QED BY <1>0, <1>6, <1>8, <2>1, JoinPersist, Zenon
<1>9. ASSUME NEW n \in Node, NEW k \in Key, Compact(n, k) PROVE Joined'
  <2>1. UNCHANGED vars /\ Elsewheres(n)
    BY <1>0, <1>9, OneNode, Zenon DEF Compact
  <2> QED BY <1>0, <1>6, <1>9, <2>1, JoinCompact, Zenon
<1>10. ASSUME NEW n \in Node, InstallSnapshot(n) PROVE Joined'
  <2>1. History /\ Elsewheres(n) /\ Joining(n)'
    BY <1>0, <1>10, RestoreCore, OneNode, JoinInstall, Zenon
  <2>2. \A m \in Node : m # n => store'[m] = store[m] /\ applied'[m] = applied[m]
    BY <1>t, <1>10, Zenon DEF InstallSnapshot, Load
  <2>3. LogHistory' /\ VersionsCommitted' /\ (Timeless => NoExpiry')
    BY <1>0, <1>10, InstallHistory, Zenon
  <2> QED BY <1>2, <2>1, <2>2, <2>3, Zenon DEF Joined
<1>11. CASE UNCHANGED svars
  <2>1. /\ UNCHANGED vars /\ ts' = ts /\ at' = at /\ headAt' = headAt
        /\ snapshot' = snapshot /\ loads' = loads
    BY <1>11, Zenon DEF svars, badgerVars, snapVars
  <2>2. History /\ store' = store /\ applied' = applied
    BY <1>0, <2>1, PathStill, Zenon
  <2>3. ASSUME NEW n \in Node PROVE Joining(n)'
    BY <1>0, <2>1, <2>2, JoiningKept, Zenon DEF Joined
  <2> QED BY <1>1, <2>1, <2>3, Zenon DEF Joined
<1> QED BY <1>0, <1>3, <1>4, <1>5, <1>7, <1>8, <1>9, <1>10, <1>11, Zenon DEF SnapshotNext

\* FSM.Restore on a node that starts empty: when clients put, write batches and remove, and
\* either none of them puts if absent or no record expires, the node holds exactly the store
\* the log defines as soon as it has applied as much as the backup contained, however far
\* Persist ran behind the index of its snapshot, and however many nodes handed it on.
THEOREM JoinConvergesHolds ==
  ASSUME Joinable
  PROVE  SnapshotSpec => []JoinConverges
<1>1. JoinInv => JoinConverges
  <2> SUFFICES ASSUME JoinInv, NEW n \in Node, Well, ~loads[n].stale,
                      applied[n] >= loads[n].through
               PROVE  store[n] = ref[applied[n] + 1].store
    BY Zenon DEF JoinConverges, Prefix, Well
  <2>1. SnapInv /\ Caught(n)
    BY Zenon DEF JoinInv, Joined, Joining
  <2>2. /\ commitIndex \in Nat /\ applied[n] \in 0 .. commitIndex /\ store[n] \in Store
        /\ ref \in Seq(Result) /\ Len(ref) = commitIndex + 1
    BY <2>1, SnapTypes, BaseTypes, Zenon DEF SnapInv
  <2>3. applied[n] + 1 \in DOMAIN ref /\ \A j : j \notin applied[n] + 1 .. loads[n].through
    <3>1. loads[n].through \in 0 .. commitIndex
      BY <2>1, Zenon DEF Caught
    <3> QED BY <2>2, <3>1
  <2>4. ref[applied[n] + 1].store \in Store
    <3>1. ref[applied[n] + 1] \in Result
      BY <2>2, <2>3, SeqElement, Zenon
    <3> QED BY <3>1 DEF Result
  <2>5. \A k \in Key : store[n][k] = ref[applied[n] + 1].store[k]
    BY <2>1, <2>3, Zenon DEF Caught, FollowsIn
  <2> QED BY <2>2, <2>4, <2>5 DEF Store
<1>2. JoinInv /\ [SnapshotNext]_svars => JoinInv'
  BY JoinStep, Zenon
<1> QED BY JoinInit, <1>1, <1>2, PTL DEF SnapshotSpec

=============================================================================
