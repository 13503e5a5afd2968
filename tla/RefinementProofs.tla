-------------------------- MODULE RefinementProofs --------------------------
(***************************************************************************)
(* What the replicated store promises its clients: versions that tell who   *)
(* wrote what, and the behaviour of a single copy.                          *)
(***************************************************************************)
EXTENDS ReplicationRefinement, ReplicationProofs

-----------------------------------------------------------------------------
(***************************************************************************)
(* What a version tells: who wrote an envelope, that sweeps remove only     *)
(* what had expired, that a compare-and-set is exclusive.                   *)
(***************************************************************************)

(***************************************************************************)
(* Provenance: an envelope's version names the entry that wrote it, in the  *)
(* recorded outcomes and, whatever was replayed, in every node's store.     *)
(***************************************************************************)
Provenance(l, c, e, k) ==
  /\ e.version \in 1 .. c
  /\ WritesKey(l[e.version].cmd, k)
  /\ e.expiresAt = CommandedExpiry(l[e.version].cmd, k)

RefProvenance ==
  \A i \in 0 .. commitIndex, k \in Key : Prefix(i).store[k] # Absent =>
    /\ Provenance(log, commitIndex, Prefix(i).store[k], k)
    /\ Prefix(i).store[k].version <= i

ProvenanceInv == Base /\ RefInv /\ LogStamped /\ EnvelopeProvenance /\ RefProvenance

LEMMA ProvenanceInit == Init => ProvenanceInv
<1> SUFFICES ASSUME Init PROVE ProvenanceInv
  OBVIOUS
<1>1. LogStamped
  BY DEF Init, LogStamped
<1>2. EnvelopeProvenance
  BY DEF Init, EnvelopeProvenance, EmptyStore
<1>3. RefProvenance
  BY DEF Init, RefProvenance, Prefix, EmptyStore
<1> QED BY <1>1, <1>2, <1>3, BaseInit, RefInit DEF ProvenanceInv

\* What an execution of entry i writes, entry i is the provenance of.
Authored(l, c, i, new, old, k) ==
  new = old \/ (Provenance(l, c, new, k) /\ new.version = i)

LEMMA ExecProvenance ==
  ASSUME NEW l \in Seq(Entry), NEW c \in 0 .. Len(l), NEW i \in 1 .. c,
         l[i].cmd # Noop, Stamped(l[i].cmd),
         NEW db \in Store, NEW t \in Nat, NEW k \in Key,
         Exec(db, l[i].cmd, i, t)[k] # Absent
  PROVE  Authored(l, c, i, Exec(db, l[i].cmd, i, t)[k], db[k], k)
<1>1. i \in Nat \ {0} /\ i \in DOMAIN l
  OBVIOUS
<1>2. l[i] \in Entry
  BY <1>1, SeqElement
<1>3. l[i].cmd \in Command
  BY <1>2 DEF Entry
<1> DEFINE new == Exec(db, l[i].cmd, i, t)[k]
<1>4. new = db[k] \/ WrittenBy(new, l[i].cmd, k, i)
  BY <1>1, <1>3, ExecEffect
<1> HIDE DEF new
<1>5. WrittenBy(new, l[i].cmd, k, i) => Provenance(l, c, new, k) /\ new.version = i
  BY DEF WrittenBy, Provenance
<1> QED BY <1>4, <1>5, Zenon DEF new, Authored

LEMMA ProvenanceStep == ProvenanceInv /\ [Next]_vars => ProvenanceInv'
<1> SUFFICES ASSUME ProvenanceInv, [Next]_vars
             PROVE  EnvelopeProvenance' /\ RefProvenance'
  BY BaseStep, RefStep, LogStampedStep, Zenon DEF ProvenanceInv
<1>i. Base /\ RefInv /\ LogStamped /\ EnvelopeProvenance /\ RefProvenance
  BY DEF ProvenanceInv
<1>n. Base' /\ RefInv' /\ LogStamped'
  BY <1>i, BaseStep, RefStep, LogStampedStep
<1>t. /\ commitIndex \in Nat
      /\ log \in Seq(Entry) /\ commitIndex \in 0 .. Len(log)
      /\ applied \in [Node -> 0 .. commitIndex]
      /\ clock \in [Node -> Nat] /\ store \in [Node -> Store]
      /\ ref \in Seq(Result) /\ Len(ref) = commitIndex + 1
  BY <1>i, BaseTypes, Zenon
<1>1. /\ log' \in Seq(Entry) /\ commitIndex' \in 0 .. Len(log')
      /\ commitIndex <= commitIndex'
      /\ \A i \in 1 .. commitIndex : log'[i] = log[i]
      /\ \A i \in 1 .. commitIndex + 1 : ref'[i] = ref[i]
  BY <1>i, HistoryStable, Zenon
<1>u. commitIndex' \in Nat
  BY <1>1
<1>w. log' \in Seq(Entry) /\ commitIndex' \in 0 .. Len(log')
  BY <1>1
<1>h. \A i \in 1 .. commitIndex : i \in 1 .. commitIndex' /\ log'[i] = log[i]
  BY <1>1, <1>t, <1>u
<1>2. ASSUME NEW e, NEW k, Provenance(log, commitIndex, e, k)
      PROVE  Provenance(log', commitIndex', e, k)
  <2>1. e.version \in 1 .. commitIndex
    BY <1>2 DEF Provenance
  <2>2. e.version \in 1 .. commitIndex' /\ log'[e.version] = log[e.version]
    BY <1>h, <2>1
  <2> QED BY <1>2, <2>2 DEF Provenance
<1>3. RefProvenance'
  <2> SUFFICES ASSUME NEW i \in 0 .. commitIndex', NEW k \in Key,
                      ref'[i + 1].store[k] # Absent
               PROVE  /\ Provenance(log', commitIndex', ref'[i + 1].store[k], k)
                      /\ ref'[i + 1].store[k].version <= i
    BY DEF RefProvenance, Prefix
  <2>1. CASE i \in 0 .. commitIndex
    <3>1. ref'[i + 1] = ref[i + 1]
      BY <1>1, <1>t, <2>1
    <3>2. /\ Provenance(log, commitIndex, ref[i + 1].store[k], k)
          /\ ref[i + 1].store[k].version <= i
      BY <1>i, <2>1, <3>1, Zenon DEF RefProvenance, Prefix
    <3> QED BY <1>2, <3>1, <3>2, Zenon
  <2>2. CASE i \notin 0 .. commitIndex
    <3>1. Commit
      BY <1>t, <2>2, OnlyCommitCommits
    <3>2. i = commitIndex + 1 /\ commitIndex' = commitIndex + 1
      BY <1>t, <2>2, <3>1 DEF Commit
    <3>3. /\ ref'[i] = ref[i] /\ i \in 1 .. commitIndex' /\ i \in 1 .. Len(log')
          /\ i \in DOMAIN ref
      BY <1>1, <1>t, <1>u, <3>2
    <3>4. ref'[i + 1] = Outcome(ref[i], i, log'[i])
      BY <1>n, <3>3, Zenon DEF RefInv
    <3>5. ASSUME ref[i].store[k] # Absent
          PROVE  /\ Provenance(log', commitIndex', ref[i].store[k], k)
                 /\ ref[i].store[k].version <= i
      <4>1. /\ Provenance(log, commitIndex, ref[i].store[k], k)
            /\ ref[i].store[k].version <= commitIndex
        <5>1. commitIndex \in 0 .. commitIndex
          BY <1>t
        <5> QED BY <1>i, <3>2, <3>5, <5>1, Zenon DEF RefProvenance, Prefix
      <4> DEFINE v == ref[i].store[k].version
      <4>2. v \in 1 .. commitIndex
        BY <4>1, Zenon DEF Provenance
      <4> HIDE DEF v
      <4>3. v <= i
        BY <1>t, <3>2, <4>2
      <4> QED BY <1>2, <4>1, <4>3, Zenon DEF v
    <3>6. CASE log'[i].cmd = Noop
      BY <3>4, <3>5, <3>6, Zenon DEF Outcome
    <3>7. CASE log'[i].cmd # Noop
      <4>1. ref'[i + 1].store = Exec(ref[i].store, log'[i].cmd, i, 0)
        <5>1. Outcome(ref[i], i, log'[i]).store
                = Exec(ref[i].store, log'[i].cmd, i, 0)
          BY <3>7 DEF Outcome
        <5> QED BY <3>4, <5>1, Zenon
      <4>2. ref[i] \in Result
        BY <1>t, <3>3, SeqElement
      <4>3. ref[i].store \in Store
        BY <4>2 DEF Result
      <4>4. Stamped(log'[i].cmd)
        BY <1>n, <3>3, <3>7, Zenon DEF LogStamped
      <4>5. \/ ref'[i + 1].store[k] = ref[i].store[k]
            \/ /\ Provenance(log', commitIndex', ref'[i + 1].store[k], k)
               /\ ref'[i + 1].store[k].version = i
        <5> DEFINE new == Exec(ref[i].store, log'[i].cmd, i, 0)
        <5>1. new[k] # Absent
          BY <4>1, Zenon
        <5>2. \/ new[k] = ref[i].store[k]
              \/ Provenance(log', commitIndex', new[k], k) /\ new[k].version = i
          <6> DEFINE l == log'
                     c == commitIndex'
                     db == ref[i].store
          <6>1. /\ l \in Seq(Entry) /\ c \in 0 .. Len(l) /\ i \in 1 .. c
                /\ l[i].cmd # Noop /\ Stamped(l[i].cmd) /\ db \in Store
                /\ Exec(db, l[i].cmd, i, 0)[k] # Absent
            BY <1>w, <3>3, <3>7, <4>3, <4>4, <5>1, Zenon
          <6>0. 0 \in Nat
            OBVIOUS
          <6> HIDE DEF l, c, db
          <6>2. Authored(l, c, i, Exec(db, l[i].cmd, i, 0)[k], db[k], k)
            BY <6>0, <6>1, ExecProvenance, ZenonT(60)
          <6> QED BY <6>2, Zenon DEF Authored, l, c, db
        <5> QED BY <4>1, <5>2, Zenon
      <4>6. CASE ref'[i + 1].store[k] = ref[i].store[k]
        BY <3>5, <4>6, Zenon
      <4>7. CASE /\ Provenance(log', commitIndex', ref'[i + 1].store[k], k)
                 /\ ref'[i + 1].store[k].version = i
        BY <4>7
      <4> QED BY <4>5, <4>6, <4>7, Zenon
    <3> QED BY <3>6, <3>7
  <2> QED BY <2>1, <2>2, Zenon
<1>4. EnvelopeProvenance'
  <2> SUFFICES ASSUME NEW n \in Node, NEW k \in Key, store'[n][k] # Absent
               PROVE  Provenance(log', commitIndex', store'[n][k], k)
    BY Zenon DEF EnvelopeProvenance, Provenance
  <2>0. store[n][k] # Absent => Provenance(log', commitIndex', store[n][k], k)
    <3>1. store[n][k] # Absent => Provenance(log, commitIndex, store[n][k], k)
      BY <1>i, Zenon DEF EnvelopeProvenance, Provenance
    <3> QED BY <1>2, <3>1
  <2>1. CASE store'[n] = store[n]
    BY <2>0, <2>1
  <2>2. CASE Apply(n) /\ store'[n] # store[n]
    <3>1. /\ applied[n] + 1 \in 1 .. commitIndex
          /\ log[applied[n] + 1].cmd # Noop
      BY <2>2, <1>i, <1>t DEF Apply, Base, Chained, NextEntry
    <3>2. store'[n] = Exec(store[n], log[applied[n] + 1].cmd,
                           applied[n] + 1, clock[n])
      BY <1>t, <2>2, Zenon DEF Apply, NextEntry
    <3>3. store[n] \in Store /\ clock[n] \in Nat
      BY <1>t, Zenon
    <3>4. Stamped(log[applied[n] + 1].cmd)
      <4>1. applied[n] + 1 \in 1 .. Len(log)
        BY <1>t, <3>1
      <4> QED BY <1>i, <3>1, <4>1, Zenon DEF LogStamped
    <3>5. \/ store'[n][k] = store[n][k]
          \/ Provenance(log, commitIndex, store'[n][k], k)
      <4> DEFINE i == applied[n] + 1
                 new == Exec(store[n], log[i].cmd, i, clock[n])
      <4>1. new[k] # Absent /\ i \in 1 .. commitIndex
        BY <3>1, <3>2, Zenon
      <4>2. log[i].cmd # Noop /\ Stamped(log[i].cmd)
        BY <3>1, <3>4, Zenon
      <4> HIDE DEF i
      <4>3. new[k] = store[n][k] \/ Provenance(log, commitIndex, new[k], k)
        <5>1. Authored(log, commitIndex, i, new[k], store[n][k], k)
          BY <1>t, <3>3, <4>1, <4>2, ExecProvenance, ZenonT(60)
        <5> HIDE DEF new
        <5> QED BY <5>1, Zenon DEF Authored
      <4> QED BY <3>2, <4>3, Zenon DEF i
    <3> QED BY <1>2, <2>0, <3>5
  <2>3. ASSUME ~Apply(n) PROVE store'[n] = store[n]
    <3>1. ASSUME NEW m \in Node, Apply(m) PROVE store'[n] = store[n]
      BY <1>t, <2>3, <3>1, Zenon DEF Apply
    <3>2. ASSUME NEW m \in Node,
                 \/ advanceChain(m) \/ SkipNoop(m) \/ Restart(m) \/ Tick(m)
                 \/ LeaderElected(m) \/ ReclaimScan(m) \/ ReclaimPropose(m)
                 \/ ReclaimAbandon(m) \/ \E r \in Requests : Propose(m, r)
          PROVE  store' = store
      BY <3>2, Zenon DEF LeaderElected, Propose, advanceChain, SkipNoop, Restart, Tick,
         ReclaimScan, ReclaimPropose, ReclaimAbandon, fsmVars
    <3>3. CASE Commit \/ UNCHANGED vars
      BY <3>3, Zenon DEF Commit, vars, fsmVars
    <3> QED BY <3>1, <3>2, <3>3, Zenon DEF Next
  <2> QED BY <2>1, <2>2, <2>3, Zenon
<1> QED BY <1>3, <1>4

\* A version identifies the write, and with it the expiry, on every replica and
\* through restarts, replays and failed transactions.
THEOREM EnvelopeProvenanceHolds == Spec => []EnvelopeProvenance
<1>1. ProvenanceInv => EnvelopeProvenance
  BY DEF ProvenanceInv
<1> QED BY ProvenanceInit, ProvenanceStep, <1>1, PTL DEF Spec

(***************************************************************************)
(* The head on disk.  Until a write fails, it is the chain in memory, which *)
(* is ahead of the entry being executed; and an execution writes no version *)
(* but its own index.                                                       *)
(***************************************************************************)
HeadCurrent ==
  \A n \in Node : faults[n] = 0 =>
    /\ head[n] = chain[n]
    /\ \A k \in Key : store[n][k] # Absent => store[n][k].version <= head[n].index

HeadInv == ProvenanceInv /\ ChainInv /\ HeadCurrent

LEMMA HeadInit == Init => HeadInv
<1> SUFFICES ASSUME Init PROVE HeadCurrent
  BY ProvenanceInit, ChainInit DEF HeadInv
<1> QED BY DEF Init, HeadCurrent, EmptyStore

LEMMA HeadStep == HeadInv /\ [Next]_vars => HeadInv'
<1> SUFFICES ASSUME HeadInv, [Next]_vars PROVE HeadCurrent'
  BY ProvenanceStep, ChainStep, Zenon DEF HeadInv
<1>i. Base /\ LogStamped /\ HeadCurrent /\ Chained
  BY Zenon DEF HeadInv, ProvenanceInv, Base
<1>t. /\ log \in Seq(Entry) /\ commitIndex \in 0 .. Len(log)
      /\ applied \in [Node -> 0 .. commitIndex] /\ store \in [Node -> Store]
      /\ head \in [Node -> HashChain] /\ chain \in [Node -> HashChain]
      /\ faults \in [Node -> Nat] /\ clock \in [Node -> Nat]
  BY <1>i, BaseTypes, Zenon
<1>1. ASSUME NEW n \in Node, advanceChain(n) PROVE HeadCurrent'
  <2> DEFINE c == Advance(chain[n], applied[n] + 1, NextEntry(n).term, NextEntry(n).cmd)
  <2>1. /\ chain' = [chain EXCEPT ![n] = c] /\ store' = store
        /\ \/ head' = [head EXCEPT ![n] = c] /\ faults' = faults
           \/ head' = head /\ faults' = [faults EXCEPT ![n] = @ + 1]
    BY <1>1, Zenon DEF advanceChain
  <2>2. chain[n].index \in Nat /\ c.index \in Nat /\ chain[n].index <= c.index
    <3>1. /\ NextEntry(n).cmd \in Command /\ NextEntry(n).term \in Nat
          /\ applied[n] + 1 \in 1 .. commitIndex
      BY <1>1, <1>i, NextEntryType DEF advanceChain, FsmReady
    <3>2. chain[n] \in HashChain /\ applied[n] + 1 \in Nat
      BY <1>t, <3>1
    <3>3. c \in HashChain /\ chain[n].index <= c.index
      BY <3>1, <3>2, AdvanceFacts, Zenon
    <3> QED BY <3>2, <3>3 DEF HashChain
  <2> HIDE DEF c
  <2> SUFFICES ASSUME NEW m \in Node, faults'[m] = 0
               PROVE  /\ head'[m] = chain'[m]
                      /\ \A k \in Key : store[m][k] # Absent =>
                           store[m][k].version <= head'[m].index
    BY <2>1 DEF HeadCurrent
  <2>3. CASE m # n
    <3>1. head'[m] = head[m] /\ chain'[m] = chain[m] /\ faults[m] = 0
      BY <1>t, <2>1, <2>3
    <3> QED BY <1>i, <3>1, Zenon DEF HeadCurrent
  <2>4. CASE m = n
    <3>1. head'[n] = c /\ chain'[n] = c /\ faults[n] = 0
      BY <1>t, <2>1, <2>4
    <3>2. /\ head[n] = chain[n]
          /\ \A k \in Key : store[n][k] # Absent =>
               store[n][k].version <= chain[n].index
      BY <1>i, <3>1, Zenon DEF HeadCurrent
    <3>3. \A k \in Key : store[n][k] # Absent => store[n][k].version \in Nat
      BY <1>t DEF Store, Envelope
    <3> QED BY <2>2, <2>4, <3>1, <3>2, <3>3
  <2> QED BY <2>3, <2>4
<1>2. ASSUME NEW n \in Node, Apply(n) PROVE HeadCurrent'
  <2> DEFINE i == applied[n] + 1
             new == Exec(store[n], log[i].cmd, i, clock[n])
  <2>1. /\ head' = head /\ chain' = chain
        /\ \/ store' = [store EXCEPT ![n] = new] /\ faults' = faults
           \/ store' = store /\ faults' = [faults EXCEPT ![n] = @ + 1]
    BY <1>2, Zenon DEF Apply, NextEntry
  <2>2. i \in 1 .. commitIndex /\ log[i].cmd # Noop /\ i <= chain[n].index
    <3>1. applied[n] < commitIndex /\ log[i].cmd # Noop /\ applied[n] < chain[n].index
      BY <1>2, <1>i, Zenon DEF Apply, Chained, NextEntry
    <3>2. applied[n] \in 0 .. commitIndex /\ chain[n] \in HashChain
      BY <1>t, Zenon
    <3>3. chain[n].index \in Nat /\ commitIndex \in Nat
      BY <1>t, <3>2 DEF HashChain
    <3> QED BY <3>1, <3>2, <3>3
  <2>3. ASSUME NEW k \in Key, new[k] # Absent
        PROVE  new[k] = store[n][k] \/ new[k].version = i
    <3>1. i \in 1 .. Len(log)
      BY <1>t, <2>2
    <3>2. Stamped(log[i].cmd)
      BY <1>i, <2>2, <3>1, Zenon DEF LogStamped
    <3>3. store[n] \in Store /\ clock[n] \in Nat
      BY <1>t, Zenon
    <3> HIDE DEF i
    <3>4. Authored(log, commitIndex, i, new[k], store[n][k], k)
      BY <1>t, <2>2, <2>3, <3>2, <3>3, ExecProvenance, ZenonT(60)
    <3> HIDE DEF new
    <3> QED BY <3>4, Zenon DEF Authored
  <2> HIDE DEF i, new
  <2> SUFFICES ASSUME NEW m \in Node, faults'[m] = 0
               PROVE  /\ head[m] = chain[m]
                      /\ \A k \in Key : store'[m][k] # Absent =>
                           store'[m][k].version <= head[m].index
    BY <2>1 DEF HeadCurrent
  <2>4. faults[m] = 0
    BY <1>t, <2>1
  <2>5. /\ head[m] = chain[m]
        /\ \A k \in Key : store[m][k] # Absent => store[m][k].version <= head[m].index
    BY <1>i, <2>4, Zenon DEF HeadCurrent
  <2>6. store'[m] = store[m] \/ (m = n /\ store'[m] = new)
    BY <1>t, <2>1, Zenon
  <2> QED BY <2>2, <2>3, <2>5, <2>6
<1>3. ASSUME NEW n \in Node, Restart(n) PROVE HeadCurrent'
  <2>1. /\ chain' = [chain EXCEPT ![n] = head[n]]
        /\ UNCHANGED <<head, store, faults>>
    BY <1>3, Zenon DEF Restart
  <2>2. \A m \in Node : chain'[m] = chain[m] \/ chain'[m] = head[m]
    BY <1>t, <2>1, Zenon
  <2> QED BY <1>i, <2>1, <2>2, Zenon DEF HeadCurrent
<1>4. ASSUME UNCHANGED <<head, chain, store, faults>> PROVE HeadCurrent'
  BY <1>i, <1>4, Zenon DEF HeadCurrent
<1>5. ASSUME NEW n \in Node,
             \/ LeaderElected(n) \/ (\E r \in Requests : Propose(n, r)) \/ SkipNoop(n)
             \/ Tick(n) \/ ReclaimScan(n) \/ ReclaimPropose(n) \/ ReclaimAbandon(n)
      PROVE  UNCHANGED <<head, chain, store, faults>>
  BY <1>5, Zenon DEF LeaderElected, Propose, SkipNoop, Tick, ReclaimScan,
     ReclaimPropose, ReclaimAbandon, fsmVars, envVars
<1>6. CASE Commit \/ UNCHANGED vars
  BY <1>4, <1>6, Zenon DEF Commit, vars, fsmVars, envVars
<1> QED BY <1>1, <1>2, <1>3, <1>4, <1>5, <1>6, Zenon DEF Next

\* Wherever a node is killed, the head it restarts from covers what its store
\* kept, unless one of its writes was lost; and then the replay has folded every
\* version within the prefix it has re-applied.
THEOREM HeadCoversStoreHolds == Spec => []HeadCoversStore
<1>1. HeadInv => HeadCoversStore
  <2> SUFFICES ASSUME HeadInv, NEW n \in Node, NEW k \in Key, store[n][k] # Absent
               PROVE  LET v == store[n][k].version IN
                      /\ faults[n] = 0 => v <= head[n].index
                      /\ v <= applied[n] => v <= chain[n].index
    BY DEF HeadCoversStore
  <2> DEFINE v == store[n][k].version
  <2>1. v \in 1 .. commitIndex /\ WritesKey(log[v].cmd, k)
    BY Zenon DEF HeadInv, ProvenanceInv, EnvelopeProvenance
  <2>2. log[v].cmd # Noop
    <3>1. ~WritesKey(Noop, k)
      BY DEF WritesKey, Noop
    <3> QED BY <2>1, <3>1, Zenon
  <2>3. faults[n] = 0 => v <= head[n].index
    BY Zenon DEF HeadInv, HeadCurrent
  <2>4. ASSUME v <= applied[n] PROVE v <= chain[n].index
    <3>1. applied[n] \in 0 .. commitIndex /\ commitIndex \in Nat
      BY BaseTypes, Zenon DEF HeadInv, ChainInv
    <3>2. v \in 1 .. applied[n]
      BY <2>1, <2>4, <3>1
    <3> QED BY <2>2, <3>2, Zenon DEF HeadInv, ChainInv, FoldedApplied
  <2> QED BY <2>3, <2>4
<1> QED BY HeadInit, HeadStep, <1>1, PTL DEF Spec
-----------------------------------------------------------------------------
(***************************************************************************)
(* Sweeps.  What the leader found expired stays expired: the version it     *)
(* recorded names a write, the write fixes the expiry, clocks do not go     *)
(* back.  So the condition on the version alone is enough.                  *)
(***************************************************************************)
Observed(l, c, clk, e) ==
  /\ e.version \in 1 .. c
  /\ CommandedExpiry(l[e.version].cmd, e.key) \in Nat
  /\ \E n \in Node : IsExpired(CommandedExpiry(l[e.version].cmd, e.key), clk[n])

SweepsExpired ==
  \A n \in Node : \A e \in sweep[n] : Observed(log, commitIndex, clock, e)

LogExpired ==
  \A i \in 1 .. Len(log) : log[i].cmd.op = "reclaim" =>
    \A e \in log[i].cmd.entries : Observed(log, commitIndex, clock, e)

ReclaimInv == ProvenanceInv /\ SweepsExpired /\ LogExpired

LEMMA ReclaimInit == Init => ReclaimInv
<1> SUFFICES ASSUME Init PROVE ReclaimInv
  OBVIOUS
<1>1. SweepsExpired
  BY Zenon DEF Init, SweepsExpired
<1>2. LogExpired
  BY DEF Init, LogExpired
<1> QED BY <1>1, <1>2, ProvenanceInit DEF ReclaimInv

LEMMA ClockMonotone ==
  ASSUME Base, [Next]_vars, NEW n \in Node
  PROVE  clock[n] \in Nat /\ clock'[n] \in Nat /\ clock[n] <= clock'[n]
<1>1. clock \in [Node -> Nat]
  BY Zenon DEF Base, TypeOK
<1>2. ASSUME NEW m \in Node, Tick(m)
      PROVE  clock' = [clock EXCEPT ![m] = @ + 1]
  BY <1>2, Zenon DEF Tick
<1>3. ASSUME NEW m \in Node,
             \/ advanceChain(m) \/ SkipNoop(m) \/ Restart(m) \/ Apply(m)
             \/ LeaderElected(m) \/ ReclaimScan(m) \/ ReclaimPropose(m)
             \/ ReclaimAbandon(m) \/ \E r \in Requests : Propose(m, r)
      PROVE  clock' = clock
  BY <1>3, Zenon DEF LeaderElected, Propose, advanceChain, Apply, SkipNoop, Restart,
     ReclaimScan, ReclaimPropose, ReclaimAbandon, envVars
<1>4. ASSUME Commit \/ UNCHANGED vars PROVE clock' = clock
  BY <1>4 DEF Commit, vars, envVars
<1>5. clock' = clock \/ \E m \in Node : clock' = [clock EXCEPT ![m] = @ + 1]
  BY <1>2, <1>3, <1>4, Zenon DEF Next
<1> QED BY <1>1, <1>5

LEMMA ReclaimStep == ReclaimInv /\ [Next]_vars => ReclaimInv'
<1> SUFFICES ASSUME ReclaimInv, [Next]_vars PROVE SweepsExpired' /\ LogExpired'
  BY ProvenanceStep, Zenon DEF ReclaimInv
<1>i. Base /\ EnvelopeProvenance /\ SweepsExpired /\ LogExpired
  BY DEF ReclaimInv, ProvenanceInv
<1>t. /\ commitIndex \in Nat /\ log \in Seq(Entry)
      /\ clock \in [Node -> Nat] /\ store \in [Node -> Store]
      /\ sweep \in [Node -> SUBSET ReclaimEntry]
  BY <1>i, BaseTypes, Zenon
<1>1. /\ commitIndex <= commitIndex' /\ commitIndex' \in Nat
      /\ \A i \in 1 .. commitIndex : log'[i] = log[i]
  BY <1>i, HistoryStable, Zenon
<1>2. ASSUME NEW e, Observed(log, commitIndex, clock, e)
      PROVE  Observed(log', commitIndex', clock', e)
  <2>1. /\ e.version \in 1 .. commitIndex /\ e.version \in 1 .. commitIndex'
        /\ log'[e.version] = log[e.version]
    <3> DEFINE v == e.version
    <3>1. v \in 1 .. commitIndex
      BY <1>2, Zenon DEF Observed
    <3> HIDE DEF v
    <3>2. v \in 1 .. commitIndex'
      BY <1>1, <1>t, <3>1
    <3> QED BY <1>1, <3>1, <3>2, Zenon DEF v
  <2> DEFINE x == CommandedExpiry(log[e.version].cmd, e.key)
  <2>2. x \in Nat
    BY <1>2, Zenon DEF Observed
  <2>3. PICK n \in Node : IsExpired(x, clock[n])
    BY <1>2 DEF Observed
  <2>4. clock[n] \in Nat /\ clock'[n] \in Nat /\ clock[n] <= clock'[n]
    BY <1>i, ClockMonotone
  <2> HIDE DEF x
  <2>5. IsExpired(x, clock'[n])
    BY <2>2, <2>3, <2>4 DEF IsExpired
  <2> QED BY <2>1, <2>2, <2>5, Zenon DEF Observed, x
<1>3. LogExpired'
  <2> SUFFICES ASSUME NEW i \in 1 .. Len(log'), log'[i].cmd.op = "reclaim",
                      NEW e \in log'[i].cmd.entries
               PROVE  Observed(log', commitIndex', clock', e)
    BY Zenon DEF LogExpired
  <2>1. CASE i \in 1 .. Len(log) /\ log'[i] = log[i]
    <3>1. Observed(log, commitIndex, clock, e)
      BY <1>i, <2>1 DEF LogExpired
    <3> QED BY <1>2, <3>1, Zenon
  <2>2. CASE log'[i].cmd = Noop
    BY <2>2 DEF Noop
  <2>3. CASE \E n \in Node, r \in Requests : log'[i].cmd = Stamp(r, clock[n])
    <3>1. PICK n \in Node, r \in Requests : log'[i].cmd = Stamp(r, clock[n])
      BY <2>3
    <3>2. clock[n] \in Nat /\ r \in ClientRequest
      BY <1>t, ReplicationAssumption, Zenon
    <3>3. log'[i].cmd \in ClientRequest
      BY <3>1, <3>2, StampFacts
    <3>4. log'[i].cmd.op # "reclaim"
      BY <3>3, Zenon DEF ClientRequest, PutRequest, TouchRequest, RemoveRequest,
                  IncrementRequest, BatchRequest
    <3> QED BY <3>4
  <2>4. CASE \E n \in Node : log'[i].cmd = [op |-> "reclaim", entries |-> sweep[n]]
    <3>1. Observed(log, commitIndex, clock, e)
      BY <1>i, <2>4 DEF SweepsExpired
    <3> QED BY <1>2, <3>1
  <2> QED BY <1>i, <2>1, <2>2, <2>3, <2>4, NewEntries, Zenon
<1>4. SweepsExpired'
  <2> SUFFICES ASSUME NEW n \in Node, NEW e \in sweep'[n]
               PROVE  Observed(log', commitIndex', clock', e)
    BY DEF SweepsExpired
  <2>1. CASE e \in sweep[n]
    <3>1. Observed(log, commitIndex, clock, e)
      BY <1>i, <2>1, Zenon DEF SweepsExpired
    <3> QED BY <1>2, <3>1
  <2>2. CASE ReclaimScan(n)
    <3>1. PICK found \in ScanExpired(store[n], clock[n], Limit) :
            sweep' = [sweep EXCEPT ![n] = found]
      BY <2>2, Zenon DEF ReclaimScan
    <3>2. store[n] \in Store /\ e \in found
      BY <1>t, <3>1
    <3>3. /\ e \in ReclaimEntry /\ store[n][e.key] # Absent
          /\ e.version = store[n][e.key].version
          /\ IsExpired(store[n][e.key].expiresAt, clock[n])
      BY <3>2, ScanExpiredType
    <3>4. e.key \in Key
      BY <3>3 DEF ReclaimEntry
    <3>5. /\ e.version \in 1 .. commitIndex
          /\ store[n][e.key].expiresAt
               = CommandedExpiry(log[e.version].cmd, e.key)
      BY <1>i, <3>3, <3>4, Zenon DEF EnvelopeProvenance
    <3>6. store[n][e.key].expiresAt \in Nat
      BY <3>2, <3>3, <3>4, Zenon DEF Store, Envelope
    <3>7. Observed(log, commitIndex, clock, e)
      BY <3>3, <3>5, <3>6, Zenon DEF Observed
    <3> QED BY <1>2, <3>7, Zenon
  <2>3. ASSUME ~ReclaimScan(n) PROVE sweep'[n] = sweep[n] \/ sweep'[n] = {}
    <3>1. ASSUME NEW m \in Node, ReclaimScan(m) PROVE sweep'[n] = sweep[n]
      BY <1>t, <2>3, <3>1, Zenon DEF ReclaimScan
    <3>2. ASSUME NEW m \in Node,
                 ReclaimPropose(m) \/ ReclaimAbandon(m) \/ Restart(m)
          PROVE  sweep'[n] = sweep[n] \/ sweep'[n] = {}
      BY <1>t, <3>2, Zenon DEF ReclaimPropose, ReclaimAbandon, Restart
    <3>3. ASSUME NEW m \in Node,
                 \/ advanceChain(m) \/ SkipNoop(m) \/ Apply(m) \/ Tick(m)
                 \/ LeaderElected(m) \/ \E r \in Requests : Propose(m, r)
          PROVE  sweep' = sweep
      BY <3>3, Zenon DEF LeaderElected, Propose, advanceChain, Apply, SkipNoop, Tick
    <3>4. CASE Commit \/ UNCHANGED vars
      BY <3>4 DEF Commit, vars
    <3> QED BY <3>1, <3>2, <3>3, <3>4, Zenon DEF Next
  <2> QED BY <2>1, <2>2, <2>3, Zenon
<1> QED BY <1>3, <1>4

\* A leader's sweep may be proposed long after it was taken, and it is executed
\* without looking at any clock; it still never removes a live record.
THEOREM ReclaimOnlyExpiredHolds == Spec => []ReclaimOnlyExpired
<1>1. ReclaimInv => ReclaimOnlyExpired
  <2> SUFFICES ASSUME ReclaimInv, NEW i \in 1 .. commitIndex,
                      log[i].cmd.op = "reclaim", NEW k \in Key,
                      Reclaims(Prefix(i - 1).store, log[i].cmd, k)
               PROVE  \E n \in Node :
                        IsExpired(Prefix(i - 1).store[k].expiresAt, clock[n])
    BY DEF ReclaimOnlyExpired
  <2> DEFINE env == Prefix(i - 1).store[k]
             e == [key |-> k, version |-> env.version]
  <2>1. env # Absent /\ e \in log[i].cmd.entries
    BY DEF Reclaims, StoredVersion
  <2>2. i \in 1 .. Len(log) /\ i - 1 \in 0 .. commitIndex
    BY DEF ReclaimInv, ProvenanceInv, Base, TypeOK
  <2>3. Observed(log, commitIndex, clock, e)
    BY <2>1, <2>2 DEF ReclaimInv, LogExpired
  <2>4. env.expiresAt = CommandedExpiry(log[env.version].cmd, k)
    BY <2>1, <2>2, Zenon DEF ReclaimInv, ProvenanceInv, RefProvenance, Provenance
  <2> HIDE DEF env
  <2> QED BY <2>3, <2>4, Zenon DEF Observed, env
<1> QED BY ReclaimInit, ReclaimStep, <1>1, PTL DEF Spec
-----------------------------------------------------------------------------
(***************************************************************************)
(* Compare-and-set.  Along the committed prefixes the version of a key only *)
(* grows, so a version that was replaced never comes back.                  *)
(***************************************************************************)
VersionOrder ==
  \A j \in 0 .. commitIndex : \A i \in 0 .. j, k \in Key :
    Prefix(i).store[k] # Absent /\ Prefix(j).store[k] # Absent =>
      Prefix(i).store[k].version <= Prefix(j).store[k].version

CasInv == ProvenanceInv /\ VersionOrder

LEMMA CasInit == Init => CasInv
<1> SUFFICES ASSUME Init PROVE CasInv
  OBVIOUS
<1>1. VersionOrder
  BY DEF Init, VersionOrder, Prefix, EmptyStore
<1> QED BY <1>1, ProvenanceInit, Zenon DEF CasInv

LEMMA OutcomeEffect ==
  ASSUME NEW prev \in Result, NEW i \in Nat \ {0}, NEW e \in Entry,
         e.cmd # Noop => Stamped(e.cmd), NEW k \in Key
  PROVE  LET new == Outcome(prev, i, e).store[k] IN
         new = prev.store[k] \/ new = Absent \/ new.version = i
<1>1. CASE e.cmd = Noop
  BY <1>1 DEF Outcome
<1>2. CASE e.cmd # Noop
  <2>1. Outcome(prev, i, e).store = Exec(prev.store, e.cmd, i, 0)
    BY <1>2 DEF Outcome
  <2>2. e.cmd \in Command /\ prev.store \in Store
    BY <1>2 DEF Entry, Result
  <2> DEFINE new == Exec(prev.store, e.cmd, i, 0)[k]
  <2>3. new = prev.store[k] \/ new = Absent \/ WrittenBy(new, e.cmd, k, i)
    BY <1>2, <2>2, ExecEffect, Zenon
  <2> QED BY <2>1, <2>3 DEF WrittenBy
<1> QED BY <1>1, <1>2

LEMMA CasStep == CasInv /\ [Next]_vars => CasInv'
<1> SUFFICES ASSUME CasInv, [Next]_vars PROVE VersionOrder'
  BY ProvenanceStep DEF CasInv
<1>i. Base /\ RefInv /\ LogStamped /\ RefProvenance /\ VersionOrder
  BY DEF CasInv, ProvenanceInv
<1>n. Base' /\ RefInv' /\ LogStamped' /\ RefProvenance'
  BY ProvenanceStep DEF CasInv, ProvenanceInv
<1>t. /\ commitIndex \in Nat /\ ref \in Seq(Result) /\ Len(ref) = commitIndex + 1
  BY <1>i DEF Base, TypeOK, Result
<1>1. /\ log' \in Seq(Entry) /\ commitIndex' \in 0 .. Len(log')
      /\ commitIndex' \in Nat /\ commitIndex <= commitIndex'
      /\ \A i \in 1 .. commitIndex + 1 : ref'[i] = ref[i]
  BY <1>i, HistoryStable, Zenon
<1> SUFFICES ASSUME NEW j \in 0 .. commitIndex', NEW i \in 0 .. j, NEW k \in Key,
                    ref'[i + 1].store[k] # Absent, ref'[j + 1].store[k] # Absent
             PROVE  ref'[i + 1].store[k].version <= ref'[j + 1].store[k].version
  BY Zenon DEF VersionOrder, Prefix
<1>b. /\ ref'[i + 1].store[k].version \in 1 .. commitIndex'
      /\ ref'[i + 1].store[k].version <= i
  <2>1. i \in 0 .. commitIndex'
    BY <1>1
  <2> QED BY <1>n, <2>1, Zenon DEF RefProvenance, Prefix, Provenance
<1>2. ASSUME NEW h \in 0 .. commitIndex, i <= h, ref'[h + 1].store[k] # Absent
      PROVE  ref'[i + 1].store[k].version <= ref'[h + 1].store[k].version
  <2>1. i \in 0 .. h /\ ref'[h + 1] = ref[h + 1] /\ ref'[i + 1] = ref[i + 1]
    BY <1>1, <1>t, <1>2
  <2> QED BY <1>i, <1>2, <2>1, Zenon DEF VersionOrder, Prefix
<1>3. CASE j <= commitIndex
  BY <1>1, <1>2, <1>3, <1>t
<1>4. CASE ~(j <= commitIndex)
  <2>1. Commit
    BY <1>t, <1>4, OnlyCommitCommits
  <2>2. j = commitIndex + 1 /\ commitIndex' = commitIndex + 1
    BY <1>t, <1>4, <2>1 DEF Commit
  <2>3. /\ j \in 1 .. commitIndex' /\ j \in DOMAIN ref /\ j \in DOMAIN log'
        /\ j \in Nat \ {0} /\ ref'[j] = ref[j] /\ j \in 1 .. Len(log')
    BY <1>1, <1>t, <2>2
  <2>4. ref'[j + 1] = Outcome(ref[j], j, log'[j])
    BY <1>n, <2>3 DEF RefInv
  <2>5. ref[j] \in Result /\ log'[j] \in Entry
    BY <1>1, <1>t, <2>3, SeqElement
  <2>6. log'[j].cmd # Noop => Stamped(log'[j].cmd)
    BY <1>n, <2>3 DEF LogStamped
  <2>7. \/ ref'[j + 1].store[k] = ref[j].store[k]
        \/ ref'[j + 1].store[k].version = j
    <3>1. LET new == Outcome(ref[j], j, log'[j]).store[k] IN
          new = ref[j].store[k] \/ new = Absent \/ new.version = j
      BY <2>3, <2>5, <2>6, OutcomeEffect, SMTT(60)
    <3> QED BY <2>4, <3>1, Zenon
  <2>8. CASE i = j
    BY <1>b, <1>1, <2>8
  <2>9. CASE i # j /\ ref'[j + 1].store[k] = ref[j].store[k]
    <3>1. i <= commitIndex /\ commitIndex \in 0 .. commitIndex
          /\ ref'[commitIndex + 1] = ref[j]
      BY <1>t, <2>2, <2>3, <2>9
    <3> QED BY <1>2, <2>9, <3>1, Zenon
  <2>10. CASE ref'[j + 1].store[k].version = j
    <3> DEFINE v == ref'[i + 1].store[k].version
    <3>1. v \in 1 .. commitIndex' /\ v <= i
      BY <1>b
    <3> HIDE DEF v
    <3>2. v <= j
      BY <1>1, <2>3, <3>1
    <3> QED BY <2>10, <3>2, Zenon DEF v
  <2> QED BY <2>7, <2>8, <2>9, <2>10, Zenon
<1> QED BY <1>3, <1>4, Zenon

\* A successful compare-and-set leaves the version of its own index.
LEMMA CasWrites ==
  ASSUME ProvenanceInv, NEW i \in 1 .. commitIndex, CasSucceeds(i)
  PROVE  /\ log[i].cmd.key \in Key
         /\ Prefix(i).store[log[i].cmd.key] # Absent
         /\ Prefix(i).store[log[i].cmd.key].version = i
         /\ log[i].cmd.version
              = StoredVersion(Prefix(i - 1).store[log[i].cmd.key])
<1> DEFINE cmd == log[i].cmd
           db == Prefix(i - 1).store
<1>1. cmd.op = "put" /\ cmd.cas /\ PutAccepted(db, cmd)
  BY DEF CasSucceeds
<1>2. cmd # Noop
  BY <1>1 DEF Noop
<1>3. /\ db \in Store /\ cmd \in Command /\ i \in Nat \ {0}
      /\ Exec(db, cmd, i, 0) = Prefix(i).store
  BY <1>2, ExecNext DEF ProvenanceInv
<1> HIDE DEF cmd, db
<1>4. cmd \in PutRequest
  BY <1>1, <1>3, CommandCases
<1>5. cmd.key \in Key
  BY <1>1, <1>4 DEF PutAccepted, PutRequest, KeyArg
<1>6. Exec(db, cmd, i, 0) = Put(db, cmd, i, 0)
  BY <1>1, ExecCases
<1>7. /\ Put(db, cmd, i, 0)[cmd.key].version = i
      /\ Put(db, cmd, i, 0)[cmd.key]
          = [version |-> i, expiresAt |-> resolveExpiry(cmd.ttl, cmd.expiresAt, 0),
             value |-> cmd.value]
  BY <1>1, <1>3, <1>5 DEF Put, NextVersion, Store
<1>8. Put(db, cmd, i, 0)[cmd.key] # Absent
  <2>1. resolveExpiry(cmd.ttl, cmd.expiresAt, 0) \in Nat /\ cmd.value \in Value
    BY <1>4, ResolveExpiryNat DEF PutRequest
  <2>2. Put(db, cmd, i, 0)[cmd.key] \in Envelope
    BY <1>3, <1>7, <2>1 DEF Envelope
  <2> QED BY <2>2, StorageAssumption
<1>9. cmd.version = StoredVersion(db[cmd.key])
  BY <1>1 DEF PutAccepted, CasHolds
<1>10. /\ Prefix(i).store[cmd.key] # Absent
       /\ Prefix(i).store[cmd.key].version = i
  BY <1>3, <1>6, <1>7, <1>8
<1> QED BY <1>5, <1>9, <1>10, Zenon DEF cmd, db

\* Compare-and-set is exclusive: a version of a key is replaced at most once,
\* and put-if-absent wins twice only if the key was gone in between.
THEOREM CasExclusiveHolds == Spec => []CasExclusive
<1>1. CasInv => CasExclusive
  <2> SUFFICES ASSUME CasInv, NEW i \in 1 .. commitIndex, NEW j \in 1 .. commitIndex,
                      i < j, CasSucceeds(i), CasSucceeds(j),
                      log[i].cmd.key = log[j].cmd.key,
                      log[i].cmd.version = log[j].cmd.version
               PROVE  /\ log[i].cmd.version = 0
                      /\ \E m \in i + 1 .. j - 1 :
                           Prefix(m).store[log[i].cmd.key] = Absent
    BY Zenon DEF CasExclusive
  <2> DEFINE k == log[i].cmd.key
             v == log[i].cmd.version
             before == Prefix(j - 1).store[k]
  <2>i. ProvenanceInv /\ RefProvenance /\ VersionOrder
    BY DEF CasInv, ProvenanceInv
  <2>1. /\ k \in Key /\ Prefix(i).store[k] # Absent
        /\ Prefix(i).store[k].version = i
        /\ v = StoredVersion(Prefix(i - 1).store[k])
    BY <2>i, CasWrites, Zenon
  <2>2. v = StoredVersion(before)
    BY <2>i, CasWrites, Zenon
  <2>0. commitIndex \in Nat
    BY <2>i, BaseTypes, Zenon DEF ProvenanceInv
  <2>3. /\ commitIndex \in Nat /\ i \in Nat /\ j \in Nat
        /\ i - 1 \in 0 .. commitIndex /\ j - 1 \in 0 .. commitIndex
        /\ i \in 0 .. j - 1
    BY <2>0
  <2>4. v <= i - 1
    <3>1. CASE Prefix(i - 1).store[k] = Absent
      <4>1. v = 0
        BY <2>1, <3>1, Zenon DEF StoredVersion
      <4> HIDE DEF v
      <4> QED BY <2>3, <4>1
    <3>2. CASE Prefix(i - 1).store[k] # Absent
      BY <2>i, <2>1, <2>3, <3>2, Zenon DEF RefProvenance, StoredVersion
    <3> QED BY <3>1, <3>2, Zenon
  <2>5. before = Absent
    <3> SUFFICES ASSUME before # Absent PROVE FALSE
      OBVIOUS
    <3>1. i <= before.version
      BY <2>i, <2>1, <2>3, Zenon DEF VersionOrder
    <3>2. before.version = v
      BY <2>2, Zenon DEF StoredVersion
    <3>3. v \in Nat
      <4>1. Provenance(log, commitIndex, before, k)
        BY <2>i, <2>1, <2>3, Zenon DEF RefProvenance
      <4>2. before.version \in 1 .. commitIndex
        BY <4>1, Zenon DEF Provenance
      <4>3. v \in 1 .. commitIndex
        BY <3>2, <4>2, Zenon
      <4> HIDE DEF v
      <4> QED BY <4>3
    <3>4. i <= v
      BY <3>1, <3>2, Zenon
    <3> HIDE DEF v
    <3> QED BY <2>3, <2>4, <3>3, <3>4, SMTT(60)
  <2>6. v = 0
    BY <2>2, <2>5, Zenon DEF StoredVersion
  <2>7. j - 1 # i
    BY <2>1, <2>5, Zenon
  <2>8. j - 1 \in i + 1 .. j - 1
    BY <2>3, <2>7
  <2> QED BY <2>5, <2>6, <2>8, Zenon
<1> QED BY CasInit, CasStep, <1>1, PTL DEF Spec

-----------------------------------------------------------------------------
(***************************************************************************)
(* The replicated store implements the single copy: every step of the raft  *)
(* log and of the nodes' FSMs is, seen on the foremost node, one command of *)
(* SingleCopy or nothing at all, for any number of nodes, keys and requests.*)
(***************************************************************************)

(***************************************************************************)
(* The operations of the abstract copy are those of the concrete one.       *)
(***************************************************************************)
LEMMA SameExpiry ==
  ASSUME NEW ttl, NEW e, NEW now
  PROVE  Abstract!resolveExpiry(ttl, e, now) = resolveExpiry(ttl, e, now)
BY Zenon DEF Abstract!resolveExpiry, Abstract!ExpiryFromTtl, resolveExpiry, ExpiryFromTtl

LEMMA SameVersion ==
  ASSUME NEW e, NEW cv
  PROVE  /\ Abstract!StoredVersion(e) = StoredVersion(e)
         /\ Abstract!NextVersion(e, cv) = NextVersion(e, cv)
BY Zenon DEF Abstract!StoredVersion, Abstract!NextVersion, StoredVersion, NextVersion

LEMMA SamePut ==
  ASSUME NEW db, NEW r, NEW cv, NEW now
  PROVE  Abstract!Put(db, r, cv, now) = Put(db, r, cv, now)
<1>1. Abstract!PutAccepted(db, r) <=> PutAccepted(db, r)
  BY SameVersion, Zenon
     DEF Abstract!PutAccepted, Abstract!CasHolds, PutAccepted, CasHolds
<1> QED BY <1>1, SameVersion, SameExpiry, Zenon DEF Abstract!Put, Put

LEMMA SameTouch ==
  ASSUME NEW db, NEW r, NEW cv, NEW now
  PROVE  Abstract!Touch(db, r, cv, now) = Touch(db, r, cv, now)
<1>1. Abstract!TouchAccepted(db, r) <=> TouchAccepted(db, r)
  BY Zenon DEF Abstract!TouchAccepted, TouchAccepted
<1> QED BY <1>1, SameVersion, SameExpiry, Zenon DEF Abstract!Touch, Touch

LEMMA SameIncrement ==
  ASSUME NEW db, NEW r, NEW cv, NEW now
  PROVE  Abstract!Increment(db, r, cv, now) = Increment(db, r, cv, now)
<1>1. \A e, f : Abstract!counterFromEnvelope(e, f) = counterFromEnvelope(e, f)
  BY Zenon DEF Abstract!counterFromEnvelope, counterFromEnvelope, Abstract!Counter, Counter
<1>2. \A a, b : Abstract!CounterAdd(a, b) = CounterAdd(a, b)
  BY Zenon DEF Abstract!CounterAdd, CounterAdd
<1> QED BY <1>1, <1>2, SameVersion, SameExpiry, Zenon DEF Abstract!Increment, Increment

LEMMA SameCardinality ==
  ASSUME NEW S
  PROVE  Abstract!Cardinality(S) = Cardinality(S)
BY Zenon DEF Abstract!Cardinality, Cardinality

LEMMA SameSetBatch ==
  ASSUME NEW db, NEW r, NEW cv, NEW now
  PROVE  Abstract!SetBatch(db, r, cv, now) = SetBatch(db, r, cv, now)
<1>1. \A rs, k : Abstract!WritesTo(rs, k) = WritesTo(rs, k)
  BY Zenon DEF Abstract!WritesTo, WritesTo
<1>2. \A rs, k, i : Abstract!IsLastWrite(rs, k, i) <=> IsLastWrite(rs, k, i)
  BY <1>1, Zenon DEF Abstract!IsLastWrite, IsLastWrite
<1>3. \A rs : Abstract!BatchAccepted(rs) <=> BatchAccepted(rs)
  BY <1>1, Zenon DEF Abstract!BatchAccepted, BatchAccepted
<1> DEFINE A == Abstract!SetBatch(db, r, cv, now)
           B == SetBatch(db, r, cv, now)
<1>4. CASE ~BatchAccepted(r.records)
  BY <1>3, <1>4, Zenon DEF Abstract!SetBatch, SetBatch
<1>5. CASE BatchAccepted(r.records)
  <2>1. A = [k \in Key |-> A[k]] /\ B = [k \in Key |-> B[k]]
    BY <1>3, <1>5, Zenon DEF Abstract!SetBatch, SetBatch
  <2>2. ASSUME NEW k \in Key PROVE A[k] = B[k]
    <3> DEFINE j == CHOOSE i \in DOMAIN r.records : IsLastWrite(r.records, k, i)
               a == CHOOSE i \in DOMAIN r.records : Abstract!IsLastWrite(r.records, k, i)
    <3>1. CASE \E i \in DOMAIN r.records : IsLastWrite(r.records, k, i)
      <4>1. B[k] = [version   |-> IF cv # 0 THEN cv
                                  ELSE StoredVersion(db[k])
                                         + Cardinality(WritesTo(r.records, k)),
                    expiresAt |-> resolveExpiry(r.records[j].ttl,
                                                r.records[j].expiresAt, now),
                    value     |-> r.records[j].value]
        BY <1>5, <3>1, Zenon DEF SetBatch
      <4>2. A[k] = [version   |-> IF cv # 0 THEN cv
                                  ELSE Abstract!StoredVersion(db[k])
                                         + Abstract!Cardinality(Abstract!WritesTo(r.records, k)),
                    expiresAt |-> Abstract!resolveExpiry(r.records[a].ttl,
                                                r.records[a].expiresAt, now),
                    value     |-> r.records[a].value]
        <5>1. /\ Abstract!BatchAccepted(r.records)
              /\ \E i \in DOMAIN r.records : Abstract!IsLastWrite(r.records, k, i)
          BY <1>2, <1>3, <1>5, <3>1, Zenon
        <5> QED BY <5>1, Zenon DEF Abstract!SetBatch
      <4>3. a = j
        BY <1>2
      <4> HIDE DEF a, j, A, B
      <4>4. /\ Abstract!StoredVersion(db[k]) = StoredVersion(db[k])
            /\ Abstract!Cardinality(Abstract!WritesTo(r.records, k))
                 = Cardinality(WritesTo(r.records, k))
            /\ Abstract!resolveExpiry(r.records[j].ttl, r.records[j].expiresAt, now)
                 = resolveExpiry(r.records[j].ttl, r.records[j].expiresAt, now)
        BY <1>1, SameVersion, SameExpiry, SameCardinality, Zenon
      <4> QED BY <4>1, <4>2, <4>3, <4>4
    <3>2. CASE ~\E i \in DOMAIN r.records : IsLastWrite(r.records, k, i)
      BY <1>2, <1>3, <1>5, <3>2, Zenon DEF Abstract!SetBatch, SetBatch
    <3> QED BY <3>1, <3>2, ZenonT(60)
  <2> HIDE DEF A, B
  <2>3. A = B
    BY <2>1, <2>2
  <2> QED BY <2>3, Zenon DEF A, B
<1> QED BY <1>4, <1>5

LEMMA SameExec ==
  ASSUME NEW db, NEW cmd \in ClientRequest, NEW cv, NEW now
  PROVE  Abstract!Exec(db, cmd, cv, now) = Exec(db, cmd, cv, now)
<1>1. Abstract!Remove(db, cmd) = Remove(db, cmd)
  BY Zenon DEF Abstract!Remove, Remove
<1>2. Abstract!Reclaim(db, cmd) = Reclaim(db, cmd)
  <2>1. \A k : Abstract!Reclaims(db, cmd, k) <=> Reclaims(db, cmd, k)
    BY SameVersion, Zenon DEF Abstract!Reclaims, Reclaims
  <2> QED BY <2>1 DEF Abstract!Reclaim, Reclaim
<1> QED
  BY <1>1, <1>2, SamePut, SameTouch, SameIncrement, SameSetBatch, Zenon
     DEF Abstract!Exec, Exec

-----------------------------------------------------------------------------
(***************************************************************************)
(* The foremost node.  That there is one is an invariant of its own: the    *)
(* set of nodes may be any set.                                             *)
(***************************************************************************)
Leads(a, f) == f \in Node /\ \A m \in Node : a[m] <= a[f]

Undisturbed == \A n \in Node : crashes[n] = 0 /\ faults[n] = 0

LEMMA ForemostLeads ==
  ASSUME NEW f, Leads(applied, f)
  PROVE  Leads(applied, Foremost)
BY Zenon DEF Leads, Foremost

\* One node applies one more entry: the lead stays where it was, or that node
\* was among the foremost and takes it.
LEMMA LeadMoves ==
  ASSUME NEW a \in [Node -> Nat], NEW f, Leads(a, f), NEW n \in Node,
         NEW g, Leads([a EXCEPT ![n] = @ + 1], g)
  PROVE  LET b == [a EXCEPT ![n] = @ + 1] IN
         \/ b[g] = a[f]
         \/ b[g] = a[f] + 1 /\ a[n] = a[f]
<1> DEFINE b == [a EXCEPT ![n] = @ + 1]
<1>1. /\ f \in Node /\ g \in Node /\ \A m \in Node : a[m] \in Nat
      /\ a[g] <= a[f] /\ a[n] <= a[f] /\ b[f] <= b[g]
  BY Zenon DEF Leads
<1>2. b[n] = a[n] + 1 /\ \A m \in Node : m # n => b[m] = a[m]
  BY Zenon
<1> HIDE DEF b
<1>3. b[f] = a[f] \/ b[f] = a[f] + 1
  BY <1>1, <1>2, Zenon
<1>4. b[g] = a[g] \/ (b[g] = a[g] + 1 /\ a[g] = a[n])
  BY <1>1, <1>2, Zenon
<1>5. a[f] \in Nat /\ a[g] \in Nat
  BY <1>1, Zenon
<1>6. b[g] = a[f] \/ (b[g] = a[f] + 1 /\ a[n] = a[f])
  BY <1>1, <1>3, <1>4, <1>5
<1> QED BY <1>6, Zenon DEF b

LEMMA LeadExists ==
  ASSUME NEW a \in [Node -> Nat], NEW f, Leads(a, f), NEW n \in Node
  PROVE  \E g : Leads([a EXCEPT ![n] = @ + 1], g)
<1> DEFINE b == [a EXCEPT ![n] = @ + 1]
<1>1. f \in Node /\ \A m \in Node : a[m] \in Nat /\ a[m] <= a[f]
  BY Zenon DEF Leads
<1>2. b[n] = a[n] + 1 /\ \A m \in Node : m # n => b[m] = a[m]
  BY Zenon
<1> HIDE DEF b
<1>3. CASE a[n] = a[f]
  <2>1. \A m \in Node : b[m] <= b[n]
    BY <1>1, <1>2, <1>3
  <2> QED BY <2>1, Zenon DEF Leads, b
<1>4. CASE a[n] # a[f]
  <2>1. \A m \in Node : b[m] <= b[f]
    BY <1>1, <1>2, <1>4
  <2> QED BY <1>1, <2>1, Zenon DEF Leads, b
<1> QED BY <1>3, <1>4, Zenon

\* While nothing restarts, nodes only go forward, one entry at a time.
LEMMA AppliedSteps ==
  ASSUME Base, [Next]_vars, Undisturbed'
  PROVE  \/ applied' = applied
         \/ \E n \in Node : /\ applied[n] < commitIndex
                           /\ applied' = [applied EXCEPT ![n] = @ + 1]
                           /\ UNCHANGED <<log, commitIndex, ref>>
<1>1. CASE Commit \/ UNCHANGED vars
  BY <1>1, Zenon DEF Commit, vars, fsmVars
<1>2. ASSUME NEW n \in Node, Restart(n) PROVE FALSE
  <2>1. crashes \in [Node -> Nat] /\ crashes' = [crashes EXCEPT ![n] = @ + 1]
    BY <1>2, BaseTypes, Zenon DEF Restart
  <2>2. crashes[n] \in Nat /\ crashes'[n] = crashes[n] + 1 /\ crashes'[n] = 0
    BY <2>1, Zenon DEF Undisturbed
  <2> QED BY <2>2
<1>3. ASSUME NEW n \in Node, Apply(n)
      PROVE  /\ applied[n] < commitIndex
             /\ applied' = [applied EXCEPT ![n] = @ + 1]
             /\ UNCHANGED <<log, commitIndex, ref>>
  BY <1>3, Zenon DEF Apply, raftVars, Base, Chained
<1>4. ASSUME NEW n \in Node, SkipNoop(n)
      PROVE  /\ applied[n] < commitIndex
             /\ applied' = [applied EXCEPT ![n] = @ + 1]
             /\ UNCHANGED <<log, commitIndex, ref>>
  BY <1>4, Zenon DEF SkipNoop, FsmReady, raftVars
<1>5. ASSUME NEW n \in Node,
             \/ LeaderElected(n) \/ (\E r \in Requests : Propose(n, r))
             \/ advanceChain(n) \/ Tick(n)
             \/ ReclaimScan(n) \/ ReclaimPropose(n) \/ ReclaimAbandon(n)
      PROVE  applied' = applied
  BY <1>5, Zenon DEF LeaderElected, Propose, advanceChain, Tick, ReclaimScan,
                     ReclaimPropose, ReclaimAbandon, fsmVars
<1> QED BY <1>1, <1>2, <1>3, <1>4, <1>5, Zenon DEF Next

-----------------------------------------------------------------------------
(***************************************************************************)
(* What a log entry may hold, and how far the bounds let things grow.       *)
(***************************************************************************)
Origin(cmd) == cmd = Noop \/ cmd \in StampedCommands \/ cmd.op = "reclaim"

Bounded ==
  /\ Len(log) <= MaxIndex
  /\ \A n \in Node : clock[n] <= MaxClock
  /\ \A i \in 1 .. Len(log) : Origin(log[i].cmd)

LEMMA LengthStep ==
  ASSUME Base, [Next]_vars, Len(log) <= MaxIndex
  PROVE  Len(log') <= MaxIndex
<1>1. log \in Seq(Entry) /\ Len(log) \in Nat /\ commitIndex \in Nat /\ MaxIndex \in Nat
      /\ term \in Nat
  BY BaseTypes, ReplicationAssumption, Zenon
<1>2. ASSUME NEW cmd, NEW n, applyCommand(n, cmd) PROVE Len(log') <= MaxIndex
  <2> DEFINE e == [term |-> term, cmd |-> cmd]
  <2>1. log' = Append(log, e) /\ Len(log) < MaxIndex
    BY <1>2, Zenon DEF applyCommand
  <2> HIDE DEF e
  <2> QED BY <1>1, <2>1
<1>3. ASSUME NEW n \in Node, LeaderElected(n) PROVE Len(log') <= MaxIndex
  <2> DEFINE e == [term |-> term + 1, cmd |-> Noop]
  <2>1. PICK keep \in commitIndex .. Len(log) :
          keep < MaxIndex /\ log' = Append(SubSeq(log, 1, keep), e)
    BY <1>3, Zenon DEF LeaderElected
  <2>2. keep \in 0 .. Len(log)
    BY <1>1
  <2>3. SubSeq(log, 1, keep) \in Seq(Entry) /\ Len(SubSeq(log, 1, keep)) = keep
    BY <1>1, <2>2, TruncateFacts, Zenon
  <2> HIDE DEF e
  <2> QED BY <1>1, <2>1, <2>2, <2>3
<1>4. CASE UNCHANGED log
  BY <1>4
<1>5. \/ UNCHANGED log \/ (\E n \in Node : LeaderElected(n))
      \/ \E n \in Node : \E cmd : applyCommand(n, cmd)
  BY Zenon DEF Next, Commit, Propose, advanceChain, Apply, SkipNoop, Restart, Tick,
               ReclaimScan, ReclaimPropose, ReclaimAbandon, raftVars, vars
<1> QED BY <1>2, <1>3, <1>4, <1>5, Zenon

LEMMA ClockStep ==
  ASSUME Base, [Next]_vars, NEW n \in Node, clock[n] <= MaxClock
  PROVE  clock'[n] <= MaxClock
<1>1. clock \in [Node -> Nat] /\ MaxClock \in Nat
  BY BaseTypes, ReplicationAssumption, Zenon
<1>2. clock' = clock \/ \E m \in Node : Tick(m)
  BY Zenon DEF Next, Commit, LeaderElected, Propose, advanceChain, Apply, SkipNoop,
               Restart, ReclaimScan, ReclaimPropose, ReclaimAbandon, envVars, vars
<1>3. ASSUME NEW m \in Node, Tick(m) PROVE clock'[n] <= MaxClock
  <2>1. clock[m] < MaxClock /\ clock' = [clock EXCEPT ![m] = @ + 1]
    BY <1>3, Zenon DEF Tick
  <2> QED BY <1>1, <2>1
<1> QED BY <1>2, <1>3, Zenon

LEMMA BoundedInit == Init => Bounded
<1>1. MaxIndex \in Nat /\ MaxClock \in Nat
  BY ReplicationAssumption, Zenon
<1>2. Init => /\ Len(log) = 0 /\ \A n \in Node : clock[n] = 0
              /\ \A i \in 1 .. Len(log) : Origin(log[i].cmd)
  BY DEF Init
<1> QED BY <1>1, <1>2 DEF Bounded

LEMMA BoundedStep == Base /\ Bounded /\ [Next]_vars => Bounded'
<1> SUFFICES ASSUME Base, Bounded, [Next]_vars PROVE Bounded'
  OBVIOUS
<1>1. (Len(log) <= MaxIndex)' /\ \A n \in Node : clock'[n] <= MaxClock
  BY LengthStep, ClockStep, Zenon DEF Bounded
<1>2. ASSUME NEW i \in 1 .. Len(log') PROVE Origin(log'[i].cmd)
  <2>1. CASE i \in 1 .. Len(log) /\ log'[i] = log[i]
    BY <2>1, Zenon DEF Bounded
  <2>2. ASSUME NEW n \in Node, NEW r \in Requests, log'[i].cmd = Stamp(r, clock[n])
        PROVE  Origin(log'[i].cmd)
    <3>1. clock[n] \in Nat /\ clock[n] <= MaxClock /\ MaxClock \in Nat
      BY BaseTypes, ReplicationAssumption, Zenon DEF Bounded
    <3>2. clock[n] \in 0 .. MaxClock
      BY <3>1
    <3>3. Stamp(r, clock[n]) \in StampedCommands
      BY <3>2 DEF StampedCommands
    <3> QED BY <2>2, <3>3, Zenon DEF Origin
  <2>3. ASSUME NEW n \in Node, log'[i].cmd = [op |-> "reclaim", entries |-> sweep[n]]
        PROVE  Origin(log'[i].cmd)
    BY <2>3 DEF Origin
  <2> QED BY <2>1, <2>2, <2>3, NewEntries, Zenon DEF Origin
<1> QED BY <1>1, <1>2, Zenon DEF Bounded

-----------------------------------------------------------------------------
(***************************************************************************)
(* The invariant of the refinement, and the simulation of one step.         *)
(***************************************************************************)
RefineInv ==
  /\ Base /\ RefInv /\ LogStamped /\ ReplicaAgreement /\ Bounded
  /\ \E f : Leads(applied, f)

LEMMA RefineInit == Init => RefineInv
<1> SUFFICES ASSUME Init PROVE RefineInv
  OBVIOUS
<1>1. PICK f \in Node : TRUE
  BY ReplicationAssumption, Zenon
<1>2. \A m \in Node : applied[m] = 0
  BY Zenon DEF Init
<1>3. \A m \in Node : applied[m] <= applied[f]
  BY <1>2
<1> QED BY <1>3, AgreeInit, BoundedInit, Zenon DEF RefineInv, AgreeInv, Leads

LEMMA RefineStep == RefineInv /\ Undisturbed' /\ [Next]_vars => RefineInv'
<1> SUFFICES ASSUME RefineInv, Undisturbed', [Next]_vars PROVE \E f : Leads(applied', f)
  <2>1. RefineInv' <=> AgreeInv' /\ Bounded' /\ \E f : Leads(applied', f)
    BY Zenon DEF RefineInv, AgreeInv, Leads
  <2> QED BY <2>1, AgreeStep, BoundedStep, Zenon DEF RefineInv, AgreeInv
<1>1. PICK f : Leads(applied, f)
  BY Zenon DEF RefineInv
<1>2. applied \in [Node -> Nat]
  <2>1. applied \in [Node -> 0 .. commitIndex] /\ commitIndex \in Nat
    BY BaseTypes, Zenon DEF RefineInv
  <2> QED BY <2>1
<1>3. CASE applied' = applied
  BY <1>1, <1>3, Zenon
<1>4. ASSUME NEW n \in Node, applied' = [applied EXCEPT ![n] = @ + 1]
      PROVE  \E g : Leads(applied', g)
  BY <1>1, <1>2, <1>4, LeadExists, Zenon
<1> QED BY <1>3, <1>4, AppliedSteps, Zenon DEF RefineInv

\* The foremost node holds the outcome of the prefix it has applied.
LEMMA ForemostStore ==
  ASSUME RefineInv, Undisturbed
  PROVE  /\ Leads(applied, Foremost)
         /\ applied \in [Node -> Nat]
         /\ applied[Foremost] \in 0 .. commitIndex /\ commitIndex \in Nat
         /\ store[Foremost] = Prefix(applied[Foremost]).store
<1>1. Leads(applied, Foremost)
  BY ForemostLeads, Zenon DEF RefineInv
<1>2. Foremost \in Node
  BY <1>1, Zenon DEF Leads
<1>3. applied \in [Node -> 0 .. commitIndex] /\ commitIndex \in Nat
  BY BaseTypes, Zenon DEF RefineInv
<1>4. store[Foremost] = Prefix(applied[Foremost]).store
  BY <1>2, Zenon DEF RefineInv, ReplicaAgreement, Undisturbed
<1>5. applied[Foremost] \in 0 .. commitIndex
  BY <1>2, <1>3, Zenon
<1>6. applied \in [Node -> Nat]
  BY <1>3
<1> QED BY <1>1, <1>3, <1>4, <1>5, <1>6, Zenon

\* The outcome of one more committed entry is one step of the single copy.
LEMMA EntrySimulated ==
  ASSUME RefineInv, ReclaimOnlyExpired, NEW i \in 1 .. commitIndex
  PROVE  \/ \E cmd \in StampedCommands :
              Prefix(i).store = Abstract!Exec(Prefix(i - 1).store, cmd, i, 0)
         \/ \E K \in SUBSET {k \in Key : /\ Prefix(i - 1).store[k] # Absent
                                       /\ Prefix(i - 1).store[k].expiresAt # 0} :
              Prefix(i).store = [k \in Key |-> IF k \in K THEN Absent
                                               ELSE Prefix(i - 1).store[k]]
<1> DEFINE db == Prefix(i - 1).store
           new == Prefix(i).store
           cmd == log[i].cmd
           mortal == {k \in Key : db[k] # Absent /\ db[k].expiresAt # 0}
<1>0. Base /\ RefInv /\ LogStamped /\ Bounded
  BY Zenon DEF RefineInv
<1>1. CASE cmd = Noop
  <2>1. /\ ref \in Seq(Result) /\ Len(ref) = commitIndex + 1 /\ commitIndex \in Nat
        /\ ref[i + 1] = Outcome(ref[i], i, log[i])
    BY <1>0, BaseTypes, Zenon DEF RefInv
  <2>2. i \in DOMAIN ref /\ (i - 1) + 1 = i
    BY <2>1
  <2>3. ref[i] \in Result
    BY <2>1, <2>2, SeqElement, Zenon
  <2>4. db \in Store /\ new = db
    <3>1. ref[i].store \in Store
      BY <2>3, Zenon DEF Result
    <3>2. ref[i + 1] = ref[i]
      BY <1>1, <2>1, Zenon DEF Outcome
    <3>3. db = ref[i].store
      BY <2>2, Zenon DEF Prefix
    <3>4. new = ref[i].store
      BY <3>2, Zenon DEF Prefix
    <3> QED BY <3>1, <3>3, <3>4, Zenon
  <2> HIDE DEF db, new
  <2>5. new = [k \in Key |-> IF k \in {} THEN Absent ELSE db[k]]
    BY <2>4 DEF Store
  <2>6. {} \in SUBSET mortal
    BY Zenon
  <2> QED BY <2>5, <2>6, Zenon DEF db, new
<1>2. CASE cmd # Noop
  <2>1. /\ db \in Store /\ cmd \in Command /\ i \in Nat \ {0}
        /\ new = Exec(db, cmd, i, 0)
    BY <1>0, <1>2, ExecNext
  <2>2. i \in 1 .. Len(log)
    BY <1>0, BaseTypes
  <2>3. cmd \in StampedCommands \/ cmd.op = "reclaim"
    BY <1>0, <1>2, <2>2, Zenon DEF Bounded, Origin
  <2>4. CASE cmd \in StampedCommands
    <3>1. cmd \in ClientRequest
      <4>1. PICK r \in Requests, t \in 0 .. MaxClock : cmd = Stamp(r, t)
        BY <2>4 DEF StampedCommands
      <4>2. r \in ClientRequest /\ t \in Nat
        BY ReplicationAssumption
      <4> QED BY <4>1, <4>2, StampFacts, Zenon
    <3> QED BY <2>1, <2>4, <3>1, SameExec, ZenonT(60)
  <2>5. CASE cmd.op = "reclaim"
    <3> DEFINE K == {k \in Key : Reclaims(db, cmd, k)}
    <3>1. new = [k \in Key |-> IF Reclaims(db, cmd, k) THEN Absent ELSE db[k]]
      <4> HIDE DEF db, new, cmd
      <4>1. Exec(db, cmd, i, 0) = Reclaim(db, cmd)
        BY <2>5, ExecCases
      <4> QED BY <2>1, <4>1, Zenon DEF Reclaim
    <3>2. new = [k \in Key |-> IF k \in K THEN Absent ELSE db[k]]
      <4>1. \A k \in Key : k \in K <=> Reclaims(db, cmd, k)
        BY Zenon
      <4> HIDE DEF K, db, new, cmd
      <4> QED BY <3>1, <4>1
    <3>3. ASSUME NEW k \in K PROVE k \in mortal
      <4>1. k \in Key /\ Reclaims(db, cmd, k)
        BY <3>3, Zenon
      <4>2. db[k] # Absent
        BY <4>1, Zenon DEF Reclaims
      <4>3. \E n \in Node : IsExpired(db[k].expiresAt, clock[n])
        BY <2>5, <4>1, Zenon DEF ReclaimOnlyExpired
      <4> QED BY <4>1, <4>2, <4>3, Zenon DEF IsExpired
    <3> QED BY <3>2, <3>3, Zenon
  <2> QED BY <2>3, <2>4, <2>5, Zenon
<1> QED BY <1>1, <1>2, Zenon

LEMMA StepSimulated ==
  ASSUME RefineInv, RefineInv', Undisturbed, Undisturbed', ReclaimOnlyExpired,
         [Next]_vars
  PROVE  [Abstract!Next]_(<<store[Foremost], applied[Foremost]>>)
<1> DEFINE v == applied[Foremost]
           w == applied'[Foremost']
           kv == store[Foremost]
           kw == store'[Foremost']
<1>1. /\ Leads(applied, Foremost) /\ applied \in [Node -> Nat]
      /\ v \in 0 .. commitIndex /\ commitIndex \in Nat /\ kv = ref[v + 1].store
  BY ForemostStore, Zenon DEF Prefix
<1>2. /\ Leads(applied', Foremost')
      /\ w \in 0 .. commitIndex' /\ kw = ref'[w + 1].store
  <2>1. (/\ Leads(applied, Foremost)
         /\ applied[Foremost] \in 0 .. commitIndex
         /\ store[Foremost] = Prefix(applied[Foremost]).store)'
    BY ForemostStore, PTL
  <2> QED BY <2>1, Zenon DEF Prefix, Leads
<1>3. \A i \in 1 .. commitIndex + 1 : ref'[i] = ref[i]
  BY HistoryStable, Zenon DEF RefineInv
<1>4. \/ w = v
      \/ w = v + 1 /\ v < commitIndex /\ UNCHANGED <<log, commitIndex, ref>>
  <2>1. CASE applied' = applied
    BY <2>1, Zenon DEF Foremost
  <2>2. ASSUME NEW n \in Node, applied[n] < commitIndex,
               applied' = [applied EXCEPT ![n] = @ + 1],
               UNCHANGED <<log, commitIndex, ref>>
        PROVE  \/ w = v
               \/ w = v + 1 /\ v < commitIndex /\ UNCHANGED <<log, commitIndex, ref>>
    <3>1. Leads([applied EXCEPT ![n] = @ + 1], Foremost')
      BY <1>2, <2>2, Zenon
    <3>2. w = v \/ (w = v + 1 /\ applied[n] = v)
      BY <1>1, <2>2, <3>1, LeadMoves, ZenonT(60)
    <3> QED BY <2>2, <3>2, Zenon
  <2> QED BY <2>1, <2>2, AppliedSteps, Zenon DEF RefineInv
<1>5. CASE w = v
  <2>1. v + 1 \in 1 .. commitIndex + 1
    BY <1>1
  <2> QED BY <1>1, <1>2, <1>3, <1>5, <2>1, Zenon
<1>6. CASE w = v + 1 /\ v < commitIndex /\ UNCHANGED <<log, commitIndex, ref>>
  <2> DEFINE i == v + 1
  <2>1. kv = Prefix(i - 1).store /\ kw = Prefix(i).store /\ i \in 1 .. commitIndex
    <3>1. i - 1 = v /\ i \in 1 .. commitIndex
      BY <1>1, <1>6
    <3> QED BY <1>1, <1>2, <1>6, <3>1, Zenon DEF Prefix
  <2>2. i \in v + 1 .. MaxIndex
    <3>1. /\ commitIndex \in 0 .. Len(log) /\ Len(log) \in Nat /\ Len(log) <= MaxIndex
          /\ MaxIndex \in Nat
      BY BaseTypes, ReplicationAssumption, Zenon DEF RefineInv, Bounded
    <3> QED BY <1>1, <2>1, <3>1
  <2>3. \/ \E cmd \in StampedCommands : kw = Abstract!Exec(kv, cmd, i, 0)
        \/ \E K \in SUBSET {k \in Key : kv[k] # Absent /\ kv[k].expiresAt # 0} :
             kw = [k \in Key |-> IF k \in K THEN Absent ELSE kv[k]]
    <3> DEFINE Sim(db, new) ==
                 \/ \E cmd \in StampedCommands : new = Abstract!Exec(db, cmd, i, 0)
                 \/ \E K \in SUBSET {k \in Key : db[k] # Absent /\ db[k].expiresAt # 0} :
                      new = [k \in Key |-> IF k \in K THEN Absent ELSE db[k]]
    <3> HIDE DEF i
    <3>1. Sim(Prefix(i - 1).store, Prefix(i).store)
      BY <2>1, EntrySimulated, Zenon
    <3> HIDE DEF kv, kw, Sim
    <3>2. Sim(kv, kw)
      BY <2>1, <3>1, Zenon
    <3> QED BY <3>2, Zenon DEF Sim
  <2>4. Abstract!Write(i) \/ Abstract!Expire
    BY <2>3, Zenon DEF Abstract!Write, Abstract!Expire
  <2> QED BY <1>6, <2>2, <2>4, Zenon DEF Abstract!Next
<1> QED BY <1>4, <1>5, <1>6, Zenon

\* FSM.Apply over the raft log: while no node restarts and no storage transaction
\* fails, what the foremost node holds changes as one copy would that executes
\* whole client commands one after the other and loses only records that were
\* given an expiry; nodes that lag, elections and sweeps are invisible.
THEOREM SpecImplementsSingleCopy == Spec /\ []Undisturbed => ImplementsSingleCopy
<1>1. Init => Abstract!Init
  <2> SUFFICES ASSUME Init PROVE Abstract!Init
    OBVIOUS
  <2>1. Foremost \in Node
    BY RefineInit, ForemostLeads, Zenon DEF RefineInv, Leads
  <2>2. store[Foremost] = EmptyStore /\ applied[Foremost] = 0
    BY <2>1, Zenon DEF Init
  <2> QED BY <2>2, Zenon DEF Abstract!Init, Abstract!EmptyStore, EmptyStore
<1>2. RefineInv /\ RefineInv' /\ Undisturbed /\ Undisturbed' /\ ReclaimOnlyExpired
        /\ [Next]_vars => [Abstract!Next]_(<<store[Foremost], applied[Foremost]>>)
  BY StepSimulated
<1>3. Spec /\ []Undisturbed => []RefineInv
  BY RefineInit, RefineStep, PTL DEF Spec
<1> QED
  BY <1>1, <1>2, <1>3, ReclaimOnlyExpiredHolds, PTL
     DEF Spec, ImplementsSingleCopy, Abstract!Spec

=============================================================================
