---------------------------- MODULE Replication ----------------------------
(***************************************************************************)
(* The replicated write path: KeyValueService stamps a request on the      *)
(* leader (pkg/server/server.go), Replicator proposes it                   *)
(* (pkg/replication/replicator.go), the raft library orders and commits it, *)
(* every node's FSM folds it into the hash chain and then executes it       *)
(* against badger (pkg/replication/fsm.go), and the leader's Reclaimer      *)
(* proposes the removal of expired records (pkg/replication/reclaimer.go).  *)
(*                                                                         *)
(* The raft library is external.  It is one log whose committed prefix     *)
(* never changes, an election that may drop any part of the uncommitted     *)
(* suffix and appends a no-op, and a commit index.  As in the library, the  *)
(* index of the last applied entry is volatile: a restarted node hands the  *)
(* FSM the log again from the start, over the badger store it kept.         *)
(***************************************************************************)
EXTENDS Storage

CONSTANTS
  Node,
  None,        \* no leader
  Requests,    \* what clients may send, repeatedly and to any leader
  Limit,       \* Reclaimer.Limit: entries per sweep, 0 for no limit
  MaxIndex,    \* bound on the length of the log
  MaxTerm,     \* bound on elections
  MaxClock,    \* bound on each node's clock
  MaxCrash,    \* no more restarts once a node has had this many
  MaxFault     \* the same for failing storage transactions

ASSUME ReplicationAssumption ==
  /\ Node # {} /\ None \notin Node
  /\ Requests \subseteq ClientRequest
  /\ Limit \in Nat
  /\ {MaxIndex, MaxTerm, MaxClock, MaxCrash, MaxFault} \subseteq Nat

VARIABLES
  log,          \* raft: the leader's log
  commitIndex,  \* raft: entries 1 .. commitIndex are committed
  term,         \* raft: current term
  leader,       \* raft: its leader, or None
  clock,        \* wall clock of each node, seconds
  applied,      \* raft, volatile: last entry handed to the node's FSM
  pc,           \* "chained" between advanceChain and the storage operation
  store,        \* badger: the records
  head,         \* badger: the persisted chain head
  chain,        \* FSM.chain, in memory
  sweep,        \* entries Reclaimer found and has not proposed yet
  crashes,      \* restarts so far
  faults,       \* storage transactions that failed so far
  acked,        \* highest index whose proposer has been answered
  ref           \* auxiliary: the outcome of every committed prefix

raftVars == <<log, commitIndex, term, leader>>
fsmVars == <<applied, pc, store, head, chain>>
envVars == <<clock, crashes, faults>>
vars == <<raftVars, fsmVars, envVars, sweep, acked, ref>>

-----------------------------------------------------------------------------
(***************************************************************************)
(* The hash chain.  SHA-256 is modelled as an injective function: a digest  *)
(* is the sequence of everything folded into it.                            *)
(***************************************************************************)
Noop == [op |-> "noop"]     \* raft's own entry; it never reaches FSM.Apply
Entry == [term : Nat, cmd : Command \cup {Noop}]

Folded == [index : Nat, term : Nat, cmd : Command]
GenesisDigest == << >>

NextDigest(prev, index, t, cmd) ==
  Append(prev, [index |-> index, term |-> t, cmd |-> cmd])

HashChain == [index : Nat, digest : Seq(Folded)]
Genesis == [index |-> 0, digest |-> GenesisDigest]

AdvanceAlways(c, index, t, cmd) ==
  [index |-> index, digest |-> NextDigest(c.digest, index, t, cmd)]

AdvanceSkipsNext(c, index, t, cmd) ==
  IF index <= c.index + 1 THEN c
  ELSE [index |-> index, digest |-> NextDigest(c.digest, index, t, cmd)]

Advance(c, index, t, cmd) ==
  IF index <= c.index THEN c
  ELSE [index |-> index, digest |-> NextDigest(c.digest, index, t, cmd)]

-----------------------------------------------------------------------------
(***************************************************************************)
(* KeyValueService: the absolute expiry is computed once, on the node that  *)
(* accepts the write.                                                       *)
(***************************************************************************)
StampExpiry(r, now) ==
  [r EXCEPT !.expiresAt = resolveExpiry(r.ttl, r.expiresAt, now)]

StampNothing(r, now) == r

Stamp(r, now) ==
  CASE r.op = "remove" -> r
    [] r.op = "batch"  -> [r EXCEPT !.records =
                             [i \in DOMAIN r.records |->
                                StampExpiry(r.records[i], now)]]
    [] OTHER           -> StampExpiry(r, now)

(***************************************************************************)
(* The outcome of a committed prefix: the store and the digest that the log *)
(* defines, whoever applies it.  Stamped commands do not read the clock.    *)
(***************************************************************************)
Outcome(prev, i, e) ==
  IF e.cmd = Noop THEN prev
  ELSE [store  |-> Exec(prev.store, e.cmd, i, 0),
        digest |-> NextDigest(prev.digest, i, e.term, e.cmd)]

Prefix(i) == ref[i + 1]     \* the outcome of entries 1 .. i

MayCrash == \A n \in Node : crashes[n] < MaxCrash
MayFail == \A n \in Node : faults[n] < MaxFault

-----------------------------------------------------------------------------
Init ==
  /\ log = << >>
  /\ commitIndex = 0
  /\ term = 0
  /\ leader = None
  /\ clock = [n \in Node |-> 0]
  /\ applied = [n \in Node |-> 0]
  /\ pc = [n \in Node |-> "idle"]
  /\ store = [n \in Node |-> EmptyStore]
  /\ head = [n \in Node |-> Genesis]
  /\ chain = [n \in Node |-> Genesis]
  /\ sweep = [n \in Node |-> {}]
  /\ crashes = [n \in Node |-> 0]
  /\ faults = [n \in Node |-> 0]
  /\ acked = 0
  /\ ref = <<[store |-> EmptyStore, digest |-> GenesisDigest]>>

(***************************************************************************)
(* raft: node n wins an election with a log that holds every committed      *)
(* entry and perhaps more.                                                  *)
(***************************************************************************)
LeaderElected(n) ==
  /\ term < MaxTerm
  /\ \E keep \in commitIndex .. Len(log) :
       /\ keep < MaxIndex
       /\ log' = Append(SubSeq(log, 1, keep),
                        [term |-> term + 1, cmd |-> Noop])
  /\ term' = term + 1
  /\ leader' = n
  /\ UNCHANGED <<commitIndex, fsmVars, envVars, sweep, acked, ref>>

\* raft: one more entry is on a majority.
Commit ==
  /\ leader # None
  /\ commitIndex < Len(log)
  /\ commitIndex' = commitIndex + 1
  /\ ref' = Append(ref, Outcome(Prefix(commitIndex), commitIndex + 1,
                                log[commitIndex + 1]))
  /\ UNCHANGED <<log, term, leader, fsmVars, envVars, sweep, acked>>

(***************************************************************************)
(* Replicator.applyCommand on the leader.  Elsewhere it answers             *)
(* NotLeaderError and changes nothing.                                      *)
(***************************************************************************)
applyCommand(n, cmd) ==
  /\ leader = n
  /\ Len(log) < MaxIndex
  /\ log' = Append(log, [term |-> term, cmd |-> cmd])
  /\ UNCHANGED <<commitIndex, term, leader>>

Propose(n, r) ==
  /\ applyCommand(n, Stamp(r, clock[n]))
  /\ UNCHANGED <<fsmVars, envVars, sweep, acked, ref>>

(***************************************************************************)
(* FSM.Apply, in its two transactions.  StoreHead ignores a failing write.  *)
(***************************************************************************)
NextEntry(n) == log[applied[n] + 1]
FsmReady(n) == pc[n] = "idle" /\ applied[n] < commitIndex

advanceChain(n) ==
  /\ FsmReady(n)
  /\ NextEntry(n).cmd # Noop
  /\ LET c == Advance(chain[n], applied[n] + 1,
                      NextEntry(n).term, NextEntry(n).cmd)
     IN /\ chain' = [chain EXCEPT ![n] = c]
        /\ \/ head' = [head EXCEPT ![n] = c] /\ UNCHANGED faults
           \/ /\ MayFail
              /\ faults' = [faults EXCEPT ![n] = @ + 1]
              /\ UNCHANGED head
  /\ pc' = [pc EXCEPT ![n] = "chained"]
  /\ UNCHANGED <<raftVars, applied, store, clock, crashes, sweep, acked, ref>>

\* The proposer's future resolves when the leader of its term has applied.
Answer(n) ==
  IF leader = n /\ NextEntry(n).term = term THEN applied[n] + 1 ELSE acked

Apply(n) ==
  /\ pc[n] = "chained"
  /\ \/ /\ store' = [store EXCEPT ![n] =
                       Exec(@, NextEntry(n).cmd, applied[n] + 1, clock[n])]
        /\ acked' = Answer(n)
        /\ UNCHANGED faults
     \/ /\ MayFail     \* the transaction fails; the entry counts
        /\ faults' = [faults EXCEPT ![n] = @ + 1]
        /\ UNCHANGED <<store, acked>>
  /\ applied' = [applied EXCEPT ![n] = @ + 1]
  /\ pc' = [pc EXCEPT ![n] = "idle"]
  /\ UNCHANGED <<raftVars, head, chain, clock, crashes, sweep, ref>>

\* raft: its own entries advance the applied index without the FSM.
SkipNoop(n) ==
  /\ FsmReady(n)
  /\ NextEntry(n).cmd = Noop
  /\ applied' = [applied EXCEPT ![n] = @ + 1]
  /\ UNCHANGED <<raftVars, pc, store, head, chain, envVars, sweep, acked, ref>>

(***************************************************************************)
(* The process dies, at any point, and comes back: badger and the raft log  *)
(* are kept, FSM.PostConstruct seeds the chain from the persisted head, and *)
(* raft replays.                                                            *)
(***************************************************************************)
Restart(n) ==
  /\ MayCrash
  /\ crashes' = [crashes EXCEPT ![n] = @ + 1]
  /\ applied' = [applied EXCEPT ![n] = 0]
  /\ pc' = [pc EXCEPT ![n] = "idle"]
  /\ chain' = [chain EXCEPT ![n] = head[n]]
  /\ sweep' = [sweep EXCEPT ![n] = {}]
  /\ leader' = IF leader = n THEN None ELSE leader
  /\ UNCHANGED <<log, commitIndex, term, clock, faults, store, head,
                 acked, ref>>

Tick(n) ==
  /\ clock[n] < MaxClock
  /\ clock' = [clock EXCEPT ![n] = @ + 1]
  /\ UNCHANGED <<raftVars, fsmVars, crashes, faults, sweep, acked, ref>>

(***************************************************************************)
(* Reclaimer.ReclaimExpired: the leader scans its own store, then proposes  *)
(* what it found.  Between the two anything may happen, and a node that is  *)
(* no longer leader by then gets NotLeaderError.                            *)
(***************************************************************************)
ReclaimScan(n) ==
  /\ leader = n
  /\ sweep[n] = {}
  /\ \E found \in ScanExpired(store[n], clock[n], Limit) :
       /\ found # {}
       /\ sweep' = [sweep EXCEPT ![n] = found]
  /\ UNCHANGED <<raftVars, fsmVars, envVars, acked, ref>>

ReclaimPropose(n) ==
  /\ sweep[n] # {}
  /\ applyCommand(n, [op |-> "reclaim", entries |-> sweep[n]])
  /\ sweep' = [sweep EXCEPT ![n] = {}]
  /\ UNCHANGED <<fsmVars, envVars, acked, ref>>

ReclaimAbandon(n) ==
  /\ sweep[n] # {}
  /\ leader # n
  /\ sweep' = [sweep EXCEPT ![n] = {}]
  /\ UNCHANGED <<raftVars, fsmVars, envVars, acked, ref>>

Next ==
  \/ Commit
  \/ \E n \in Node :
       \/ LeaderElected(n)
       \/ \E r \in Requests : Propose(n, r)
       \/ advanceChain(n)
       \/ Apply(n)
       \/ SkipNoop(n)
       \/ Restart(n)
       \/ Tick(n)
       \/ ReclaimScan(n)
       \/ ReclaimPropose(n)
       \/ ReclaimAbandon(n)

Spec == Init /\ [][Next]_vars
\* The library and the FSM goroutine keep running, and raft keeps a working
\* leader; time passes; nothing is assumed of clients, crashes or elections.
Fairness ==
  /\ WF_vars(Commit)
  /\ \A n \in Node : WF_vars(advanceChain(n)) /\ WF_vars(Apply(n))
                        /\ WF_vars(SkipNoop(n)) /\ WF_vars(Tick(n))
                        /\ WF_vars(ReclaimScan(n)) /\ WF_vars(ReclaimPropose(n))

FairSpec == Spec /\ Fairness

-----------------------------------------------------------------------------
(***************************************************************************)
(* Properties.                                                             *)
(***************************************************************************)

\* Every variable has its type: commitIndex stays within the log, applied
\* within commitIndex, and ref has one outcome per committed prefix.
TypeOK ==
  /\ log \in Seq(Entry)
  /\ commitIndex \in 0 .. Len(log)
  /\ term \in Nat
  /\ leader \in Node \cup {None}
  /\ clock \in [Node -> Nat]
  /\ applied \in [Node -> 0 .. commitIndex]
  /\ pc \in [Node -> {"idle", "chained"}]
  /\ store \in [Node -> Store]
  /\ head \in [Node -> HashChain]
  /\ chain \in [Node -> HashChain]
  /\ sweep \in [Node -> SUBSET ReclaimEntry]
  /\ crashes \in [Node -> Nat]
  /\ faults \in [Node -> Nat]
  /\ acked \in 0 .. commitIndex
  /\ ref \in Seq([store : Store, digest : Seq(Folded)])
  /\ Len(ref) = commitIndex + 1

\* FSM.advanceChain / HashChain.Advance: whatever crashes, replays and lost
\* head writes happened, two nodes whose chains stand at the same index hold
\* the same digest, in memory and on disk, and it is the digest of the
\* committed commands up to that index, each folded once.
ChainAgreement ==
  \A n \in Node : \A c \in {chain[n], head[n]} :
    c.index <= commitIndex /\ c.digest = Prefix(c.index).digest

\* FSM.Apply folds an entry before it executes it, and a restart keeps the store
\* and the head but not the applied index.  As long as no write of a node failed,
\* its head on disk covers every version its store holds, at any moment and so
\* wherever it is killed.  Once StoreHead has lost a write the head may be behind
\* the store; then the replay folds the missing entries again before it gets to
\* them, so that no version within the applied prefix is missing from the chain.
HeadCoversStore ==
  \A n \in Node, k \in Key : store[n][k] # Absent =>
    LET v == store[n][k].version IN
    /\ faults[n] = 0 => v <= head[n].index
    /\ v <= applied[n] => v <= chain[n].index

\* FSM.Apply with the leader's expiry stamp: a node that neither restarted nor
\* failed a transaction holds exactly the store its applied prefix defines,
\* whatever its own clock says.
ReplicaAgreement ==
  \A n \in Node : crashes[n] = 0 /\ faults[n] = 0 =>
    store[n] = Prefix(applied[n]).store

\* Replay after a restart: once a node has re-applied all that its chain had
\* seen before, its store is again the one the log defines.
ReplayConverges ==
  \A n \in Node :
    faults[n] = 0 /\ pc[n] = "idle" /\ applied[n] >= chain[n].index =>
      store[n] = Prefix(applied[n]).store

\* The version in an envelope identifies the committed entry that wrote it, on
\* every replica and through every replay: the entry at that index writes this
\* key and commands this expiry.
EnvelopeProvenance ==
  \A n \in Node, k \in Key : store[n][k] # Absent =>
    LET v == store[n][k].version IN
    /\ v \in 1 .. commitIndex
    /\ WritesKey(log[v].cmd, k)
    /\ store[n][k].expiresAt = CommandedExpiry(log[v].cmd, k)

\* Reclaim is conditioned on the version only, and proposed from a scan that
\* may be stale; still no committed sweep removes a record that no node's
\* clock has seen expire.
ReclaimOnlyExpired ==
  \A i \in 1 .. commitIndex : log[i].cmd.op = "reclaim" =>
    \A k \in Key : Reclaims(Prefix(i - 1).store, log[i].cmd, k) =>
      \E n \in Node : IsExpired(Prefix(i - 1).store[k].expiresAt, clock[n])

\* Put with CompareAndSet: of the committed writes that expect the same version
\* of a key, at most one succeeds; for version 0 (put-if-absent) the key was
\* gone in between.
CasSucceeds(i) ==
  /\ log[i].cmd.op = "put"
  /\ log[i].cmd.cas
  /\ PutAccepted(Prefix(i - 1).store, log[i].cmd)

CasExclusive ==
  \A i, j \in 1 .. commitIndex :
    i < j /\ CasSucceeds(i) /\ CasSucceeds(j)
      /\ log[i].cmd.key = log[j].cmd.key
      /\ log[i].cmd.version = log[j].cmd.version =>
        /\ log[i].cmd.version = 0
        /\ \E m \in i + 1 .. j - 1 :
             Prefix(m).store[log[i].cmd.key] = Absent

\* KeyValueService.Get is served from the local store on any node: it returns a
\* value the key had at or after the last acknowledged write.
LinearizableReads ==
  \A n \in Node, k \in Key :
    \E i \in acked .. commitIndex :
      Get(store[n], k, clock[n]) = Get(Prefix(i).store, k, clock[n])

\* Reclaimer: a version with an expiry (within the modelled time) that is stored
\* on any node is eventually gone from all of them, reclaimed or rewritten, even
\* if leadership moves between the scan and the proposal (unless the bound on
\* the log leaves no room for the proposal).
NoRoomToReclaim(k, v) ==
  /\ Len(log) = MaxIndex
  /\ \A i \in DOMAIN log : log[i].cmd.op = "reclaim" =>
       [key |-> k, version |-> v] \notin log[i].cmd.entries

EventuallyReclaimed ==
  \A k \in Key, v \in 1 .. MaxIndex :
    (\E n \in Node : /\ StoredVersion(store[n][k]) = v
                     /\ store[n][k].expiresAt \in 1 .. MaxClock)
    ~> \/ \A m \in Node : StoredVersion(store[m][k]) # v
       \/ NoRoomToReclaim(k, v)
=============================================================================
