# A TLA+ model of consensusdb

consensusdb is a replicated key-value store in Go. One process contains

- a **record storage** over badger (`pkg/server/storage.go`): envelopes with a
  version, an expiry and a value; `Put` (plain, compare-and-set, put-if-absent),
  `Touch`, `Remove`, `Increment`, `SetBatch`, and the sweep of expired records;
- a **raft group** from hashicorp/raft: `KeyValueService` stamps a request
  (`pkg/server/server.go`), `Replicator` proposes it, every node's `FSM` folds it
  into a hash chain and executes it (`pkg/replication`); the leader's `Reclaimer`
  proposes the removal of expired records; snapshots are badger backups;
- a **ledger** over the log (`pkg/ledger`): the hash chain, checkpoints of it that
  nodes co-sign, quorum certificates, and the verification of dumps against them;
- **IAM**: users, service accounts, tokens, certificates, groups and policies as
  records of a system tenant, compiled by `PolicyService` into a cached snapshot;
- a **console** (`pkg/console`): HTTP handlers for first-run setup, identities,
  node enrollment, jobs, statistics and backup;
- **node identity**: the genesis CA on the seed node, join tokens, and the mTLS
  files every node keeps on its own disk.

The project models the parts in which order, interleaving, crashes and lost
messages matter. `PROJECT.json` lists every part with its state, the source lines
behind every definition, the hazards of the code with the properties that cover
them, the runs, and the theorems.

## Modules

| Module | Models | State | Actions |
|---|---|---|---|
| `Storage` | storage.go, one call at a time | none: operators on a function from keys to envelopes | `Put`, `Touch`, `Remove`, `Increment`, `SetBatch`, `Reclaim`, `ScanExpired`, `Get`; `Exec` is the dispatch of `FSM.Apply` |
| `Replication` | server.go, replicator.go, fsm.go, reclaimer.go, hashchain.go, head.go | log, commit index, term, leader; per node clock, applied index, store, persisted head, chain in memory, sweep in progress | `Propose`, `Commit`, `LeaderElected`, `advanceChain` then `Apply` (the two halves of `FSM.Apply`), `SkipNoop`, `Restart`, `Tick`, `ReclaimScan`, `ReclaimPropose`, `ReclaimAbandon` |
| `SingleCopy` | what the write path promises | one store and the list of outcomes | one action: the next command takes effect |
| `ReplicationRefinement` | the mapping from `Replication` to `SingleCopy` | | |
| `Snapshot` | snapshot.go and `FSM.Snapshot`/`Restore`, badger backup and load | `Replication` plus badger timestamps, delete markers, each node's snapshot, backups in progress | `FsmSnapshot`, `Persist`, `InstallSnapshot`, `RestartFromSnapshot`, `Compact`, and the actions of `Replication` |
| `Policy` | policy_service.go | stored revision, compiled revision, dirty flag, event buffer, mutex, requests | `Write`, `Load`, `notify`, `WatchRaw`, `Invalidate`, `Authorize`, `Lock`, `Scan`, `StoreSnapshot`, `ScanFails`, `RetryOnNextRequest`, `Decide` |
| `Registry` | the system tenant seen by a console handler | history of committed states, how far each node has applied it, leader | `Commits`, `Refused`, `CatchUp` |
| `Enrollment` | nodeidentity.go, nodetls.go, pki.go (CA and join tokens), nodes.go (enroll) | `Registry` plus each node's files and start-up state, voters, requests | genesis, file-by-file saves, token minting, the stages of an enrollment, crashes, client timeouts, failing calls, leader changes |
| `Iam` | iam.go, pat.go, pki.go (certificates), setup.go (setup) | `Registry` plus requests | one action per store call of each handler |
| `Membership` | nodes.go (add, remove, proxy), address_reconciler.go, peercheck.go | per node where its machine is, the latest configuration in its log and its reconciler loop; the committed configuration, leader, the operator's request | `addNode`, `removeNode`, `ChangeHere`, `proxyToLeader`, `ReconcileHealed`, `ReconcileAsLeader`, `joinViaPeers`, `CallJoin`, elections and replication of configurations, moves |
| `Cluster` | `Enrollment`, then `Membership` over the configuration it leaves | both | both |
| `Ledger` | ca.go, signer.go, checkpoint.go, verify.go, ledger_service.go, console/ledger.go | node files, heads, the collection in progress, the materials handed out, the pinned CA key | `ledgerMaterials`, `collectDigest`, `SecondPass`, `Aggregate`, `pinLedgerCAPub`, `AdvanceHead`; `Attest`, `BuildQuorumCertificate` and `VerifyQuorum` are operators |
| `Backup` | crypto.go, client.go, objstore.go, admin.go, setup.go (export, import) | the serving goroutines, frames under way, container writer, destination file, restore in progress, what was loaded | one action per frame, chunk, end and failure of either stream |
| `Audit` | verify/backup.go and its job, over `Ledger` and `Backup` | both, and how far the dumped node has executed | `StartVerifyBackup`, `VerifyCertificate`, `loadBackupHead`, `ApplyOn`, `Execute` |
| `Keys` | key.go and the queries of storage.go | none: operators on byte sequences and stores | `EncodeKey`, `DecodeKey`, `GetRecent`, `GetRange`, iterators |
| `Authz` | iam/policy.go, `PolicyService.rebuild` | none: operators on IAM records | the compiled snapshot, `SnapshotAuthorize`; `Granted` says what the records mean |
| `DataPlane` | vrpc_data.go, `GetArea`, `Scan` and `notify` of storage.go | store, clock, per handler an enumeration, a watcher and the notifications it owes | writes, `notifyHub`, `enumerate` with `BeginScan`, `ReadNext`, `Send`, `ScanEnds`, `Cancel`, `Abort`, `CloseStream`; `watch` with `Register`, `Deliver`, `StopWatch` |
| `Gateway` | authz_guard.go; composes `Policy`, `Authz` and `DataPlane` | these, and the request each handler is busy with | `Arrive`, `Judge`, `ServeWrite`, `WriteFails`, `ServeStream` and the steps of the parts |

`MC*.tla` and the `.cfg` files are the instances for TLC; `*Proofs.tla` hold the
proofs. Definitions named after a wrong variant (`StampNothing`,
`BurnUnconditionally`, ...) stand directly before the definition they vary. They
are not used by any specification; each one replaced for its original makes a
property fail, which shows that the property depends on that line of the code.

### What was abstracted

- Values are opaque bytes or integers; an integer counter wraps at `CounterMax`
  as an int64 does. Keys, names and tokens are model values.
- A digest is the sequence of everything folded into it: SHA-256 taken as
  injective. A key pair is a number, a certificate a pair of numbers.
- hashicorp/raft is external: one log whose committed prefix is stable, elections
  that may drop an uncommitted suffix and append a no-op, and an applied index
  that is volatile. So a restarted node is given the log again, over the badger
  store that it kept: this is how `RaftHost` sets the library up, and
  most of what is interesting about the FSM comes from it.
- `FSM.Apply` takes two steps, because the head write and the command are two
  badger transactions and a crash fits in between. Either may fail: `Apply`
  returns the error and raft counts the entry as applied all the same.
- A console handler takes one step per call of `KeyValueService`. Reads are of
  the local replica. A write returns when the proposing node has applied it.
- In `Enrollment` and `Iam` a write is atomic and a replica follows the history,
  which is what `ReplicaAgreement` and `ImplementsSingleCopy` establish for nodes
  without restarts; the replay of a restarted node is left to `Replication`.
- A signature is the pair of key and message, an aggregate the set of its
  signatures; a sealed chunk opens only under the password, the counter and the
  last-chunk flag it was sealed with. So BLS, Ed25519 and AES-GCM are perfect, and
  what is checked is what the code does with them.
- In `Ledger` the digest of a chain is its height and whether the node is one whose
  chain has left the others'. `snapshot_chain` shows how a chain does that.
- In `Keys` a byte has `Base` values and a sortable UUID two bytes: with `Base` 2 a
  field of four bytes is over-long and is cut.
- In `Membership` raft is reduced to configuration entries: `GetConfiguration` shows
  the latest one in a node's own log, committed or not, and a leader dials the
  addresses of its latest one. An address that a node has left is not given to another
  node: this is assumed of the environment (`At_`).
- In `Ledger` a member is asked at the host recorded for it, and the answer is that of the
  member: ledger.go:158-166 takes whatever node answers there and does not compare its id.

## Runs

Bounds are `Max...` constants in guards, and sets of requests or workloads where a
constant's comment says so. Where a cfg says
`CHECK_DEADLOCK FALSE`, the model stops because a bound was reached (log full,
faults used up) or because the work is done (every node is a running voter).
Symmetry is used only in runs whose properties are invariants and action
properties, over nodes or requests that no definition tells apart.

The type invariants of `Replication`, `Policy` and `Ledger` are proved (below) and
therefore not checked again here.

| Run | Checks | States |
|---|---|---|
| `replication` | `ReplicaAgreement`, `CasExclusive`, `ImplementsSingleCopy` | 1.06 M |
| `replay` | `ReplayConverges`, `EnvelopeProvenance`, `ReclaimOnlyExpired`, `ChainAgreement`, `HeadCoversStore` | 1.5 M |
| `reclaim` | `EventuallyReclaimed` (liveness) | 55 k |
| `snapshot` | `JoinConverges`, `OwnSnapshotKeepsChain` | 347 k |
| `enrollment` | `SingleUse`, `OneRoot`, `IdentityWhole`, `SharedTokenKept` | 253 k |
| `cluster` | `RecordsOwnAddress`, `FormationConverges` and `MembersReconciled` (liveness) | 20 k |
| `iam` | `PurgeComplete`, `GrantsKept`, `SetupStaysClosed` | 3.3 M |
| `gateway` | `SnapshotCurrent`, `SnapshotMonotonic`, `DecidedByRecords`, `WritesGranted`, `DeliveredGranted`, `QueriesExact`, `EnumerationExact`, `WatchFaithful`, `PolicyReloads` and `CancelEndsScan` (liveness) | 19 k |
| `audit` | `AttestsOwnHead`, `MaterialsVerify`, `NoSilentAbsence`, `CertificatesAgree`, `TruncationDetected`, `VersionedIsWhole`, `RestoreHonest`, `VerifiedHead` and `CallsEnd` (liveness) | 351 k |
| `replay_increment` | `ReplayConverges` is violated | |
| `stale_read` | `LinearizableReads` is violated | |
| `snapshot_chain` | `ChainSurvivesSnapshots` is violated | |

**replication**: every client operation on one key of two nodes, with TTLs, a
batch that writes the key twice and one that aborts, two terms, four log entries.
Four entries are enough for two compare-and-sets on the same version with a
removal between them, and for a sweep that loses its race. A node without
restarts and failed transactions holds exactly what its applied prefix defines;
the sequence of outcomes is that of one copy executing commands one by one,
although answers are lost and elections drop proposals.

**replay**: one restart and one failing transaction anywhere (after that on no
node any more), for put, put-if-absent and the removals of the sweep. The store of
a restarted node comes back to what the log defines once it has caught up; on the
way there it may hold older records. Chain heads in memory and on disk are digests
of a committed prefix, because `Advance` ignores an index it has passed. As long as
no write of a node failed, the head on its disk covers every version in its store
(`HeadCoversStore`). After a lost head write it does not until the next entry or,
after a restart, until the replay has come by. `Increment` and `Touch` are left out
here; see Divergences.

**reclaim**: two records written by one batch expire together, the sweep takes one
at a time, and the leader changes between scan and proposal. Both records are
eventually gone from both nodes, unless the bound on the log leaves no room for
the proposal. Fairness: raft commits, the FSM goroutine and the ticker of
`Reclaimer.loop` go on, clocks advance. No fairness on clients or elections.

**snapshot**: put-if-absent and remove on two nodes, three log entries, one restart, one
failing head or store write. raft takes a snapshot after `SnapshotThreshold` new
entries (two here, so that one covers more than the entry whose head write was lost). A
backup may run while further entries are applied and is then newer
than the index raft files it under; it is installed on a follower or loaded by its
own node on restart, badger deciding by timestamps. A node that
joins holds what the log defines once it has caught up, if no node restarted or failed a
write. A node that loads its own snapshot keeps its chain, unless a lost write left its
head behind the snapshot; only a failed write of its own can do that.

**enrollment**: the seed and a joiner that may be started with the pre-shared
secret or a minted token, with cluster mode on or off; two requests at a time and
three faults of any kind at any point (a crash of either node, a client timeout,
a failing call, a deposed leader). Three faults allow a crash in the middle of a
save, a lost answer and a retry. A failing call ends the handler, except in
`consumeJoinToken`, which ignores the errors of its two calls: when its lookup fails
(`ConsumeUnread`) it removes the record, and `unread` remembers that.

**cluster**: three nodes with the pre-shared token start together, without
faults; the container restarts what exits; all become running voters. In the
cluster so formed the seed is recorded under its private address. Its machine
moves once, one election deposes the leader, and an operator adds the seed under
its new address, adds a node under the address of another, or removes a voter, at
any console. One move, one deposition and one request are enough for a
configuration that is superseded before it commits and for a join that reaches a
peer which no longer knows the leader. Fairness, for formation: weak on goroutines
and handlers, strong on elections and on enrollments, which are retried until they
meet a leader. Afterwards: raft elects, replicates and commits, and the
reconcilers' tickers go on. No fairness on operators, moves or depositions.

**iam**: two requests at a time, any call of which may fail. One workload per behaviour
(`MCIam`): credentials of a user, service accounts, and the policy record, under one
leader, with four or five committed writes (a deletion takes up to five); a deletion
raced by the creation of a token and the deletion after it, with five writes and a
second leader; and bootstrap, status and deletion with two nodes, on a cluster with users
and without the genesis record (three writes: adoption, removal, purge) and on a fresh
one (four: a bootstrap takes three, then the removal). A setup request runs on the leader
or, when `forwardedToLeader` gives up, on the follower it arrived at. Its two reads may
fail, which `clusterInitialized` and `anyUserExists` take for "nothing there", and so may
the write of the marker, which is only logged.

**gateway**: two handlers, and one workload per behaviour (`MCGateway`): the policy
changes under two readers, with an event buffer of one place, a load and a failing
scan; every principal tries every call in every kind of place, where the
records contain disabled users, a group inside a group, a stored role with a
predefined name and a binding to a missing role; a row's records expire and are
rewritten under queries; enumerations in all forms beside a concurrent batch or
removal, in one workload each with a value that may turn out unreadable, and two over a
store that holds a record of the system tenant (under the empty prefix and under that
tenant); a grant is revoked between a decision and its write or stream; a watcher
with a buffer of one place beside two writers, with replication and without. The
physical keys include an over-long field, the empty key and minor keys whose byte
order differs from their order behind a length. Fairness: goroutines are
scheduled, reads keep coming, and the mutex is strongly fair, as Go's starvation
mode makes it. Nothing is assumed of a client that receives from a stream. No call of the
workloads writes the system tenant through the data plane (the policy changes by
`Policy`'s `Write`), so only enumerations meet its records, not watchers. A batch whose
records lie in several places is refused before `Authorize` is called (`guardedBatch`)
and in the model after it, which changes at most when a rebuild takes place.

**audit**: three nodes of which one chain may leave the others'; deployments with a
missing signer, files that do not belong together, an expiring certificate, a
certificate of another CA and an id used twice; configurations of three and of two
servers, in different orders, changing between the passes. Dumps of three parts with two
parts to a chunk (so one chunk is full and one is not), sealed, plain or read with a
wrong password, and up to three failures of the connection, a write or the closing of
the destination, the store or the client. Closing the container and closing the sink are
two steps: the second may fail with the whole dump written. A behaviour certifies,
verifies a dump or restores one (`Duties`). Fairness: the goroutines of a call in
progress run; none on the collection, on heads or on failures.

## Divergences

Three runs show where the code does something else than its text says
(`findings` in `PROJECT.json` quotes the lines):

- `replay_increment`: a restarted node executes `Increment` again over the store
  that already contains it.
- `stale_read`: `Get` reads the local store on any node.
- `snapshot_chain`: `FSM.Restore` loads the persisted head with the rest of the
  dump and keeps the chain it had in memory; the next entry is folded onto it.

The models contain further behaviours that a reader of the code may not expect.
They are why some properties have a proviso. Where one is named, TLC shows a trace
of the property without it; the rest is in the actions of the models:

- `Touch` of an absent key, replayed after a restart, finds the record that a
  later entry created and gives it the older version (`ReplayConverges` with
  `Touch`). An increment behind the snapshot index counts twice on a joining node
  (`JoinConverges` with `Increment`).
- `StoreHead` drops the error of the head write. The head on disk is then behind the
  store (hence `faults` in `HeadCoversStore`). head.go:63-66 says "the head recomputes
  from the log if a write is lost"; when a snapshot covers the lost entry, raft does not
  hand it out again, and the restarted node folds the next entry onto the old head (the
  exception in `OwnSnapshotKeepsChain`).
- A storage error of one replica is an answer to raft: the entry counts as applied there
  and its store differs (hence `faults` in `ReplicaAgreement` and `ReplayConverges`).
- `Restore` merges: a record removed while the follower lagged survives when its
  delete marker was compacted.
- A policy change between the first rebuild and the registration of the watcher
  is compiled only with the next change (hence the proviso of `PolicyReloads`).
- An enrollment answer that is lost after `AddVoter` leaves two voters of which
  one has no identity: there is no leader any more (`FormationConverges` is
  checked without faults). A seed that crashes between saving its identity and
  staging the CA key restarts with a root nobody can sign for.
- `consumeJoinToken` falls through to `Remove` when its lookup fails (pki.go:389-395), so
  an adopted pre-shared token can lose its record, where its comment says "The reusable
  bootstrap token's record is kept" (hence `unread` in `SharedTokenKept`). The next
  enrollment at a node that is configured with it adopts it again.
- Two bootstraps with different names can both win, where setup.go:98 says "so concurrent
  bootstraps can't both win": the condition is on the record of one name. A bootstrap
  that fails after creating the user leaves setup closed without an administrator.
- The repository's README (340-348) says that "a replica that is merely catching up
  after a restart can never offer the wizard on an initialized cluster". Setup can be
  found open again in four ways, each a proviso of `SetupStaysClosed` that TLC shows to
  be needed: by a new leader that has not caught up (`terms <= 1`); by a follower that
  answers for itself when it knows or reaches no leader (setup.go:134-144), for a status
  and for the guard of a bootstrap, whose write then fails (`local`); on a cluster whose
  users were deleted after the write of the marker had failed, which is only logged
  (160-164, `lost`); and when the reads of the guard fail, since an error counts as "not
  there" (149, 188, `misread`).
- Of two overlapping grants one can be lost, and a new leader that lags puts back
  an old policy record (hence the provisos of `GrantsKept`). A credential that is
  created while its owner is being deleted survives (hence `alone` in
  `PurgeComplete`).
- A dump stream that ends without its "done" frame is closed like a complete one and
  reads back without an error; only the version 0 tells (hence `version > 0` in
  `TruncationDetected`). A refused `GetStream` leaves a valid empty dump behind. When
  only the upload's completion fails, `Backup` returns the version beside the error.
- A plain dump has no mark of its end: one that breaks off between two records, as
  `exportDatabase` leaves it when the store fails, loads without an error, and if the head
  record is in it `VerifyBackup` accepts it. verify/backup.go:7-12 and ledger_cmd.go:250
  ("Confirms the backup is exactly the state a quorum certified at a height") and the
  repository's README (292-296) say more than is compared, which is the head alone (hence
  `job.parts = Whole` in `VerifiedHead`).
- `FSM.Apply` stores the head before it runs the command, so that a dump can verify
  and lack the effect of its last entry (hence `height - 1` in `VerifiedHead`).
- When `Load` fails before it has read the pipe to its end, the restore is not
  answered (the exception in `CallsEnd`); a connection lost on the way back
  is reported as success (hence `done # Absent` in `RestoreHonest`). A canceled
  `admin.backup` leaves its producer blocked. Whether replication is on is looked
  at only when a restore starts.
- `addNode` on a follower has read the body when it sends the request on, so the
  leader answers with an error, whereas the comment above it says it proxies.
- The reconciler stops when `GetConfiguration` shows the right address, though its
  comment speaks of the committed configuration; if that entry is dropped by an
  election, nobody repeats it (the second alternative of `AddressReconciled`). A
  removed node that still sees itself in an old configuration joins again.
- `GetRecent` answers "not found" when the newest record has expired, where
  `GetRange` of size one finds the older one. Keys whose fields exceed the two-byte
  length are cut and may coincide. A missing key arrives as the empty key.
- Without replication two writers can notify the hub in the order opposite to
  their commits (hence `replicated` in `WatchFaithful`). A request is decided once: a
  stream goes on after its grant was revoked (hence the revision remembered in
  `DeliveredGranted` and `WritesGranted`).
- An enumeration or a watch without a prefix is authorized at instance scope with the
  permission for records (vrpc_data.go:135-146 and 192-199) and hands out the records of
  the system tenant as well, where iam/policy.go:27-29 says that "any data-plane operation
  addressing __system requires them instead of cdb.records.*" and the repository's README
  (208-211) likewise (hence the first case of `MayHandOut` in `DeliveredGranted`).
- A record whose value cannot be fetched is left out of an enumeration, which then closes
  like a complete one (storage.go:467-472 and 531-536; hence `skipped` in
  `EnumerationExact`). `GetRange` leaves such a record out too (408-412); `QueriesExact` is
  about stores whose values can be read.

## Proofs

Checked by TLAPS, for any sets of nodes, keys, values, tokens and requests, any length
of the log and any number of crashes, faults and elections. The assumptions are those
named in the modules: there is a node, `None` and `Absent` are not nodes, envelopes or
answers, bounds are naturals, requests are well-formed.

**ReplicationProofs** (`Storage`, `Replication`). `ExecType`: every command maps a store
to a store. `StampedExecClockFree`: a command stamped by `KeyValueService` has the same
effect on every clock. `ExecEffect`: what it leaves at a key is the old envelope,
nothing, or an envelope with the command's own version and expiry. The rest builds on
these three. `TypeCorrect` needs `Chained` beside the types: between `advanceChain` and
`Apply` the entry is committed, is a command and is covered by the chain (together
`Base`). `ChainAgreementHolds` needs `RefInv` (the recorded outcomes are what the log
defines) and `NoopsKeepDigest`: two prefixes that differ in
raft's own entries have the same digest, because those are not folded. Without it the
head of a node that has skipped a no-op cannot be compared with the digest of the longer
prefix. `ReplicaAgreementHolds` needs `LogStamped`: nothing in the log resolves its
expiry on the applying node. `ReplayConvergesHolds` is stated for requests whose second
execution does no harm (`Replayable`: puts, put-if-absent, batches, removals). Its
invariant `Tracks` says, key by key, what a node in the middle of a replay holds: what the
re-applied prefix defines, the record of an entry still to come, or something that an
entry still to come overwrites or has swept already.

**RefinementProofs.** `EnvelopeProvenanceHolds`: whatever was replayed, the version of
an envelope is the index of a committed entry that writes this key with this expiry. The
invariant says it of the recorded outcomes as well. `HeadCoversStoreHolds` builds on it:
the entry that wrote an envelope was folded before, and as long as no write failed the
head on disk is the chain in memory (`HeadCurrent`). `ReclaimOnlyExpiredHolds` builds on
it: a version fixes the expiry, clocks do not go back, so what the sweep saw expired
(`SweepsExpired`), in memory or in the log (`LogExpired`), stays expired, and the
condition on the version is enough. `CasExclusiveHolds` needs `VersionOrder`: along the
prefixes the version of a key grows, so a replaced version never returns.
`SpecImplementsSingleCopy` is the refinement: the initial states map to one empty copy,
and each step of the foremost node maps to one command of `SingleCopy`, to the loss of
records with an expiry (a sweep), or to no step. It is stated for behaviours without
restarts and failed transactions (`Undisturbed`), as in run `replication`: a replayed
entry is not a step of one copy (run `replay_increment`).

**SnapshotProofs.** `OwnSnapshotKeepsChainHolds`: a node that restarts from its own
snapshots goes on with the digest of the committed log, wherever it stopped, unless a
lost write left the head it restarts from behind the snapshot (`gap`). `SnapInv`
adds to the invariants of the write path what badger's timestamps say (`Timed`): no
backup of a node's own is newer than its store, and one that is as new carries the same
head, so that loading it never puts back an older head. `JoinConvergesHolds`: for
replayable requests, of which either none puts if absent or none has an expiry
(`Joinable`), a node that joins by snapshot holds what the log defines once it has applied
as much as the backup contained (`JoinInv`).

**EnrollmentProofs.** `SpecSingleUse` and `SpecSharedTokenKept`. `TokenInv` says what a
request knows of the record it has read: versions only grow and name one state of a
record (`Versions`, `States`), and of all requests at most one has passed the burn of a
token that has signed nothing yet (`Spent`). `SpecSharedTokenKept` has its hypothesis in
the property: no lookup of `consumeJoinToken` has failed (`unread`).

**ClusterProofs** (`Enrollment` continued, `Membership`, `Cluster`). `SpecOneRoot` and
`SpecIdentityWhole` from `RootInv`: until a CA is published there is one voter, the
seed, and whatever it publishes is the root on its disk (`Forming`); files are filed in
the order key, certificate, root, and how far a node got says which of them are of the
identity it saves (`Filed`). `RecordsOwnAddressHolds` from `MInv`: the request between
the preflight and the change carries an address at which the named node answered
(`Checked`), and addresses it has left stay its own. `ClusterSafe` carries all of it
over to the composition, where a cluster is formed and then lives.

**IamProofs.** `SpecPurgeComplete`, `SpecGrantsKept` and `SpecSetupStaysClosed` from
`IamInv`: what an undisturbed request has done so far to the committed records
(`Purging`, `Granting`); that the leader's replica is current and every request runs on it
as long as the leader stays, except a setup request that a follower answers itself, which
writes nothing then (`Sync`, `Outside`); and that the genesis record is committed once the
leader told somebody so, as no request removes it (`Closed`). The provisos of the
properties are needed; see Divergences.

**AuditProofs** (`Ledger`, `Audit`). For any nodes, configurations, deployments, forks
and numbers of collections. The inductive invariant `LInv` says of the collection in
progress (`Collecting`) that each certificate in its list is that of a node whose chain
has passed through the checkpoint (`Vouched`); that the signatures are those of the last
certificate of each id over exactly this checkpoint (`SignaturesOf`); and that a member
is still to be asked, has signed or is warned about (`Accounted`). `HandedOut` repeats
it for the materials. That the last certificate of an id counts, as in
`CertBundle.AddCert`, is why `MaterialsVerifyHolds` survives two nodes under one id.
Heads only grow (`HeadsGrow`), so what a chain has passed it keeps.
`CertificatesAgreeHolds` then counts: a certificate names one id and one key, a node has
one certificate, so as many ids as `VerifyQuorum` demands are as many nodes; two
majorities share one, and it has one digest per height. Assumed (`LedgerBounds`): nodes
are finitely many and configurations are lists of nodes. `VerifiedHeadHolds` composes it
with the dumps: `AuditInv` adds that the dumped node's store is at most one entry behind
its head (`DataInStep`), that the content of a file is a head and a store of one moment
(`Dumped`, `Captured`), and that each stage of the job has established what the next one
relies on (`Established`), among it that the head came from a part that was loaded, from
certificates that nobody takes back. `LedgerHoldsBesideDumps`: every step of the
composition is a step of the ledger or leaves it alone.

**GatewayProofs** (`Policy`, `Authz`, `Keys`, `Gateway`). `SnapshotIsCurrent` and
`SnapshotIsMonotonic`, for any number of requests and any buffer: a stale snapshot always
has somebody who owes a rebuild (`RebuildOwed`), and a scan in progress is not behind the
compiled snapshot (`ScanNotBehind`). `AllowsWhatIsGranted`: compiling a snapshot and
asking it gives what the records grant, for all records. `AllowedBelow` follows.
`SnapshotCurrentBehindGateway`: each step of the composition is a step of `Policy` or
leaves its variables alone (`StepOfPolicy`). `DecidedByRecordsHolds` needs `Busy` beside
it: a handler at its decision has a request. `WritesGrantedHolds` needs `Guarded`: a
request that goes on carries the revision it was decided by, whatever is compiled
afterwards. From there the proof follows a write to the bytes: only `ServeWrite` changes
the store, a command changes no entry but its own (`ExecWritesOwn`), these are the
entries of the keys in the call (`WritesWhereItSays`), and `DecodeKey` reads back from
such an entry the tenant and the region that `EncodeKey` wrote (`PlaceRead`, for every
`Base`). Its hypothesis `WritesFit` is that the tenant and the region of a written key
are at most `MaxKeyLength` long: the guard reads them whole, `EncodeKey` cuts longer
ones, and then the entry names the shortened place. Assumed (`WorkloadAssumption`): a
workload starts from a store, and its calls have keys and, for a batch, a sequence of
records.

Only model-checked:

- the liveness properties (`EventuallyReclaimed`, `PolicyReloads`, `FormationConverges`,
  `MembersReconciled`, `CancelEndsScan`, `CallsEnd`): fairness is beyond the prover;
- `TruncationDetected`, `VersionedIsWhole` and `RestoreHonest`: what a container holds is
  a concatenation over its frames, again an induction over data;
- `QueriesExact`, `EnumerationExact`, `WatchFaithful` and `DeliveredGranted`: they rest
  on iterators in byte order, that is on counting the keys below a key.

## Not modelled

- Authentication (`auth.go`): sequential look-ups of one record each. Modules that
  need a caller start from the principal.
- Conflicts between badger transactions on a node without replication: `Gateway`
  takes a transaction as one step that succeeds or fails, which is what badger's
  serializable snapshot isolation promises.
- The region cache of `stats.go`, the table of jobs and custom-role listings:
  bookkeeping and advisory numbers that no other part reads.
- Replays of restarted nodes inside `Enrollment`, `Iam`, `Ledger` and `Gateway`: they
  are the subject of `Replication` and `Snapshot`, and what they do to a chain enters
  `Ledger` as `forked`.

Left out for good: the arithmetic of BLS, X.509 and password hashing; HTTP
routing, rendering, metrics and command-line parsing; dependency wiring; generated
protobuf code.
