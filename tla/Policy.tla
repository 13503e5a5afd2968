------------------------------- MODULE Policy -------------------------------
(***************************************************************************)
(* PolicyService (pkg/server/policy_service.go): a node compiles the IAM    *)
(* records of its store into a snapshot, a watch on the system tenant marks *)
(* it dirty, and the next request rebuilds it.  The records are a revision  *)
(* number; what a snapshot decides is the revision it was compiled from.    *)
(*                                                                         *)
(* The watch hub is external: it keeps one bounded buffer per registered    *)
(* watcher and drops what does not fit.                                     *)
(***************************************************************************)
EXTENDS Naturals

CONSTANTS
  Request,      \* concurrent requests being authorized
  None,         \* nobody holds the mutex
  Buffer,       \* capacity of a watcher's buffer in the hub
  MaxRevision,  \* bound on changes to the IAM records
  MaxRestore,   \* bound on snapshot loads under the running service
  MaxFailure    \* bound on scans that fail

ASSUME PolicyAssumption ==
  /\ None \notin Request
  /\ Buffer \in Nat \ {0}
  /\ MaxRevision \in Nat /\ MaxRestore \in Nat /\ MaxFailure \in Nat

VARIABLES
  revision,  \* badger: the IAM records
  unsent,    \* committed writes whose notify call has not run yet
  watching,  \* the goroutine of PostConstruct has registered with the hub
  buffered,  \* events in its buffer
  snap,      \* PolicyService.snap
  dirty,     \* PolicyService.dirty
  mu,        \* PolicyService.mu
  pc,        \* where each request stands in Authorize
  scanned,   \* what its rebuild has read
  restores,
  failures,
  unseen     \* auxiliary: a change no watcher was told of

storeVars == <<revision, unsent>>
hubVars == <<watching, buffered>>
requestVars == <<mu, pc, scanned>>
vars == <<storeVars, hubVars, requestVars, snap, dirty, restores, failures,
          unseen>>

\* PostConstruct has built the first snapshot, the watcher is still starting.
Init ==
  /\ revision = 0
  /\ unsent = 0
  /\ watching = FALSE
  /\ buffered = 0
  /\ snap = 0
  /\ dirty = FALSE
  /\ mu = None
  /\ pc = [r \in Request |-> "idle"]
  /\ scanned = [r \in Request |-> 0]
  /\ restores = 0
  /\ failures = 0
  /\ unseen = FALSE

-----------------------------------------------------------------------------
(***************************************************************************)
(* The store: a write commits, then calls notify; a loaded backup does not  *)
(* notify at all.                                                           *)
(***************************************************************************)
Write ==
  /\ revision < MaxRevision
  /\ revision' = revision + 1
  /\ unsent' = unsent + 1
  /\ UNCHANGED <<hubVars, requestVars, snap, dirty, restores, failures, unseen>>

Load ==
  /\ restores < MaxRestore
  /\ revision < MaxRevision
  /\ revision' = revision + 1
  /\ restores' = restores + 1
  /\ unseen' = TRUE
  /\ UNCHANGED <<unsent, hubVars, requestVars, snap, dirty, failures>>

notify ==
  /\ unsent > 0
  /\ unsent' = unsent - 1
  /\ buffered' = IF watching /\ buffered < Buffer THEN buffered + 1
                 ELSE buffered
  /\ unseen' = (unseen \/ ~watching)
  /\ UNCHANGED <<revision, watching, requestVars, snap, dirty, restores,
                 failures>>

WatchRaw ==
  /\ ~watching
  /\ watching' = TRUE
  /\ UNCHANGED <<storeVars, buffered, requestVars, snap, dirty, restores,
                 failures, unseen>>

\* The watch callback.
Invalidate ==
  /\ buffered > 0
  /\ buffered' = buffered - 1
  /\ dirty' = TRUE
  /\ UNCHANGED <<storeVars, watching, requestVars, snap, restores, failures,
                 unseen>>

-----------------------------------------------------------------------------
(***************************************************************************)
(* Authorize.                                                              *)
(***************************************************************************)
\* dirty.Swap(false): whoever gets TRUE rebuilds, everybody else goes on.
Authorize(r) ==
  /\ pc[r] = "idle"
  /\ dirty' = FALSE
  /\ pc' = [pc EXCEPT ![r] = IF dirty THEN "lock" ELSE "decide"]
  /\ UNCHANGED <<storeVars, hubVars, mu, scanned, snap, restores, failures,
                 unseen>>

LockFree(r) == TRUE

LockAvailable(r) == mu = None

Lock(r) ==
  /\ pc[r] = "lock"
  /\ LockAvailable(r)
  /\ mu' = r
  /\ pc' = [pc EXCEPT ![r] = "scan"]
  /\ UNCHANGED <<storeVars, hubVars, scanned, snap, dirty, restores, failures,
                 unseen>>

\* GetArea reads one consistent view of the records.
Scan(r) ==
  /\ pc[r] = "scan"
  /\ scanned' = [scanned EXCEPT ![r] = revision]
  /\ pc' = [pc EXCEPT ![r] = "store"]
  /\ UNCHANGED <<storeVars, hubVars, mu, snap, dirty, restores, failures,
                 unseen>>

StoreSnapshotAndClear(r) ==
  /\ pc[r] = "store"
  /\ snap' = scanned[r]
  /\ mu' = None
  /\ dirty' = FALSE
  /\ pc' = [pc EXCEPT ![r] = "decide"]
  /\ UNCHANGED <<storeVars, hubVars, scanned, restores, failures, unseen>>

StoreSnapshot(r) ==
  /\ pc[r] = "store"
  /\ snap' = scanned[r]
  /\ mu' = None
  /\ pc' = [pc EXCEPT ![r] = "decide"]
  /\ UNCHANGED <<storeVars, hubVars, scanned, dirty, restores, failures, unseen>>

\* GetArea fails and the mutex is released ...
ScanFails(r) ==
  /\ pc[r] = "scan"
  /\ failures < MaxFailure
  /\ failures' = failures + 1
  /\ mu' = None
  /\ pc' = [pc EXCEPT ![r] = "failed"]
  /\ UNCHANGED <<storeVars, hubVars, scanned, snap, dirty, restores, unseen>>

\* ... and then the flag goes up again, for the next request.
FlagLeftDown == dirty

FlagAfterFailure == TRUE

RetryOnNextRequest(r) ==
  /\ pc[r] = "failed"
  /\ dirty' = FlagAfterFailure
  /\ pc' = [pc EXCEPT ![r] = "decide"]
  /\ UNCHANGED <<storeVars, hubVars, mu, scanned, snap, restores, failures,
                 unseen>>

Decide(r) ==
  /\ pc[r] = "decide"
  /\ pc' = [pc EXCEPT ![r] = "idle"]
  /\ UNCHANGED <<storeVars, hubVars, mu, scanned, snap, dirty, restores,
                 failures, unseen>>

Next ==
  \/ Write
  \/ Load
  \/ notify
  \/ WatchRaw
  \/ Invalidate
  \/ \E r \in Request :
       \/ Authorize(r)
       \/ Lock(r)
       \/ Scan(r)
       \/ StoreSnapshot(r)
       \/ ScanFails(r)
       \/ RetryOnNextRequest(r)
       \/ Decide(r)

Spec == Init /\ [][Next]_vars

\* Goroutines keep running and requests keep coming; which of them rebuilds is
\* a matter of luck, so fairness is per request.
Fairness ==
  /\ WF_vars(notify)
  /\ WF_vars(WatchRaw)
  /\ WF_vars(Invalidate)
  /\ \A r \in Request :
       /\ WF_vars(Authorize(r))
       /\ SF_vars(Lock(r))
       /\ WF_vars(Scan(r) \/ ScanFails(r))
       /\ WF_vars(StoreSnapshot(r))
       /\ WF_vars(RetryOnNextRequest(r))
       /\ WF_vars(Decide(r))

FairSpec == Spec /\ Fairness

-----------------------------------------------------------------------------
(***************************************************************************)
(* Properties.                                                             *)
(***************************************************************************)
Rebuilding(r) == pc[r] \in {"lock", "scan", "store", "failed"}

\* Every variable has its type; the mutex is held exactly by the request that
\* is between lock and unlock.
TypeOK ==
  /\ revision \in 0 .. MaxRevision
  /\ unsent \in 0 .. revision
  /\ watching \in BOOLEAN
  /\ buffered \in 0 .. Buffer
  /\ snap \in 0 .. MaxRevision
  /\ dirty \in BOOLEAN
  /\ mu \in Request \cup {None}
  /\ pc \in [Request -> {"idle", "lock", "scan", "store", "failed", "decide"}]
  /\ scanned \in [Request -> 0 .. MaxRevision]
  /\ \A r \in Request : mu = r <=> pc[r] \in {"scan", "store"}

\* PolicyService.Authorize: when nothing is in flight, neither an event nor a
\* rebuild, and the flag is down, the snapshot decides by the stored records,
\* however events were dropped and rebuilds overlapped.
SnapshotCurrent ==
  /\ ~unseen
  /\ unsent = 0 /\ buffered = 0 /\ ~dirty
  /\ \A r \in Request : ~Rebuilding(r)
  => snap = revision

\* PolicyService.rebuild under its mutex: a rebuild never replaces a snapshot by
\* an older one.
SnapshotMonotonic == [][snap' >= snap]_vars

\* Why SnapshotCurrent holds: as long as the snapshot is behind the records,
\* something that will bring a rebuild about is outstanding (an event, the flag,
\* or a rebuild that has read, or will read, the newest records).
RebuildOwed ==
  \/ unseen
  \/ unsent > 0
  \/ buffered > 0
  \/ dirty
  \/ \E r \in Request : pc[r] \in {"lock", "scan", "failed"}
  \/ \E r \in Request : pc[r] = "store" /\ scanned[r] = revision
  \/ snap = revision

\* Why SnapshotMonotonic holds: what the holder of the mutex has read is at
\* least as new as the snapshot it will replace.
ScanNotBehind ==
  /\ snap <= revision
  /\ \A r \in Request :
       /\ scanned[r] <= revision
       /\ pc[r] = "store" => snap <= scanned[r]

\* "every node converges on the replicated policy" (policy_service.go): the
\* snapshot ends up at the records, if the watcher was told of every change.
PolicyReloads == <>[](unseen \/ snap = revision)

=============================================================================
