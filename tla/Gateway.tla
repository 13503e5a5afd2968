------------------------------- MODULE Gateway -------------------------------
(***************************************************************************)
(* The data plane behind its guards: a request is authorized by the         *)
(* PolicyService (Policy), against the IAM records its snapshot was         *)
(* compiled from (Authz), and then served (DataPlane), while other requests *)
(* write records and the policy itself changes.                             *)
(*                                                                         *)
(* A behaviour runs one workload: the IAM records of each revision, the     *)
(* initial store, which calls (and how many beside reads) reach each        *)
(* handler, whether replication is on, which stored values a scan may fail  *)
(* to read, and the keys queries are put to.                                *)
(***************************************************************************)
EXTENDS Policy, DataPlane, Authz

CONSTANTS
  Workload,  \* the workloads, by name
  NoCall     \* an idle handler

ASSUME HandlersAreRequests == Handler = Request

VARIABLES
  workload,
  left,     \* per handler: calls other than reads that may still arrive
  call,     \* the request each handler is busy with
  granted,  \* it has passed its guard
  decided   \* by the records of this revision

gvars == <<vars, dvars, workload, left, call, granted, decided>>
callVars == <<workload, left, call, granted, decided>>

Clients == Workload[workload].clients

GatewayInit ==
  /\ Init
  /\ workload \in DOMAIN Workload
  /\ DataInit(Workload[workload].db)
  /\ left = [r \in DOMAIN Clients |-> Clients[r].budget]
  /\ call = [r \in Request |-> NoCall]
  /\ granted = [r \in Request |-> FALSE]
  /\ decided = [r \in Request |-> 0]

IamAt(rev) == Workload[workload].iam[rev + 1]

EmptyKey == [major |-> <<>>, region |-> <<>>, minor |-> <<>>, ts |-> NoTime]

\* encodeKey and decodeKey: a missing key travels as a map without fields and
\* arrives as the empty key.
Wire(k) == IF k = NilKey THEN EmptyKey ELSE k

Received(c) ==
  IF c.op = "batch"
  THEN [c EXCEPT !.records = [i \in DOMAIN @ |-> [@[i] EXCEPT !.key = Wire(@)]]]
  ELSE [c EXCEPT !.key = Wire(@)]

HasKey(r) == "key" \in DOMAIN r /\ r.key \in ClientKey

WellFormed(c) ==
  /\ c # NoCall /\ "op" \in DOMAIN c
  /\ IF c.op = "batch"
     THEN /\ c.records \in Seq({c.records[i] : i \in DOMAIN c.records})
          /\ \A i \in DOMAIN c.records : HasKey(c.records[i])
     ELSE HasKey(c)

ASSUME WorkloadAssumption ==
  \A w \in DOMAIN Workload :
    /\ Workload[w].db \in Store
    /\ \A r \in DOMAIN Workload[w].clients :
         \A c \in Workload[w].clients[r].calls : WellFormed(Received(c))

IsRead(c) == c.op \in {"get", "getrecent"}

PermissionOf(op) ==
  CASE op \in {"get", "getrecent"} -> "get"
    [] op \in {"put", "touch"} -> "put"
    [] op = "remove" -> "delete"
    [] OTHER -> op

-----------------------------------------------------------------------------
(***************************************************************************)
(* Guards (authz_guard.go).                                                 *)
(***************************************************************************)
scopeOf(k) == [ok |-> TRUE, tenant |-> k.major, region |-> k.region]

FirstDecides(records) ==
  IF records = <<>> THEN [ok |-> TRUE, tenant |-> Nowhere, region |-> Nowhere]
  ELSE scopeOf(records[1].key)

batchScope(records) ==
  IF records = <<>> THEN [ok |-> TRUE, tenant |-> Nowhere, region |-> Nowhere]
  ELSE [scopeOf(records[1].key) EXCEPT
          !.ok = \A i \in DOMAIN records : scopeOf(records[i].key) = scopeOf(records[1].key)]

ScopeOfCall(c) == IF c.op = "batch" THEN batchScope(c.records) ELSE scopeOf(c.key)

Passes(c, records) ==
  LET scope == ScopeOfCall(c) IN
  scope.ok /\ Allows(records, c.who, PermissionOf(c.op), scope.tenant, scope.region)

Arrive(r) ==
  /\ r \in DOMAIN Clients
  /\ call[r] = NoCall /\ owed[r] = <<>>
  /\ Authorize(r)
  /\ \E c \in Clients[r].calls :
       /\ IsRead(c) \/ left[r] > 0
       /\ c.op = "enumerate" => stream[r] = NoStream
       /\ c.op = "watch" => watcher[r] = NoWatcher
       /\ left' = IF IsRead(c) THEN left ELSE [left EXCEPT ![r] = @ - 1]
       /\ call' = [call EXCEPT ![r] = Received(c)]
  /\ UNCHANGED <<dvars, workload, granted, decided>>

\* Reads are answered at once, from the local store.
Judge(r) ==
  LET passes == Passes(call[r], IamAt(snap))
      goesOn == passes /\ ~IsRead(call[r])
  IN /\ Decide(r)
     /\ granted' = [granted EXCEPT ![r] = goesOn]
     /\ decided' = [decided EXCEPT ![r] = IF goesOn THEN snap ELSE 0]
     /\ call' = [call EXCEPT ![r] = IF goesOn THEN @ ELSE NoCall]
     /\ UNCHANGED <<dvars, workload, left>>

Leave(r) ==
  /\ call' = [call EXCEPT ![r] = NoCall]
  /\ granted' = [granted EXCEPT ![r] = FALSE]
  /\ decided' = [decided EXCEPT ![r] = 0]
  /\ UNCHANGED <<vars, workload, left>>

IsWrite(c) == c.op \in {"put", "touch", "remove", "increment", "batch"}

ServeWrite(r) ==
  /\ granted[r] /\ IsWrite(call[r])
  /\ Apply(r, Physical(call[r]), Workload[workload].replicated)
  /\ Leave(r)

\* The write is refused below: not the leader (the client is redirected), or
\* the transaction fails.
WriteFails(r) ==
  /\ granted[r] /\ IsWrite(call[r])
  /\ UNCHANGED dvars
  /\ Leave(r)

\* The stream's goroutine is started and the handler returns.
ServeStream(r) ==
  /\ granted[r]
  /\ \/ call[r].op = "enumerate" /\ enumerate(r, call[r], decided[r])
     \/ call[r].op = "watch" /\ watch(r, call[r], decided[r])
  /\ Leave(r)

-----------------------------------------------------------------------------
\* The policy changes no further than the workload says.
PolicyStep ==
  /\ Len(Workload[workload].iam) > 1
  /\ \/ revision + 1 < Len(Workload[workload].iam) /\ Write
     \/ revision + 1 < Len(Workload[workload].iam) /\ Workload[workload].faults /\ Load
     \/ notify
     \/ WatchRaw
     \/ Invalidate
  /\ UNCHANGED <<dvars, callVars>>

LockStep(r) == Lock(r) /\ UNCHANGED <<dvars, callVars>>

RebuildStep(r) ==
  /\ \/ Scan(r)
     \/ Workload[workload].faults /\ ScanFails(r)
     \/ StoreSnapshot(r)
     \/ RetryOnNextRequest(r)
  /\ UNCHANGED <<dvars, callVars>>

\* What the goroutine of an enumeration does without waiting for the client.
GoroutineStep(r) ==
  /\ \/ BeginScan(r) \/ ReadNext(r, Workload[workload].unreadable) \/ ScanEnds(r)
     \/ Abort(r) \/ CloseStream(r)
  /\ UNCHANGED <<vars, callVars>>

ClientStep(r) ==
  /\ Send(r) \/ Cancel(r) \/ Deliver(r) \/ StopWatch(r)
  /\ UNCHANGED <<vars, callVars>>

NotifyStep(r) == notifyHub(r) /\ UNCHANGED <<vars, callVars>>

RegisterStep(r) == Register(r) /\ UNCHANGED <<vars, callVars>>

ClockStep == now < Workload[workload].clock /\ Tick /\ UNCHANGED <<vars, callVars>>

GatewayNext ==
  \/ PolicyStep
  \/ ClockStep
  \/ \E r \in Request :
       \/ Arrive(r) \/ LockStep(r) \/ RebuildStep(r) \/ Judge(r)
       \/ ServeWrite(r) \/ WriteFails(r) \/ ServeStream(r) \/ NotifyStep(r)
       \/ GoroutineStep(r) \/ ClientStep(r) \/ RegisterStep(r)

\* Goroutines keep running and reads keep coming; nothing is assumed of clients
\* that receive from a stream.
GatewayFairness ==
  /\ WF_gvars(notify /\ UNCHANGED <<dvars, callVars>>)
  /\ WF_gvars(WatchRaw /\ UNCHANGED <<dvars, callVars>>)
  /\ WF_gvars(Invalidate /\ UNCHANGED <<dvars, callVars>>)
  /\ \A r \in Request :
       /\ WF_gvars(Arrive(r))
       /\ SF_gvars(LockStep(r))
       /\ WF_gvars(RebuildStep(r) \/ Judge(r) \/ ServeWrite(r) \/ WriteFails(r)
                   \/ ServeStream(r) \/ NotifyStep(r))
       /\ WF_gvars(GoroutineStep(r))

GatewaySpec == GatewayInit /\ [][GatewayNext]_gvars /\ GatewayFairness

-----------------------------------------------------------------------------
(***************************************************************************)
(* Properties.                                                             *)
(***************************************************************************)
\* GetRecent and GetRange: by seeks over bytes, the newest record of the row that
\* is not later than the time asked for ("not found" if just that one has expired),
\* and as many of the newest live ones as asked for, newest first; an expired record
\* is skipped "without consuming a slot", however the row changes.
QueriesExact ==
  LET probes == Workload[workload].probes IN
  \A k \in probes : /\ AnswersRecent(k, probes)
                    /\ \A size \in 1 .. 2 : AnswersRange(k, size, probes)

\* Where a call reads or writes, key by key.
Places(c) ==
  IF c.op = "batch" THEN {<<c.records[i].key.major, c.records[i].key.region>> : i \in DOMAIN c.records}
  ELSE {<<c.key.major, c.key.region>>}

\* authz_guard.go with Snapshot.Authorize ("a grant is never broader than its
\* binding's scope"): a request goes on exactly if the records of the revision
\* the snapshot was compiled from grant it where it reads or writes; a batch
\* must lie in one place, and an empty one needs the grant at instance scope.
DecidedByRecords ==
  [][\A r \in Request :
       pc[r] = "decide" /\ pc'[r] = "idle" /\ ~IsRead(call[r]) =>
         LET c == call[r]
             where == IF Places(c) = {} THEN {<<Nowhere, Nowhere>>} ELSE Places(c)
         IN granted'[r] <=>
              /\ \A p, q \in where : p = q
              /\ \A p \in where : Granted(IamAt(snap), c.who, PermissionOf(c.op), p[1], p[2])]_gvars

\* guardKey and guardedBatch: every record a request changes lies where the
\* policy it was decided by lets its caller make this kind of change, also when
\* the policy is rebuilt between the decision and the write.
WritesGranted ==
  [][\A e \in Key : db'[e] # db[e] =>
       \E r \in Request :
         /\ granted[r] /\ IsWrite(call[r])
         /\ Granted(IamAt(decided[r]), call[r].who, PermissionOf(call[r].op),
                    DecodeKey(e).major, DecodeKey(e).region)]_gvars

\* What lets a stream with the prefix asked hand out key k: the permission where k
\* lies.  A stream without a prefix is authorized at instance scope, with the
\* permission for records, and that one also lets it hand out the system tenant.
MayHandOut(records, who, permission, asked, k) ==
  IF k.major = SystemTenant /\ asked.major = Nowhere
  THEN Granted(records, who, permission, Nowhere, Nowhere)
  ELSE Granted(records, who, permission, k.major, k.region)

\* enumerate and watch authorize only their prefix, yet every record and every
\* change they hand out lies where the caller holds the permission; for the system
\* tenant that is the iam permission, except under the empty prefix.
DeliveredGranted ==
  \A r \in Request :
    LET s == stream[r]
        w == watcher[r]
    IN /\ s.phase # "none" => \A i \in DOMAIN s.out :
            MayHandOut(IamAt(s.rev), s.who, "enumerate", s.prefix, s.out[i].key)
       /\ w.phase # "none" => \A i \in DOMAIN w.seen :
            MayHandOut(IamAt(w.rev), w.who, "watch", w.asked, DecodeKey(w.seen[i].key))

\* watch: a watcher is told of each change under its prefix at most once and of
\* nothing else; unless its buffer ran over it is told of, or about to be told
\* of, every such change committed since it registered; and with replication on,
\* where the goroutine that applies the log notifies the hub before it applies the
\* next entry, in commit order.
WatchFaithful ==
  \A r \in Request : watcher[r].phase = "on" =>
    ToldOfChanges(r) /\ (Workload[workload].replicated => InCommitOrder(r))

\* enumerate: after the client has gone away the goroutine ends and lets go of
\* its transaction, although nobody receives from the stream any more.
CancelEndsScan ==
  \A r \in Request :
    (stream[r].phase # "none" /\ stream[r].canceled)
      ~> stream[r].phase \in {"none", "closed", "aborted"}
=============================================================================
