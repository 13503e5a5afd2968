--------------------------- MODULE GatewayProofs ----------------------------
(***************************************************************************)
(* Authorization: the compiled policy, alone and behind the gateway.        *)
(***************************************************************************)
EXTENDS Gateway, TLAPS

-----------------------------------------------------------------------------
(* PolicyService keeps its compiled policy current, for any number of requests. *)

Inv == TypeOK /\ ScanNotBehind /\ RebuildOwed

\* The state PostConstruct leaves behind satisfies the invariant.
LEMMA InitEstablishes == Init => Inv
<1> SUFFICES ASSUME Init PROVE Inv
  OBVIOUS
<1>1. TypeOK
  <2>1. \A r \in Request : mu # r /\ pc[r] = "idle"
    BY PolicyAssumption, Zenon DEF Init
  <2>2. 0 \in 0 .. MaxRevision /\ 0 \in 0 .. Buffer /\ 0 \in 0 .. 0
    BY PolicyAssumption
  <2>3. pc \in [Request -> {"idle", "lock", "scan", "store", "failed", "decide"}]
    BY DEF Init
  <2> QED
    BY <2>1, <2>2, <2>3, Zenon DEF Init, TypeOK
<1>2. ScanNotBehind
  BY DEF Init, ScanNotBehind
<1>3. RebuildOwed
  BY DEF Init, RebuildOwed
<1> QED
  BY <1>1, <1>2, <1>3 DEF Inv

\* Every step of the store, the hub and Authorize keeps the types and the mutex
\* discipline of rebuild.
LEMMA StepKeepsTypes == TypeOK /\ [Next]_vars => TypeOK'
<1> SUFFICES ASSUME TypeOK, [Next]_vars PROVE TypeOK'
  OBVIOUS
<1> USE PolicyAssumption DEF TypeOK, vars, storeVars, hubVars, requestVars
<1>1. CASE Write BY <1>1 DEF Write
<1>2. CASE Load BY <1>2 DEF Load
<1>3. CASE notify BY <1>3 DEF notify
<1>4. CASE WatchRaw BY <1>4 DEF WatchRaw
<1>5. CASE Invalidate BY <1>5 DEF Invalidate
<1>6. ASSUME NEW r \in Request, Authorize(r) PROVE TypeOK'
  BY <1>6, Zenon DEF Authorize
<1>7. ASSUME NEW r \in Request, Lock(r) PROVE TypeOK'
  BY <1>7 DEF Lock, LockAvailable
<1>8. ASSUME NEW r \in Request, Scan(r) PROVE TypeOK'
  BY <1>8 DEF Scan
<1>9. ASSUME NEW r \in Request, StoreSnapshot(r) PROVE TypeOK'
  BY <1>9 DEF StoreSnapshot
<1>10. ASSUME NEW r \in Request, ScanFails(r) PROVE TypeOK'
  BY <1>10 DEF ScanFails
<1>11. ASSUME NEW r \in Request, RetryOnNextRequest(r) PROVE TypeOK'
  BY <1>11 DEF RetryOnNextRequest, FlagAfterFailure
<1>12. ASSUME NEW r \in Request, Decide(r) PROVE TypeOK'
  BY <1>12 DEF Decide
<1>13. CASE UNCHANGED vars BY <1>13
<1> QED
  BY Zenon, <1>1, <1>2, <1>3, <1>4, <1>5, <1>6, <1>7, <1>8, <1>9, <1>10, <1>11, <1>12,
     <1>13 DEF Next

\* A rebuild reads under the mutex, so what it stores is never behind the
\* snapshot it replaces.
LEMMA StepKeepsScans == TypeOK /\ ScanNotBehind /\ [Next]_vars => ScanNotBehind'
<1> SUFFICES ASSUME TypeOK, ScanNotBehind, [Next]_vars PROVE ScanNotBehind'
  OBVIOUS
<1> USE PolicyAssumption DEF TypeOK, ScanNotBehind, vars, storeVars, hubVars,
                             requestVars
<1>1. CASE Write BY <1>1 DEF Write
<1>2. CASE Load BY <1>2 DEF Load
<1>3. CASE notify BY <1>3 DEF notify
<1>4. CASE WatchRaw BY <1>4 DEF WatchRaw
<1>5. CASE Invalidate BY <1>5 DEF Invalidate
<1>6. ASSUME NEW r \in Request, Authorize(r) PROVE ScanNotBehind'
  BY <1>6 DEF Authorize
<1>7. ASSUME NEW r \in Request, Lock(r) PROVE ScanNotBehind'
  BY <1>7 DEF Lock
<1>8. ASSUME NEW r \in Request, Scan(r) PROVE ScanNotBehind'
  BY <1>8 DEF Scan
<1>9. ASSUME NEW r \in Request, StoreSnapshot(r) PROVE ScanNotBehind'
  <2>1. \A s \in Request : pc'[s] # "store"
    BY <1>9 DEF StoreSnapshot
  <2>2. /\ snap' = scanned[r] /\ scanned[r] <= revision
        /\ UNCHANGED <<revision, scanned>>
    BY <1>9 DEF StoreSnapshot
  <2> QED
    BY <2>1, <2>2
<1>10. ASSUME NEW r \in Request, ScanFails(r) PROVE ScanNotBehind'
  BY <1>10 DEF ScanFails
<1>11. ASSUME NEW r \in Request, RetryOnNextRequest(r) PROVE ScanNotBehind'
  BY <1>11 DEF RetryOnNextRequest
<1>12. ASSUME NEW r \in Request, Decide(r) PROVE ScanNotBehind'
  BY <1>12 DEF Decide
<1>13. CASE UNCHANGED vars BY <1>13
<1> QED
  BY Zenon, <1>1, <1>2, <1>3, <1>4, <1>5, <1>6, <1>7, <1>8, <1>9, <1>10, <1>11, <1>12,
     <1>13 DEF Next

\* A change leaves an event behind, an event the flag, the flag a rebuild, and a
\* rebuild a current snapshot, or the flag again.
LEMMA StepKeepsOwed == Inv /\ [Next]_vars => RebuildOwed'
<1> SUFFICES ASSUME TypeOK, ScanNotBehind, RebuildOwed, [Next]_vars
             PROVE RebuildOwed'
  BY DEF Inv
<1> USE PolicyAssumption DEF TypeOK, RebuildOwed, vars, storeVars, hubVars,
                             requestVars
<1>1. CASE Write BY <1>1 DEF Write
<1>2. CASE Load BY <1>2 DEF Load
<1>3. CASE notify
  <2>1. CASE ~watching
    <3>1. unseen' = TRUE
      BY <1>3, <2>1, Zenon DEF notify
    <3> QED
      BY <3>1
  <2>2. CASE watching
    <3>1. buffered' > 0
      BY <1>3, <2>2 DEF notify
    <3> QED
      BY <3>1
  <2> QED
    BY <2>1, <2>2
<1>4. CASE WatchRaw BY <1>4 DEF WatchRaw
<1>5. CASE Invalidate BY <1>5 DEF Invalidate
<1>6. ASSUME NEW r \in Request, Authorize(r) PROVE RebuildOwed'
  BY <1>6, Zenon DEF Authorize
<1>7. ASSUME NEW r \in Request, Lock(r) PROVE RebuildOwed'
  <2>1. pc'[r] = "scan"
    BY <1>7 DEF Lock
  <2> QED
    BY <2>1
<1>8. ASSUME NEW r \in Request, Scan(r) PROVE RebuildOwed'
  BY <1>8 DEF Scan
<1>9. ASSUME NEW r \in Request, StoreSnapshot(r) PROVE RebuildOwed'
  BY <1>9 DEF StoreSnapshot, ScanNotBehind
<1>10. ASSUME NEW r \in Request, ScanFails(r) PROVE RebuildOwed'
  BY <1>10 DEF ScanFails
<1>11. ASSUME NEW r \in Request, RetryOnNextRequest(r) PROVE RebuildOwed'
  BY <1>11 DEF RetryOnNextRequest, FlagAfterFailure
<1>12. ASSUME NEW r \in Request, Decide(r) PROVE RebuildOwed'
  BY <1>12 DEF Decide
<1>13. CASE UNCHANGED vars BY <1>13
<1> QED
  BY Zenon, <1>1, <1>2, <1>3, <1>4, <1>5, <1>6, <1>7, <1>8, <1>9, <1>10, <1>11, <1>12,
     <1>13 DEF Next

\* The invariant of PolicyService holds in every reachable state.
THEOREM PolicyInvariant == Spec => []Inv
<1>1. Init => Inv
  BY InitEstablishes
<1>2. Inv /\ [Next]_vars => Inv'
  BY StepKeepsTypes, StepKeepsScans, StepKeepsOwed DEF Inv
<1> QED
  BY <1>1, <1>2, PTL DEF Spec

\* Authorize decides by the stored records whenever no event and no rebuild is
\* in flight.
THEOREM SnapshotIsCurrent == Spec => []SnapshotCurrent
<1>1. Inv => SnapshotCurrent
  BY DEF Inv, TypeOK, ScanNotBehind, RebuildOwed, SnapshotCurrent, Rebuilding
<1> QED
  BY <1>1, PolicyInvariant, PTL

\* Concurrent rebuilds never put an older policy in the place of a newer one.
THEOREM SnapshotIsMonotonic == Spec => SnapshotMonotonic
<1>1. Inv /\ [Next]_vars => [snap' >= snap]_vars
  <2> SUFFICES ASSUME TypeOK, ScanNotBehind, Next PROVE snap' >= snap
    BY SMTT(60) DEF Inv
  <2>1. snap' = snap \/ \E r \in Request : StoreSnapshot(r)
    BY Zenon DEF Next, Write, Load, notify, WatchRaw, Invalidate, Authorize, Lock, Scan,
           ScanFails, RetryOnNextRequest, Decide, requestVars, hubVars, storeVars
  <2>2. ASSUME NEW r \in Request, StoreSnapshot(r) PROVE snap' >= snap
    BY <2>2 DEF StoreSnapshot, TypeOK, ScanNotBehind
  <2> QED
    BY <2>1, <2>2 DEF TypeOK
<1> QED
  BY <1>1, PolicyInvariant, PTL DEF Spec, SnapshotMonotonic

-----------------------------------------------------------------------------
(***************************************************************************)
(* The guards of the data plane decide by what the stored records grant,    *)
(* for any records, requests and workloads.                                 *)
(***************************************************************************)

\* policy_service.go, rebuild, with policy.go, Authorize: the compiled snapshot
\* allows exactly what the records it was compiled from grant: groups, predefined
\* and stored roles and the three scopes included.
THEOREM AllowsWhatIsGranted ==
  ASSUME NEW records, NEW principal, NEW permission, NEW tenant, NEW region
  PROVE  Allows(records, principal, permission, tenant, region)
           <=> Granted(records, principal, permission, tenant, region)
<1> DEFINE s == rebuild(records)
           needed == EffectivePermission(permission, tenant)
           members == {principal} \cup {p[2] : p \in {q \in s.memberGroups : q[1] = principal}}
           Bound(scope, b) == /\ b.members \cap members # {}
                              /\ b.role \in DOMAIN s.roles /\ needed \in s.roles[b.role]
<1>1. /\ s.admins = {u \in DOMAIN records.users : records.users[u].admin}
      /\ s.disabled = {u \in DOMAIN records.users : records.users[u].disabled}
      /\ s.memberGroups = UNION {records.groups[g] \X {g} : g \in DOMAIN records.groups}
      /\ s.roles = CompileRoles(records) /\ s.policies = records.policies
  BY DEF rebuild
<1> HIDE DEF s
<1>2. \A scope : scope \in Scopes(tenant, region) <=> Covers(scope, tenant, region)
  BY DEF Scopes, Covers
<1>3. \A g : g \in members <=> \/ g = principal
                               \/ g \in DOMAIN records.groups /\ principal \in records.groups[g]
  <2>1. ASSUME NEW g, g \in DOMAIN records.groups, principal \in records.groups[g]
        PROVE  <<principal, g>> \in s.memberGroups
    BY <1>1, <2>1, SMTT(30)
  <2>2. ASSUME NEW p \in s.memberGroups, p[1] = principal
        PROVE  p[2] \in DOMAIN records.groups /\ principal \in records.groups[p[2]]
    <3>1. PICK g \in DOMAIN records.groups : p \in records.groups[g] \X {g}
      BY <1>1, <2>2
    <3>2. p[1] \in records.groups[g] /\ p[2] = g
      BY <3>1, Zenon
    <3> QED BY <2>2, <3>2
  <2>3. ASSUME NEW g, g \in DOMAIN records.groups, principal \in records.groups[g]
        PROVE  g \in members
    <3>1. <<principal, g>> \in {q \in s.memberGroups : q[1] = principal} /\ <<principal, g>>[2] = g
      BY <2>1, <2>3
    <3> QED BY <3>1
  <2>4. ASSUME NEW g \in members, g # principal
        PROVE  g \in DOMAIN records.groups /\ principal \in records.groups[g]
    <3>1. PICK p \in s.memberGroups : p[1] = principal /\ p[2] = g
      BY <2>4
    <3> QED BY <2>2, <3>1, Zenon
  <2>5. principal \in members
    OBVIOUS
  <2> HIDE DEF members
  <2> QED
    BY <2>3, <2>4, <2>5
<1> HIDE DEF members
<1>4. \A b : b.members \cap members # {} <=> SpeaksFor(records, b, principal)
  BY <1>3 DEF SpeaksFor
<1>5. \A role, p : role \in DOMAIN s.roles /\ p \in s.roles[role] <=> RoleHolds(records, role, p)
  BY <1>1 DEF CompileRoles, RoleHolds
<1>6. needed = IF tenant = SystemTenant
               THEN IF permission \in PredefinedRoles["viewer"] THEN "iam.get" ELSE "iam.set"
               ELSE permission
  <2>1. PredefinedRoles["viewer"] = {"get", "enumerate", "watch"}
    BY DEF PredefinedRoles
  <2> QED
    BY <2>1 DEF EffectivePermission
<1> HIDE DEF needed
<1>7. (\E scope \in Scopes(tenant, region) \cap DOMAIN s.policies :
         \E b \in s.policies[scope] : Bound(scope, b))
      <=> (\E scope \in DOMAIN records.policies : \E b \in records.policies[scope] :
             /\ Covers(scope, tenant, region)
             /\ SpeaksFor(records, b, principal)
             /\ RoleHolds(records, b.role, needed))
  BY <1>1, <1>2, <1>4, <1>5, Zenon
<1>8. Allows(records, principal, permission, tenant, region)
      <=> /\ principal # Anonymous /\ principal \notin s.disabled
          /\ \/ principal \in s.admins
             \/ \E scope \in Scopes(tenant, region) \cap DOMAIN s.policies :
                  \E b \in s.policies[scope] : Bound(scope, b)
  BY DEF Allows, SnapshotAuthorize, s, members, needed
<1> QED
  BY <1>1, <1>6, <1>7, <1>8, Zenon DEF Granted

\* policy.go, Authorize: what is allowed for a whole tenant is allowed for every
\* region of it.  enumerate and watch rely on it: they authorize their prefix and
\* hand out what lies below it.
THEOREM AllowedBelow ==
  ASSUME NEW records, NEW principal, NEW permission, NEW tenant, NEW region,
         Allows(records, principal, permission, tenant, Nowhere)
  PROVE  Allows(records, principal, permission, tenant, region)
<1>1. \A scope : Covers(scope, tenant, Nowhere) => Covers(scope, tenant, region)
  BY SMTT(60) DEF Covers
<1>2. Granted(records, principal, permission, tenant, Nowhere)
        => Granted(records, principal, permission, tenant, region)
  BY <1>1 DEF Granted
<1> QED
  BY <1>2, AllowsWhatIsGranted

-----------------------------------------------------------------------------
(***************************************************************************)
(* The gateway takes the steps of PolicyService and no others.              *)
(***************************************************************************)
\* Requests use the policy only through Authorize; serving them leaves it alone.
LEMMA StepOfPolicy == [GatewayNext]_gvars => [Next]_vars
<1> SUFFICES ASSUME [GatewayNext]_gvars PROVE [Next]_vars
  OBVIOUS
<1>1. CASE PolicyStep
  BY <1>1 DEF PolicyStep, Next
<1>2. CASE ClockStep
  BY <1>2, SMTT(60) DEF ClockStep
<1>3. ASSUME NEW r \in Request, Arrive(r) PROVE [Next]_vars
  BY <1>3 DEF Arrive, Next
<1>4. ASSUME NEW r \in Request, LockStep(r) PROVE [Next]_vars
  BY <1>4 DEF LockStep, Next
<1>5. ASSUME NEW r \in Request, RebuildStep(r) PROVE [Next]_vars
  BY <1>5 DEF RebuildStep, Next
<1>6. ASSUME NEW r \in Request, Judge(r) PROVE [Next]_vars
  BY <1>6 DEF Judge, Next
<1>7. ASSUME NEW r \in Request, ServeWrite(r) \/ WriteFails(r) \/ ServeStream(r)
      PROVE  UNCHANGED vars
  BY <1>7 DEF ServeWrite, WriteFails, ServeStream, Leave
<1>8. ASSUME NEW r \in Request,
             NotifyStep(r) \/ GoroutineStep(r) \/ ClientStep(r) \/ RegisterStep(r)
      PROVE  UNCHANGED vars
  BY <1>8 DEF NotifyStep, GoroutineStep, ClientStep, RegisterStep
<1>9. CASE UNCHANGED gvars
  BY <1>9 DEF gvars
<1> QED
  BY <1>1, <1>2, <1>3, <1>4, <1>5, <1>6, <1>7, <1>8, <1>9, SMTT(30) DEF GatewayNext

\* So what PolicyProofs shows of the policy alone holds behind the gateway.
LEMMA PolicyBehindGateway == GatewaySpec => []Inv
<1>1. GatewayInit => Inv
  BY InitEstablishes DEF GatewayInit
<1>2. Inv /\ [GatewayNext]_gvars => Inv'
  BY StepOfPolicy, StepKeepsTypes, StepKeepsScans, StepKeepsOwed, SMTT(30) DEF Inv
<1> QED
  BY <1>1, <1>2, PTL DEF GatewaySpec

\* policy_service.go behind the gateway, whatever requests do meanwhile: when no
\* event and no rebuild is in flight, decisions are made by the stored records.
THEOREM SnapshotCurrentBehindGateway == GatewaySpec => []SnapshotCurrent
<1>1. Inv => SnapshotCurrent
  BY DEF Inv, TypeOK, ScanNotBehind, RebuildOwed, SnapshotCurrent, Rebuilding
<1> QED
  BY <1>1, PolicyBehindGateway, PTL

-----------------------------------------------------------------------------
(***************************************************************************)
(* Decisions.                                                               *)
(***************************************************************************)
Where(c) == IF Places(c) = {} THEN {<<Nowhere, Nowhere>>} ELSE Places(c)

\* guardKey and guardedBatch: a call is judged where it reads or writes, and a
\* batch that lies in two places is not judged at all.
LEMMA ScopeIsPlace ==
  ASSUME NEW c, WellFormed(c)
  PROVE  /\ ScopeOfCall(c).ok <=> \A p, q \in Where(c) : p = q
         /\ ScopeOfCall(c).ok =>
              Where(c) = {<<ScopeOfCall(c).tenant, ScopeOfCall(c).region>>}
<1>1. CASE c.op # "batch"
  <2>1. ScopeOfCall(c) = [ok |-> TRUE, tenant |-> c.key.major, region |-> c.key.region]
    BY <1>1 DEF ScopeOfCall, scopeOf
  <2>2. Where(c) = {<<c.key.major, c.key.region>>}
    BY <1>1, Zenon DEF Where, Places
  <2> QED
    BY <2>1, <2>2
<1>2. CASE c.op = "batch" /\ c.records = <<>>
  <2>1. ScopeOfCall(c) = [ok |-> TRUE, tenant |-> Nowhere, region |-> Nowhere]
    BY <1>2 DEF ScopeOfCall, batchScope
  <2>2. Where(c) = {<<Nowhere, Nowhere>>}
    BY <1>2 DEF Where, Places
  <2> QED
    BY <2>1, <2>2
<1>3. CASE c.op = "batch" /\ c.records # <<>>
  <2> DEFINE rs == c.records
             k(i) == rs[i].key
             same == \A i \in DOMAIN rs : scopeOf(k(i)) = scopeOf(k(1))
  <2>1. 1 \in DOMAIN rs
    BY <1>3 DEF WellFormed
  <2>2. Where(c) = {<<k(i).major, k(i).region>> : i \in DOMAIN rs}
    BY <1>3, <2>1, Zenon DEF Where, Places
  <2>3. ScopeOfCall(c) = [scopeOf(k(1)) EXCEPT !.ok = same]
    BY <1>3, Zenon DEF ScopeOfCall, batchScope
  <2>4. same <=> \A i \in DOMAIN rs : k(i).major = k(1).major /\ k(i).region = k(1).region
    BY Zenon DEF scopeOf
  <2> HIDE DEF same
  <2>5. /\ ScopeOfCall(c).ok <=> same
        /\ ScopeOfCall(c).tenant = k(1).major /\ ScopeOfCall(c).region = k(1).region
    BY <2>3 DEF scopeOf
  <2> HIDE DEF rs
  <2>6. same <=> \A p, q \in Where(c) : p = q
    <3> DEFINE at(i) == <<k(i).major, k(i).region>>
    <3>1. \A i, j : at(i) = at(j) <=> k(i).major = k(j).major /\ k(i).region = k(j).region
      OBVIOUS
    <3>2. Where(c) = {at(i) : i \in DOMAIN rs}
      BY <2>2
    <3> HIDE DEF at, k
    <3> QED BY <2>1, <2>4, <3>1, <3>2, SMTT(30)
  <2>7. same => Where(c) = {<<k(1).major, k(1).region>>}
    BY <2>1, <2>2, <2>4, SMTT(30)
  <2> QED
    BY <2>5, <2>6, <2>7, Zenon
<1> QED
  BY <1>1, <1>2, <1>3, SMTT(30)

\* A guard passes a call exactly if its caller is granted it everywhere it goes.
LEMMA PassesWhatIsGranted ==
  ASSUME NEW c, WellFormed(c), NEW records
  PROVE  Passes(c, records) <=>
           /\ \A p, q \in Where(c) : p = q
           /\ \A p \in Where(c) : Granted(records, c.who, PermissionOf(c.op), p[1], p[2])
<1> DEFINE scope == ScopeOfCall(c)
<1>1. Passes(c, records) <=>
        scope.ok /\ Granted(records, c.who, PermissionOf(c.op), scope.tenant, scope.region)
  BY AllowsWhatIsGranted DEF Passes
<1>2. scope.ok <=> \A p, q \in Where(c) : p = q
  BY ScopeIsPlace
<1>3. scope.ok => Where(c) = {<<scope.tenant, scope.region>>}
  BY ScopeIsPlace, SMTT(60)
<1> HIDE DEF scope
<1>4. CASE scope.ok
  <2> DEFINE here == <<scope.tenant, scope.region>>
  <2>1. Where(c) = {here} /\ here[1] = scope.tenant /\ here[2] = scope.region
    BY <1>3, <1>4, SMTT(60)
  <2> HIDE DEF here
  <2> QED
    BY <1>1, <1>2, <1>4, <2>1
<1>5. CASE ~scope.ok
  BY <1>1, <1>2, <1>5
<1> QED
  BY <1>4, <1>5

\* A handler that is being judged has a call; one that was granted is past it.
Busy ==
  /\ workload \in DOMAIN Workload
  /\ call = [r \in Request |-> call[r]] /\ granted = [r \in Request |-> granted[r]]
  /\ \A r \in Request : pc[r] # "idle" => WellFormed(call[r])
  /\ \A r \in Request : granted[r] => pc[r] = "idle" /\ call[r] # NoCall

\* What each step of the gateway does to the calls.
LEMMA BusyKept == Inv /\ Busy /\ [GatewayNext]_gvars => Busy'
<1> SUFFICES ASSUME Inv, Busy, [GatewayNext]_gvars PROVE Busy'
  OBVIOUS
<1>1. pc \in [Request -> {"idle", "lock", "scan", "store", "failed", "decide"}]
  BY DEF Inv, TypeOK
<1>2. ASSUME UNCHANGED callVars, pc' = [r \in Request |-> pc'[r]],
             \A r \in Request : pc'[r] = "idle" <=> pc[r] = "idle"
      PROVE  Busy'
  BY <1>2 DEF Busy, callVars
<1>3. ASSUME UNCHANGED callVars, UNCHANGED pc PROVE Busy'
  BY <1>1, <1>2, <1>3
<1>4. CASE PolicyStep
  <2>1. UNCHANGED pc
    BY <1>4, Zenon DEF PolicyStep, Write, Load, notify, WatchRaw, Invalidate, requestVars
  <2> QED
    BY <1>3, <1>4, <2>1 DEF PolicyStep
<1>5. CASE ClockStep
  BY <1>3, <1>5, SMTT(60) DEF ClockStep, vars, requestVars
<1>6. ASSUME NEW r \in Request, Arrive(r) PROVE Busy'
  <2>1. PICK c \in Clients[r].calls : call' = [call EXCEPT ![r] = Received(c)]
    BY <1>6, Zenon DEF Arrive
  <2>2. WellFormed(Received(c))
    BY <1>6, <2>1, WorkloadAssumption, SMTT(60) DEF Arrive, Busy, Clients
  <2>3. /\ call[r] = NoCall /\ UNCHANGED <<workload, granted>>
        /\ pc' = [pc EXCEPT ![r] = IF dirty THEN "lock" ELSE "decide"]
    BY <1>6 DEF Arrive, Authorize
  <2>4. \A q \in Request : q # r => pc'[q] = pc[q] /\ call'[q] = call[q]
    BY <1>1, <2>1, <2>3 DEF Busy
  <2>5. call'[r] = Received(c) /\ ~granted[r]
    BY <2>1, <2>3 DEF Busy
  <2> QED
    BY <2>1, <2>2, <2>3, <2>4, <2>5, SMTT(30) DEF Busy
<1>7. ASSUME NEW r \in Request, LockStep(r) \/ RebuildStep(r) PROVE Busy'
  <2>1. PICK x \in {"scan", "store", "failed", "decide"} :
          pc[r] # "idle" /\ pc' = [pc EXCEPT ![r] = x]
    BY <1>7 DEF LockStep, RebuildStep, Lock, Scan, ScanFails, StoreSnapshot, RetryOnNextRequest
  <2>2. UNCHANGED callVars
    BY <1>7 DEF LockStep, RebuildStep
  <2>3. /\ pc' = [q \in Request |-> pc'[q]]
        /\ \A q \in Request : pc'[q] = "idle" <=> pc[q] = "idle"
    BY <1>1, <2>1, Zenon
  <2> QED
    BY <1>2, <2>2, <2>3, SMTT(60)
<1>8. ASSUME NEW r \in Request, Judge(r) PROVE Busy'
  <2> DEFINE goesOn == Passes(call[r], IamAt(snap)) /\ ~IsRead(call[r])
  <2>1. /\ pc[r] = "decide" /\ pc' = [pc EXCEPT ![r] = "idle"]
        /\ granted' = [granted EXCEPT ![r] = goesOn]
        /\ call' = [call EXCEPT ![r] = IF goesOn THEN @ ELSE NoCall]
        /\ UNCHANGED workload
    BY <1>8, Zenon DEF Judge, Decide
  <2> HIDE DEF goesOn
  <2>2. call[r] # NoCall
    BY <2>1, Zenon DEF Busy, WellFormed
  <2>3. /\ pc'[r] = "idle" /\ (granted'[r] <=> goesOn)
        /\ goesOn => call'[r] = call[r]
    BY <1>1, <2>1 DEF Busy
  <2>4. \A q \in Request : q # r =>
          pc'[q] = pc[q] /\ call'[q] = call[q] /\ granted'[q] = granted[q]
    BY <1>1, <2>1, Zenon DEF Busy
  <2> QED
    BY <2>1, <2>2, <2>3, <2>4, Zenon DEF Busy
<1>9. ASSUME NEW r \in Request, ServeWrite(r) \/ WriteFails(r) \/ ServeStream(r) PROVE Busy'
  <2>1. granted[r] /\ Leave(r)
    BY <1>9, Zenon DEF ServeWrite, WriteFails, ServeStream
  <2>2. /\ call' = [call EXCEPT ![r] = NoCall] /\ granted' = [granted EXCEPT ![r] = FALSE]
        /\ UNCHANGED <<pc, workload>>
    BY <2>1 DEF Leave, vars, requestVars
  <2>3. pc[r] = "idle"
    BY <2>1 DEF Busy
  <2>4. ~granted'[r] /\ \A q \in Request : q # r => call'[q] = call[q] /\ granted'[q] = granted[q]
    BY <2>2 DEF Busy
  <2> QED
    BY <2>2, <2>3, <2>4, ZenonT(60) DEF Busy
<1>10. ASSUME NEW r \in Request,
              NotifyStep(r) \/ GoroutineStep(r) \/ ClientStep(r) \/ RegisterStep(r)
       PROVE  Busy'
  BY <1>3, <1>10, Zenon DEF NotifyStep, GoroutineStep, ClientStep, RegisterStep, vars, requestVars
<1>11. CASE UNCHANGED gvars
  BY <1>3, <1>11, SMTT(60) DEF gvars, callVars, vars, requestVars
<1> QED
  BY <1>4, <1>5, <1>6, <1>7, <1>8, <1>9, <1>10, <1>11, SMTT(60) DEF GatewayNext

\* Only the guard ends an authorization.
LEMMA OnlyJudgeDecides ==
  ASSUME TypeOK, GatewayNext, NEW r \in Request, pc[r] = "decide", pc'[r] = "idle"
  PROVE  Judge(r)
<1>1. pc \in [Request -> {"idle", "lock", "scan", "store", "failed", "decide"}]
  BY DEF TypeOK
<1>2. pc' # pc
  BY SMTT(60)
<1>3. ~PolicyStep /\ ~ClockStep
  BY <1>2, Zenon DEF PolicyStep, ClockStep, Write, Load, notify, WatchRaw, Invalidate, vars,
     requestVars
<1>4. \A q \in Request : ~ServeWrite(q) /\ ~WriteFails(q) /\ ~ServeStream(q)
  BY <1>2 DEF ServeWrite, WriteFails, ServeStream, Leave, vars, requestVars
<1>5. \A q \in Request : ~NotifyStep(q) /\ ~GoroutineStep(q) /\ ~ClientStep(q) /\ ~RegisterStep(q)
  BY <1>2 DEF NotifyStep, GoroutineStep, ClientStep, RegisterStep, vars, requestVars
<1>6. ASSUME NEW q \in Request, Arrive(q) \/ LockStep(q) \/ RebuildStep(q) PROVE FALSE
  <2>1. PICK x \in {"lock", "scan", "store", "failed", "decide"} : pc' = [pc EXCEPT ![q] = x]
    BY <1>6, Zenon DEF Arrive, Authorize, LockStep, RebuildStep, Lock, Scan, ScanFails,
                StoreSnapshot, RetryOnNextRequest
  <2> QED
    BY <1>1, <2>1
<1>7. ASSUME NEW q \in Request, Judge(q) PROVE q = r
  <2>1. pc' = [pc EXCEPT ![q] = "idle"]
    BY <1>7 DEF Judge, Decide
  <2> QED
    BY <1>1, <2>1
<1> QED
  BY <1>3, <1>4, <1>5, <1>6, <1>7, SMTT(60) DEF GatewayNext

\* authz_guard.go and policy_service.go: a request goes on exactly if the records
\* its decision is made by grant it in the one place it is about.
THEOREM DecidedByRecordsHolds == GatewaySpec => DecidedByRecords
<1> DEFINE Decision(r) ==
             pc[r] = "decide" /\ pc'[r] = "idle" /\ ~IsRead(call[r]) =>
               LET c == call[r]
                   where == IF Places(c) = {} THEN {<<Nowhere, Nowhere>>} ELSE Places(c)
               IN granted'[r] <=>
                    /\ \A p, q \in where : p = q
                    /\ \A p \in where : Granted(IamAt(snap), c.who, PermissionOf(c.op), p[1], p[2])
<1>1. GatewayInit => Busy
  BY SMTT(60) DEF GatewayInit, Init, Busy
<1>2. Inv /\ Busy /\ GatewayNext => \A r \in Request : Decision(r)
  <2> SUFFICES ASSUME Inv, Busy, GatewayNext, NEW r \in Request,
                      pc[r] = "decide", pc'[r] = "idle", ~IsRead(call[r])
               PROVE  granted'[r] <=>
                        /\ \A p, q \in Where(call[r]) : p = q
                        /\ \A p \in Where(call[r]) :
                             Granted(IamAt(snap), call[r].who, PermissionOf(call[r].op), p[1], p[2])
    BY Zenon DEF Where
  <2>1. Judge(r)
    BY OnlyJudgeDecides DEF Inv
  <2>2. WellFormed(call[r])
    BY DEF Busy
  <2> DEFINE passes == Passes(call[r], IamAt(snap))
  <2>3. granted' = [granted EXCEPT ![r] = passes /\ ~IsRead(call[r])]
    BY <2>1, ZenonT(60) DEF Judge
  <2>4. passes <=>
          /\ \A p, q \in Where(call[r]) : p = q
          /\ \A p \in Where(call[r]) :
               Granted(IamAt(snap), call[r].who, PermissionOf(call[r].op), p[1], p[2])
    BY <2>2, PassesWhatIsGranted, Zenon
  <2> HIDE DEF passes
  <2>5. granted'[r] <=> passes
    BY <2>3, Zenon DEF Busy
  <2> QED
    BY <2>4, <2>5, SMTT(30)
<1>3. Inv /\ Busy /\ [GatewayNext]_gvars => [\A r \in Request : Decision(r)]_gvars
  BY <1>2, Zenon
<1>4. GatewaySpec => [](Inv /\ Busy)
  BY <1>1, BusyKept, PolicyBehindGateway, PTL DEF GatewaySpec
<1> QED
  BY <1>3, <1>4, PTL DEF GatewaySpec, DecidedByRecords

-----------------------------------------------------------------------------
(***************************************************************************)
(* Writes.                                                                 *)
(***************************************************************************)
LEMMA LengthRead ==
  ASSUME NEW B \in Nat \ {0}, NEW n \in Nat
  PROVE  n \div B \in Nat /\ (n % B) \in Nat /\ ((n \div B) * B) + (n % B) = n
  OBVIOUS

LEMMA Joined ==
  ASSUME NEW a \in Seq(Nat), NEW b \in Seq(Nat)
  PROVE  a \o b \in Seq(Nat) /\ Len(a \o b) = Len(a) + Len(b) /\ <<>> \o a = a
  OBVIOUS

Regrouped(a, b, c) == (a \o b) \o c = a \o (b \o c)

LEMMA JoinedTwice ==
  ASSUME NEW a \in Seq(Nat), NEW b \in Seq(Nat), NEW c \in Seq(Nat)
  PROVE  Regrouped(a, b, c)
  BY SMTT(60) DEF Regrouped

\* Two numbers and a sequence, found again after p.
Found(p, x, y, e, r) ==
  LET b == p \o ((<<x, y>> \o e) \o r) IN
  /\ b[Len(p) + 1] = x /\ b[Len(p) + 2] = y
  /\ SubSeq(b, Len(p) + 3, Len(p) + 2 + Len(e)) = e

LEMMA InTheMiddle ==
  ASSUME NEW p \in Seq(Nat), NEW x \in Nat, NEW y \in Nat, NEW e \in Seq(Nat), NEW r \in Seq(Nat)
  PROVE  Found(p, x, y, e, r)
  BY SMTT(60) DEF Found

\* SanitizeKeyLen: a field is cut to the length its two bytes can say.
LEMMA SanitizedField ==
  ASSUME NEW f \in Seq(Nat)
  PROVE  /\ Sanitized(f) \in Seq(Nat)
         /\ Len(Sanitized(f)) = SanitizeKeyLen(Len(f))
         /\ Len(f) <= MaxKeyLength => Sanitized(f) = f
         /\ EncodeField(f) \in Seq(Nat)
         /\ Len(EncodeField(f)) = 2 + Len(Sanitized(f))
<1>1. MaxKeyLength \in Nat
  BY KeysAssumption DEF MaxKeyLength
<1> DEFINE n == SanitizeKeyLen(Len(f))
<1>2. n \in Nat /\ n <= Len(f) /\ (Len(f) <= MaxKeyLength => n = Len(f))
  BY <1>1 DEF SanitizeKeyLen
<1> HIDE DEF n
<1>3. SubSeq(f, 1, n) \in Seq(Nat) /\ Len(SubSeq(f, 1, n)) = n /\ (n = Len(f) => SubSeq(f, 1, n) = f)
  BY <1>2
<1>4. Uint16(n) \in Seq(Nat) /\ Len(Uint16(n)) = 2
  BY <1>2, LengthRead, KeysAssumption, SMTT(60) DEF Uint16
<1> DEFINE u == Uint16(n)
           s == SubSeq(f, 1, n)
<1>5. EncodeField(f) = u \o s /\ Sanitized(f) = s
  BY DEF EncodeField, Sanitized, n
<1> HIDE DEF u, s
<1>6. u \o s \in Seq(Nat) /\ Len(u \o s) = 2 + Len(s)
  <2>1. u \in Seq(Nat) /\ s \in Seq(Nat) /\ Len(u) = 2
    BY <1>3, <1>4, Zenon DEF u, s
  <2>2. u \o s \in Seq(Nat) /\ Len(u \o s) = Len(u) + Len(s)
    BY <2>1, Joined, Zenon
  <2> QED BY <2>1, <2>2, Zenon
<1>7. s \in Seq(Nat) /\ Len(s) = n /\ (n = Len(f) => s = f)
  BY <1>3 DEF s
<1>8. n = SanitizeKeyLen(Len(f))
  BY DEF n
<1> QED
  BY <1>2, <1>5, <1>6, <1>7, <1>8, Zenon

\* DecodeKey reads back, wherever it starts, the field EncodeKey wrote there.
LEMMA FieldRead ==
  ASSUME NEW p \in Seq(Nat), NEW f \in Seq(Nat), NEW r \in Seq(Nat)
  PROVE  LET field == FieldAt(p \o (EncodeField(f) \o r), Len(p)) IN
         field.bytes = Sanitized(f) /\ field.end = Len(p \o EncodeField(f))
<1> DEFINE s == Sanitized(f)
           n == Len(s)
           x == n \div Base
           y == n % Base
           b == p \o ((<<x, y>> \o s) \o r)
<1>1. s \in Seq(Nat) /\ n \in Nat /\ n = SanitizeKeyLen(Len(f))
  BY SanitizedField
<1>2. x \in Nat /\ y \in Nat
  BY <1>1, LengthRead, KeysAssumption, Zenon
<1>9. (x * Base) + y = n
  BY <1>1, LengthRead, KeysAssumption, Zenon
<1>3. EncodeField(f) = <<x, y>> \o s
  BY <1>1, Zenon DEF EncodeField, Uint16
<1>4. Len(p \o EncodeField(f)) = Len(p) + 2 + n
  <2> DEFINE e == EncodeField(f)
  <2>1. e \in Seq(Nat) /\ Len(e) = 2 + n
    BY SanitizedField
  <2> HIDE DEF e, n
  <2>2. Len(p \o e) = Len(p) + Len(e)
    BY <2>1, Joined, Zenon
  <2>3. Len(p \o e) = Len(p) + 2 + n
    BY <1>1, <2>1, <2>2
  <2> QED BY <2>3 DEF e
<1> HIDE DEF s, x, y
<1>5. b[Len(p) + 1] = x /\ b[Len(p) + 2] = y /\ SubSeq(b, Len(p) + 3, Len(p) + 2 + n) = s
  <2>1. Found(p, x, y, s, r)
    BY <1>1, <1>2, InTheMiddle, Zenon
  <2> QED BY <2>1, Zenon DEF Found
<1> HIDE DEF b
<1> DEFINE end == Len(p) + 2 + b[Len(p) + 1] * Base + b[Len(p) + 2]
<1>6. end = Len(p) + 2 + n
  <2> DEFINE m == x * Base
  <2>1. m \in Nat /\ m + y = n
    BY <1>2, <1>9, KeysAssumption
  <2>2. end = Len(p) + 2 + m + y
    BY <1>5, Zenon
  <2> HIDE DEF m, end, n
  <2> QED BY <2>1, <2>2, <1>1, <1>2
<1>7. FieldAt(b, Len(p)) = [bytes |-> SubSeq(b, Len(p) + 3, end), end |-> end]
  BY DEF FieldAt
<1> HIDE DEF end
<1>8. FieldAt(b, Len(p)).bytes = s /\ FieldAt(b, Len(p)).end = Len(p) + 2 + n
  BY <1>5, <1>6, <1>7
<1> QED
  BY <1>3, <1>4, <1>8 DEF b, s

\* EncodeKey and DecodeKey: what a key says of its tenant and region is what is
\* left of them once they are cut.
LEMMA PlaceRead ==
  ASSUME NEW k \in ClientKey
  PROVE  /\ DecodeKey(EncodeKey(k)).major = Sanitized(k.major)
         /\ DecodeKey(EncodeKey(k)).region = Sanitized(k.region)
<1>1. k.major \in Seq(Nat) /\ k.region \in Seq(Nat) /\ k.minor \in Seq(Nat)
  BY KeysAssumption DEF ClientKey, Byte
<1> DEFINE M == EncodeField(k.major)
           R == EncodeField(k.region)
           N == EncodeField(k.minor)
           T == IF k.ts = NoTime THEN <<>> ELSE MarshalSortable(k.ts)
           b == EncodeKey(k)
<1>2. M \in Seq(Nat) /\ R \in Seq(Nat) /\ N \in Seq(Nat)
  BY <1>1, SanitizedField, Zenon
<1>3. T \in Seq(Nat)
  <2>1. CASE k.ts = NoTime
    BY <2>1
  <2>2. CASE k.ts # NoTime
    <3>1. k.ts \in Nat
      BY <2>2 DEF ClientKey
    <3>2. k.ts \div Base \in Nat /\ (k.ts % Base) \in Nat
      BY <3>1, LengthRead, KeysAssumption
    <3> QED BY <2>2, <3>2 DEF MarshalSortable, Uint16
  <2> QED BY <2>1, <2>2
<1>4. b = ((M \o R) \o N) \o T
  BY DEF EncodeKey, RowKey, EncodeKeyPrefix, MajorKeyField, RegionNameField, MinorKeyField
<1> HIDE DEF M, R, N, T, b
<1>5. /\ ((M \o R) \o N) \o T = <<>> \o (M \o (R \o (N \o T)))
      /\ ((M \o R) \o N) \o T = M \o (R \o (N \o T))
      /\ N \o T \in Seq(Nat) /\ R \o (N \o T) \in Seq(Nat)
      /\ Len(<<>> \o M) = Len(M) /\ Len(<<>>) = 0
  <2> DEFINE NT == N \o T
  <2>1. NT \in Seq(Nat) /\ ((M \o R) \o N) \o T = (M \o R) \o NT
    <3>1. M \o R \in Seq(Nat) /\ NT \in Seq(Nat)
      BY <1>2, <1>3, Joined, Zenon
    <3> DEFINE MR == M \o R
    <3> HIDE DEF MR
    <3>2. Regrouped(MR, N, T)
      BY <1>2, <1>3, <3>1, JoinedTwice, Zenon DEF MR
    <3> QED BY <3>1, <3>2, Zenon DEF MR, Regrouped
  <2> HIDE DEF NT
  <2>2. (M \o R) \o NT = M \o (R \o NT) /\ R \o NT \in Seq(Nat)
    <3>1. Regrouped(M, R, NT) /\ R \o NT \in Seq(Nat)
      BY <1>2, <2>1, Joined, JoinedTwice, Zenon
    <3> QED BY <3>1, Zenon DEF Regrouped
  <2>3. M \o (R \o NT) = <<>> \o (M \o (R \o NT))
    BY <1>2, <2>2, Joined, Zenon
  <2>4. Len(<<>> \o M) = Len(M) /\ Len(<<>>) = 0
    <3>1. <<>> \o M = M
      BY <1>2, Joined, Zenon
    <3> QED BY <3>1
  <2> QED BY <2>1, <2>2, <2>3, <2>4, Zenon DEF NT
<1>6. FieldAt(b, 0).bytes = Sanitized(k.major) /\ FieldAt(b, 0).end = Len(M)
  <2>1. /\ FieldAt(<<>> \o (M \o (R \o (N \o T))), Len(<<>>)).bytes = Sanitized(k.major)
        /\ FieldAt(<<>> \o (M \o (R \o (N \o T))), Len(<<>>)).end = Len(<<>> \o M)
    <3>1. <<>> \in Seq(Nat)
      OBVIOUS
    <3> QED BY <1>1, <1>5, <3>1, FieldRead, Zenon DEF M
  <2> QED BY <1>4, <1>5, <2>1, Zenon
<1>7. FieldAt(b, Len(M)).bytes = Sanitized(k.region)
  <2> DEFINE NT == N \o T
  <2>1. NT \in Seq(Nat) /\ b = M \o (R \o NT)
    BY <1>4, <1>5, Zenon
  <2> HIDE DEF NT
  <2>2. FieldAt(M \o (EncodeField(k.region) \o NT), Len(M)).bytes = Sanitized(k.region)
    BY <1>1, <1>2, <2>1, FieldRead, ZenonT(60)
  <2> QED BY <2>1, <2>2, Zenon DEF R
<1> QED
  BY <1>6, <1>7, Zenon DEF DecodeKey, b

\* Whether a command with physical keys is about the entry e.
Written(c, e) == IF c.op = "batch" THEN \E i \in DOMAIN c.records : c.records[i].key = e ELSE c.key = e

ChangesOwn(store, after, c) ==
  DOMAIN after = Key /\ \A e \in Key : after[e] # store[e] => Written(c, e)

\* Put, Touch, Remove, Increment and SetBatch change no entry but their own.
LEMMA ExecWritesOwn ==
  ASSUME NEW store, DOMAIN store = Key, NEW c, IsWrite(c), NEW v, NEW t
  PROVE  ChangesOwn(store, Exec(store, c, v, t), c)
<1> USE DEF ChangesOwn
<1> DEFINE after == Exec(store, c, v, t)
<1>1. ASSUME c.op \in {"put", "touch", "remove", "increment"}
      PROVE  after = store \/ \E x : after = [store EXCEPT ![c.key] = x]
  <2>1. CASE c.op = "put"
    BY <2>1, Zenon DEF Exec, Put
  <2>2. CASE c.op = "touch"
    BY <2>2, Zenon DEF Exec, Touch
  <2>3. CASE c.op = "remove"
    BY <2>3, Zenon DEF Exec, Remove
  <2>4. CASE c.op = "increment"
    BY <2>4, Zenon DEF Exec, Increment
  <2> QED BY <1>1, <2>1, <2>2, <2>3, <2>4, Zenon
<1>2. ASSUME c.op = "batch"
      PROVE  \/ after = store
             \/ /\ DOMAIN after = Key
                /\ \A e \in Key : after[e] # store[e] => \E i \in DOMAIN c.records : c.records[i].key = e
  <2>1. after = SetBatch(store, c, v, t)
    BY <1>2, Zenon DEF Exec
  <2> QED
    BY <2>1, Zenon DEF SetBatch, IsLastWrite, WritesTo
<1> HIDE DEF after
<1>3. CASE c.op = "batch"
  BY <1>2, <1>3, Zenon DEF Written, after
<1>4. CASE c.op # "batch"
  <2>1. c.op \in {"put", "touch", "remove", "increment"}
    BY <1>4 DEF IsWrite
  <2>2. CASE after = store
    BY <2>2, Zenon DEF after
  <2>3. CASE after # store
    <3>1. PICK x : after = [store EXCEPT ![c.key] = x]
      BY <1>1, <2>1, <2>3, Zenon
    <3>2. DOMAIN after = Key /\ \A e \in Key : after[e] # store[e] => c.key = e
      BY <3>1, Zenon
    <3> QED BY <1>4, <3>2, Zenon DEF Written, after
  <2> QED BY <2>2, <2>3, Zenon
<1> QED
  BY <1>3, <1>4, Zenon

LEMMA PhysicalIsWrite ==
  ASSUME NEW c, WellFormed(c), IsWrite(c)
  PROVE  IsWrite(Physical(c))
<1>1. CASE c.op = "batch"
  BY <1>1 DEF Physical, IsWrite
<1>2. CASE c.op # "batch"
  <2>1. Physical(c) = [c EXCEPT !.key = EncodeKey(c.key)]
    BY <1>2, Zenon DEF Physical
  <2>2. Physical(c).op = c.op
    BY <2>1 DEF WellFormed
  <2> QED BY <2>2, Zenon DEF IsWrite
<1> QED
  BY <1>1, <1>2

\* A handler's command writes the entries of the keys of its call.
LEMMA WritesWhereItSays ==
  ASSUME NEW c, WellFormed(c), IsWrite(c), NEW e, Written(Physical(c), e)
  PROVE  \E k \in ClientKey : e = EncodeKey(k) /\ <<k.major, k.region>> \in Places(c)
<1> DEFINE phys == Physical(c)
<1>1. CASE c.op = "batch"
  <2>1. /\ phys.op = "batch"
        /\ phys.records = [i \in DOMAIN c.records |-> [c.records[i] EXCEPT !.key = EncodeKey(@)]]
    BY <1>1 DEF Physical
  <2> HIDE DEF phys
  <2>2. PICK i \in DOMAIN c.records : phys.records[i].key = e
    BY <2>1, Zenon DEF Written, phys
  <2> DEFINE rec == c.records[i]
  <2>3. phys.records[i] = [rec EXCEPT !.key = EncodeKey(rec.key)]
    BY <2>1, <2>2, Zenon
  <2>4. "key" \in DOMAIN rec /\ rec.key \in ClientKey
    BY <1>1, <2>2, Zenon DEF WellFormed, HasKey
  <2>5. <<rec.key.major, rec.key.region>> \in Places(c)
    BY <1>1, <2>2, Zenon DEF Places
  <2> HIDE DEF rec
  <2>6. e = EncodeKey(rec.key)
    BY <2>2, <2>3, <2>4, Zenon
  <2> QED BY <2>4, <2>5, <2>6, Zenon
<1>2. CASE c.op # "batch"
  <2>1. phys = [c EXCEPT !.key = EncodeKey(c.key)]
    BY <1>2, Zenon DEF Physical
  <2>2. "key" \in DOMAIN c /\ "op" \in DOMAIN c /\ c.key \in ClientKey
    BY <1>2, Zenon DEF WellFormed, HasKey
  <2> HIDE DEF phys
  <2>3. phys.op = c.op /\ phys.key = EncodeKey(c.key)
    BY <2>1, <2>2
  <2>4. e = EncodeKey(c.key)
    BY <1>2, <2>3, Zenon DEF Written, phys
  <2>5. <<c.key.major, c.key.region>> \in Places(c)
    BY <1>2, Zenon DEF Places
  <2> QED BY <2>2, <2>4, <2>5, Zenon
<1> QED
  BY <1>1, <1>2

\* Only a write of a handler changes the store.
LEMMA OnlyWritesChange ==
  ASSUME [GatewayNext]_gvars
  PROVE  UNCHANGED db \/ \E r \in Request : ServeWrite(r)
<1>1. CASE UNCHANGED gvars \/ PolicyStep \/ ClockStep
  BY <1>1 DEF gvars, dvars, PolicyStep, ClockStep, Tick
<1>2. ASSUME NEW r \in Request, Arrive(r) \/ LockStep(r) \/ RebuildStep(r) \/ Judge(r) \/ WriteFails(r)
      PROVE  UNCHANGED db
  BY <1>2, Zenon DEF dvars, Arrive, LockStep, RebuildStep, Judge, WriteFails
<1>3. ASSUME NEW r \in Request, ServeStream(r) \/ NotifyStep(r) \/ RegisterStep(r)
      PROVE  UNCHANGED db
  BY <1>3, Zenon DEF ServeStream, enumerate, watch, NotifyStep, notifyHub, RegisterStep, Register
<1>4. ASSUME NEW r \in Request, GoroutineStep(r) PROVE UNCHANGED db
  BY <1>4, Zenon DEF GoroutineStep, BeginScan, ReadNext, ScanEnds, Abort, CloseStream
<1>5. ASSUME NEW r \in Request, ClientStep(r) PROVE UNCHANGED db
  BY <1>5, Zenon DEF ClientStep, Send, Cancel, Deliver, StopWatch
<1> QED
  BY <1>1, <1>2, <1>3, <1>4, <1>5, Zenon DEF GatewayNext

\* The tenant and the region of every key a call writes fit a length-prefixed
\* field of the entry key; longer ones EncodeKey cuts, after the guard has read
\* them whole.
Fits(c) == IsWrite(c) => \A p \in Places(c) : Len(p[1]) <= MaxKeyLength /\ Len(p[2]) <= MaxKeyLength

WritesFit ==
  \A w \in DOMAIN Workload : \A r \in DOMAIN Workload[w].clients :
    \A c \in Workload[w].clients[r].calls : Fits(Received(c))

\* A request that goes on passed its guard by the records of the revision that
\* it carries with it.
GoesOn(r) == WellFormed(call[r]) /\ Passes(call[r], IamAt(decided[r]))

Guarded ==
  /\ DOMAIN db = Key
  /\ decided = [r \in Request |-> decided[r]]
  /\ \A r \in Request : granted[r] => GoesOn(r)
  /\ \A r \in Request : call[r] # NoCall => Fits(call[r])

\* Inductive together with Inv and Busy.
LEMMA GuardedKept ==
  ASSUME WritesFit, Inv, Busy, Guarded, [GatewayNext]_gvars
  PROVE  Guarded'
<1>1. DOMAIN db' = Key
  <2>1. CASE UNCHANGED db
    BY <2>1 DEF Guarded
  <2>2. ASSUME NEW r \in Request, ServeWrite(r) PROVE DOMAIN db' = Key
    <3>1. WellFormed(call[r]) /\ IsWrite(call[r])
      BY <2>2, Zenon DEF ServeWrite, Guarded, GoesOn
    <3>2. PICK v : db' = Exec(db, Physical(call[r]), v, now)
      BY <2>2, Zenon DEF ServeWrite, Apply
    <3> QED
      BY <3>1, <3>2, PhysicalIsWrite, ExecWritesOwn, Zenon DEF Guarded, ChangesOwn
  <2> QED BY <2>1, <2>2, OnlyWritesChange, Zenon
<1> DEFINE Rest == /\ decided' = [r \in Request |-> decided'[r]]
                   /\ \A r \in Request : granted'[r] => GoesOn(r)'
                   /\ \A r \in Request : call'[r] # NoCall => Fits(call'[r])
<1>2. ASSUME UNCHANGED callVars PROVE Rest
  <2>1. UNCHANGED <<workload, call, granted, decided>>
    BY <1>2 DEF callVars
  <2> QED BY <2>1, Zenon DEF Guarded, GoesOn, IamAt
<1>3. ASSUME NEW r \in Request, Arrive(r) PROVE Rest
  <2>1. PICK c \in Clients[r].calls : call' = [call EXCEPT ![r] = Received(c)]
    BY <1>3, Zenon DEF Arrive
  <2>2. Fits(Received(c))
    BY <1>3, <2>1, Zenon DEF Arrive, Busy, Clients, WritesFit
  <2>3. call[r] = NoCall /\ UNCHANGED <<workload, granted, decided>>
    BY <1>3, Zenon DEF Arrive
  <2>4. ~granted[r]
    BY <2>3, Zenon DEF Busy
  <2>5. call'[r] = Received(c) /\ \A q \in Request : q # r => call'[q] = call[q]
    BY <2>1, Zenon DEF Busy
  <2> QED BY <2>2, <2>3, <2>4, <2>5, Zenon DEF Guarded, GoesOn, IamAt
<1>4. ASSUME NEW r \in Request, Judge(r) PROVE Rest
  <2> DEFINE goesOn == Passes(call[r], IamAt(snap)) /\ ~IsRead(call[r])
  <2>1. /\ pc[r] = "decide" /\ UNCHANGED workload
        /\ granted' = [granted EXCEPT ![r] = goesOn]
        /\ decided' = [decided EXCEPT ![r] = IF goesOn THEN snap ELSE 0]
        /\ call' = [call EXCEPT ![r] = IF goesOn THEN call[r] ELSE NoCall]
    BY <1>4, Zenon DEF Judge, Decide
  <2>2. WellFormed(call[r])
    BY <2>1 DEF Busy
  <2>3. \A q \in Request : q # r =>
          call'[q] = call[q] /\ granted'[q] = granted[q] /\ decided'[q] = decided[q]
    BY <2>1, Zenon DEF Busy, Guarded
  <2>4. /\ granted'[r] <=> goesOn
        /\ goesOn => decided'[r] = snap /\ call'[r] = call[r]
        /\ ~goesOn => call'[r] = NoCall
    <3> HIDE DEF goesOn
    <3> QED BY <2>1, Zenon DEF Busy, Guarded
  <2>5. decided' = [q \in Request |-> decided'[q]]
    BY <2>1, Zenon DEF Guarded
  <2>6. granted'[r] => GoesOn(r)'
    BY <2>1, <2>2, <2>4, Zenon DEF GoesOn, IamAt
  <2>7. call'[r] # NoCall => Fits(call'[r])
    BY <2>4, Zenon DEF Guarded
  <2>8. \A q \in Request : q # r => (granted'[q] => GoesOn(q)')
    BY <2>1, <2>3, Zenon DEF Guarded, GoesOn, IamAt
  <2>9. \A q \in Request : q # r => (call'[q] # NoCall => Fits(call'[q]))
    BY <2>3, Zenon DEF Guarded
  <2> QED BY <2>5, <2>6, <2>7, <2>8, <2>9, Zenon
<1>5. ASSUME NEW r \in Request, ServeWrite(r) \/ WriteFails(r) \/ ServeStream(r) PROVE Rest
  <2>1. Leave(r)
    BY <1>5, Zenon DEF ServeWrite, WriteFails, ServeStream
  <2>2. /\ call' = [call EXCEPT ![r] = NoCall] /\ granted' = [granted EXCEPT ![r] = FALSE]
        /\ decided' = [decided EXCEPT ![r] = 0] /\ UNCHANGED workload
    BY <2>1, Zenon DEF Leave
  <2>3. \A q \in Request : q # r =>
          call'[q] = call[q] /\ granted'[q] = granted[q] /\ decided'[q] = decided[q]
    BY <2>2, Zenon DEF Busy, Guarded
  <2>4. call'[r] = NoCall /\ ~granted'[r] /\ decided' = [q \in Request |-> decided'[q]]
    BY <2>2, Zenon DEF Busy, Guarded
  <2> QED BY <2>2, <2>3, <2>4, Zenon DEF Guarded, GoesOn, IamAt
<1>6. Rest
  <2>1. CASE PolicyStep \/ ClockStep \/ UNCHANGED gvars
    BY <1>2, <2>1 DEF PolicyStep, ClockStep, gvars, callVars
  <2>2. ASSUME NEW r \in Request,
               \/ LockStep(r) \/ RebuildStep(r) \/ NotifyStep(r)
               \/ GoroutineStep(r) \/ ClientStep(r) \/ RegisterStep(r)
        PROVE  Rest
    BY <1>2, <2>2, Zenon DEF LockStep, RebuildStep, NotifyStep, GoroutineStep, ClientStep, RegisterStep
  <2> HIDE DEF Rest
  <2> QED BY <1>3, <1>4, <1>5, <2>1, <2>2, Zenon DEF GatewayNext
<1> QED
  BY <1>1, <1>6, Zenon DEF Guarded

\* guardKey, guardedBatch and EncodeKey, where no tenant or region of a written
\* key is longer than its length field can say: whatever a request changes lies
\* where the policy it was decided by lets its caller make this kind of change.
THEOREM WritesGrantedHolds ==
  ASSUME WritesFit
  PROVE  GatewaySpec => WritesGranted
<1> DEFINE Allowed(e) ==
             \E r \in Request :
               /\ granted[r] /\ IsWrite(call[r])
               /\ Granted(IamAt(decided[r]), call[r].who, PermissionOf(call[r].op),
                          DecodeKey(e).major, DecodeKey(e).region)
           Step == \A e \in Key : db'[e] # db[e] => Allowed(e)
<1>1. GatewayInit => Busy /\ Guarded
  <2> SUFFICES ASSUME GatewayInit PROVE Busy /\ Guarded
    OBVIOUS
  <2>1. Busy
    BY SMTT(60) DEF GatewayInit, Init, Busy
  <2>2. DOMAIN db = Key
    BY WorkloadAssumption, Zenon DEF GatewayInit, DataInit, Store
  <2> QED BY <2>1, <2>2, Zenon DEF GatewayInit, Guarded
<1>2. Busy /\ Guarded /\ [GatewayNext]_gvars => [Step]_gvars
  <2> SUFFICES ASSUME Busy, Guarded, [GatewayNext]_gvars, NEW e \in Key, db'[e] # db[e]
               PROVE  Allowed(e)
    OBVIOUS
  <2>1. PICK r \in Request : ServeWrite(r)
    BY OnlyWritesChange
  <2> DEFINE c == call[r]
  <2>2. granted[r] /\ IsWrite(c) /\ WellFormed(c) /\ Passes(c, IamAt(decided[r]))
    BY <2>1, Zenon DEF ServeWrite, Guarded, GoesOn
  <2>3. PICK v : db' = Exec(db, Physical(c), v, now)
    BY <2>1, Zenon DEF ServeWrite, Apply
  <2>4. Fits(c)
    BY <2>2, Zenon DEF Guarded, WellFormed
  <2> HIDE DEF c
  <2>5. Written(Physical(c), e)
    <3> DEFINE phys == Physical(c)
    <3>1. IsWrite(phys) /\ DOMAIN db = Key
      BY <2>2, PhysicalIsWrite, Zenon DEF Guarded
    <3> HIDE DEF phys
    <3>2. ChangesOwn(db, Exec(db, phys, v, now), phys)
      BY <3>1, ExecWritesOwn, Zenon
    <3> QED BY <2>3, <3>2, Zenon DEF phys, ChangesOwn
  <2>6. PICK k \in ClientKey : e = EncodeKey(k) /\ <<k.major, k.region>> \in Places(c)
    BY <2>2, <2>5, WritesWhereItSays, Zenon
  <2> DEFINE p == <<k.major, k.region>>
  <2>7. p[1] = k.major /\ p[2] = k.region
    OBVIOUS
  <2>8. p \in Where(c)
    BY <2>6, Zenon DEF Where
  <2>9. Granted(IamAt(decided[r]), c.who, PermissionOf(c.op), p[1], p[2])
    <3>1. \A q \in Where(c) : Granted(IamAt(decided[r]), c.who, PermissionOf(c.op), q[1], q[2])
      BY <2>2, PassesWhatIsGranted, Zenon
    <3> QED BY <2>8, <3>1, Zenon
  <2>10. Len(p[1]) <= MaxKeyLength /\ Len(p[2]) <= MaxKeyLength
    BY <2>2, <2>4, <2>6, Zenon DEF Fits
  <2> HIDE DEF p
  <2>11. k.major \in Seq(Nat) /\ k.region \in Seq(Nat)
    BY KeysAssumption DEF ClientKey, Byte
  <2>12. Sanitized(k.major) = k.major /\ Sanitized(k.region) = k.region
    BY <2>7, <2>10, <2>11, SanitizedField, Zenon
  <2>13. DecodeKey(e).major = p[1] /\ DecodeKey(e).region = p[2]
    BY <2>6, <2>7, <2>12, PlaceRead, Zenon
  <2> QED BY <2>2, <2>9, <2>13, ZenonT(60) DEF c
<1>3. GatewaySpec => [](Inv /\ Busy /\ Guarded)
  <2>1. Inv /\ Busy /\ Guarded /\ [GatewayNext]_gvars => Busy' /\ Guarded'
    BY BusyKept, GuardedKept
  <2> QED BY <1>1, <2>1, PolicyBehindGateway, PTL DEF GatewaySpec
<1> QED
  BY <1>2, <1>3, PTL DEF GatewaySpec, WritesGranted

=============================================================================
