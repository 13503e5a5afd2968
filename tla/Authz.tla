------------------------------- MODULE Authz -------------------------------
(***************************************************************************)
(* How a request is authorized: the snapshot that PolicyService.rebuild     *)
(* compiles from the IAM records, iam.Snapshot.Authorize, and the guards of *)
(* the data plane (authz_guard.go).                                         *)
(*                                                                         *)
(* IAM records are [users, groups, roles, policies]: users maps a name to   *)
(* [admin, disabled], groups to members, roles to permissions, policies a   *)
(* scope (<<>>, <<tenant>> or <<tenant, region>>) to a set of bindings      *)
(* [role, members].                                                         *)
(***************************************************************************)
EXTENDS Naturals, Sequences

CONSTANTS
  SystemTenant,  \* whose records are guarded by the iam permissions
  Anonymous      \* the empty principal, a connection without credentials

\* The empty tenant or region name.
Nowhere == <<>>

DataPermissions == {"get", "put", "delete", "increment", "batch", "enumerate", "watch"}
Permissions == DataPermissions \cup {"iam.get", "iam.set", "backups.create",
                                     "backups.restore", "proofs.read", "cluster.admin"}

PredefinedRoles ==
  LET viewer == {"get", "enumerate", "watch"} IN
  [role \in {"viewer", "editor", "auditor", "admin"} |->
     CASE role = "viewer" -> viewer
       [] role = "editor" -> viewer \cup {"put", "delete", "increment", "batch"}
       [] role = "auditor" -> viewer \cup {"proofs.read"}
       [] OTHER -> Permissions]

EffectivePermission(permission, tenant) ==
  IF tenant # SystemTenant THEN permission
  ELSE IF permission \in {"get", "enumerate", "watch"} THEN "iam.get" ELSE "iam.set"

\* rebuild: stored roles never replace predefined ones.
StoredRolesWin(records) ==
  [role \in DOMAIN records.roles \cup DOMAIN PredefinedRoles |->
     IF role \in DOMAIN records.roles THEN records.roles[role] ELSE PredefinedRoles[role]]

CompileRoles(records) ==
  [role \in DOMAIN records.roles \cup DOMAIN PredefinedRoles |->
     IF role \in DOMAIN PredefinedRoles THEN PredefinedRoles[role] ELSE records.roles[role]]

rebuild(records) ==
  [admins |-> {u \in DOMAIN records.users : records.users[u].admin},
   disabled |-> {u \in DOMAIN records.users : records.users[u].disabled},
   memberGroups |-> UNION {records.groups[g] \X {g} : g \in DOMAIN records.groups},
   roles |-> CompileRoles(records),
   policies |-> records.policies]

\* The scopes whose bindings apply to an operation.
Scopes(tenant, region) ==
  (IF tenant # Nowhere /\ region # Nowhere THEN {<<tenant, region>>} ELSE {})
  \cup (IF tenant # Nowhere THEN {<<tenant>>} ELSE {})
  \cup {<<>>}

SnapshotAuthorize(s, principal, permission, tenant, region) ==
  /\ principal # Anonymous /\ principal \notin s.disabled
  /\ \/ principal \in s.admins
     \/ LET members == {principal} \cup {p[2] : p \in {q \in s.memberGroups : q[1] = principal}} IN
        \E scope \in Scopes(tenant, region) \cap DOMAIN s.policies :
          \E b \in s.policies[scope] :
            /\ b.members \cap members # {}
            /\ b.role \in DOMAIN s.roles /\ permission \in s.roles[b.role]

\* What PolicyService.Authorize decides by the snapshot compiled from records.
Allows(records, principal, permission, tenant, region) ==
  SnapshotAuthorize(rebuild(records), principal,
                    EffectivePermission(permission, tenant), tenant, region)

-----------------------------------------------------------------------------
(***************************************************************************)
(* What the records grant, said without a snapshot: a binding speaks for    *)
(* its members and the members of its groups, at its scope and below.       *)
(***************************************************************************)
SpeaksFor(records, b, principal) ==
  \/ principal \in b.members
  \/ \E g \in DOMAIN records.groups : g \in b.members /\ principal \in records.groups[g]

Covers(scope, tenant, region) ==
  \/ scope = <<>>
  \/ tenant # Nowhere /\ scope = <<tenant>>
  \/ tenant # Nowhere /\ region # Nowhere /\ scope = <<tenant, region>>

RoleHolds(records, role, permission) ==
  IF role \in DOMAIN PredefinedRoles THEN permission \in PredefinedRoles[role]
  ELSE role \in DOMAIN records.roles /\ permission \in records.roles[role]

Granted(records, principal, permission, tenant, region) ==
  LET needed == IF tenant = SystemTenant
                THEN IF permission \in PredefinedRoles["viewer"] THEN "iam.get" ELSE "iam.set"
                ELSE permission
      isUser == principal \in DOMAIN records.users
  IN /\ principal # Anonymous
     /\ ~(isUser /\ records.users[principal].disabled)
     /\ \/ isUser /\ records.users[principal].admin
        \/ \E scope \in DOMAIN records.policies : \E b \in records.policies[scope] :
             /\ Covers(scope, tenant, region)
             /\ SpeaksFor(records, b, principal)
             /\ RoleHolds(records, b.role, needed)
=============================================================================
