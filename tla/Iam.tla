-------------------------------- MODULE Iam ---------------------------------
(***************************************************************************)
(* The console's identity handlers (pkg/console iam.go, pat.go, pki.go,     *)
(* setup.go) over the records of the system tenant.  Every handler is a     *)
(* sequence of KeyValueService calls without a lock around them.            *)
(*                                                                         *)
(* A name stands for a user or a service account; bound is the membership   *)
(* of the policy record, group that of the group record.  A token is known  *)
(* by the request that minted it, a certificate by its name's canonical     *)
(* URI.  Passwords, labels and listings are left out.                       *)
(***************************************************************************)
EXTENDS Registry, FiniteSets

CONSTANTS
  Name,
  ServiceAccount,  \* the names that are service accounts
  Request,         \* console requests in progress at a time
  Workloads        \* what one behaviour is bounded to: the kinds of request, the
                   \* names they are about, the nodes that lead, whether the cluster
                   \* is older than the genesis record, committed writes, elections

ASSUME IamAssumption ==
  /\ None \notin Node /\ ServiceAccount \subseteq Name
  /\ \A w \in Workloads :
       /\ w.names \subseteq Name /\ w.nodes \subseteq Node
       /\ w.preMarker \in BOOLEAN /\ w.maxWrite \in Nat /\ w.maxTerm \in Nat

VARIABLES
  req,       \* the requests
  terms,     \* changes of the leader
  workload,  \* which of the Workloads this behaviour is about
  known,     \* auxiliary: some caller of the leader was told that setup is complete
  lost,      \* auxiliary: a write of the genesis record failed on the leader
  granted    \* auxiliary: grants acknowledged, overlapped by no other request and
             \* not revoked since

vars == <<registryVars, req, terms, workload, known, lost, granted>>

NoRecords ==
  [user |-> {}, genesis |-> FALSE, bound |-> {}, group |-> {}, token |-> {},
   cert |-> {}]

Free == [op |-> "none", pc |-> "free", on |-> None, name |-> None,
         copy |-> NoRecords, alone |-> FALSE, knew |-> FALSE,
         local |-> FALSE, misread |-> FALSE]

\* A fresh database; or one with users and without the marker.
Init ==
  /\ workload \in Workloads
  /\ RegistryInit(IF workload.preMarker
                  THEN [NoRecords EXCEPT !.user = Name \ ServiceAccount,
                                         !.bound = Name \ ServiceAccount]
                  ELSE NoRecords)
  /\ req = [r \in Request |-> Free]
  /\ terms = 0
  /\ known = FALSE
  /\ lost = FALSE
  /\ granted = {}

-----------------------------------------------------------------------------
(***************************************************************************)
(* Calls of KeyValueService by request r.                                  *)
(***************************************************************************)
At(r, op, pc) == req[r].op = op /\ req[r].pc = pc

View(r) == Local(req[r].on)

\* Go on at pc.
Step(r, pc) == req' = [req EXCEPT ![r].pc = pc]

Done(r) == req' = [req EXCEPT ![r] = Free]

\* The bound on committed writes; the history starts with one entry.
MayWrite == Len(history) <= workload.maxWrite

\* A Put or Remove through the replicator; it fails on a node that has lost the
\* leadership.
Writes(r, records, pc) ==
  /\ leader = req[r].on
  /\ MayWrite
  /\ Commits(req[r].on, records)
  /\ Step(r, pc)

Quiet == UNCHANGED <<terms, known, lost, granted>>

\* Create-if-absent: at pc if it was created, an error to the caller if not.
Creates(r, absent, records, pc) ==
  IF absent
  THEN Writes(r, records, pc)
  ELSE /\ leader = req[r].on
       /\ Refused(req[r].on)
       /\ Done(r)

\* A request arrives at the console of node m; personal tokens and the first
\* administrator are for users only.  forwardedToLeader: a follower answers for setup
\* itself if it knows no leader, cannot reach it, or is told that it was forwarded to.
Begin(r, op, n, m) ==
  /\ req[r] = Free
  /\ m = leader \/ op \in {"bootstrap", "status"}
  /\ op \in {"mint", "bootstrap"} => n \notin ServiceAccount
  /\ req' = [s \in Request |->
       IF s = r
       THEN [Free EXCEPT !.op = op, !.pc = "start", !.on = m, !.name = n,
                         !.alone = \A q \in Request \ {r} : req[q] = Free,
                         !.knew = known, !.local = m # leader]
       ELSE [req[s] EXCEPT !.alone = FALSE]]
  /\ granted' = IF op \in {"revoke", "delete"} THEN granted \ {n} ELSE granted
  /\ UNCHANGED <<registryVars, terms, known, lost>>

\* The next call fails, as a write does on a node that does not lead, and ends the
\* handler with an error.  Not so the two reads of setup and the write of the marker.
CallFails(r) ==
  /\ req[r] # Free
  /\ req[r].pc \notin {"users", "marker", "needsSetup", "ok"}
  /\ ~(req[r].op \in {"bootstrap", "status"} /\ req[r].pc = "start")
  /\ Done(r)
  /\ Quiet /\ UNCHANGED registryVars

-----------------------------------------------------------------------------
(***************************************************************************)
(* Creating identities.                                                    *)
(***************************************************************************)
\* The index record of a new token.
TokenEntry(r) == <<req[r].name, r>>

\* iamCreateUser, iamCreateServiceAccount.
Create(r) ==
  /\ At(r, "create", "start")
  /\ Creates(r, req[r].name \notin Committed.user,
             [Committed EXCEPT !.user = @ \cup {req[r].name}],
             IF req[r].name \in ServiceAccount THEN "token" ELSE "ok")
  /\ Quiet

\* writeTokenIndex, for the service account just created.
WriteTokenIndex(r) ==
  /\ At(r, "create", "token")
  /\ Writes(r, [Committed EXCEPT !.token = @ \cup {TokenEntry(r)}], "ok")
  /\ Quiet

\* iamCreateUserToken; principalExists, then Put.
CreateToken(r) ==
  /\ At(r, "mint", "start")
  /\ IF req[r].name \in View(r).user THEN Step(r, "put") ELSE Done(r)
  /\ Quiet /\ UNCHANGED registryVars

PutToken(r) ==
  /\ At(r, "mint", "put")
  /\ Writes(r, [Committed EXCEPT !.token = @ \cup {TokenEntry(r)}], "ok")
  /\ Quiet

\* iamIssueCert, iamRegisterCert; principalExists, then putCertIndex.
IssueCert(r) ==
  /\ At(r, "issue", "start")
  /\ IF req[r].name \in View(r).user THEN Step(r, "put") ELSE Done(r)
  /\ Quiet /\ UNCHANGED registryVars

PutCertIndex(r) ==
  /\ At(r, "issue", "put")
  /\ Writes(r, [Committed EXCEPT !.cert = @ \cup {req[r].name}], "ok")
  /\ Quiet

\* iamRevokeUserToken, iamRevokeCert.
RevokeCredentials(r) ==
  /\ At(r, "revokeCredential", "start")
  /\ \/ \E t \in View(r).token :
          /\ t[1] = req[r].name
          /\ Writes(r, [Committed EXCEPT !.token = @ \ {t}], "ok")
     \/ Writes(r, [Committed EXCEPT !.cert = @ \ {req[r].name}], "ok")
  /\ Quiet

-----------------------------------------------------------------------------
(***************************************************************************)
(* Bindings and groups.                                                    *)
(***************************************************************************)
\* grantRole and applyBinding: read the policy record, merge or remove the
\* member, put the whole record back.
ReadBindings(r) ==
  /\ req[r].op \in {"grant", "revoke"}
  /\ req[r].pc = "start"
  /\ req' = [req EXCEPT ![r].pc = "put", ![r].copy = View(r)]
  /\ Quiet /\ UNCHANGED registryVars

ApplyBindingReplaces(bound, n, grant) ==
  IF grant THEN {n} ELSE bound \ {n}

ApplyBinding(bound, n, grant) ==
  IF grant THEN bound \cup {n} ELSE bound \ {n}

PutBindings(r) ==
  /\ req[r].op \in {"grant", "revoke"}
  /\ req[r].pc = "put"
  /\ Writes(r, [Committed EXCEPT !.bound =
                  ApplyBinding(req[r].copy.bound, req[r].name,
                               req[r].op = "grant")], "ok")
  /\ Quiet

\* iamSetGroup replaces the membership, iamDeleteGroup drops the record.
SetGroup(r) ==
  /\ At(r, "group", "start")
  /\ \E members \in SUBSET Name :
       Writes(r, [Committed EXCEPT !.group = members], "ok")
  /\ Quiet

-----------------------------------------------------------------------------
(***************************************************************************)
(* iamDeleteUser, iamDeleteServiceAccount: remove the identity, then        *)
(* purgePrincipal works off one scan, record by record.                     *)
(***************************************************************************)
RemoveIdentity(r) ==
  /\ At(r, "delete", "start")
  /\ Writes(r, [Committed EXCEPT !.user = @ \ {req[r].name}], "scan")
  /\ Quiet

ScanForPurge(r) ==
  /\ At(r, "delete", "scan")
  /\ req' = [req EXCEPT ![r].pc = "tokens", ![r].copy = View(r)]
  /\ Quiet /\ UNCHANGED registryVars

\* A later stage of the purge: written only if the scan found something.
Purges(r, pc, found, records, next) ==
  /\ At(r, "delete", pc)
  /\ IF found THEN Writes(r, records, next)
     ELSE Step(r, next) /\ UNCHANGED registryVars
  /\ Quiet

TokensOf(n, token) == {t \in token : t[1] = n}

\* One token at a time.
PurgeTokens(r) ==
  LET found == TokensOf(req[r].name, req[r].copy.token)
  IN /\ At(r, "delete", "tokens")
     /\ IF found = {}
        THEN Step(r, "certs") /\ UNCHANGED registryVars
        ELSE \E t \in found :
               /\ leader = req[r].on
               /\ MayWrite
               /\ Commits(req[r].on, [Committed EXCEPT !.token = @ \ {t}])
               /\ req' = [req EXCEPT ![r].copy.token = @ \ {t}]
     /\ Quiet

PurgeCerts(r) ==
  Purges(r, "certs", req[r].name \in req[r].copy.cert,
         [Committed EXCEPT !.cert = @ \ {req[r].name}], "group")

\* Groups and policies are put back from the scanned copies.
SkipGroup(r) ==
  Purges(r, "group", FALSE, Committed, "bindings")

PurgeGroup(r) ==
  Purges(r, "group", req[r].name \in req[r].copy.group,
         [Committed EXCEPT !.group = req[r].copy.group \ {req[r].name}], "bindings")

PurgeBindings(r) ==
  Purges(r, "bindings", req[r].name \in req[r].copy.bound,
         [Committed EXCEPT !.bound = req[r].copy.bound \ {req[r].name}], "ok")

-----------------------------------------------------------------------------
(***************************************************************************)
(* First-run setup.                                                        *)
(***************************************************************************)
\* anyUserExists: service accounts do not count.
AnyUser(records) == records.user \ ServiceAccount # {}

\* clusterInitialized, of setupStatus and setupBootstrap: a read that fails counts as a
\* record that is not there.
ClusterInitialized(r) ==
  /\ req[r].op \in {"bootstrap", "status"}
  /\ req[r].pc = "start"
  /\ \E seen \in {FALSE, View(r).genesis} :
       req' = [req EXCEPT ![r].pc = "users", ![r].copy.genesis = seen,
                          ![r].misread = seen # View(r).genesis]
  /\ Quiet /\ UNCHANGED registryVars

StatusWithoutAdoption(initialized, users) ==
  IF initialized \/ users THEN "ok" ELSE "needsSetup"

\* The marker is for a cluster that has only users; the answer is "ok" for initialized.
StatusAfterReads(initialized, users) ==
  CASE users /\ ~initialized -> "marker"
    [] initialized -> "ok"
    [] OTHER -> "needsSetup"

\* setupBootstrap refuses, or goes on to create-if-absent, grantRole and
\* putGenesisRecord; the CA it then makes sure of is in Enrollment.
AnyUserExists(r) ==
  /\ req[r].pc = "users"
  /\ \E seen \in {FALSE, AnyUser(View(r))} :
       LET pc == IF req[r].op = "status"
                 THEN StatusAfterReads(req[r].copy.genesis, seen) ELSE "create"
           misread == req[r].misread \/ seen # AnyUser(View(r))
       IN IF req[r].op = "bootstrap" /\ (req[r].copy.genesis \/ seen)
          THEN Done(r)
          ELSE req' = [req EXCEPT ![r].pc = pc, ![r].misread = misread]
  /\ Quiet /\ UNCHANGED registryVars

CreateAdmin(r) ==
  /\ At(r, "bootstrap", "create")
  /\ Creates(r, req[r].name \notin Committed.user,
             [Committed EXCEPT !.user = @ \cup {req[r].name}], "read")
  /\ Quiet

ReadAdmins(r) ==
  /\ At(r, "bootstrap", "read")
  /\ req' = [req EXCEPT ![r].pc = "bind", ![r].copy = View(r)]
  /\ Quiet /\ UNCHANGED registryVars

BindAdmin(r) ==
  /\ At(r, "bootstrap", "bind")
  /\ Writes(r, [Committed EXCEPT !.bound =
                  ApplyBinding(req[r].copy.bound, req[r].name, TRUE)], "marker")
  /\ Quiet

\* putGenesisRecord: create-if-absent; losing is fine, and so is an error.
PutGenesisRecord(r) ==
  LET due == leader = req[r].on /\ ~Committed.genesis
  IN /\ req[r].pc = "marker"
     /\ \/ /\ due
           /\ Writes(r, [Committed EXCEPT !.genesis = TRUE], "ok")
           /\ UNCHANGED lost
        \/ /\ Step(r, "ok")
           /\ UNCHANGED registryVars
           /\ lost' = (lost \/ due)
     /\ UNCHANGED <<terms, known, granted>>

-----------------------------------------------------------------------------
\* The answer goes out.
Answer(r) ==
  /\ req[r].pc \in {"ok", "needsSetup"}
  /\ Done(r)
  /\ known' = \/ known
              \/ /\ req[r].op \in {"bootstrap", "status"}
                 /\ req[r].pc = "ok" /\ ~req[r].local
  /\ granted' = IF req[r].op = "grant" /\ req[r].alone
                THEN granted \cup {req[r].name} ELSE granted
  /\ UNCHANGED <<registryVars, terms, lost>>

Elect(n) ==
  /\ n # leader
  /\ terms < workload.maxTerm
  /\ terms' = terms + 1
  /\ leader' = n
  /\ UNCHANGED <<history, applied, req, known, lost, granted>>

Replicate(n) ==
  /\ CatchUp(n)
  /\ UNCHANGED <<req, terms, known, lost, granted>>

Handler(r) ==
  \/ Create(r)
  \/ WriteTokenIndex(r)
  \/ CreateToken(r)
  \/ PutToken(r)
  \/ IssueCert(r)
  \/ PutCertIndex(r)
  \/ RevokeCredentials(r)
  \/ ReadBindings(r)
  \/ PutBindings(r)
  \/ SetGroup(r)
  \/ RemoveIdentity(r)
  \/ ScanForPurge(r)
  \/ PurgeTokens(r)
  \/ PurgeCerts(r)
  \/ PurgeGroup(r)
  \/ PurgeBindings(r)
  \/ ClusterInitialized(r)
  \/ AnyUserExists(r)
  \/ CreateAdmin(r)
  \/ ReadAdmins(r)
  \/ BindAdmin(r)
  \/ PutGenesisRecord(r)

Next ==
  /\ UNCHANGED workload
  /\ \/ \E n \in workload.nodes : Elect(n) \/ Replicate(n)
     \/ \E r \in Request : Handler(r) \/ Answer(r) \/ CallFails(r)
     \/ \E r \in Request, op \in workload.ops, n \in workload.names, m \in workload.nodes :
          Begin(r, op, n, m)

Spec == Init /\ [][Next]_vars

-----------------------------------------------------------------------------
(***************************************************************************)
(* Properties.                                                             *)
(***************************************************************************)
\* Everything that would keep the identity alive.
Residue(n) ==
  \/ TokensOf(n, Committed.token) # {}
  \/ n \in Committed.cert \cup Committed.group \cup Committed.bound

\* purgePrincipal: a deletion that no other request overlapped leaves no token,
\* certificate, membership or binding, whatever calls led up to it.
PurgeComplete ==
  \A r \in Request : At(r, "delete", "ok") /\ req[r].alone => ~Residue(req[r].name)

\* setupStatus and setupBootstrap: once the leader told somebody that setup is
\* complete, no later request makes an administrator, on whatever node it runs, and the
\* leader finds setup open for none, also not on a cluster older than the marker whose
\* users were all deleted since.  It is so while the leader stays, for a request whose
\* own reads succeed, and unless a write of the marker failed, which nobody is told.
SetupStaysClosed ==
  \A r \in Request : terms <= 1 /\ ~lost /\ req[r].knew /\ ~req[r].misread =>
    /\ ~(req[r].op = "bootstrap" /\ req[r].pc \in {"read", "bind"})
    /\ ~req[r].local => req[r].pc \notin {"create", "needsSetup"}

\* grantRole adds or removes one member of the policy record, which every grant,
\* revocation and purge puts back whole: what was granted while no other request
\* was under way stays granted, until it is revoked or its owner deleted, however
\* the later read-modify-writes overlap, as long as the leader stays.
GrantsKept == terms <= 1 => granted \subseteq Committed.bound
=============================================================================
