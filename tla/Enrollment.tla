----------------------------- MODULE Enrollment -----------------------------
(***************************************************************************)
(* How a cluster forms: node identities on disk (pkg/replication            *)
(* nodetls.go, nodeidentity.go), the first voter (host.go), the one CA and  *)
(* the join tokens (pkg/console pki.go), and the enroll endpoint            *)
(* (pkg/console nodes.go).                                                  *)
(*                                                                         *)
(* Key pairs are numbers, and a CA goes by the number of its key pair; a    *)
(* certificate is the pair of the key it certifies and the root that signed *)
(* it.  A number that is nowhere in use any more is generated again.        *)
(* Certificates do not expire here, and CSRs are well formed.               *)
(***************************************************************************)
EXTENDS Registry, FiniteSets

CONSTANTS
  Seed,         \* the node with raft.bootstrap=true
  Token,        \* join tokens an operator may mint
  Shared,       \* the pre-shared bootstrap token
  TokensOf,     \* the tokens a node may be started with, Seed excepted
  Request,      \* console requests in progress at a time
  Modes,        \* values of clustered to consider
  Fragile,      \* nodes that may crash
  MaxKey,       \* key pairs, in use or not
  MaxFault      \* bound on crashes, client timeouts and failing calls

ASSUME EnrollmentAssumption ==
  /\ Seed \in Node
  /\ Shared \notin Token
  /\ TokensOf \in [Node \ {Seed} -> SUBSET (Token \cup {Shared})]
  /\ Modes \subseteq BOOLEAN
  /\ Fragile \subseteq Node
  /\ MaxKey \in Nat /\ MaxFault \in Nat

VARIABLES
  clustered, \* cluster mode; otherwise Seed alone, without raft and mTLS
  state,    \* per node: down, waiting (for its enrollment), saving, up
  identity, \* per node: the identity being saved
  step,     \* per node: how many of its files are written
  disk,     \* per node: <data-dir>/pki
  voters,   \* the raft configuration
  req,      \* console requests
  issued,   \* join tokens handed to operators
  signed,   \* per token: node certificates signed for it
  expired,  \* join tokens whose time is over
  unread,   \* whether a lookup of consumeJoinToken has failed
  faults

nodeVars == <<state, identity, step, disk>>
vars == <<registryVars, clustered, nodeVars, voters, req, issued, signed, expired,
          unread, faults>>

AllToken == Token \cup {Shared}
NoCert == [key |-> 0, root |-> 0]
NoFiles == [key |-> 0, cert |-> NoCert, ca |-> 0, caKey |-> 0]
Free == [pc |-> "free", on |-> None, node |-> None, live |-> FALSE, token |-> None,
         key |-> 0, version |-> 0, root |-> 0, then |-> "free"]

Absent == [state |-> "absent", version |-> 0]
NoRecords == [ca |-> 0, join |-> [t \in AllToken |-> Absent]]

KeysInUse ==
  UNION {{disk[n].key, disk[n].cert.key, disk[n].cert.root, disk[n].ca,
          disk[n].caKey, identity[n].key, identity[n].root} : n \in Node}
  \cup UNION {{req[r].key, req[r].root} : r \in Request}
  \cup {history[i].ca : i \in 1 .. Len(history)}

NewKey == CHOOSE k \in 1 .. MaxKey : k \notin KeysInUse

\* Bound: nobody generates a key pair unless a number is left for it.
KeyLeft == \E k \in 1 .. MaxKey : k \notin KeysInUse

Init ==
  /\ RegistryInit(NoRecords)
  /\ clustered \in Modes
  /\ state = [n \in Node |-> "down"]
  /\ identity = [n \in Node |-> NoCert]
  /\ step = [n \in Node |-> 0]
  /\ disk = [n \in Node |-> NoFiles]
  /\ voters = {}
  /\ req = [r \in Request |-> Free]
  /\ issued = {}
  /\ signed = [t \in AllToken |-> 0]
  /\ expired = {}
  /\ unread = FALSE
  /\ faults = 0

-----------------------------------------------------------------------------
(***************************************************************************)
(* The node: NodeTLSFactory.provision and RaftHost.                        *)
(***************************************************************************)
LoadWithoutCa(n) ==
  /\ disk[n].key # 0
  /\ disk[n].cert # NoCert

LoadNodeIdentity(n) ==
  /\ disk[n].key # 0
  /\ disk[n].cert # NoCert
  /\ disk[n].ca # 0

\* Restart with an identity on disk, or without cluster mode.
Load(n) ==
  /\ state[n] = "down"
  /\ IF clustered THEN LoadNodeIdentity(n) ELSE n = Seed
  /\ state' = [state EXCEPT ![n] = "up"]
  /\ UNCHANGED <<registryVars, identity, step, disk, voters, req, issued, signed,
                 expired, faults>>

\* GenesisIdentity: a CA and a certificate of its own, both new.
Genesis ==
  /\ state[Seed] = "down"
  /\ clustered /\ ~LoadNodeIdentity(Seed)
  /\ KeyLeft
  /\ identity' = [identity EXCEPT ![Seed] = [key |-> NewKey, root |-> NewKey]]
  /\ state' = [state EXCEPT ![Seed] = "saving"]
  /\ step' = [step EXCEPT ![Seed] = 0]
  /\ UNCHANGED <<registryVars, disk, voters, req, issued, signed, expired, faults>>

\* NodeIdentity.Save writes three files, the genesis CA key is a fourth.
Files(n) == IF n = Seed THEN <<"key", "cert", "ca", "caKey">>
            ELSE <<"key", "cert", "ca">>

FileContent(n, file) ==
  CASE file = "key" -> identity[n].key
    [] file = "cert" -> identity[n]
    [] OTHER -> identity[n].root

Save(n) ==
  /\ state[n] = "saving"
  /\ step[n] < Len(Files(n))
  /\ step' = [step EXCEPT ![n] = @ + 1]
  /\ LET file == Files(n)[step'[n]]
     IN disk' = [disk EXCEPT ![n][file] = FileContent(n, file)]
  /\ UNCHANGED <<registryVars, state, identity, voters, req, issued, signed,
                 expired, faults>>

Provisioned(n) ==
  /\ state[n] = "saving"
  /\ step[n] = Len(Files(n))
  /\ state' = [state EXCEPT ![n] = "up"]
  /\ UNCHANGED <<registryVars, identity, step, disk, voters, req, issued, signed,
                 expired, faults>>

\* bootstrapWhenReady; without raft the node simply decides alone.
Bootstrap ==
  /\ state[Seed] = "up"
  /\ voters = {}
  /\ voters' = {Seed}
  /\ UNCHANGED <<registryVars, nodeVars, req, issued, signed, expired, faults>>

-----------------------------------------------------------------------------
(***************************************************************************)
(* Raft, as far as the console can tell.                                   *)
(***************************************************************************)
Quorum == 2 * Cardinality({n \in voters : state[n] = "up"}) > Cardinality(voters)

Elect(n) ==
  /\ leader = None
  /\ n \in voters /\ state[n] = "up"
  /\ Quorum
  /\ leader' = n
  /\ UNCHANGED <<history, applied, nodeVars, voters, req, issued, signed, expired,
                 faults>>

\* The leader's lease runs out without a quorum.
StepDown ==
  /\ leader # None
  /\ ~Quorum
  /\ leader' = None
  /\ UNCHANGED <<history, applied, nodeVars, voters, req, issued, signed, expired,
                 faults>>

Replicate(n) ==
  /\ state[n] = "up"
  /\ CatchUp(n)
  /\ UNCHANGED <<nodeVars, voters, req, issued, signed, expired, faults>>

-----------------------------------------------------------------------------
(***************************************************************************)
(* Console requests.  A request runs on the node that led when it came; its *)
(* writes need that node to lead still.                                     *)
(***************************************************************************)
At(r, pc) == req[r].pc = pc

CanWrite(r) == leader = req[r].on /\ Quorum

Goto(r, pc) == req' = [req EXCEPT ![r].pc = pc]

\* The call returns an error; a joiner that still waits for it exits.
Fails(r) ==
  /\ req' = [req EXCEPT ![r] = Free]
  /\ state' = IF req[r].live THEN [state EXCEPT ![req[r].node] = "down"] ELSE state
  /\ UNCHANGED <<identity, step, disk>>

\* mintJoinToken, asked for by an operator on the leader.
MintToken(r, t) ==
  /\ At(r, "free")
  /\ leader # None
  /\ t \notin issued
  /\ \A s \in Request : req[s].token # t
  /\ req' = [req EXCEPT ![r] =
               [Free EXCEPT !.pc = "loadCA", !.on = leader, !.token = t,
                            !.then = "mint"]]
  /\ UNCHANGED <<registryVars, nodeVars, voters, issued, signed, expired, faults>>

\* EnrollNode of a fresh joiner: a key, a CSR, and the request (proxied) on the
\* leader.
Enroll(n, r) ==
  /\ clustered /\ n # Seed
  /\ state[n] = "down"
  /\ ~LoadNodeIdentity(n)
  /\ At(r, "free")
  /\ leader # None
  /\ KeyLeft
  /\ state' = [state EXCEPT ![n] = "waiting"]
  /\ \E t \in TokensOf[n] \cap (issued \cup {Shared}) :
       req' = [req EXCEPT ![r] =
                 [Free EXCEPT !.pc = "token", !.on = leader, !.node = n,
                              !.live = TRUE, !.token = t, !.key = NewKey,
                              !.then = "sign"]]
  /\ UNCHANGED <<registryVars, identity, step, disk, voters, issued, signed, expired,
                 faults>>

Presented(r) == req[r].token

\* signNodeEnrollment looks the token up on its own replica.  A burned record
\* carries an expiry in the past.
ReadToken(r) ==
  /\ At(r, "token")
  /\ LET rec == Local(req[r].on).join[Presented(r)]
     IN CASE rec.state = "absent" /\ Presented(r) = Shared ->
               Goto(r, "adopt") /\ UNCHANGED nodeVars
          [] rec.state = "fresh" /\ Presented(r) \notin expired ->
               /\ req' = [req EXCEPT ![r].pc = "burn", ![r].version = rec.version]
               /\ UNCHANGED nodeVars
          [] rec.state = "reusable" ->
               Goto(r, "loadCA") /\ UNCHANGED nodeVars
          [] OTHER -> Fails(r)
  /\ UNCHANGED <<registryVars, voters, issued, signed, expired, faults>>

\* What a write by request r makes of the records: the version of a record is
\* the index of the entry that wrote it.
JoinRecord(r, s) ==
  [Committed EXCEPT !.join[Presented(r)] =
     IF s = "absent" THEN Absent ELSE [state |-> s, version |-> Len(history) + 1]]

\* adoptBootstrapToken: create-if-absent, whoever wins; then read it again.
AdoptBootstrapToken(r) ==
  /\ At(r, "adopt")
  /\ CanWrite(r)
  /\ IF Committed.join[Shared] = Absent
     THEN Commits(req[r].on, JoinRecord(r, "reusable"))
     ELSE Refused(req[r].on)
  /\ Goto(r, "token")
  /\ UNCHANGED <<nodeVars, voters, issued, signed, expired, faults>>

\* Burn before signing: compare-and-set on the version that was read.
BurnUnconditionally(r) == TRUE

BurnHolds(r) == Committed.join[Presented(r)].version = req[r].version

Burn(r) ==
  /\ At(r, "burn")
  /\ CanWrite(r)
  /\ IF BurnHolds(r)
     THEN /\ Commits(req[r].on, JoinRecord(r, "burned"))
          /\ Goto(r, "loadCA")
          /\ UNCHANGED nodeVars
     ELSE Refused(req[r].on) /\ Fails(r)
  /\ UNCHANGED <<voters, issued, signed, expired, faults>>

\* ensureCA, first half: the published CA, or the one to publish (newCARecord).
\* A node that trusts a root it has no key for refuses.
NewCaAlways(n) == NewKey

NewCaRefusedFirst(n) == IF disk[n].ca # 0 THEN 0 ELSE NewKey

NewCa(n) ==
  IF disk[n].ca # 0 THEN disk[n].caKey ELSE NewKey

LoadCA(r) ==
  /\ At(r, "loadCA")
  /\ KeyLeft \/ Local(req[r].on).ca # 0 \/ disk[req[r].on].ca # 0
  /\ LET n == req[r].on
         published == Local(n).ca
     IN CASE published # 0 ->
               /\ req' = [req EXCEPT ![r].pc = req[r].then, ![r].root = published]
               /\ UNCHANGED nodeVars
          [] published = 0 /\ NewCa(n) # 0 ->
               /\ req' = [req EXCEPT ![r].pc = "putCA", ![r].root = NewCa(n)]
               /\ UNCHANGED nodeVars
          [] OTHER -> Fails(r)
  /\ UNCHANGED <<registryVars, voters, issued, signed, expired, faults>>

\* ensureCA, second half: create-if-absent; the loser reads the winner's.
PutCA(r) ==
  /\ At(r, "putCA")
  /\ CanWrite(r)
  /\ IF Committed.ca = 0
     THEN /\ Commits(req[r].on, [Committed EXCEPT !.ca = req[r].root])
          /\ Goto(r, req[r].then)
     ELSE /\ Refused(req[r].on)
          /\ Goto(r, "loadCA")
  /\ UNCHANGED <<nodeVars, voters, issued, signed, expired, faults>>

Mint(r) ==
  /\ At(r, "mint")
  /\ CanWrite(r)
  /\ Commits(req[r].on, JoinRecord(r, "fresh"))
  /\ issued' = issued \cup {Presented(r)}
  /\ req' = [req EXCEPT ![r] = Free]
  /\ UNCHANGED <<nodeVars, voters, signed, expired, faults>>

Sign(r) ==
  /\ At(r, "sign")
  /\ signed' = [signed EXCEPT ![Presented(r)] = @ + 1]
  /\ Goto(r, "addVoter")
  /\ UNCHANGED <<registryVars, nodeVars, voters, issued, expired, faults>>

\* enrollNode: the joiner is a voter from here on.
AddVoter(r) ==
  /\ At(r, "addVoter")
  /\ CanWrite(r)
  /\ voters' = voters \cup {req[r].node}
  /\ Goto(r, "consume")
  /\ UNCHANGED <<registryVars, nodeVars, issued, signed, expired, faults>>

\* consumeJoinToken: drop the spent record, keep a reusable one; an error is
\* ignored.
ConsumesAny(r) == TRUE

Consumes(r) == Local(req[r].on).join[Presented(r)].state # "reusable"

ConsumeJoinToken(r) ==
  /\ At(r, "consume")
  /\ IF Consumes(r) /\ CanWrite(r)
     THEN Commits(req[r].on, JoinRecord(r, "absent"))
     ELSE UNCHANGED registryVars
  /\ Goto(r, "reply")
  /\ UNCHANGED <<nodeVars, voters, issued, signed, expired, faults>>

\* The joiner receives its certificate and starts to save it.
Reply(r) ==
  /\ At(r, "reply")
  /\ req' = [req EXCEPT ![r] = Free]
  /\ IF req[r].live
     THEN LET n == req[r].node
          IN /\ identity' = [identity EXCEPT ![n] = [key |-> req[r].key,
                                                    root |-> req[r].root]]
             /\ step' = [step EXCEPT ![n] = 0]
             /\ state' = [state EXCEPT ![n] = "saving"]
             /\ UNCHANGED disk
     ELSE UNCHANGED nodeVars
  /\ UNCHANGED <<registryVars, voters, issued, signed, expired, faults>>

\* A write on a node that no longer leads.
NotLeader(r) ==
  /\ req[r].pc \in {"adopt", "burn", "putCA", "mint", "addVoter"}
  /\ leader # req[r].on
  /\ Fails(r)
  /\ UNCHANGED <<registryVars, voters, issued, signed, expired, faults>>

-----------------------------------------------------------------------------
(***************************************************************************)
(* What goes wrong.                                                        *)
(***************************************************************************)
Fault == faults < MaxFault /\ faults' = faults + 1

\* A node loses what is in memory, the requests it was serving included.
Crash(n) ==
  /\ Fault
  /\ n \in Fragile
  /\ state[n] # "down"
  /\ leader' = IF leader = n THEN None ELSE leader
  /\ req' = [r \in Request |->
               IF req[r].on = n THEN Free
               ELSE IF req[r].node = n THEN [req[r] EXCEPT !.live = FALSE]
               ELSE req[r]]
  /\ state' = [m \in Node |->
                 IF m = n \/ \E r \in Request : req[r].on = n /\ req[r].live
                                               /\ req[r].node = m
                 THEN "down" ELSE state[m]]
  /\ UNCHANGED <<history, applied, identity, step, disk, voters, issued,
                 signed, expired>>

\* The joiner's HTTP client gives up while the handler goes on.
ClientTimeout(r) ==
  /\ Fault
  /\ req[r].live
  /\ req' = [req EXCEPT ![r].live = FALSE]
  /\ state' = [state EXCEPT ![req[r].node] = "down"]
  /\ UNCHANGED <<registryVars, identity, step, disk, voters, issued, signed,
                 expired>>

\* A call of the handler reports an error, its effect done or not; the errors of
\* consumeJoinToken are not reported.
CallFails(r) ==
  /\ Fault
  /\ req[r].pc \notin {"free", "consume", "reply"}
  /\ Fails(r)
  /\ UNCHANGED <<registryVars, voters, issued, signed, expired>>

\* The lookup of consumeJoinToken fails: the record goes, reusable or not.
ConsumeUnread(r) ==
  /\ Fault
  /\ At(r, "consume")
  /\ IF CanWrite(r)
     THEN Commits(req[r].on, JoinRecord(r, "absent"))
     ELSE UNCHANGED registryVars
  /\ Goto(r, "reply")
  /\ UNCHANGED <<nodeVars, voters, issued, signed, expired>>

\* The leader is replaced for no reason a handler can see.
Depose ==
  /\ Fault
  /\ leader # None
  /\ leader' = None
  /\ UNCHANGED <<history, applied, nodeVars, voters, req, issued, signed,
                 expired>>

Expire(t) ==
  /\ t \in issued \ expired
  /\ expired' = expired \cup {t}
  /\ UNCHANGED <<registryVars, nodeVars, voters, req, issued, signed, faults>>

NodeStep(n) == Load(n) \/ Save(n) \/ Provisioned(n) \/ Replicate(n)

RequestStep(r) ==
  \/ ReadToken(r)
  \/ AdoptBootstrapToken(r)
  \/ Burn(r)
  \/ LoadCA(r)
  \/ PutCA(r)
  \/ Mint(r)
  \/ Sign(r)
  \/ AddVoter(r)
  \/ ConsumeJoinToken(r)
  \/ Reply(r)
  \/ NotLeader(r)

Step ==
  \/ Genesis
  \/ Bootstrap
  \/ StepDown
  \/ Depose
  \/ \E n \in Node : NodeStep(n) \/ Elect(n) \/ Crash(n)
  \/ \E r \in Request : RequestStep(r) \/ ClientTimeout(r) \/ CallFails(r)
  \/ \E n \in Node, r \in Request : Enroll(n, r)
  \/ \E r \in Request, t \in Token : MintToken(r, t)
  \/ \E t \in Token : Expire(t)

Next ==
  /\ UNCHANGED clustered
  /\ \/ Step /\ UNCHANGED unread
     \/ unread' = TRUE /\ \E r \in Request : ConsumeUnread(r)

Spec == Init /\ [][Next]_vars

\* The container restarts a node that exits, goroutines and handlers go on, raft
\* elects when it can, and an operator who wants a token asks again.
Fair(A) == A /\ UNCHANGED <<clustered, unread>>

Fairness ==
  /\ WF_vars(Fair(Genesis))
  /\ WF_vars(Fair(Bootstrap))
  /\ WF_vars(Fair(StepDown))
  /\ \A n \in Node :
       /\ WF_vars(Fair(NodeStep(n)))
       /\ SF_vars(Fair(Elect(n)))
       /\ SF_vars(Fair(\E r \in Request : Enroll(n, r)))
  /\ \A r \in Request : WF_vars(Fair(RequestStep(r)))
  /\ \A t \in Token : SF_vars(Fair(\E r \in Request : MintToken(r, t)))

FairSpec == Spec /\ Fairness

-----------------------------------------------------------------------------
(***************************************************************************)
(* Properties.                                                             *)
(***************************************************************************)
\* signNodeEnrollment: a minted join token signs at most one certificate, however
\* enrollments, leaders, timeouts and lost answers overlap.
SingleUse == \A t \in Token : signed[t] <= 1

\* ensureCA and newCARecord: the cluster has one root.  What is published, what
\* requests sign with, and what every running node trusts never disagree.
RootsInUse ==
  {Committed.ca}
  \cup {req[r].root : r \in {q \in Request :
          req[q].pc \in {"mint", "sign", "addVoter", "consume", "reply"}}}
  \cup {disk[n].ca : n \in {m \in Node : state[m] = "up"}}

OneRoot == \A a, b \in RootsInUse \ {0} : a = b

\* NodeIdentity.Save and LoadNodeIdentity: whatever crash interrupted a save, a
\* node runs only with files of one identity, certified by the root it trusts.
IdentityWhole ==
  \A n \in Node : clustered /\ state[n] = "up" =>
    disk[n].cert = [key |-> disk[n].key, root |-> disk[n].ca]

\* consumeJoinToken: the record of the pre-shared token, once adopted, stays, whichever
\* joins and leaders follow one another, as long as no lookup of consumeJoinToken has
\* failed.
SharedTokenKept ==
  [][~unread' /\ Committed.join[Shared].state = "reusable" =>
       Committed'.join[Shared] = Committed.join[Shared]]_vars

\* README, Kubernetes: "formation converges without ordering games": every node
\* ends up running, and a voter.
FormationConverges == <>[](voters = Node /\ \A n \in Node : state[n] = "up")
=============================================================================
