------------------------------- MODULE Ledger -------------------------------
(***************************************************************************)
(* Checkpoints of the hash chain and the certificates made of them: node    *)
(* certificates (pkg/ledger/ca.go, signer.go), attestation of a node's own  *)
(* head (pkg/replication/ledger_service.go), the collection of co-signatures*)
(* by the console of one node while all heads keep moving                   *)
(* (pkg/console/ledger.go), and their verification (checkpoint.go,          *)
(* verify.go).                                                              *)
(*                                                                         *)
(* A key pair is a value, a signature the pair of the key and the message,  *)
(* an aggregate the set of its signatures: BLS and Ed25519 are taken as     *)
(* unforgeable.  The digest of a chain is determined by its height and by   *)
(* whether the node is one whose chain leaves the others' (see Snapshot).   *)
(***************************************************************************)
EXTENDS Integers, FiniteSets, Sequences, Functions

CONSTANTS
  Node,            \* raft servers
  Coordinators,    \* the nodes whose console is asked for materials
  None,
  Configurations,  \* the server lists the raft configuration may hold
  Deployments,     \* [Node -> files]: ledger.node-key and ledger.node-cert
  Forks,           \* sets of nodes whose chain may leave the others'
  CAs,             \* ledger CA public keys
  StartHeight,     \* the height all nodes have reached when the behaviour begins
  MaxHeight, MaxClock, MaxCollections

Checkpoint == [height : Nat, digest : Nat \X BOOLEAN, unix : Nat]

ASSUME LedgerBounds ==
  /\ Coordinators \subseteq Node /\ IsFiniteSet(Node)
  /\ Configurations \subseteq Seq(Node)
  /\ None \notin Checkpoint
  /\ MaxHeight \in Nat /\ StartHeight \in 0..MaxHeight
  /\ MaxClock \in Nat /\ MaxCollections \in Nat

VARIABLES
  files,      \* the ledger identity files each node was started with
  forked,     \* the nodes whose chain leaves the others' behind StartHeight
  head,       \* FSM.ChainHead of each node: its height
  clock,      \* unix seconds
  collector,  \* the ledgerMaterials request in progress
  made,       \* every set of materials handed out
  pinned      \* the ledger CA public key record

lvars == <<files, forked, head, clock, collector, made, pinned>>

-----------------------------------------------------------------------------
(***************************************************************************)
(* Identities.  A key is its own public key.                                *)
(***************************************************************************)
Signature(key, msg) == [key |-> key, msg |-> msg]

popMessage(id, pub) == [id |-> id, pub |-> pub]

ProofOfPossession(key, id) == Signature(key, popMessage(id, key))

\* None stands for the refusal "proof-of-possession failed".
Issue(ca, id, pub, pop, notAfter) ==
  IF pop = Signature(pub, popMessage(id, pub))
  THEN [id |-> id, pub |-> pub, notAfter |-> notAfter, ca |-> ca]
  ELSE None

\* The expiry check of CAPublicKey.Verify; 0 is "no expiry" and "do not check".
Expired(cert, now) == cert.notAfter # 0 /\ now # 0 /\ now > cert.notAfter

CertVerifies(ca, cert, now) == ~Expired(cert, now) /\ cert.ca = ca

\* A pair of files that do not belong together gives no signer.
LoadNodeSigner(f) ==
  IF f.key # None /\ f.cert # None /\ f.cert.pub = f.key THEN f ELSE None

Signer(n) == LoadNodeSigner(files[n])

-----------------------------------------------------------------------------
(***************************************************************************)
(* Attestation.                                                             *)
(***************************************************************************)
Digest(n, h) == <<h, h > StartHeight /\ n \in forked>>

OwnCheckpoint(n) ==
  [height |-> head[n], digest |-> Digest(n, head[n]), unix |-> clock]

signMessage(ckpt, id) == [ckpt |-> ckpt, id |-> id]

SignCheckpoint(signer, ckpt) ==
  Signature(signer.key, signMessage(ckpt, signer.cert.id))

SameHead(c, d) == c.height = d.height /\ c.digest = d.digest

Unsigned(ckpt) ==
  [ckpt |-> ckpt, signed |-> FALSE, id |-> None, sig |-> None, cert |-> None]

Signed(ckpt, signer) ==
  [ckpt |-> ckpt, signed |-> TRUE, id |-> signer.cert.id,
   sig |-> SignCheckpoint(signer, ckpt), cert |-> signer.cert]

AttestAnything(n, want) ==
  LET ckpt == IF want = None THEN OwnCheckpoint(n) ELSE want
  IN  IF Signer(n) = None THEN Unsigned(ckpt) ELSE Signed(ckpt, Signer(n))

Attest(n, want) ==
  LET own  == OwnCheckpoint(n)
      ckpt == IF want = None THEN own ELSE want
  IN  CASE want # None /\ ~SameHead(want, own) -> Unsigned(own)
        [] Signer(n) = None                    -> Unsigned(ckpt)
        [] OTHER                               -> Signed(ckpt, Signer(n))

-----------------------------------------------------------------------------
(***************************************************************************)
(* Certificates.  sigs is the map from node id to signature; the signers    *)
(* are listed in a fixed order, each once.                                  *)
(***************************************************************************)
Listing(ids) == CHOOSE s \in Bijection(1..Cardinality(ids), ids) : TRUE

BuildQuorumCertificate(ckpt, sigs) ==
  [ckpt    |-> ckpt,
   signers |-> Listing(DOMAIN sigs),
   agg     |-> {sigs[id] : id \in DOMAIN sigs}]

\* CertBundle.AddCert for each certificate in turn: the last of an id stays.
FirstCertStays(certs) ==
  [id \in {certs[i].id : i \in DOMAIN certs} |->
     certs[CHOOSE i \in DOMAIN certs :
             certs[i].id = id /\ \A j \in 1..(i - 1) : certs[j].id # id]]

CertBundle(certs) ==
  [id \in {certs[i].id : i \in DOMAIN certs} |->
     certs[CHOOSE i \in DOMAIN certs :
             /\ certs[i].id = id
             /\ \A j \in DOMAIN certs : certs[j].id = id => j <= i]]

VerifyAggregate(bundle, qc) ==
  qc.agg = {Signature(bundle[id].pub, signMessage(qc.ckpt, id)) : id \in Range(qc.signers)}

VerifyQuorum(ca, qc, bundle, threshold, now) ==
  /\ qc.signers # <<>>
  /\ Len(qc.signers) >= threshold
  /\ Cardinality(Range(qc.signers)) = Len(qc.signers)
  /\ Range(qc.signers) \subseteq DOMAIN bundle
  /\ \A id \in Range(qc.signers) : CertVerifies(ca, bundle[id], now)
  /\ VerifyAggregate(bundle, qc)

\* A threshold of 0 asks for the signers the certificate lists.
ledgerVerify(ca, qc, certs, threshold, now) ==
  VerifyQuorum(ca, qc, CertBundle(certs),
               IF threshold = 0 THEN Len(qc.signers) ELSE threshold, now)

MatchesHead(qc, h) == qc.ckpt.height = h.height /\ qc.ckpt.digest = h.digest

-----------------------------------------------------------------------------
(***************************************************************************)
(* ledgerMaterials: stamp, ask the members one by one, once more if a head  *)
(* had moved, aggregate.                                                    *)
(***************************************************************************)
Idle == [pc |-> "idle", by |-> None, attempt |-> 0, ckpt |-> None, members |-> {},
         todo |-> <<>>, diverged |-> FALSE, sigs |-> <<>>, certs |-> <<>>, warned |-> {}]

LedgerInit ==
  /\ files \in Deployments
  /\ forked \in Forks
  /\ head = [n \in Node |-> StartHeight]
  /\ clock \in 1..MaxClock
  /\ collector = Idle
  /\ made = {}
  /\ pinned = None

\* One pass starts from nothing but the coordinator's head of now.
Stamped(by, attempt, servers) ==
  [Idle EXCEPT !.pc = "collecting", !.by = by, !.attempt = attempt,
     !.ckpt = Attest(by, None).ckpt, !.members = Range(servers), !.todo = servers]

ledgerMaterials ==
  /\ collector.pc = "idle"
  /\ Cardinality(made) < MaxCollections
  /\ \E by \in Coordinators : \E servers \in Configurations :
       collector' = Stamped(by, 1, servers)
  /\ UNCHANGED <<files, forked, head, clock, made, pinned>>

\* The answer of one member, evaluated where the member is.
ForgetsUnsigned(c, m, d) ==
  IF ~d.signed
  THEN [c EXCEPT !.diverged = @ \/ ~SameHead(d.ckpt, c.ckpt),
                 !.warned = IF SameHead(d.ckpt, c.ckpt) THEN @ ELSE @ \cup {m}]
  ELSE [c EXCEPT !.sigs = [id \in DOMAIN @ \cup {d.id} |->
                             IF id = d.id THEN d.sig ELSE @[id]],
                 !.certs = Append(@, d.cert)]

Answered(c, m, d) ==
  IF ~d.signed
  THEN [c EXCEPT !.diverged = @ \/ ~SameHead(d.ckpt, c.ckpt), !.warned = @ \cup {m}]
  ELSE [c EXCEPT !.sigs = [id \in DOMAIN @ \cup {d.id} |->
                             IF id = d.id THEN d.sig ELSE @[id]],
                 !.certs = Append(@, d.cert)]

collectDigest ==
  /\ collector.pc = "collecting" /\ collector.todo # <<>>
  /\ LET m == Head(collector.todo)
         c == [collector EXCEPT !.todo = Tail(@)]
     IN  \/ collector' = Answered(c, m, Attest(m, c.ckpt))
         \/ /\ m # c.by
            /\ collector' = [c EXCEPT !.warned = @ \cup {m}]
  /\ UNCHANGED <<files, forked, head, clock, made, pinned>>

SecondPass ==
  /\ collector.pc = "collecting" /\ collector.todo = <<>>
  /\ collector.diverged /\ collector.attempt < 2
  /\ \E servers \in Configurations : 
       collector' = Stamped(collector.by, 2, servers)
  /\ UNCHANGED <<files, forked, head, clock, made, pinned>>

\* Without a signature there is no certificate, only warnings.
Aggregate ==
  /\ collector.pc = "collecting" /\ collector.todo = <<>>
  /\ ~collector.diverged \/ collector.attempt = 2
  /\ made' = made \cup
       {[members |-> collector.members, warned |-> collector.warned,
         ckpt |-> collector.ckpt, certs |-> collector.certs, caPub |-> pinned,
         qc |-> IF DOMAIN collector.sigs = {} THEN None
                ELSE BuildQuorumCertificate(collector.ckpt, collector.sigs)]}
  /\ collector' = Idle
  /\ UNCHANGED <<files, forked, head, clock, pinned>>

\* ledgerCAPubSet, and generateLedgerCA when its Put succeeds.
pinLedgerCAPub(ca) ==
  /\ pinned # ca
  /\ pinned' = ca
  /\ UNCHANGED <<files, forked, head, clock, collector, made>>

\* The FSM of n folds the next committed entry in.
AdvanceHead(n) ==
  /\ head[n] < MaxHeight
  /\ head' = [head EXCEPT ![n] = @ + 1]
  /\ UNCHANGED <<files, forked, clock, collector, made, pinned>>

LedgerTick ==
  /\ clock < MaxClock
  /\ clock' = clock + 1
  /\ UNCHANGED <<files, forked, head, collector, made, pinned>>

LedgerNext ==
  \/ ledgerMaterials
  \/ collectDigest
  \/ SecondPass
  \/ Aggregate
  \/ \E ca \in CAs : pinLedgerCAPub(ca)
  \/ \E n \in Node : AdvanceHead(n)
  \/ LedgerTick

LedgerSpec == LedgerInit /\ [][LedgerNext]_lvars

-----------------------------------------------------------------------------
(***************************************************************************)
(* Properties.                                                             *)
(***************************************************************************)
Certificates == {x \in made : x.qc # None}

\* The shapes of the collection in progress and of the materials handed out.
LedgerTypeOK ==
  /\ files \in Deployments /\ forked \in Forks
  /\ head \in [Node -> 0..MaxHeight] /\ clock \in 1..MaxClock
  /\ pinned \in CAs \cup {None}
  /\ collector.pc \in {"idle", "collecting"} /\ collector.attempt \in 0..2
  /\ collector.members \subseteq Node /\ collector.warned \subseteq collector.members
  /\ \A x \in made : x.warned \subseteq x.members /\ x.members \subseteq Node

\* Attest (ledger_service.go): "a node never attests state that is not its own".
\* Whatever moved during the collection, each signature in a certificate is by
\* a node whose chain has passed through exactly the certified digest.
AttestsOwnHead ==
  \A x \in Certificates : \A s \in x.qc.agg : \E n \in Node :
    /\ Signer(n) # None /\ Signer(n).key = s.key
    /\ head[n] >= x.qc.ckpt.height
    /\ Digest(n, x.qc.ckpt.height) = x.qc.ckpt.digest

\* ledgerMaterials: what is handed out together verifies together, also when the
\* heads moved between two passes or two nodes sign under one id, as long as the
\* certificates are of one CA and have not expired.
MaterialsVerify ==
  \A x \in Certificates : \A ca \in CAs :
    (\A i \in DOMAIN x.certs : CertVerifies(ca, x.certs[i], clock))
      => ledgerVerify(ca, x.qc, x.certs, 0, clock)

\* ledgerMaterials: "Unsigned or diverged members are reported in warnings": a
\* member of the configuration has signed or is named, never left out silently.
NoSilentAbsence ==
  \A x \in made : \A m \in x.members :
    \/ m \in x.warned
    \/ /\ Signer(m) # None
       /\ \E i \in DOMAIN x.certs : x.certs[i] = Signer(m).cert

Majority == Cardinality(Node) \div 2 + 1

\* checkpoint.go: a certificate is "evidence that a majority of the certified
\* cluster agreed on exactly this history up to this height": two certificates
\* that verify at the majority threshold never name two digests for one height.
CertificatesAgree ==
  LET valid == {x \in Certificates : \E ca \in CAs :
                  ledgerVerify(ca, x.qc, x.certs, Majority, 0)}
  IN  \A x, y \in valid :
        x.qc.ckpt.height = y.qc.ckpt.height => x.qc.ckpt.digest = y.qc.ckpt.digest

=============================================================================
