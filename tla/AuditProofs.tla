---------------------------- MODULE AuditProofs -----------------------------
(***************************************************************************)
(* Checkpoint certificates, and the dumps that are verified against them.   *)
(***************************************************************************)
EXTENDS Audit, FiniteSetTheorems, TLAPS

-----------------------------------------------------------------------------
(***************************************************************************)
(* What a checkpoint certificate proves, for any number of nodes, heights,  *)
(* collections, forks and configurations.                                   *)
(***************************************************************************)

Ids(certs) == {certs[i].id : i \in DOMAIN certs}

LastOf(certs, id, i) ==
  /\ i \in DOMAIN certs /\ certs[i].id = id
  /\ \A j \in DOMAIN certs : certs[j].id = id => j <= i

AllCerts == {f[n].cert : f \in Deployments, n \in Node}

\* The certificates of a collection: a list in which every id has a last one.
Listed(certs) ==
  /\ certs \in Seq(AllCerts)
  /\ IsFiniteSet(Ids(certs))
  /\ \A id \in Ids(certs) : \E i \in DOMAIN certs : LastOf(certs, id, i)

(***************************************************************************)
(* In the following f stands for files, k for forked and h for head.        *)
(***************************************************************************)
PassedThrough(k, h, n, ckpt) ==
  /\ h[n] >= ckpt.height
  /\ ckpt.digest = <<ckpt.height, ckpt.height > StartHeight /\ n \in k>>

Owns(f, n, cert) == LoadNodeSigner(f[n]) # None /\ cert = f[n].cert

\* Every certificate is that of a node whose chain has passed through ckpt.
Vouched(f, k, h, certs, ckpt) ==
  \A i \in DOMAIN certs : \E n \in Node :
    Owns(f, n, certs[i]) /\ PassedThrough(k, h, n, ckpt)

\* The signatures are those of the last certificate of each id over ckpt.
SignaturesOf(certs, ckpt) ==
  [id \in Ids(certs) |->
     Signature(CertBundle(certs)[id].pub, signMessage(ckpt, id))]

Aggregated(certs, ckpt) ==
  {Signature(CertBundle(certs)[id].pub, signMessage(ckpt, id)) : id \in Ids(certs)}

WithSignature(sigs, c, ckpt) ==
  [id \in DOMAIN sigs \cup {c.id} |->
     IF id = c.id THEN Signature(c.pub, signMessage(ckpt, c.id)) ELSE sigs[id]]

Certified(f, m, certs) == \E i \in DOMAIN certs : Owns(f, m, certs[i])

Accounted(f, c) ==
  \A m \in c.members :
    \/ \E i \in DOMAIN c.todo : c.todo[i] = m
    \/ m \in c.warned
    \/ Certified(f, m, c.certs)

Shape(c) ==
  /\ c = [pc |-> c.pc, by |-> c.by, attempt |-> c.attempt, ckpt |-> c.ckpt,
          members |-> c.members, todo |-> c.todo, diverged |-> c.diverged,
          sigs |-> c.sigs, certs |-> c.certs, warned |-> c.warned]
  /\ c.pc \in {"idle", "collecting"} /\ c.attempt \in 0..2
  /\ c.members \subseteq Node /\ c.warned \subseteq c.members

\* The collection in progress.
Collecting(f, k, h, c) ==
  c.pc = "collecting" =>
    /\ c.by \in Node /\ c.todo \in Seq(c.members)
    /\ c.ckpt \in Checkpoint
    /\ Listed(c.certs)
    /\ Vouched(f, k, h, c.certs, c.ckpt)
    /\ c.sigs = SignaturesOf(c.certs, c.ckpt)
    /\ Accounted(f, c)

\* Materials that have been handed out.
HandedOut(f, k, h, x) ==
  /\ x.qc # None =>
       /\ Listed(x.certs) /\ x.certs # <<>> /\ x.ckpt \in Checkpoint
       /\ Vouched(f, k, h, x.certs, x.ckpt)
       /\ x.qc = BuildQuorumCertificate(x.ckpt, SignaturesOf(x.certs, x.ckpt))
  /\ \A m \in x.members : m \in x.warned \/ Certified(f, m, x.certs)
  /\ x.warned \subseteq x.members /\ x.members \subseteq Node

World ==
  /\ files \in Deployments /\ forked \in Forks
  /\ head \in [Node -> 0..MaxHeight] /\ clock \in 1..MaxClock
  /\ pinned \in CAs \cup {None}

LInv ==
  /\ World
  /\ Shape(collector) /\ Collecting(files, forked, head, collector)
  /\ \A x \in made : HandedOut(files, forked, head, x)

-----------------------------------------------------------------------------
(***************************************************************************)
(* Lists of certificates.                                                   *)
(***************************************************************************)
\* CertBundle.AddCert: the last certificate of an id is the one that stays.
LEMMA LastStays ==
  ASSUME NEW S, NEW certs \in Seq(S), NEW id, NEW i, LastOf(certs, id, i)
  PROVE  id \in Ids(certs) /\ CertBundle(certs)[id] = certs[i]
<1> DEFINE P(k) == /\ k \in DOMAIN certs /\ certs[k].id = id
                   /\ \A j \in DOMAIN certs : certs[j].id = id => j <= k
<1>1. id \in Ids(certs)
  BY DEF LastOf, Ids
<1>2. P(i)
  BY DEF LastOf
<1>3. \A k : P(k) => k = i
  BY <1>2
<1>4. (CHOOSE k \in DOMAIN certs :
         /\ certs[k].id = id
         /\ \A j \in DOMAIN certs : certs[j].id = id => j <= k) = i
  BY <1>2, <1>3
<1> QED
  BY <1>1, <1>4, Zenon DEF CertBundle, Ids

\* A certificate appended is the last of its id, and disturbs no other id.
LEMMA AppendedIsLast ==
  ASSUME NEW S, NEW certs \in Seq(S), NEW c \in S, NEW id
  PROVE  /\ LastOf(Append(certs, c), c.id, Len(certs) + 1)
         /\ Ids(Append(certs, c)) = Ids(certs) \cup {c.id}
         /\ id # c.id => \A i : LastOf(certs, id, i) => LastOf(Append(certs, c), id, i)
<1> DEFINE new == Append(certs, c)
<1>1. /\ DOMAIN certs = 1..Len(certs) /\ Len(certs) \in Nat
      /\ DOMAIN new = 1..(Len(certs) + 1)
      /\ new[Len(certs) + 1] = c
      /\ \A i \in 1..Len(certs) : new[i] = certs[i]
  OBVIOUS
<1> HIDE DEF new
<1>2. LastOf(new, c.id, Len(certs) + 1)
  BY <1>1 DEF LastOf
<1>3. Ids(new) = Ids(certs) \cup {c.id}
  <2>1. 1..(Len(certs) + 1) = 1..Len(certs) \cup {Len(certs) + 1}
    BY <1>1
  <2> QED
    BY <1>1, <2>1 DEF Ids
<1>4. ASSUME id # c.id, NEW i, LastOf(certs, id, i) PROVE LastOf(new, id, i)
  BY <1>1, <1>4 DEF LastOf
<1> QED
  BY <1>2, <1>3, <1>4 DEF new

\* collectDigest: adding a signer's signature and certificate keeps the two in
\* step, also when its id was taken before.
LEMMA SignatureAdded ==
  ASSUME NEW certs, Listed(certs), NEW c \in AllCerts, NEW ckpt, NEW sigs,
         sigs = SignaturesOf(certs, ckpt)
  PROVE  /\ Listed(Append(certs, c))
         /\ SignaturesOf(Append(certs, c), ckpt) = WithSignature(sigs, c, ckpt)
<1> DEFINE new == Append(certs, c)
<1>1. certs \in Seq(AllCerts) /\ new \in Seq(AllCerts)
  BY DEF Listed
<1>2. new[Len(certs) + 1] = c /\ \A i \in DOMAIN certs : i \in DOMAIN new /\ new[i] = certs[i]
  BY <1>1
<1>3. /\ LastOf(new, c.id, Len(certs) + 1)
      /\ Ids(new) = Ids(certs) \cup {c.id}
      /\ \A id, i : id # c.id /\ LastOf(certs, id, i) => LastOf(new, id, i)
  BY <1>1, AppendedIsLast
<1> HIDE DEF new
<1>4. ASSUME NEW id \in Ids(certs), id # c.id
      PROVE  /\ \E i \in DOMAIN new : LastOf(new, id, i)
             /\ CertBundle(new)[id] = CertBundle(certs)[id]
  <2>1. PICK i \in DOMAIN certs : LastOf(certs, id, i)
    BY DEF Listed
  <2>2. LastOf(new, id, i)
    BY <1>3, <1>4, <2>1
  <2>3. CertBundle(new)[id] = new[i] /\ CertBundle(certs)[id] = certs[i]
    BY <1>1, <2>1, <2>2, LastStays
  <2> QED
    BY <1>2, <2>1, <2>2, <2>3
<1>5. CertBundle(new)[c.id] = c
  BY <1>1, <1>2, <1>3, LastStays
<1>6. Listed(new)
  <2>1. \A id \in Ids(new) : \E i \in DOMAIN new : LastOf(new, id, i)
    BY <1>3, <1>4 DEF LastOf
  <2>2. IsFiniteSet(Ids(certs) \cup {c.id})
    BY FS_AddElement, Zenon DEF Listed
  <2> QED
    BY <1>1, <1>3, <2>1, <2>2 DEF Listed
<1>7. DOMAIN sigs = Ids(certs)
  BY DEF SignaturesOf
<1>8. SignaturesOf(new, ckpt) = WithSignature(sigs, c, ckpt)
  BY <1>3, <1>4, <1>5, <1>7 DEF SignaturesOf, WithSignature
<1> QED
  BY <1>6, <1>8 DEF new

\* BuildQuorumCertificate lists every signer once.
LEMMA SignersListed ==
  ASSUME NEW S, IsFiniteSet(S)
  PROVE  /\ Listing(S) \in Seq(S)
         /\ Len(Listing(S)) = Cardinality(S)
         /\ Range(Listing(S)) = S
<1> DEFINE k == Cardinality(S)
           f == Listing(S)
<1>1. k \in Nat /\ ExistsBijection(1..k, S)
  BY FS_CardinalityType
<1>2. \E g : g \in Bijection(1..k, S)
  BY <1>1, Zenon DEF ExistsBijection
<1>3. f \in Bijection(1..k, S)
  BY <1>2, Zenon DEF Listing
<1>4. f \in [1..k -> S] /\ \A t \in S : \E i \in 1..k : f[i] = t
  BY <1>3, Zenon DEF Bijection, Injection, Surjection
<1> HIDE DEF f, k
<1>5. f \in Seq(S) /\ Len(f) = k /\ DOMAIN f = 1..k
  BY <1>1, <1>4
<1>6. Range(f) = S
  BY <1>4, <1>5, Zenon DEF Range
<1> QED
  BY <1>5, <1>6, Zenon DEF f, k

-----------------------------------------------------------------------------
(***************************************************************************)
(* The invariant is inductive.                                              *)
(***************************************************************************)
\* Heads only grow: what a node has passed through it has passed through for good.
LEMMA HeadsGrow ==
  ASSUME NEW f, NEW k, NEW h \in [Node -> Nat], NEW g \in [Node -> Nat],
         \A n \in Node : g[n] >= h[n]
  PROVE  /\ \A c : Collecting(f, k, h, c) => Collecting(f, k, g, c)
         /\ \A x : HandedOut(f, k, h, x) => HandedOut(f, k, g, x)
<1>1. ASSUME NEW certs, NEW ckpt \in Checkpoint, Vouched(f, k, h, certs, ckpt)
      PROVE  Vouched(f, k, g, certs, ckpt)
  <2>1. \A n \in Node : PassedThrough(k, h, n, ckpt) => PassedThrough(k, g, n, ckpt)
    BY DEF PassedThrough, Checkpoint
  <2> QED
    BY <1>1, <2>1 DEF Vouched
<1>2. \A c : Collecting(f, k, h, c) => Collecting(f, k, g, c)
  BY <1>1 DEF Collecting
<1>3. \A x : HandedOut(f, k, h, x) => HandedOut(f, k, g, x)
  BY <1>1 DEF HandedOut
<1> QED
  BY <1>2, <1>3

\* ledgerMaterials begins each pass with an empty list and the head of now.
LEMMA PassBegins ==
  ASSUME World, NEW by \in Node, NEW a \in 1..2, NEW servers \in Configurations
  PROVE  /\ Shape(Stamped(by, a, servers))
         /\ Collecting(files, forked, head, Stamped(by, a, servers))
<1> DEFINE c == Stamped(by, a, servers)
<1>1. Attest(by, None).ckpt = OwnCheckpoint(by)
  BY DEF Attest, Unsigned, Signed
<1>2. OwnCheckpoint(by) \in Checkpoint
  <2>1. head[by] \in Nat /\ clock \in Nat
    BY LedgerBounds DEF World
  <2>2. Digest(by, head[by]) \in Nat \X BOOLEAN
    <3>1. (head[by] > StartHeight /\ by \in forked) \in BOOLEAN
      OBVIOUS
    <3> QED
      BY <2>1, <3>1, Zenon DEF Digest
  <2> QED
    BY <2>1, <2>2 DEF OwnCheckpoint, Checkpoint
<1>3. servers \in Seq(Node)
  BY LedgerBounds
<1>4. c = [pc |-> "collecting", by |-> by, attempt |-> a, ckpt |-> OwnCheckpoint(by),
           members |-> Range(servers), todo |-> servers, diverged |-> FALSE,
           sigs |-> <<>>, certs |-> <<>>, warned |-> {}]
  <2>1. c = [Idle EXCEPT !.pc = "collecting", !.by = by, !.attempt = a,
               !.ckpt = OwnCheckpoint(by), !.members = Range(servers), !.todo = servers]
    BY <1>1, Zenon DEF Stamped
  <2> HIDE DEF c
  <2> QED
    BY <2>1, Zenon DEF Idle
<1>5. Range(servers) \subseteq Node /\ servers \in Seq(Range(servers))
  BY <1>3 DEF Range
<1> HIDE DEF c
<1>6. Shape(c)
  BY <1>4, <1>5 DEF Shape
<1>7. Ids(<<>>) = {} /\ IsFiniteSet({})
  BY FS_EmptySet DEF Ids
<1>8. Listed(<<>>)
  BY <1>7 DEF Listed
<1>9. <<>> = SignaturesOf(<<>>, OwnCheckpoint(by))
  BY <1>7 DEF SignaturesOf
<1>10. Accounted(files, c)
  BY <1>4, <1>3 DEF Accounted, Range
<1>11. Collecting(files, forked, head, c)
  BY <1>2, <1>4, <1>5, <1>8, <1>9, <1>10, SMTT(60) DEF Collecting, Vouched
<1> QED
  BY <1>6, <1>11 DEF c

\* Attest signs for a node only what is the head of its own chain.
LEMMA AttestCases ==
  ASSUME World, NEW m \in Node, NEW ckpt \in Checkpoint
  PROVE  \/ \E own : Attest(m, ckpt) = Unsigned(own)
         \/ /\ Attest(m, ckpt) = Signed(ckpt, files[m])
            /\ Owns(files, m, files[m].cert) /\ files[m].cert.pub = files[m].key
            /\ PassedThrough(forked, head, m, ckpt)
<1> DEFINE own == OwnCheckpoint(m)
<1>1. ckpt # None
  BY LedgerBounds
<1>2. CASE ~SameHead(ckpt, own)
  BY <1>1, <1>2 DEF Attest
<1>3. CASE SameHead(ckpt, own) /\ Signer(m) = None
  BY <1>1, <1>3 DEF Attest
<1>4. CASE SameHead(ckpt, own) /\ Signer(m) # None
  <2>1. Attest(m, ckpt) = Signed(ckpt, Signer(m))
    BY <1>1, <1>4 DEF Attest
  <2>2. Signer(m) = files[m] /\ files[m].cert.pub = files[m].key
    BY <1>4 DEF Signer, LoadNodeSigner
  <2>3. Owns(files, m, files[m].cert)
    BY <1>4 DEF Owns, Signer
  <2>4. ckpt.height = head[m] /\ ckpt.digest = Digest(m, head[m])
    BY <1>4 DEF SameHead, OwnCheckpoint
  <2>5. ckpt.digest = <<ckpt.height, ckpt.height > StartHeight /\ m \in forked>>
    BY <2>4, Zenon DEF Digest
  <2>6. head[m] >= ckpt.height
    BY <2>4 DEF Checkpoint
  <2>7. PassedThrough(forked, head, m, ckpt)
    BY <2>5, <2>6, Zenon DEF PassedThrough
  <2> QED
    BY <2>1, <2>2, <2>3, <2>7
<1> QED
  BY <1>2, <1>3, <1>4

\* collectDigest: one member is taken off the list and signs or is named.
LEMMA MemberAnswers ==
  ASSUME LInv, collector.pc = "collecting", collector.todo # <<>>,
         NEW m, m = Head(collector.todo), NEW c, c = [collector EXCEPT !.todo = Tail(@)],
         NEW r,
         \/ r = Answered(c, m, Attest(m, c.ckpt))
         \/ r = [c EXCEPT !.warned = @ \cup {m}]
  PROVE  Shape(r) /\ Collecting(files, forked, head, r)
<1> DEFINE old == collector
<1>1. /\ Shape(old) /\ World
      /\ old.by \in Node /\ old.todo \in Seq(old.members) /\ old.ckpt \in Checkpoint
      /\ Listed(old.certs) /\ Vouched(files, forked, head, old.certs, old.ckpt)
      /\ old.sigs = SignaturesOf(old.certs, old.ckpt)
      /\ Accounted(files, old)
  BY DEF LInv, Collecting
<1>2. /\ m \in old.members /\ m \in Node /\ Tail(old.todo) \in Seq(old.members)
      /\ \A i \in DOMAIN old.todo :
           old.todo[i] = m \/ \E j \in DOMAIN Tail(old.todo) : Tail(old.todo)[j] = old.todo[i]
  <2>1. old.todo \in Seq(old.members) /\ old.todo # <<>> /\ old.members \subseteq Node
    BY <1>1 DEF Shape
  <2>2. m \in old.members /\ Tail(old.todo) \in Seq(old.members)
    <3> DEFINE S == old.members
               t == old.todo
    <3>1. t \in Seq(S) /\ t # <<>> /\ m = Head(t)
      BY <2>1
    <3> HIDE DEF S, t
    <3>2. Head(t) \in S /\ Tail(t) \in Seq(S)
      BY <3>1
    <3> QED BY <3>1, <3>2 DEF S, t
  <2>3. ASSUME NEW i \in DOMAIN old.todo
        PROVE  old.todo[i] = m \/ \E j \in DOMAIN Tail(old.todo) : Tail(old.todo)[j] = old.todo[i]
    <3>1. i = 1 \/ (i - 1 \in DOMAIN Tail(old.todo) /\ Tail(old.todo)[i - 1] = old.todo[i])
      BY <2>1
    <3> QED BY <2>1, <3>1
  <2> QED BY <2>1, <2>2, <2>3
<1>3. c = [pc |-> "collecting", by |-> old.by, attempt |-> old.attempt, ckpt |-> old.ckpt,
           members |-> old.members, todo |-> Tail(old.todo), diverged |-> old.diverged,
           sigs |-> old.sigs, certs |-> old.certs, warned |-> old.warned]
  BY <1>1, Zenon DEF Shape
<1>4. Shape(c)
  BY <1>1, <1>3, Zenon DEF Shape
<1>5. \A p \in c.members : \/ p = m
                           \/ \E j \in DOMAIN c.todo : c.todo[j] = p
                           \/ p \in c.warned
                           \/ Certified(files, p, c.certs)
  BY <1>1, <1>2, <1>3 DEF Accounted
<1>6. ASSUME NEW div, r = [c EXCEPT !.diverged = div, !.warned = @ \cup {m}]
      PROVE  Shape(r) /\ Collecting(files, forked, head, r)
  <2>1. r = [pc |-> "collecting", by |-> old.by, attempt |-> old.attempt, ckpt |-> old.ckpt,
             members |-> old.members, todo |-> Tail(old.todo), diverged |-> div,
             sigs |-> old.sigs, certs |-> old.certs, warned |-> old.warned \cup {m}]
    BY <1>3, <1>6, Zenon
  <2>2. Shape(r)
    BY <1>1, <1>2, <2>1 DEF Shape
  <2>3. Accounted(files, r)
    BY <1>3, <1>5, <2>1 DEF Accounted
  <2> QED
    BY <1>1, <1>2, <2>1, <2>2, <2>3, SMTT(30) DEF Collecting
<1>7. CASE r = [c EXCEPT !.warned = @ \cup {m}]
  <2>1. r = [c EXCEPT !.diverged = c.diverged, !.warned = @ \cup {m}]
    BY <1>3, <1>7, Zenon
  <2> QED
    BY <1>6, <2>1, Zenon
<1>8. ASSUME NEW own, Attest(m, c.ckpt) = Unsigned(own), r = Answered(c, m, Attest(m, c.ckpt))
      PROVE  Shape(r) /\ Collecting(files, forked, head, r)
  <2>1. ~Unsigned(own).signed
    BY DEF Unsigned
  <2>2. r = [c EXCEPT !.diverged = @ \/ ~SameHead(Unsigned(own).ckpt, c.ckpt),
                      !.warned = @ \cup {m}]
    BY <1>8, <2>1, Zenon DEF Answered
  <2>3. r = [c EXCEPT !.diverged = (c.diverged \/ ~SameHead(Unsigned(own).ckpt, c.ckpt)),
                      !.warned = @ \cup {m}]
    BY <2>2, Zenon
  <2> QED
    BY <1>6, <2>3, Zenon
<1>9. ASSUME Attest(m, c.ckpt) = Signed(c.ckpt, files[m]),
             Owns(files, m, files[m].cert), files[m].cert.pub = files[m].key,
             PassedThrough(forked, head, m, c.ckpt),
             r = Answered(c, m, Attest(m, c.ckpt))
      PROVE  Shape(r) /\ Collecting(files, forked, head, r)
  <2> DEFINE cert == files[m].cert
             d == Signed(c.ckpt, files[m])
             sigs == WithSignature(old.sigs, cert, old.ckpt)
  <2>1. /\ d.signed /\ d.id = cert.id /\ d.cert = cert
        /\ d.sig = Signature(cert.pub, signMessage(c.ckpt, cert.id))
    BY <1>9, SMTT(60) DEF Signed, SignCheckpoint
  <2>2. r = Answered(c, m, d)
    BY <1>9
  <2> HIDE DEF d, cert
  <2>3. r = [c EXCEPT !.sigs = [id \in DOMAIN c.sigs \cup {d.id} |->
                                  IF id = d.id THEN d.sig ELSE c.sigs[id]],
                      !.certs = Append(c.certs, d.cert)]
    BY <2>1, <2>2, Zenon DEF Answered
  <2>4. c.sigs = old.sigs /\ c.certs = old.certs /\ c.ckpt = old.ckpt
    BY <1>3
  <2>5. r = [c EXCEPT !.sigs = sigs, !.certs = Append(old.certs, cert)]
    <3>1. [id \in DOMAIN c.sigs \cup {d.id} |-> IF id = d.id THEN d.sig ELSE c.sigs[id]] = sigs
      BY <2>1, <2>4 DEF WithSignature
    <3> HIDE DEF sigs
    <3> QED BY <2>1, <2>3, <2>4, <3>1, Zenon
  <2> HIDE DEF sigs
  <2>6. r = [pc |-> "collecting", by |-> old.by, attempt |-> old.attempt, ckpt |-> old.ckpt,
             members |-> old.members, todo |-> Tail(old.todo), diverged |-> old.diverged,
             sigs |-> sigs, certs |-> Append(old.certs, cert), warned |-> old.warned]
    BY <1>3, <2>5, Zenon
  <2>7. Shape(r)
    BY <1>1, <2>6, SMTT(60) DEF Shape
  <2>8. cert \in AllCerts
    BY <1>1, <1>2, SMTT(60) DEF AllCerts, World, cert
  <2>9. old.certs \in Seq(AllCerts)
    BY <1>1 DEF Listed
  <2>10. Listed(r.certs) /\ r.sigs = SignaturesOf(r.certs, r.ckpt)
    <3>1. /\ Listed(Append(old.certs, cert))
          /\ SignaturesOf(Append(old.certs, cert), old.ckpt) = sigs
      BY <1>1, <2>8, SignatureAdded, SMTT(60) DEF sigs
    <3> QED BY <2>6, <3>1, SMTT(60)
  <2>11. /\ DOMAIN r.certs = 1..(Len(old.certs) + 1) /\ DOMAIN old.certs = 1..Len(old.certs)
         /\ Len(old.certs) \in Nat
         /\ r.certs[Len(old.certs) + 1] = cert
         /\ \A i \in DOMAIN old.certs : r.certs[i] = old.certs[i]
    BY <2>6, <2>8, <2>9
  <2>12. Vouched(files, forked, head, r.certs, r.ckpt)
    <3>1. r.ckpt = old.ckpt
      BY <2>6, ZenonT(60)
    <3>2. Owns(files, m, cert) /\ PassedThrough(forked, head, m, old.ckpt)
      BY <1>9, <2>4 DEF cert
    <3>3. \A i \in DOMAIN r.certs : i \in DOMAIN old.certs \/ i = Len(old.certs) + 1
      BY <2>11
    <3> QED
      BY <1>1, <1>2, <2>11, <3>1, <3>2, <3>3, Zenon DEF Vouched
  <2>13. Accounted(files, r)
    <3>1. Certified(files, m, r.certs)
      <4>1. Len(old.certs) + 1 \in DOMAIN r.certs
        BY <2>11
      <4>2. Owns(files, m, r.certs[Len(old.certs) + 1])
        BY <1>9, <2>11, Zenon DEF cert
      <4> QED BY <4>1, <4>2 DEF Certified
    <3>2. \A p : Certified(files, p, old.certs) => Certified(files, p, r.certs)
      BY <2>11 DEF Certified
    <3> QED
      BY <1>3, <1>5, <2>6, <3>1, <3>2, ZenonT(60) DEF Accounted
  <2> QED
    BY <1>1, <1>2, <2>6, <2>7, <2>10, <2>12, <2>13, ZenonT(60) DEF Collecting
<1>10. c.ckpt \in Checkpoint
  BY <1>1, <1>3
<1> QED
  BY <1>1, <1>2, <1>7, <1>8, <1>9, <1>10, AttestCases, Zenon

\* ledgerMaterials, at its end: what was collected is what is handed out.
LEMMA HandsOut ==
  ASSUME LInv, Aggregate
  PROVE  \A x \in made' : HandedOut(files, forked, head, x)
<1> DEFINE c == collector
           qc == IF DOMAIN c.sigs = {} THEN None ELSE BuildQuorumCertificate(c.ckpt, c.sigs)
           new == [members |-> c.members, warned |-> c.warned, ckpt |-> c.ckpt,
                   certs |-> c.certs, caPub |-> pinned, qc |-> qc]
<1>1. /\ Shape(c) /\ c.todo = <<>>
      /\ c.ckpt \in Checkpoint /\ Listed(c.certs)
      /\ Vouched(files, forked, head, c.certs, c.ckpt)
      /\ c.sigs = SignaturesOf(c.certs, c.ckpt) /\ Accounted(files, c)
  BY SMTT(60) DEF LInv, Collecting, Aggregate
<1>2. made' = made \cup {new}
  BY SMTT(60) DEF Aggregate
<1>3. \A m \in c.members : m \in c.warned \/ Certified(files, m, c.certs)
  BY <1>1 DEF Accounted
<1>4. qc # None => c.certs # <<>> /\ qc = BuildQuorumCertificate(c.ckpt, c.sigs)
  <2>1. DOMAIN c.sigs = Ids(c.certs)
    BY <1>1 DEF SignaturesOf
  <2>2. c.certs = <<>> => Ids(c.certs) = {}
    BY DEF Ids
  <2> QED
    BY <2>1, <2>2
<1> HIDE DEF qc
<1>5. HandedOut(files, forked, head, new)
  BY <1>1, <1>3, <1>4 DEF HandedOut, Shape
<1> QED
  BY <1>2, <1>5, SMTT(60) DEF LInv

LEMMA IdleShape == Shape(Idle) /\ Idle.pc = "idle"
<1>1. /\ Idle.pc = "idle" /\ Idle.attempt = 0 /\ Idle.members = {} /\ Idle.warned = {}
      /\ Idle = [pc |-> Idle.pc, by |-> Idle.by, attempt |-> Idle.attempt,
                 ckpt |-> Idle.ckpt, members |-> Idle.members, todo |-> Idle.todo,
                 diverged |-> Idle.diverged, sigs |-> Idle.sigs, certs |-> Idle.certs,
                 warned |-> Idle.warned]
  BY Zenon DEF Idle
<1> QED BY <1>1, SMTT(60) DEF Shape

\* A started cluster has handed nothing out and collects nothing.
LEMMA LedgerStarts == LedgerInit => LInv
<1> SUFFICES ASSUME LedgerInit PROVE LInv
  OBVIOUS
<1>1. World
  BY LedgerBounds DEF LedgerInit, World
<1>2. Shape(Idle) /\ Idle.pc = "idle"
  BY IdleShape
<1>3. Collecting(files, forked, head, Idle)
  BY <1>2 DEF Collecting
<1> QED
  BY <1>1, <1>2, <1>3 DEF LInv, LedgerInit

\* Whatever moves while a collection is under way.
LEMMA LedgerStep == LInv /\ [LedgerNext]_lvars => LInv'
<1> SUFFICES ASSUME LInv, [LedgerNext]_lvars PROVE LInv'
  OBVIOUS
<1>1. /\ World /\ Shape(collector) /\ Collecting(files, forked, head, collector)
      /\ \A x \in made : HandedOut(files, forked, head, x)
  BY DEF LInv
<1>2. ASSUME UNCHANGED <<files, forked, head, made>>, World',
             Shape(collector'), Collecting(files, forked, head, collector')
      PROVE  LInv'
  BY <1>1, <1>2 DEF LInv
<1>3. CASE ledgerMaterials
  <2>1. PICK by \in Coordinators, servers \in Configurations :
          collector' = Stamped(by, 1, servers)
    BY <1>3 DEF ledgerMaterials
  <2>2. by \in Node /\ 1 \in 1..2
    BY LedgerBounds
  <2>3. Shape(collector') /\ Collecting(files, forked, head, collector')
    BY <1>1, <2>1, <2>2, PassBegins
  <2> QED
    BY <1>1, <1>2, <1>3, <2>3 DEF ledgerMaterials, World
<1>4. CASE collectDigest
  <2> DEFINE m == Head(collector.todo)
             c == [collector EXCEPT !.todo = Tail(@)]
  <2>1. \/ collector' = Answered(c, m, Attest(m, c.ckpt))
        \/ collector' = [c EXCEPT !.warned = @ \cup {m}]
    BY <1>4 DEF collectDigest
  <2>2. collector.pc = "collecting" /\ collector.todo # <<>>
    BY <1>4 DEF collectDigest
  <2>3. Shape(collector') /\ Collecting(files, forked, head, collector')
    BY <2>1, <2>2, MemberAnswers, Zenon
  <2> QED
    BY <1>1, <1>2, <1>4, <2>3 DEF collectDigest, World
<1>5. CASE SecondPass
  <2>1. PICK servers \in Configurations : collector' = Stamped(collector.by, 2, servers)
    BY <1>5, SMTT(60) DEF SecondPass
  <2>2. collector.by \in Node /\ 2 \in 1..2
    BY <1>1, <1>5 DEF SecondPass, Collecting
  <2>3. Shape(collector') /\ Collecting(files, forked, head, collector')
    BY <1>1, <2>1, <2>2, PassBegins
  <2> QED
    BY <1>1, <1>2, <1>5, <2>3, SMTT(60) DEF SecondPass, World
<1>6. CASE Aggregate
  <2>1. \A x \in made' : HandedOut(files, forked, head, x)
    BY <1>6, HandsOut
  <2>2. Shape(Idle) /\ Idle.pc = "idle"
    BY IdleShape
  <2>3. Collecting(files, forked, head, Idle)
    BY <2>2 DEF Collecting
  <2>4. /\ UNCHANGED <<files, forked, head, clock, pinned>>
        /\ collector' = Idle
    BY <1>6 DEF Aggregate
  <2>5. World'
    BY <1>1, <2>4 DEF World
  <2> QED
    BY <2>1, <2>2, <2>3, <2>4, <2>5 DEF LInv
<1>7. ASSUME NEW ca \in CAs, pinLedgerCAPub(ca) PROVE LInv'
  <2>1. World'
    BY <1>1, <1>7, SMTT(60) DEF pinLedgerCAPub, World
  <2> QED
    BY <1>1, <1>2, <1>7, <2>1, SMTT(60) DEF pinLedgerCAPub
<1>8. ASSUME NEW n \in Node, AdvanceHead(n) PROVE LInv'
  <2>1. World'
    BY <1>1, <1>8, LedgerBounds, SMTT(60) DEF AdvanceHead, World
  <2>2. head \in [Node -> Nat] /\ head' \in [Node -> Nat] /\ \A p \in Node : head'[p] >= head[p]
    BY <1>1, <1>8, <2>1, LedgerBounds DEF AdvanceHead, World
  <2>3. UNCHANGED <<files, forked, collector, made>>
    BY <1>8 DEF AdvanceHead
  <2> QED
    BY <1>1, <2>1, <2>2, <2>3, HeadsGrow, SMTT(60) DEF LInv
<1>9. CASE LedgerTick
  <2>1. World'
    BY <1>1, <1>9, LedgerBounds DEF LedgerTick, World
  <2> QED
    BY <1>1, <1>2, <1>9, <2>1, SMTT(60) DEF LedgerTick
<1>10. CASE UNCHANGED lvars
  BY <1>1, <1>2, <1>10, Zenon DEF lvars, World
<1> QED
  BY <1>3, <1>4, <1>5, <1>6, <1>7, <1>8, <1>9, <1>10, Zenon DEF LedgerNext

\* The invariant holds of every behaviour of the ledger.
LEMMA LedgerSafe == LedgerSpec => []LInv
  BY LedgerStarts, LedgerStep, PTL DEF LedgerSpec

-----------------------------------------------------------------------------
(***************************************************************************)
(* What follows from it.                                                    *)
(***************************************************************************)
\* A certificate that was handed out, in terms of the certificates beside it.
Backed(f, k, h, x) ==
  /\ x.qc.ckpt = x.ckpt /\ x.ckpt \in Checkpoint
  /\ IsFiniteSet(Ids(x.certs)) /\ Ids(x.certs) # {}
  /\ x.qc.signers \in Seq(Ids(x.certs))
  /\ Range(x.qc.signers) = Ids(x.certs)
  /\ Len(x.qc.signers) = Cardinality(Ids(x.certs))
  /\ x.qc.agg = Aggregated(x.certs, x.ckpt)
  /\ \A id \in Ids(x.certs) : \E n \in Node :
       /\ Owns(f, n, CertBundle(x.certs)[id]) /\ CertBundle(x.certs)[id].id = id
       /\ PassedThrough(k, h, n, x.ckpt)
       /\ \E i \in DOMAIN x.certs : CertBundle(x.certs)[id] = x.certs[i]

\* BuildQuorumCertificate lists each signer once and aggregates its signature.
LEMMA CertificateShape ==
  ASSUME NEW f, NEW k, NEW h, NEW x, HandedOut(f, k, h, x), x.qc # None
  PROVE  Backed(f, k, h, x)
<1> DEFINE certs == x.certs
           sigs == SignaturesOf(certs, x.ckpt)
<1>1. /\ Listed(certs) /\ certs # <<>> /\ x.ckpt \in Checkpoint
      /\ Vouched(f, k, h, certs, x.ckpt)
      /\ x.qc = BuildQuorumCertificate(x.ckpt, sigs)
  BY DEF HandedOut
<1>2. /\ DOMAIN sigs = Ids(certs)
      /\ \A id \in Ids(certs) :
           sigs[id] = Signature(CertBundle(certs)[id].pub, signMessage(x.ckpt, id))
  BY SMTT(60) DEF SignaturesOf
<1>3. certs \in Seq(AllCerts) /\ IsFiniteSet(Ids(certs))
  BY <1>1 DEF Listed
<1>4. Ids(certs) # {}
  <2>1. 1 \in DOMAIN certs
    BY <1>1, <1>3, SMTT(60)
  <2> QED
    BY <2>1, Zenon DEF Ids
<1>5. \A id \in Ids(certs) : \E i \in DOMAIN certs :
        CertBundle(certs)[id] = certs[i] /\ certs[i].id = id
  <2>1. ASSUME NEW id \in Ids(certs)
        PROVE  \E i \in DOMAIN certs : CertBundle(certs)[id] = certs[i] /\ certs[i].id = id
    <3>1. PICK i \in DOMAIN certs : LastOf(certs, id, i)
      BY <1>1 DEF Listed
    <3>2. certs[i].id = id
      BY <3>1, SMTT(60) DEF LastOf
    <3> HIDE DEF certs
    <3> QED
      BY <1>3, <3>1, <3>2, LastStays, SMTT(60)
  <2> QED
    BY <2>1, SMTT(60)
<1> HIDE DEF certs, sigs
<1>6. /\ x.qc.ckpt = x.ckpt /\ x.qc.signers = Listing(DOMAIN sigs)
      /\ x.qc.agg = {sigs[id] : id \in DOMAIN sigs}
  BY <1>1, SMTT(60) DEF BuildQuorumCertificate
<1>7. x.qc.agg = Aggregated(certs, x.ckpt)
  BY <1>2, <1>6, SMTT(60) DEF Aggregated
<1>8. \A id \in Ids(certs) : \E n \in Node :
        /\ Owns(f, n, CertBundle(certs)[id]) /\ CertBundle(certs)[id].id = id
        /\ PassedThrough(k, h, n, x.ckpt)
        /\ \E i \in DOMAIN certs : CertBundle(certs)[id] = certs[i]
  BY <1>1, <1>5 DEF Vouched
<1>9. /\ Listing(Ids(certs)) \in Seq(Ids(certs))
      /\ Len(Listing(Ids(certs))) = Cardinality(Ids(certs))
      /\ Range(Listing(Ids(certs))) = Ids(certs)
  BY <1>3, SignersListed
<1> QED
  BY <1>1, <1>2, <1>3, <1>4, <1>6, <1>7, <1>8, <1>9, ZenonT(60) DEF certs, Backed

\* The state of the ledger keeps its types.
THEOREM LedgerTypeCorrect == LedgerSpec => []LedgerTypeOK
<1>1. LInv => LedgerTypeOK
  BY SMTT(60) DEF LInv, LedgerTypeOK, World, Shape, HandedOut
<1> QED
  BY <1>1, LedgerSafe, PTL

\* ledger_service.go, Attest: in every certificate each signature is by a node
\* whose own chain has passed through the certified digest, however the heads
\* moved during the collection.
THEOREM AttestsOwnHeadHolds == LedgerSpec => []AttestsOwnHead
<1>1. LInv => AttestsOwnHead
  <2> SUFFICES ASSUME LInv, NEW x \in made, x.qc # None, NEW s \in x.qc.agg
               PROVE  \E n \in Node :
                        /\ Signer(n) # None /\ Signer(n).key = s.key
                        /\ head[n] >= x.qc.ckpt.height
                        /\ Digest(n, x.qc.ckpt.height) = x.qc.ckpt.digest
    BY DEF AttestsOwnHead, Certificates
  <2>1. Backed(files, forked, head, x)
    <3>1. HandedOut(files, forked, head, x)
      BY Zenon DEF LInv
    <3> QED BY <3>1, CertificateShape, Zenon
  <2>2. PICK id \in Ids(x.certs) :
          s = Signature(CertBundle(x.certs)[id].pub, signMessage(x.ckpt, id))
    BY <2>1, Zenon DEF Aggregated, Backed
  <2>3. PICK n \in Node : /\ Owns(files, n, CertBundle(x.certs)[id])
                          /\ PassedThrough(forked, head, n, x.ckpt)
    BY <2>1, ZenonT(60) DEF Backed
  <2>4. /\ Signer(n) # None /\ Signer(n) = files[n]
        /\ files[n].key = CertBundle(x.certs)[id].pub
    BY <2>3, SMTT(60) DEF Owns, Signer, LoadNodeSigner
  <2>5. s.key = CertBundle(x.certs)[id].pub
    BY <2>2 DEF Signature
  <2>6. x.qc.ckpt = x.ckpt
    BY <2>1, Zenon DEF Backed
  <2>7. head[n] >= x.ckpt.height /\ Digest(n, x.ckpt.height) = x.ckpt.digest
    BY <2>3, Zenon DEF PassedThrough, Digest
  <2> QED
    BY <2>4, <2>5, <2>6, <2>7, SMTT(60)
<1> QED
  BY <1>1, LedgerSafe, PTL

\* console/ledger.go, ledgerMaterials: certificate and node certificates that are
\* handed out together verify together.
THEOREM MaterialsVerifyHolds == LedgerSpec => []MaterialsVerify
<1>1. LInv => MaterialsVerify
  <2> SUFFICES ASSUME LInv, NEW x \in made, x.qc # None, NEW ca \in CAs,
                      \A i \in DOMAIN x.certs : CertVerifies(ca, x.certs[i], clock)
               PROVE  ledgerVerify(ca, x.qc, x.certs, 0, clock)
    BY DEF MaterialsVerify, Certificates
  <2> DEFINE bundle == CertBundle(x.certs)
             ids == Ids(x.certs)
             qc == x.qc
  <2>1. Backed(files, forked, head, x)
    <3>1. HandedOut(files, forked, head, x)
      BY Zenon DEF LInv
    <3> QED BY <3>1, CertificateShape, Zenon
  <2>2. /\ qc.ckpt = x.ckpt /\ IsFiniteSet(ids) /\ ids # {} /\ qc.signers \in Seq(ids)
        /\ Range(qc.signers) = ids /\ Len(qc.signers) = Cardinality(ids)
        /\ qc.agg = Aggregated(x.certs, x.ckpt)
        /\ \A id \in ids : \E i \in DOMAIN x.certs : bundle[id] = x.certs[i]
    BY <2>1, Zenon DEF Backed
  <2>3. DOMAIN bundle = ids
    BY DEF CertBundle, Ids
  <2> HIDE DEF bundle, ids, qc
  <2>4. qc.signers # <<>>
    <3>1. qc.signers = <<>> => Range(qc.signers) = {}
      BY SMTT(60) DEF Range
    <3> QED BY <2>2, <3>1, SMTT(60)
  <2>5. Len(qc.signers) \in Nat
    BY <2>2, SMTT(60)
  <2>6. \A id \in ids : CertVerifies(ca, bundle[id], clock)
    BY <2>2, SMTT(60)
  <2>7. VerifyAggregate(bundle, qc)
    BY <2>2, ZenonT(60) DEF VerifyAggregate, Aggregated, bundle, ids
  <2>8. VerifyQuorum(ca, qc, bundle, Len(qc.signers), clock)
    BY <2>2, <2>3, <2>4, <2>5, <2>6, <2>7, SMTT(60) DEF VerifyQuorum
  <2> QED
    BY <2>8 DEF ledgerVerify, bundle, qc
<1> QED
  BY <1>1, LedgerSafe, PTL

\* console/ledger.go, ledgerMaterials: a member has signed or is in the warnings.
THEOREM NoSilentAbsenceHolds == LedgerSpec => []NoSilentAbsence
<1>1. LInv => NoSilentAbsence
  <2> SUFFICES ASSUME LInv, NEW x \in made, NEW m \in x.members, m \notin x.warned
               PROVE  /\ Signer(m) # None
                      /\ \E i \in DOMAIN x.certs : x.certs[i] = Signer(m).cert
    BY SMTT(60) DEF NoSilentAbsence
  <2>1. Certified(files, m, x.certs)
    BY Zenon DEF LInv, HandedOut
  <2>2. PICK i \in DOMAIN x.certs : Owns(files, m, x.certs[i])
    BY <2>1, SMTT(60) DEF Certified
  <2>3. Signer(m) # None /\ Signer(m) = files[m] /\ x.certs[i] = files[m].cert
    BY <2>2 DEF Owns, Signer, LoadNodeSigner
  <2> QED
    BY <2>3
<1> QED
  BY <1>1, LedgerSafe, PTL

\* The nodes behind a certificate with k signers are at least k: a node has one
\* certificate, and that names one id.
LEMMA SignersAreNodes ==
  ASSUME NEW f, NEW k, NEW h, NEW x, HandedOut(f, k, h, x), x.qc # None
  PROVE  /\ IsFiniteSet({n \in Node : PassedThrough(k, h, n, x.ckpt)})
         /\ Len(x.qc.signers) \in Nat
         /\ Len(x.qc.signers) <= Cardinality({n \in Node : PassedThrough(k, h, n, x.ckpt)})
<1> DEFINE ids == Ids(x.certs)
           witnesses == {n \in Node : PassedThrough(k, h, n, x.ckpt)}
           Of(id, n) == Owns(f, n, CertBundle(x.certs)[id]) /\ CertBundle(x.certs)[id].id = id
           owner == [id \in ids |-> CHOOSE n \in witnesses : Of(id, n)]
<1>0. Backed(f, k, h, x)
  BY CertificateShape, Zenon
<1>1. IsFiniteSet(ids) /\ Len(x.qc.signers) = Cardinality(ids)
  BY <1>0, Zenon DEF Backed
<1>2. \A id \in ids : \E n \in witnesses : Of(id, n)
  <2>1. ASSUME NEW id \in ids PROVE \E n \in witnesses : Of(id, n)
    <3>1. \E n \in Node : /\ Owns(f, n, CertBundle(x.certs)[id]) /\ CertBundle(x.certs)[id].id = id
                          /\ PassedThrough(k, h, n, x.ckpt)
      BY <1>0, ZenonT(60) DEF Backed
    <3> QED BY <3>1
  <2> QED BY <2>1, ZenonT(60)
<1>3. \A id \in ids : owner[id] \in witnesses /\ Of(id, owner[id])
  BY <1>2, SMTT(60)
<1>4. \A id \in ids : \A n : Of(id, n) => f[n].cert.id = id
  BY DEF Owns
<1>5. IsFiniteSet(witnesses)
  BY LedgerBounds, FS_Subset, ZenonT(60)
<1> DEFINE own == owner
<1>6. own \in [ids -> witnesses]
  BY <1>3, SMTT(60)
<1>7. \A a, b \in ids : own[a] = own[b] => a = b
  <2>1. \A id \in ids : f[own[id]].cert.id = id
    BY <1>3, <1>4, ZenonT(60)
  <2> HIDE DEF own
  <2> QED BY <2>1, Zenon
<1> HIDE DEF ids, witnesses, own
<1>8. own \in Injection(ids, witnesses)
  BY <1>6, <1>7, Zenon DEF Injection, IsInjective
<1>9. Cardinality(ids) <= Cardinality(witnesses)
  BY <1>5, <1>8, FS_Injection
<1>10. Cardinality(ids) \in Nat
  BY <1>1, FS_CardinalityType
<1> QED
  BY <1>1, <1>5, <1>9, <1>10, Zenon DEF witnesses

\* checkpoint.go: two certificates for one height that verify at the majority
\* threshold name one digest, whatever node signs under whatever id, and however
\* many nodes' chains have left the others'.
THEOREM CertificatesAgreeHolds == LedgerSpec => []CertificatesAgree
<1>1. LInv => CertificatesAgree
  <2> SUFFICES ASSUME LInv, NEW x \in made, NEW y \in made, x.qc # None, y.qc # None,
                      NEW ca \in CAs, NEW cb \in CAs,
                      ledgerVerify(ca, x.qc, x.certs, Majority, 0),
                      ledgerVerify(cb, y.qc, y.certs, Majority, 0),
                      x.qc.ckpt.height = y.qc.ckpt.height
               PROVE  x.qc.ckpt.digest = y.qc.ckpt.digest
    BY DEF CertificatesAgree, Certificates
  <2> DEFINE W(z) == {n \in Node : PassedThrough(forked, head, n, z.ckpt)}
  <2>1. HandedOut(files, forked, head, x) /\ HandedOut(files, forked, head, y)
    BY DEF LInv
  <2>2. Cardinality(Node) \in Nat
    BY LedgerBounds, FS_CardinalityType, Zenon
  <2>3. Majority \in Nat \ {0} /\ 2 * Majority > Cardinality(Node)
    BY <2>2, SMTT(60) DEF Majority
  <2>4. Len(x.qc.signers) >= Majority /\ Len(y.qc.signers) >= Majority
    BY <2>3 DEF ledgerVerify, VerifyQuorum
  <2>5. /\ IsFiniteSet(W(x)) /\ Len(x.qc.signers) \in Nat
        /\ Len(x.qc.signers) <= Cardinality(W(x))
    BY <2>1, SignersAreNodes, Zenon
  <2>6. /\ IsFiniteSet(W(y)) /\ Len(y.qc.signers) \in Nat
        /\ Len(y.qc.signers) <= Cardinality(W(y))
    BY <2>1, SignersAreNodes, ZenonT(60)
  <2>7. Cardinality(W(x)) \in Nat /\ Cardinality(W(y)) \in Nat
    BY <2>5, <2>6, FS_CardinalityType
  <2>8. W(x) \subseteq Node /\ W(y) \subseteq Node
    BY Zenon
  <2> HIDE DEF W
  <2>9. Cardinality(W(x)) + Cardinality(W(y)) > Cardinality(Node)
    BY <2>2, <2>3, <2>4, <2>5, <2>6, <2>7, SMTT(60)
  <2>10. PICK n : n \in W(x) /\ n \in W(y)
    BY <2>8, <2>9, LedgerBounds, FS_MajoritiesIntersect
  <2>11. x.qc.ckpt = x.ckpt /\ y.qc.ckpt = y.ckpt
    <3>1. Backed(files, forked, head, x) /\ Backed(files, forked, head, y)
      BY <2>1, CertificateShape, ZenonT(60)
    <3> QED BY <3>1, Zenon DEF Backed
  <2>12. x.ckpt.height = y.ckpt.height
    BY <2>11
  <2>13. x.ckpt.digest = y.ckpt.digest
    BY <2>10, <2>12, Zenon DEF W, PassedThrough
  <2> QED
    BY <2>11, <2>13, Zenon
<1> QED
  BY <1>1, LedgerSafe, PTL

-----------------------------------------------------------------------------
(***************************************************************************)
(* Dumps verified against a certificate.  The node that is dumped goes on   *)
(* applying entries, the heads and the clock move, the file may lose its    *)
(* tail; what the job compares was written once, and never again.           *)
(***************************************************************************)
\* What a dump captured: the head record may be one entry ahead of the data.
Captured(c) ==
  /\ c.head = [height |-> c.head.height, digest |-> c.head.digest]
  /\ c.head.height \in Nat /\ c.data \in Nat /\ c.data >= c.head.height - 1

\* The one dump of a behaviour, and what it captured when it was begun.
Dumped ==
  /\ file = [password |-> file.password, frames |-> file.frames, content |-> file.content]
  /\ server = [pc |-> server.pc, sent |-> server.sent]
  /\ writer # Absent => server.pc # "idle"
  /\ file.content # Absent => /\ outcome # Absent \/ server.pc # "idle"
                              /\ Captured(file.content)

JobShape(j) ==
  j = [state |-> j.state, progress |-> j.progress, materials |-> j.materials,
       password |-> j.password, threshold |-> j.threshold, verified |-> j.verified,
       parts |-> j.parts]

\* How far the job has got, and what it has established on the way.
Established(j, certified, c) ==
  /\ j.state # "none" => j.materials \in certified /\ c # Absent
  /\ j.progress = 5 \/ j.verified =>
       /\ j.state # "none"
       /\ j.threshold = Majority => Len(j.materials.qc.signers) >= Majority
  /\ j.verified /\ j.materials.qc.ckpt.height > 0 =>
       HeadPart \in Range(j.parts) /\
       c.head = [height |-> j.materials.qc.ckpt.height, digest |-> j.materials.qc.ckpt.digest]

DataInStep == data \in Nat /\ data >= head[Source] - 1

AuditInv ==
  /\ LInv /\ DataInStep
  /\ duty # "verify" => job = NoJob
  /\ duty = "verify" => /\ Dumped /\ JobShape(job)
                        /\ Established(job, Certificates, file.content)

\* Whatever the dumps and the jobs do, the ledger takes its own steps.
LEMMA AuditIsLedger == [AuditNext]_avars => [LedgerNext]_lvars
<1> SUFFICES ASSUME [AuditNext]_avars PROVE [LedgerNext]_lvars
  OBVIOUS
<1>1. CASE ClusterNext
  <2>1. CASE Collect
    BY <2>1, Zenon DEF Collect, LedgerNext
  <2>2. CASE Execute
    BY <2>2, Zenon DEF Execute
  <2>3. CASE \E n \in Node : ApplyOn(n)
    BY <2>3, Zenon DEF ApplyOn, LedgerNext
  <2> QED BY <1>1, <2>1, <2>2, <2>3, Zenon DEF ClusterNext
<1>2. CASE UNCHANGED lvars
  BY <1>2, Zenon
<1> QED
  BY <1>1, <1>2, Zenon DEF AuditNext, avars

\* Only a step of the cluster moves the data or the heads.
LEMMA DataStep == LInv /\ DataInStep /\ [AuditNext]_avars => DataInStep'
<1> SUFFICES ASSUME LInv, DataInStep, [AuditNext]_avars PROVE DataInStep'
  OBVIOUS
<1>1. /\ head \in [Node -> 0..MaxHeight] /\ MaxHeight \in Nat /\ Source \in Node
      /\ data \in Nat /\ data >= head[Source] - 1
  BY LedgerBounds, AuditBounds, Zenon DEF LInv, World, DataInStep
<1>2. head[Source] \in Nat
  BY <1>1
<1>3. CASE UNCHANGED <<head, data>>
  BY <1>1, <1>3, Zenon DEF DataInStep
<1>4. CASE Execute
  <2>1. head' = head /\ data' = data + 1
    BY <1>4, Zenon DEF Execute, lvars
  <2> QED BY <1>1, <1>2, <2>1 DEF DataInStep
<1>5. ASSUME NEW n \in Node, ApplyOn(n) PROVE DataInStep'
  <2>1. data' = data /\ head' = [head EXCEPT ![n] = @ + 1] /\ (n = Source => data = head[Source])
    BY <1>5, Zenon DEF ApplyOn, AdvanceHead
  <2>2. CASE n = Source
    <3>1. head'[Source] = head[Source] + 1
      BY <1>1, <2>1, <2>2, Zenon
    <3> QED BY <1>1, <1>2, <2>1, <2>2, <3>1 DEF DataInStep
  <2>3. CASE n # Source
    <3>1. head'[Source] = head[Source]
      BY <1>1, <2>1, <2>3, Zenon
    <3> QED BY <1>1, <2>1, <3>1, Zenon DEF DataInStep
  <2> QED BY <2>2, <2>3
<1>6. CASE Collect /\ UNCHANGED data
  BY <1>3, <1>6, Zenon DEF Collect, ledgerMaterials, collectDigest, SecondPass, Aggregate,
     LedgerTick, pinLedgerCAPub
<1> QED
  BY <1>3, <1>4, <1>5, <1>6, Zenon DEF AuditNext, ClusterNext, avars, lvars

\* A certificate that has been handed out is not taken back.
LEMMA CertificatesKept == [LedgerNext]_lvars => Certificates \subseteq Certificates'
<1> SUFFICES ASSUME [LedgerNext]_lvars PROVE made \subseteq made'
  BY Zenon DEF Certificates
<1> QED
  BY Zenon DEF LedgerNext, ledgerMaterials, collectDigest, SecondPass, Aggregate, LedgerTick,
     pinLedgerCAPub, AdvanceHead, lvars

\* The store of the dumped node, at any moment.
LEMMA StoreCaptured ==
  ASSUME LInv, DataInStep
  PROVE  Captured(StoreContent)
<1>1. head[Source] \in Nat
  BY LedgerBounds, AuditBounds DEF LInv, World
<1> QED BY <1>1 DEF Captured, StoreContent, DataInStep

\* exportDatabase and OpenBackup begin the one dump of the behaviour; what the stream,
\* its failures and a lost tail do to the file leaves what was captured.
LEMMA DumpStep ==
  ASSUME LInv, DataInStep, Dumped, ExportNext(StoreContent) \/ BackupNext(StoreContent)
  PROVE  /\ Dumped'
         /\ file.content # Absent => file'.content = file.content
<1>1. ASSUME server.pc = "idle", outcome = Absent, NEW p, NEW fr,
             file' = [password |-> p, frames |-> fr, content |-> StoreContent],
             server' = [pc |-> server'.pc, sent |-> server'.sent],
             outcome' # Absent \/ server'.pc # "idle",
             writer' = Absent \/ server'.pc # "idle"
      PROVE  /\ Dumped'
             /\ file.content # Absent => file'.content = file.content
  <2>1. file.content = Absent
    BY <1>1, Zenon DEF Dumped
  <2>2. /\ file'.content = StoreContent
        /\ file' = [password |-> file'.password, frames |-> file'.frames,
                    content |-> file'.content]
    BY <1>1, Zenon
  <2>3. Captured(file'.content)
    BY <2>2, StoreCaptured, Zenon
  <2> QED BY <1>1, <2>1, <2>2, <2>3, Zenon DEF Dumped, Captured
<1>3. ASSUME NEW p \in Passwords, NEW n \in 0..Parts, exportDatabase(p, StoreContent, n)
      PROVE  /\ Dumped'
             /\ file.content # Absent => file'.content = file.content
  <2>1. PICK fr : file' = [password |-> p, frames |-> fr, content |-> StoreContent]
    BY <1>3, Zenon DEF exportDatabase
  <2>2. /\ server.pc = "idle" /\ outcome = Absent /\ server' = server /\ writer' = Absent
        /\ \/ outcome' = [err |-> "none", version |-> 1]
           \/ outcome' = [err |-> "dump", version |-> 0]
    BY <1>3, Zenon DEF exportDatabase
  <2>3. outcome' \in [err : {"none", "call", "write", "sink", "crash", "dump"}, version : 0..1]
    BY <2>2
  <2>4. outcome' # Absent
    BY <2>3, BackupBounds, Zenon
  <2> QED BY <1>1, <2>1, <2>2, <2>4, Zenon DEF Dumped
<1>4. ASSUME NEW p \in Passwords, OpenBackup(p, StoreContent)
      PROVE  /\ Dumped'
             /\ file.content # Absent => file'.content = file.content
  <2>1. /\ server.pc = "idle" /\ outcome = Absent
        /\ file' = [password |-> p, frames |-> <<>>, content |-> StoreContent]
        /\ server' = [NoServer EXCEPT !.pc = "streaming"]
    BY <1>4, Zenon DEF OpenBackup
  <2>2. server' = [pc |-> server'.pc, sent |-> server'.sent] /\ server'.pc # "idle"
    BY <2>1 DEF NoServer
  <2> QED BY <1>1, <2>1, <2>2, Zenon
<1>5. ASSUME NEW p \in Passwords, BackupRefused(p)
      PROVE  /\ Dumped'
             /\ file.content # Absent => file'.content = file.content
  <2>1. /\ server.pc = "idle" /\ outcome = Absent /\ server' = server /\ writer' = Absent
        /\ \E fr : file' = [password |-> p, frames |-> fr, content |-> Absent]
    BY <1>5, Zenon DEF BackupRefused
  <2>2. file.content = Absent
    BY <2>1, Zenon DEF Dumped
  <2>3. /\ file'.content = Absent
        /\ file' = [password |-> file'.password, frames |-> file'.frames,
                    content |-> file'.content]
    BY <2>1
  <2> QED BY <2>1, <2>2, <2>3, Zenon DEF Dumped
\* Behind its begin, a dump gets other frames and an outcome.
<1>6. ASSUME file' = file \/ \E fr : file' = [file EXCEPT !.frames = fr],
             \/ server' = server \/ server' = [server EXCEPT !.pc = "closed"]
             \/ \E k : server' = [server EXCEPT !.sent = k],
             outcome' = outcome \/ writer # Absent, writer' = writer \/ writer # Absent
      PROVE  /\ Dumped'
             /\ file.content # Absent => file'.content = file.content
  <2>1. /\ file' = [password |-> file'.password, frames |-> file'.frames,
                    content |-> file'.content]
        /\ file'.content = file.content
    BY <1>6 DEF Dumped
  <2>2. /\ server' = [pc |-> server'.pc, sent |-> server'.sent]
        /\ server.pc # "idle" => server'.pc # "idle"
    BY <1>6 DEF Dumped
  <2> QED BY <1>6, <2>1, <2>2, Zenon DEF Dumped, Captured
<1>7. CASE \/ StreamDone \/ StreamFails \/ StreamLost \/ ReceiveDone \/ CloseSink \/ BackupCrash
           \/ \E k \in 1..ChunkSize : StreamChunk(k)
  <2>1. /\ file' = file
        /\ outcome' = outcome \/ writer # Absent
        /\ writer' = writer \/ writer # Absent
        /\ \/ server' = server \/ server' = [server EXCEPT !.pc = "closed"]
           \/ \E k : server' = [server EXCEPT !.sent = k]
    BY <1>7, Zenon DEF StreamDone, StreamFails, StreamLost, ReceiveDone, CloseSink, BackupCrash,
         StreamChunk, Copying
  <2> QED BY <1>6, <2>1, Zenon
<1>8. CASE ReceiveChunk \/ WriteFails \/ CloseContainer \/ LoseTail
  <2>1. /\ \E fr : file' = [file EXCEPT !.frames = fr] /\ outcome' = outcome
        /\ server' = server \/ server' = [server EXCEPT !.pc = "closed"]
        /\ writer' = writer \/ writer # Absent
    BY <1>8, Zenon DEF ReceiveChunk, WriteFails, CloseContainer, LoseTail, Copying
  <2> QED BY <1>6, <2>1, Zenon
<1> QED
  BY <1>3, <1>4, <1>5, <1>7, <1>8, Zenon DEF ExportNext, BackupNext

\* VerifyBackup asks for a certificate that meets the threshold before it opens the
\* dump, and compares the head it finds there with the certified one.
LEMMA JobStep ==
  ASSUME LInv, Dumped, JobShape(job), Established(job, Certificates, file.content), VerifyNext
  PROVE  JobShape(job') /\ Established(job', Certificates, file.content)
<1>1. ASSUME NEW x \in Certificates, NEW p, NEW t, StartVerifyBackup(x, p, t)
      PROVE  JobShape(job') /\ Established(job', Certificates, file.content)
  <2>1. /\ job' = [state |-> "running", progress |-> 0, materials |-> x, password |-> p,
                   threshold |-> t, verified |-> FALSE, parts |-> <<>>]
        /\ file.content # Absent
    BY <1>1, Zenon DEF StartVerifyBackup, NoJob
  <2>2. /\ job'.state = "running" /\ job'.progress = 0 /\ job'.materials = x /\ ~job'.verified
        /\ JobShape(job')
    BY <2>1 DEF JobShape
  <2>3. job'.progress # 5
    BY <2>2
  <2> QED BY <2>1, <2>2, <2>3, Zenon DEF Established
<1>2. ASSUME NEW v, NEW q, job.state # "none",
             job' = [state |-> "done", progress |-> 100, materials |-> job.materials,
                     password |-> job.password, threshold |-> job.threshold, verified |-> v,
                     parts |-> q],
             v => /\ job.threshold = Majority => Len(job.materials.qc.signers) >= Majority
                  /\ job.materials.qc.ckpt.height > 0 =>
                       HeadPart \in Range(q) /\
                       file.content.head = [height |-> job.materials.qc.ckpt.height,
                                            digest |-> job.materials.qc.ckpt.digest]
      PROVE  JobShape(job') /\ Established(job', Certificates, file.content)
  <2>1. /\ job'.state = "done" /\ job'.progress = 100 /\ job'.materials = job.materials
        /\ job'.threshold = job.threshold /\ job'.verified = v /\ job'.parts = q
        /\ JobShape(job')
    BY <1>2 DEF JobShape
  <2>2. job'.progress # 5
    BY <2>1
  <2> QED BY <1>2, <2>1, <2>2, Zenon DEF Established
<1>3. CASE VerifyCertificate
  <2> DEFINE passes == ledgerVerify(job.materials.caPub, job.materials.qc, job.materials.certs,
                                    job.threshold, clock)
  <2>1. /\ job.state = "running"
        /\ job' = IF passes THEN [job EXCEPT !.progress = 5] ELSE Ends(FALSE)
    BY <1>3, Zenon DEF VerifyCertificate
  <2>2. job.state # "none"
    BY <2>1
  <2>3. CASE ~passes
    <3>1. job' = [state |-> "done", progress |-> 100, materials |-> job.materials,
                  password |-> job.password, threshold |-> job.threshold, verified |-> FALSE,
                  parts |-> job.parts]
      BY <2>1, <2>3, Zenon DEF Ends, JobShape
    <3> QED BY <1>2, <2>2, <3>1, Zenon
  <2>4. CASE passes
    <3>1. job.threshold = Majority => Len(job.materials.qc.signers) >= Majority
      <4>1. Cardinality(Node) \in Nat
        BY LedgerBounds, FS_CardinalityType, Zenon
      <4>2. Majority # 0
        BY <4>1 DEF Majority
      <4> QED BY <2>4, <4>2, Zenon DEF ledgerVerify, VerifyQuorum
    <3>2. job' = [state |-> job.state, progress |-> 5, materials |-> job.materials,
                  password |-> job.password, threshold |-> job.threshold,
                  verified |-> job.verified, parts |-> job.parts]
      BY <2>1, <2>4 DEF JobShape
    <3>3. /\ job'.state = job.state /\ job'.materials = job.materials /\ job'.parts = job.parts
          /\ job'.threshold = job.threshold /\ job'.verified = job.verified /\ JobShape(job')
      BY <3>2 DEF JobShape
    <3> QED BY <2>2, <3>1, <3>3, Zenon DEF Established
  <2> QED BY <2>3, <2>4
<1>4. CASE loadBackupHead
  <2> DEFINE qc == job.materials.qc
             h == HeadOf(file, job.password)
             q == ReadBack(file, job.password)
  <2>1. /\ job.state = "running" /\ job.progress = 5
        /\ \/ job' = [Ends(MatchesHead(qc, h)) EXCEPT !.parts = q]
           \/ job' = [job EXCEPT !.state = "failed"]
    BY <1>4, Zenon DEF loadBackupHead
  <2>2. job.state # "none" /\ (job.threshold = Majority => Len(qc.signers) >= Majority)
    BY <2>1, Zenon DEF Established
  <2>3. CASE job' = [Ends(MatchesHead(qc, h)) EXCEPT !.parts = q]
    <3>1. ASSUME MatchesHead(qc, h), qc.ckpt.height > 0
          PROVE  HeadPart \in Range(q) /\
                 file.content.head = [height |-> qc.ckpt.height, digest |-> qc.ckpt.digest]
      <4>1. qc.ckpt.height = h.height /\ qc.ckpt.digest = h.digest
        BY <3>1, Zenon DEF MatchesHead
      <4>2. h.height # 0
        <5>1. h.height > 0
          BY <3>1, <4>1, Zenon
        <5> HIDE DEF h
        <5> QED BY <5>1
      <4>3. h = file.content.head /\ HeadPart \in Range(q)
        <5>1. [height |-> 0, digest |-> <<0, FALSE>>].height = 0
          OBVIOUS
        <5> QED BY <4>2, <5>1, Zenon DEF HeadOf
      <4>4. h = [height |-> h.height, digest |-> h.digest]
        BY <2>2, <4>3, Zenon DEF Dumped, Captured, Established
      <4> QED BY <4>1, <4>3, <4>4, Zenon
    <3> DEFINE v == MatchesHead(qc, h)
    <3>2. job' = [Ends(v) EXCEPT !.parts = q]
      BY <2>3, Zenon
    <3> HIDE DEF v, q
    <3>3. job' = [state |-> "done", progress |-> 100, materials |-> job.materials,
                  password |-> job.password, threshold |-> job.threshold, verified |-> v,
                  parts |-> q]
      BY <3>2, Zenon DEF Ends, JobShape
    <3> QED BY <1>2, <2>2, <3>1, <3>3, Zenon DEF v, q
  <2>4. CASE job' = [job EXCEPT !.state = "failed"]
    <3>1. job' = [state |-> "failed", progress |-> job.progress, materials |-> job.materials,
                  password |-> job.password, threshold |-> job.threshold,
                  verified |-> job.verified, parts |-> job.parts]
      BY <2>4, SMTT(60) DEF JobShape
    <3>2. /\ job'.state = "failed" /\ job'.materials = job.materials /\ job'.parts = job.parts
          /\ job'.threshold = job.threshold /\ job'.verified = job.verified /\ JobShape(job')
      BY <3>1 DEF JobShape
    <3>3. job'.state # "none"
      BY <3>2
    <3> QED BY <2>2, <3>2, <3>3, Zenon DEF Established
  <2> QED BY <2>1, <2>3, <2>4
<1> QED
  BY <1>1, <1>3, <1>4, Zenon DEF VerifyNext

LEMMA AuditStarts == AuditInit => AuditInv
<1> SUFFICES ASSUME AuditInit PROVE AuditInv
  OBVIOUS
<1>1. LInv
  BY LedgerStarts, Zenon DEF AuditInit
<1>2. DataInStep
  <2>1. data = StartHeight /\ head = [n \in Node |-> StartHeight] /\ Source \in Node
    BY AuditBounds, Zenon DEF AuditInit, LedgerInit
  <2>2. head[Source] = StartHeight /\ StartHeight \in Nat
    BY <2>1, LedgerBounds
  <2> QED BY <2>1, <2>2 DEF DataInStep
<1>3. file = NoFile /\ job = NoJob
  BY Zenon DEF AuditInit, BackupInit
<1>4. Dumped
  <2>1. /\ file.content = Absent
        /\ file = [password |-> file.password, frames |-> file.frames, content |-> file.content]
    BY <1>3, SMTT(60) DEF NoFile
  <2>2. server = [pc |-> server.pc, sent |-> server.sent] /\ writer = Absent
    BY DEF AuditInit, BackupInit, NoServer
  <2> QED BY <2>1, <2>2, Zenon DEF Dumped
<1>5. JobShape(job) /\ Established(job, Certificates, file.content)
  BY <1>3 DEF JobShape, Established, NoJob
<1> QED
  BY <1>1, <1>2, <1>3, <1>4, <1>5, Zenon DEF AuditInv

LEMMA AuditStep == AuditInv /\ [AuditNext]_avars => AuditInv'
<1> SUFFICES ASSUME AuditInv, [AuditNext]_avars PROVE AuditInv'
  OBVIOUS
<1>1. LInv /\ DataInStep
  BY Zenon DEF AuditInv
<1>2. [LedgerNext]_lvars
  BY AuditIsLedger
<1>3. LInv' /\ DataInStep'
  BY <1>1, <1>2, LedgerStep, DataStep, Zenon
<1>4. Certificates \subseteq Certificates'
  BY <1>2, CertificatesKept, Zenon
<1>5. duty' = duty
  BY Zenon DEF AuditNext, avars
<1>6. ASSUME NEW j, NEW c, Established(j, Certificates, c) PROVE Established(j, Certificates', c)
  BY <1>4, <1>6, Zenon DEF Established
<1>7. CASE duty # "verify"
  <2>1. job' = job
    BY <1>7, Zenon DEF AuditNext, avars
  <2> QED BY <1>3, <1>5, <1>7, <2>1, Zenon DEF AuditInv
<1>8. CASE duty = "verify"
  <2>1. Dumped /\ JobShape(job) /\ Established(job, Certificates, file.content)
    BY <1>8, Zenon DEF AuditInv
  <2>2. ASSUME Dumped', JobShape(job'), Established(job', Certificates, file'.content)
        PROVE  AuditInv'
    BY <1>3, <1>5, <1>6, <1>8, <2>2, Zenon DEF AuditInv
  <2>3. CASE UNCHANGED <<bvars, job>>
    <3>1. file' = file /\ outcome' = outcome /\ job' = job /\ server' = server /\ writer' = writer
      BY <2>3, Zenon DEF bvars
    <3> QED BY <2>1, <2>2, <3>1, Zenon DEF Dumped
  <2>4. CASE (ExportNext(StoreContent) \/ BackupNext(StoreContent)) /\ job' = job
    <3>1. Dumped' /\ (file.content # Absent => file'.content = file.content)
      BY <1>1, <2>1, <2>4, DumpStep, Zenon
    <3>2. Established(job, Certificates, file'.content)
      BY <2>1, <3>1, Zenon DEF Established
    <3> QED BY <2>1, <2>2, <2>4, <3>1, <3>2, Zenon
  <2>5. CASE VerifyNext /\ UNCHANGED bvars
    <3>1. file' = file /\ outcome' = outcome /\ server' = server /\ writer' = writer
      BY <2>5, Zenon DEF bvars
    <3>2. JobShape(job') /\ Established(job', Certificates, file.content)
      BY <1>1, <2>1, <2>5, JobStep, Zenon
    <3> QED BY <2>1, <2>2, <3>1, <3>2, Zenon DEF Dumped
  <2>6. duty # "restore"
    BY <1>8
  <2> QED
    BY <2>3, <2>4, <2>5, <2>6, Zenon DEF AuditNext, avars
<1> QED
  BY <1>7, <1>8

LEMMA AuditSafe == AuditSpec => []AuditInv
  BY AuditStarts, AuditStep, PTL DEF AuditSpec

\* backup.go, VerifyBackup: a dump that verified was loaded with the certified head
\* record and, if it was whole, with the effects of every entry below the head; at the
\* majority threshold most of the nodes have that digest in their own chain, whatever
\* happened to the nodes and to the file before and while the job ran.
THEOREM VerifiedHeadHolds == AuditSpec => []VerifiedHead
<1>1. AuditInv => VerifiedHead
  <2> DEFINE x == job.materials
             c == file.content
  <2> SUFFICES ASSUME AuditInv, job.verified, x.qc.ckpt.height > 0
               PROVE  /\ HeadPart \in Range(job.parts)
                      /\ c.head = [height |-> x.qc.ckpt.height, digest |-> x.qc.ckpt.digest]
                      /\ c.data >= x.qc.ckpt.height - 1
                      /\ job.threshold = Majority =>
                           2 * Cardinality({n \in Node : head[n] >= x.qc.ckpt.height
                                  /\ Digest(n, x.qc.ckpt.height) = c.head.digest})
                             > Cardinality(Node)
    BY Zenon DEF VerifiedHead
  <2>1. duty = "verify"
    <3>1. ~NoJob.verified
      BY DEF NoJob
    <3> QED BY <3>1, Zenon DEF AuditInv
  <2>2. /\ Dumped /\ x \in made /\ x.qc # None /\ c # Absent
        /\ job.threshold = Majority => Len(x.qc.signers) >= Majority
        /\ c.head = [height |-> x.qc.ckpt.height, digest |-> x.qc.ckpt.digest]
        /\ HeadPart \in Range(job.parts)
    BY <2>1, Zenon DEF AuditInv, Established, Certificates
  <2>3. HandedOut(files, forked, head, x)
    BY <2>2, Zenon DEF AuditInv, LInv
  <2>4. c.head.height = x.qc.ckpt.height /\ c.head.digest = x.qc.ckpt.digest
    BY <2>2
  <2>5. c.data >= x.qc.ckpt.height - 1
    BY <2>2, <2>4, Zenon DEF Dumped, Captured
  <2> DEFINE W == {n \in Node : PassedThrough(forked, head, n, x.ckpt)}
             V == {n \in Node : head[n] >= x.qc.ckpt.height
                                 /\ Digest(n, x.qc.ckpt.height) = c.head.digest}
  <2>6. ASSUME job.threshold = Majority PROVE 2 * Cardinality(V) > Cardinality(Node)
    <3>1. x.qc.ckpt = x.ckpt
      <4>1. Backed(files, forked, head, x)
        BY <2>2, <2>3, CertificateShape, Zenon
      <4> QED BY <4>1, Zenon DEF Backed
    <3>2. W = V
      BY <2>4, <3>1, Zenon DEF PassedThrough, Digest
    <3>3. /\ IsFiniteSet(W) /\ Len(x.qc.signers) \in Nat
          /\ Len(x.qc.signers) <= Cardinality(W)
      BY <2>2, <2>3, SignersAreNodes, Zenon
    <3>4. Len(x.qc.signers) >= Majority
      BY <2>2, <2>6, Zenon
    <3>5. Cardinality(Node) \in Nat /\ Cardinality(W) \in Nat
      BY <3>3, LedgerBounds, FS_CardinalityType, Zenon
    <3> HIDE DEF W, V
    <3>6. 2 * Majority > Cardinality(Node) /\ Majority \in Nat
      BY <3>5 DEF Majority
    <3> DEFINE l == Len(x.qc.signers)
               w == Cardinality(W)
               m == Majority
               k == Cardinality(Node)
    <3>7. l \in Nat /\ w \in Nat /\ m \in Nat /\ k \in Nat /\ l <= w /\ l >= m /\ 2 * m > k
      BY <3>3, <3>4, <3>5, <3>6, Zenon
    <3> HIDE DEF l, w, m, k
    <3>8. 2 * w > k
      BY <3>7
    <3> QED BY <3>2, <3>8, Zenon DEF w, k
  <2> QED BY <2>2, <2>5, <2>6, Zenon
<1> QED
  BY <1>1, AuditSafe, PTL

\* ledger_service.go, ledger.go and checkpoint.go: with the dumps and their verification
\* going on beside it, the ledger keeps what it promises on its own.
THEOREM LedgerHoldsBesideDumps ==
  AuditSpec => [](AttestsOwnHead /\ MaterialsVerify /\ NoSilentAbsence /\ CertificatesAgree)
<1>1. AuditInit => LedgerInit
  BY Zenon DEF AuditInit
<1>2. AuditSpec => LedgerSpec
  BY <1>1, AuditIsLedger, PTL DEF AuditSpec, LedgerSpec
<1> QED
  BY <1>2, AttestsOwnHeadHolds, MaterialsVerifyHolds, NoSilentAbsenceHolds,
     CertificatesAgreeHolds, PTL

=============================================================================
