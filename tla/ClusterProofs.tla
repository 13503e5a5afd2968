--------------------------- MODULE ClusterProofs ----------------------------
(***************************************************************************)
(* The cluster: how it is formed, and which addresses its members have.     *)
(***************************************************************************)
EXTENDS Cluster, EnrollmentProofs

-----------------------------------------------------------------------------
(***************************************************************************)
(* Forming a cluster, continued: one root, and whole identities on disk.    *)
(***************************************************************************)

\* Once published, the CA stays.
Published ==
  \A i \in 1 .. Len(history), j \in 1 .. Len(history) :
    i <= j /\ history[i].ca # 0 => history[j].ca = history[i].ca

\* Until then the seed decides alone, with the root it has on disk.
Forming ==
  /\ Committed.ca = 0 => /\ voters \subseteq {Seed} /\ leader \in {Seed, None}
                         /\ \A r \in Request : req[r].pc # "free" => req[r].on = Seed
  /\ clustered /\ voters # {} => disk[Seed].ca # 0
  /\ leader # None => voters # {}
  /\ \A r \in Request : req[r].pc # "free" => voters # {}
  /\ clustered /\ Committed.ca # 0 => disk[Seed].ca = Committed.ca

\* The root request q works with.
Rooted(q) ==
  /\ q.pc \in {"mint", "sign", "addVoter", "consume", "reply"} =>
       q.root = Committed.ca /\ q.root # 0
  /\ q.pc = "putCA" =>
       /\ q.root # 0
       /\ clustered /\ Committed.ca = 0 => q.root = disk[Seed].ca
  /\ Signing(q) => q.key # 0

\* A joiner that waits has one request that waits with it.
Waiting ==
  \A r \in Request : req[r].live =>
    /\ Signing(req[r]) /\ state[req[r].node] = "waiting"
    /\ \A s \in Request \ {r} : req[s].live => req[s].node # req[r].node

\* The files a of node n in state st, saving identity b, k files done, while c is
\* the published root: the root is written after the key and the certificate it
\* goes with, the CA key last.
Filed(n, st, b, k, a, c) ==
  /\ a.ca # 0 => /\ a.key # 0
                 /\ a.cert = [key |-> a.key, root |-> a.ca]
  /\ a.caKey \in {0, a.ca}
  /\ n # Seed => a.caKey = 0 /\ a.ca \in {0, c}
  /\ clustered /\ st = "up" => a.ca # 0
  /\ ~clustered => st \in {"down", "up"} /\ a.ca = 0
  /\ st = "waiting" => n # Seed /\ a.ca = 0
  /\ st = "saving" =>
       /\ b.key # 0 /\ b.root # 0
       /\ n # Seed => b.root = c /\ k <= 3
       /\ a.ca # 0 <=> k >= 3
       /\ k >= 1 => a.key = b.key
       /\ k >= 2 => a.cert = b
       /\ k >= 3 => a.ca = b.root

AllFiled == \A n \in Node : Filed(n, state[n], identity[n], step[n], disk[n], Committed.ca)

RootInv == /\ TokenInv /\ Published /\ Forming /\ Waiting /\ AllFiled
           /\ \A r \in Request : Rooted(req[r])

-----------------------------------------------------------------------------
(***************************************************************************)
(* One node, one step.                                                      *)
(***************************************************************************)
Same(n) == /\ identity'[n] = identity[n] /\ step'[n] = step[n] /\ disk'[n] = disk[n]

\* It stays as it is, or exits.
Stays(n) == Same(n) /\ state'[n] \in {state[n], "down"}

\* It runs, with the identity it has.
Runs(n) == Same(n) /\ state'[n] = "up" /\ (clustered => disk[n].ca # 0)

\* It asks for an identity.
Asks(n) == Same(n) /\ state'[n] = "waiting" /\ n # Seed /\ clustered /\ disk[n].ca = 0

\* It has an identity to save.
Starts(n) == /\ disk'[n] = disk[n] /\ step'[n] = 0 /\ state'[n] = "saving"
             /\ disk[n].ca = 0 /\ clustered
             /\ identity'[n].key # 0 /\ identity'[n].root # 0
             /\ n # Seed => identity'[n].root = Committed.ca

Saves(n) == /\ state[n] = "saving" /\ state'[n] = "saving" /\ identity'[n] = identity[n]
            /\ step'[n] = step[n] + 1 /\ Saved(n, disk'[n])

NodeCase(n) == Stays(n) \/ Runs(n) \/ Asks(n) \/ Starts(n) \/ Saves(n)

NextFile(n, k, a, b, e) ==
  \/ k = 0 /\ e = [a EXCEPT !.key = b.key]
  \/ k = 1 /\ e = [a EXCEPT !.cert = b]
  \/ k = 2 /\ e = [a EXCEPT !.ca = b.root]
  \/ k = 3 /\ n = Seed /\ e = [a EXCEPT !.caKey = b.root]

\* Every step keeps the files of a node in order.
LEMMA NodeFiled ==
  ASSUME NEW n \in Node, NodeCase(n), Types,
         Filed(n, state[n], identity[n], step[n], disk[n], Committed.ca),
         clustered' = clustered
  PROVE  /\ Filed(n, state'[n], identity'[n], step'[n], disk'[n], Committed.ca)
         /\ disk'[n].ca = disk[n].ca \/ (disk[n].ca = 0 /\ disk'[n].ca # 0)
<1> DEFINE a == disk[n]
           b == identity[n]
           k == step[n]
           c == Committed.ca
           st == state[n]
<1>1. a \in Disk /\ b \in Cert /\ k \in 0 .. 4
  BY Zenon DEF Types
<1> HIDE DEF a, b, k, c, st
<1>2. Filed(n, st, b, k, a, c)
  BY Zenon DEF a, b, k, c, st
<1>3. CASE Stays(n)
  <2>1. Filed(n, "down", b, k, a, c)
    BY <1>2 DEF Filed
  <2>2. state'[n] = st \/ state'[n] = "down"
    BY <1>3, Zenon DEF Stays, st
  <2>3. identity'[n] = b /\ step'[n] = k /\ disk'[n] = a
    BY <1>3, Zenon DEF Stays, Same, a, b, k
  <2> QED BY <1>2, <2>1, <2>2, <2>3, ZenonT(60) DEF a, c
<1>4. CASE Runs(n)
  <2>1. identity'[n] = b /\ step'[n] = k /\ disk'[n] = a /\ state'[n] = "up"
        /\ (clustered => a.ca # 0)
    BY <1>4, Zenon DEF Runs, Same, a, b, k
  <2>2. Filed(n, "up", b, k, a, c)
    BY <1>2, <2>1 DEF Filed
  <2> QED BY <2>1, <2>2, Zenon DEF a, c
<1>5. CASE Asks(n)
  <2>1. identity'[n] = b /\ step'[n] = k /\ disk'[n] = a /\ state'[n] = "waiting"
        /\ n # Seed /\ clustered /\ a.ca = 0
    BY <1>5, Zenon DEF Asks, Same, a, b, k
  <2>2. Filed(n, "waiting", b, k, a, c)
    BY <1>2, <2>1 DEF Filed
  <2> QED BY <2>1, <2>2, Zenon DEF a, c
<1>6. CASE Starts(n)
  <2> DEFINE e == identity'[n]
  <2>1. step'[n] = 0 /\ disk'[n] = a /\ state'[n] = "saving"
        /\ clustered /\ a.ca = 0 /\ e.key # 0 /\ e.root # 0 /\ (n # Seed => e.root = c)
    BY <1>6, Zenon DEF Starts, a, c
  <2> HIDE DEF e
  <2>2. Filed(n, "saving", e, 0, a, c)
    BY <1>2, <2>1 DEF Filed
  <2> QED BY <2>1, <2>2, Zenon DEF a, c, e
<1>7. CASE Saves(n)
  <2> DEFINE e == disk'[n]
  <2>1. /\ st = "saving" /\ state'[n] = "saving" /\ identity'[n] = b /\ step'[n] = k + 1
        /\ NextFile(n, k, a, b, e)
    BY <1>7, Zenon DEF Saves, Saved, NextFile, a, b, k, st
  <2> HIDE DEF e
  <2>2. /\ Filed(n, "saving", b, k + 1, e, c)
        /\ e.ca = a.ca \/ (a.ca = 0 /\ e.ca # 0)
    <3>0. Filed(n, "saving", b, k, a, c) /\ NextFile(n, k, a, b, e)
      BY <1>2, <2>1, Zenon
    <3>1. b = [key |-> b.key, root |-> b.root]
      BY <1>1 DEF Cert
    <3>2. CASE k = 0 /\ e = [a EXCEPT !.key = b.key]
      BY <1>1, <3>0, <3>2, SMTT(60) DEF Filed, Disk, Cert
    <3>3. CASE k = 1 /\ e = [a EXCEPT !.cert = b]
      BY <1>1, <3>0, <3>3, SMTT(60) DEF Filed, Disk, Cert
    <3>4. CASE k = 2 /\ e = [a EXCEPT !.ca = b.root]
      <4>1. e.ca = b.root /\ e.key = a.key /\ e.cert = a.cert /\ e.caKey = a.caKey
        BY <1>1, <3>0, <3>4 DEF Disk
      <4>2. /\ b.key # 0 /\ b.root # 0 /\ a.ca = 0 /\ a.key = b.key /\ a.cert = b /\ a.caKey = 0
            /\ n # Seed => b.root = c
            /\ clustered
        BY <1>1, <3>0, <3>4 DEF Filed
      <4>3. a.cert = [key |-> b.key, root |-> b.root]
        BY <3>1, <4>2, Zenon
      <4> QED BY <3>0, <3>4, <4>1, <4>2, <4>3 DEF Filed
    <3>5. CASE k = 3 /\ n = Seed /\ e = [a EXCEPT !.caKey = b.root]
      BY <1>1, <3>0, <3>5 DEF Filed, Disk, Cert
    <3> QED BY <3>0, <3>2, <3>3, <3>4, <3>5, Zenon DEF NextFile
  <2> QED BY <2>1, <2>2, Zenon DEF a, c, e
<1> QED BY <1>3, <1>4, <1>5, <1>6, <1>7, Zenon DEF NodeCase

LEMMA NoIdentity ==
  ASSUME AllFiled, NEW n \in Node, ~LoadNodeIdentity(n)
  PROVE  disk[n].ca = 0
<1> SUFFICES ASSUME disk[n].ca # 0 PROVE FALSE
  BY Zenon
<1>1. disk[n].key # 0 /\ disk[n].cert = [key |-> disk[n].key, root |-> disk[n].ca]
  BY Zenon DEF AllFiled, Filed
<1>2. disk[n].cert # NoCert
  BY <1>1 DEF NoCert
<1> QED BY <1>1, <1>2, Zenon DEF LoadNodeIdentity

LEMMA Unmoved ==
  ASSUME NEW m \in Node, UNCHANGED <<identity, step, disk>>, state'[m] \in {state[m], "down"}
  PROVE  NodeCase(m)
BY Zenon DEF NodeCase, Stays, Same

LEMMA SeedNodeCases ==
  ASSUME Types, AllFiled, Genesis, NEW m \in Node
  PROVE  NodeCase(m)
<1> DEFINE k == NewKey
           c == [key |-> k, root |-> k]
<1>1. Seed \in Node
  BY EnrollmentAssumption, Zenon
<1>2. disk[Seed].ca = 0 /\ clustered
  BY <1>1, NoIdentity, Zenon DEF Genesis
<1>3. k # 0
  BY NewKeyType, Zenon DEF Genesis
<1>4. /\ identity' = [identity EXCEPT ![Seed] = c] /\ step' = [step EXCEPT ![Seed] = 0]
      /\ state' = [state EXCEPT ![Seed] = "saving"] /\ disk' = disk
  BY Zenon DEF Genesis
<1> HIDE DEF k
<1>5. c.key # 0 /\ c.root # 0
  BY <1>3
<1> HIDE DEF c
<1>6. CASE m = Seed
  <2>1. identity'[m] = c /\ step'[m] = 0 /\ state'[m] = "saving" /\ disk'[m] = disk[m]
    BY <1>1, <1>4, <1>6, Zenon DEF Types
  <2>2. Starts(m)
    BY <1>2, <1>5, <1>6, <2>1, Zenon DEF Starts
  <2> QED BY <2>2, Zenon DEF NodeCase
<1>7. CASE m # Seed
  <2>1. Same(m) /\ state'[m] = state[m]
    BY <1>4, <1>7, Zenon DEF Types, Same
  <2> QED BY <2>1, Zenon DEF NodeCase, Stays
<1> QED BY <1>6, <1>7, Zenon

LEMMA ReplyNodeCases ==
  ASSUME RootInv, NEW r \in Request, Reply(r), NEW m \in Node
  PROVE  NodeCase(m)
<1>1. Types /\ Requests /\ Waiting /\ AllFiled /\ Rooted(req[r])
  BY Zenon DEF RootInv, TokenInv
<1>2. req[r].pc = "reply"
  BY Zenon DEF Reply, At
<1>3. CASE ~req[r].live
  BY <1>3, Unmoved, Zenon DEF Reply, nodeVars
<1>4. CASE req[r].live
  <2> DEFINE n == req[r].node
             c == [key |-> req[r].key, root |-> req[r].root]
  <2>1. "reply" # "free" /\ "reply" \notin MintPc
        /\ "reply" \in {"mint", "sign", "addVoter", "consume", "reply"}
    BY DEF MintPc
  <2>2. Signing(req[r]) /\ n \in Node /\ n # Seed /\ state[n] = "waiting"
    BY <1>1, <1>2, <1>4, <2>1, Places, Zenon DEF Minting, Waiting
  <2>3. req[r].root = Committed.ca /\ req[r].root # 0 /\ req[r].key # 0
    BY <1>1, <1>2, <2>1, <2>2, ZenonT(60) DEF Rooted
  <2>4. disk[n].ca = 0 /\ clustered
    <3>1. Filed(n, "waiting", identity[n], step[n], disk[n], Committed.ca)
      BY <1>1, <2>2, Zenon DEF AllFiled
    <3> QED BY <3>1 DEF Filed
  <2>5. /\ identity' = [identity EXCEPT ![n] = c] /\ step' = [step EXCEPT ![n] = 0]
        /\ state' = [state EXCEPT ![n] = "saving"] /\ disk' = disk
    BY <1>4, Zenon DEF Reply
  <2>6. c.key # 0 /\ c.root # 0 /\ c.root = Committed.ca
    BY <2>3
  <2> HIDE DEF c, n
  <2>7. CASE m = n
    <3>1. identity'[m] = c /\ step'[m] = 0 /\ state'[m] = "saving" /\ disk'[m] = disk[m]
      BY <1>1, <2>2, <2>5, <2>7, Zenon DEF Types
    <3>2. Starts(m)
      BY <2>2, <2>4, <2>6, <2>7, <3>1, Zenon DEF Starts
    <3> QED BY <3>2, Zenon DEF NodeCase
  <2>8. CASE m # n
    <3>1. Same(m) /\ state'[m] = state[m]
      BY <1>1, <2>5, <2>8, Zenon DEF Types, Same
    <3> QED BY <3>1, Zenon DEF NodeCase, Stays
  <2> QED BY <2>7, <2>8, Zenon
<1> QED BY <1>3, <1>4, Zenon

LEMMA SideNodeCases ==
  ASSUME Types, AllFiled, NEW n \in Node, Load(n) \/ Save(n) \/ Provisioned(n), NEW m \in Node
  PROVE  NodeCase(m)
<1>0. Filed(n, state[n], identity[n], step[n], disk[n], Committed.ca)
  BY Zenon DEF AllFiled
<1>1. CASE Load(n) \/ Provisioned(n)
  <2>1. /\ state' = [state EXCEPT ![n] = "up"] /\ UNCHANGED <<identity, step, disk>>
    BY <1>1, Zenon DEF Load, Provisioned
  <2>2. clustered => disk[n].ca # 0
    <3>1. CASE Load(n)
      BY <3>1, ZenonT(60) DEF Load, LoadNodeIdentity
    <3>2. CASE Provisioned(n)
      <4>1. state[n] = "saving" /\ step[n] >= 3
        BY <3>2 DEF Provisioned, Files
      <4> QED BY <1>0, <4>1, SMTT(60) DEF Filed
    <3> QED BY <1>1, <3>1, <3>2, Zenon
  <2>3. CASE m = n
    BY <2>1, <2>2, <2>3, Zenon DEF Types, NodeCase, Runs, Same
  <2>4. CASE m # n
    BY <2>1, <2>4, Zenon DEF Types, NodeCase, Stays, Same
  <2> QED BY <2>3, <2>4, Zenon
<1>2. CASE Save(n)
  <2>1. /\ step' = [step EXCEPT ![n] = step[n] + 1]
        /\ \E e \in Disk : disk' = [disk EXCEPT ![n] = e] /\ Saved(n, e)
    BY <1>2, SaveShape, Zenon
  <2>2. PICK e \in Disk : disk' = [disk EXCEPT ![n] = e] /\ Saved(n, e)
    BY <2>1, Zenon
  <2>3. state[n] = "saving" /\ state' = state /\ identity' = identity
    BY <1>2, Zenon DEF Save
  <2>4. CASE m = n
    <3>1. disk'[n] = e /\ step'[n] = step[n] + 1
      BY <2>1, <2>2, Zenon DEF Types
    <3> QED BY <2>2, <2>3, <2>4, <3>1, Zenon DEF NodeCase, Saves
  <2>5. CASE m # n
    BY <2>1, <2>2, <2>3, <2>5, ZenonT(60) DEF Types, NodeCase, Stays, Same
  <2> QED BY <2>4, <2>5, Zenon
<1> QED BY <1>1, <1>2, Zenon

LEMMA ExitNodeCases ==
  ASSUME Types, NEW m \in Node,
         \/ \E r \in Request : Fails(r) \/ ClientTimeout(r)
         \/ \E n \in Node : Crash(n)
  PROVE  NodeCase(m)
<1>1. UNCHANGED <<identity, step, disk>>
  BY Zenon DEF Fails, ClientTimeout, Crash
<1>2. state'[m] \in {state[m], "down"}
  <2>1. ASSUME NEW n, state' = [state EXCEPT ![n] = "down"]
        PROVE  state'[m] \in {state[m], "down"}
    BY <2>1, Zenon DEF Types
  <2>2. ASSUME NEW n \in Node, Crash(n)
        PROVE  state'[m] \in {state[m], "down"}
    BY <2>2, Zenon DEF Crash
  <2> QED BY <2>1, <2>2, Zenon DEF Fails, ClientTimeout
<1> QED BY <1>1, <1>2, Unmoved, ZenonT(60)

LEMMA EnrollNodeCases ==
  ASSUME Types, AllFiled, NEW r \in Request, NEW n \in Node, Enroll(n, r), NEW m \in Node
  PROVE  NodeCase(m)
<1>1. /\ clustered /\ n # Seed /\ ~LoadNodeIdentity(n)
      /\ state' = [state EXCEPT ![n] = "waiting"] /\ UNCHANGED <<identity, step, disk>>
  BY Zenon DEF Enroll
<1>2. disk[n].ca = 0
  BY <1>1, NoIdentity, Zenon
<1>3. CASE m = n
  BY <1>1, <1>2, <1>3, ZenonT(60) DEF Types, NodeCase, Asks, Same
<1>4. CASE m # n
  BY <1>1, <1>4, Zenon DEF Types, NodeCase, Stays, Same
<1> QED BY <1>3, <1>4, Zenon

LEMMA ShapeNodeCases ==
  ASSUME RootInv, NEW r \in Request, NEW x, NEW d, Shape(r, x, d), NEW m \in Node
  PROVE  NodeCase(m)
<1>1. Types
  BY Zenon DEF RootInv, TokenInv
<1>2. CASE UNCHANGED nodeVars
  BY <1>2, Unmoved, Zenon DEF nodeVars
<1> QED BY <1>1, <1>2, ReplyNodeCases, ExitNodeCases, Zenon DEF Shape, Ended

LEMMA NodeCases ==
  ASSUME RootInv, Next, NEW m \in Node
  PROVE  NodeCase(m)
<1>1. Types /\ Requests /\ AllFiled
  BY Zenon DEF RootInv, TokenInv
<1>2. CASE \E r \in Request : Handles(r)
  BY <1>1, <1>2, RequestShape, ShapeNodeCases, Zenon
<1>3. CASE Genesis \/ \E n \in Node : Load(n) \/ Save(n) \/ Provisioned(n)
  BY <1>1, <1>3, SeedNodeCases, SideNodeCases, Zenon
<1>4. CASE (\E n \in Node : Crash(n)) \/ \E r \in Request : ClientTimeout(r)
  BY <1>1, <1>4, ExitNodeCases, Zenon
<1>5. CASE \E r \in Request, n \in Node : Enroll(n, r)
  BY <1>1, <1>5, EnrollNodeCases, Zenon
<1>6. CASE \/ Bootstrap \/ StepDown \/ Depose \/ \E t \in Token : Expire(t)
           \/ \E n \in Node : Elect(n) \/ Replicate(n)
           \/ \E r \in Request, t \in Token : MintToken(r, t)
  <2>1. UNCHANGED nodeVars
    BY <1>6, Zenon DEF Bootstrap, StepDown, Depose, Expire, Elect, Replicate, MintToken
  <2> QED BY <2>1, Unmoved, Zenon DEF nodeVars
<1> QED BY <1>2, <1>3, <1>4, <1>5, <1>6, Zenon DEF Next, Step, Handles, NodeStep

-----------------------------------------------------------------------------
(***************************************************************************)
(* The published CA.                                                        *)
(***************************************************************************)
\* Only its first publication changes it: in a cluster, to the seed's root.
CaMoves ==
  \/ Committed'.ca = Committed.ca
  \/ /\ Committed.ca = 0 /\ Committed'.ca # 0
     /\ clustered => Committed'.ca = disk[Seed].ca

LEMMA PublishedGrows ==
  ASSUME Types, Published, NEW d, Grows(d), d.ca = Committed.ca \/ Committed.ca = 0
  PROVE  Published'
<1> DEFINE L == Len(history)
<1>0. L \in 1 .. L /\ L \in Nat /\ history[L] = Committed
  BY Bounds, Zenon
<1> SUFFICES ASSUME NEW i \in 1 .. Len(history'), NEW j \in 1 .. Len(history'), i <= j,
                    history'[i].ca # 0
             PROVE  history'[j].ca = history'[i].ca
  BY Zenon DEF Published
<1>1. CASE i \in 1 .. L /\ history'[i] = history[i]
  <2>1. CASE j \in 1 .. L /\ history'[j] = history[j]
    BY <1>1, <2>1, Zenon DEF Published
  <2>2. CASE j = L + 1 /\ history'[j] = d
    <3>1. i <= L
      <4> HIDE DEF L
      <4> QED BY <1>0, <1>1
    <3>2. Committed.ca = history[i].ca
      BY <1>0, <1>1, <3>1, Zenon DEF Published
    <3> QED BY <1>1, <2>2, <3>2, Zenon
  <2> QED BY <2>1, <2>2, OldOrNew, Zenon
<1>2. CASE i = L + 1 /\ i = Len(history')
  <2>1. j = i
    <3> HIDE DEF L
    <3>1. i \in Nat
      BY <1>0, <1>2
    <3> QED BY <1>2, <3>1
  <2> QED BY <2>1, Zenon
<1> QED BY <1>1, <1>2, OldOrNew, Zenon

LEMMA ShapeCa ==
  ASSUME RootInv, NEW r \in Request, req[r].pc # "free", NEW x, NEW d, Shape(r, x, d)
  PROVE  \/ d.ca = Committed.ca
         \/ /\ Puts(r, x, d) /\ Committed.ca = 0 /\ d.ca = req[r].root /\ d.ca # 0
            /\ x.pc = req[r].then
            /\ clustered => d.ca = disk[Seed].ca
<1>1. Types /\ Requests /\ Rooted(req[r]) /\ Committed \in Records /\ req[r] \in Console
  BY CommittedType, Zenon DEF RootInv, TokenInv, Types
<1>2. req[r].token \in AllToken
  BY <1>1, Places, Zenon
<1>3. ASSUME NEW s \in {"absent", "fresh", "burned", "reusable"}, d = JoinRecord(r, s)
      PROVE  d.ca = Committed.ca
  BY <1>1, <1>2, <1>3, OneJoin, SMTT(60)
<1>4. CASE d = Committed
  BY <1>4, Zenon
<1>5. CASE Puts(r, x, d) /\ d # Committed
  <2>1. /\ req[r].pc = "putCA" /\ Committed.ca = 0 /\ x.pc = req[r].then
        /\ d = [Committed EXCEPT !.ca = req[r].root]
    BY <1>5, Zenon DEF Puts
  <2>2. d.ca = req[r].root
    BY <1>1, <2>1 DEF Records
  <2>3. req[r].root # 0 /\ (clustered => req[r].root = disk[Seed].ca)
    BY <1>1, <2>1, Zenon DEF Rooted
  <2> QED BY <1>5, <2>1, <2>2, <2>3, Zenon
<1> QED BY <1>3, <1>4, <1>5, Zenon
        DEF Shape, Ended, Mints, Goes, Reads, Adopts, Burns, Loads, Signs, Adds, Drops

LEMMA CaStep ==
  ASSUME RootInv, Next
  PROVE  CaMoves /\ Published'
<1>1. Types /\ Requests /\ Published
  BY Zenon DEF RootInv, TokenInv
<1>2. CASE \E r \in Request : Handles(r)
  <2>1. PICK r \in Request : req[r].pc # "free" /\ \E x, d : Effect(r, x, d) /\ Shape(r, x, d)
    BY <1>1, <1>2, RequestShape, Zenon
  <2>2. PICK x, d : Effect(r, x, d) /\ Shape(r, x, d)
    BY <2>1, Zenon
  <2>3. Grows(d)
    BY <1>1, <2>2, EffectGrows, Zenon
  <2>6. Committed' = d
    BY <2>3, Zenon DEF Grows
  <2>4. \/ d.ca = Committed.ca
        \/ Committed.ca = 0 /\ d.ca # 0 /\ (clustered => d.ca = disk[Seed].ca)
    BY <2>1, <2>2, ShapeCa, Zenon
  <2>5. Published'
    BY <1>1, <2>3, <2>4, PublishedGrows, Zenon
  <2> QED BY <2>4, <2>5, <2>6, Zenon DEF CaMoves
<1>3. CASE history' = history
  <2>1. Grows(Committed)
    BY <1>1, <1>3, AroundGrows, Zenon
  <2>2. Committed' = Committed
    BY <1>3, Zenon DEF Committed
  <2> QED BY <1>1, <2>1, <2>2, PublishedGrows, Zenon DEF CaMoves
<1> QED BY <1>1, <1>2, <1>3, StepCases, Zenon DEF Around, MintBegins, EnrollBegins, Begins

LEMMA FiledCa ==
  ASSUME NEW n, NEW st, NEW b, NEW k, NEW a, NEW c, Filed(n, st, b, k, a, 0)
  PROVE  Filed(n, st, b, k, a, c)
BY Zenon DEF Filed

LEMMA FiledStep ==
  ASSUME RootInv, Next
  PROVE  AllFiled'
<1>1. CaMoves /\ clustered' = clustered /\ Types /\ AllFiled
  BY CaStep, Zenon DEF Next, RootInv, TokenInv
<1> SUFFICES ASSUME NEW n \in Node
             PROVE  Filed(n, state[n], identity[n], step[n], disk[n], Committed.ca)'
  BY Zenon DEF AllFiled
<1>2. Filed(n, state'[n], identity'[n], step'[n], disk'[n], Committed.ca)
  BY <1>1, NodeCases, NodeFiled, Zenon DEF AllFiled
<1>3. Filed(n, state'[n], identity'[n], step'[n], disk'[n], Committed'.ca)
  BY <1>1, <1>2, FiledCa, Zenon DEF CaMoves
<1> QED BY <1>1, <1>3, Zenon DEF Filed

LEMMA DiskStep ==
  ASSUME RootInv, Next, NEW n \in Node
  PROVE  disk'[n].ca = disk[n].ca \/ (disk[n].ca = 0 /\ disk'[n].ca # 0)
BY NodeCases, NodeFiled, Zenon DEF RootInv, TokenInv, AllFiled, Next

-----------------------------------------------------------------------------
(***************************************************************************)
(* The joiners that wait.                                                   *)
(***************************************************************************)
LEMMA LiveNode ==
  ASSUME RootInv, NEW s \in Request, req[s].live
  PROVE  /\ Signing(req[s]) /\ req[s].pc # "free" /\ req[s].node \in Node
         /\ state[req[s].node] = "waiting"
<1>1. Signing(req[s]) /\ state[req[s].node] = "waiting" /\ Requests
  BY Zenon DEF RootInv, TokenInv, Waiting
<1>2. req[s].pc # "free" /\ ~Minting(req[s])
  BY <1>1 DEF Signing, Minting, SignPc
<1> QED BY <1>1, <1>2, Places, Zenon

LEMMA WaitingKept ==
  ASSUME Waiting,
         \A r \in Request : req'[r].live =>
           /\ req[r].live /\ req'[r].node = req[r].node /\ Signing(req'[r])
           /\ state'[req[r].node] = "waiting"
  PROVE  Waiting'
<1> SUFFICES ASSUME NEW r \in Request, req'[r].live
             PROVE  /\ Signing(req'[r]) /\ state'[req'[r].node] = "waiting"
                    /\ \A s \in Request \ {r} : req'[s].live => req'[s].node # req'[r].node
  BY Zenon DEF Waiting
<1>1. /\ req[r].live /\ req'[r].node = req[r].node /\ Signing(req'[r])
      /\ state'[req'[r].node] = "waiting"
  BY Zenon
<1>2. ASSUME NEW s \in Request \ {r}, req'[s].live PROVE req'[s].node # req'[r].node
  <2>1. req[s].live /\ req'[s].node = req[s].node
    BY <1>2, Zenon
  <2>2. req[s].node # req[r].node
    BY <1>1, <2>1, Zenon DEF Waiting
  <2> QED BY <1>1, <2>1, <2>2, Zenon
<1> QED BY <1>1, <1>2, Zenon

\* The joiner of another request, when node n alone changes its state.
LEMMA OthersWait ==
  ASSUME RootInv, NEW n, NEW v, state' = [state EXCEPT ![n] = v], NEW s \in Request,
         req[s].live, req[s].node # n
  PROVE  state'[req[s].node] = "waiting"
<1>1. state[req[s].node] = "waiting" /\ req[s].node \in Node
  BY LiveNode, Zenon
<1>2. state \in [Node -> {"down", "waiting", "saving", "up"}]
  BY Zenon DEF RootInv, TokenInv, Types
<1> QED BY <1>1, <1>2, Zenon

LEMMA WaitingSide ==
  ASSUME RootInv, req' = req, NEW n, NEW v, state[n] # "waiting",
         state' = state \/ state' = [state EXCEPT ![n] = v]
  PROVE  Waiting'
<1>1. ASSUME NEW r \in Request, req[r].live
      PROVE  Signing(req[r]) /\ state'[req[r].node] = "waiting"
  <2>1. Signing(req[r]) /\ state[req[r].node] = "waiting"
    BY <1>1, LiveNode, Zenon
  <2>2. req[r].node # n
    BY <2>1, Zenon
  <2> QED BY <1>1, <2>1, <2>2, OthersWait, ZenonT(60)
<1> QED BY <1>1, WaitingKept, Zenon DEF RootInv

LEMMA WaitingSideStep ==
  ASSUME RootInv, SeedSide \/ \E n \in Node : NodeSide(n) \/ Replicate(n)
  PROVE  Waiting'
<1>1. ASSUME NEW n \in Node, Load(n) \/ Provisioned(n) PROVE Waiting'
  <2>1. req' = req /\ state[n] # "waiting" /\ state' = [state EXCEPT ![n] = "up"]
    BY <1>1 DEF Load, Provisioned
  <2> QED BY <2>1, WaitingSide, Zenon
<1>2. CASE Genesis
  <2>1. req' = req /\ state[Seed] # "waiting" /\ state' = [state EXCEPT ![Seed] = "saving"]
    BY <1>2 DEF Genesis
  <2> QED BY <2>1, WaitingSide, Zenon
<1>3. ASSUME req' = req, state' = state PROVE Waiting'
  BY <1>3, Zenon DEF RootInv, Waiting
<1> QED BY <1>1, <1>2, <1>3, Zenon DEF SeedSide, NodeSide, Save, Elect, Replicate, Bootstrap,
           StepDown, Depose, Expire, nodeVars

LEMMA WaitingCrash ==
  ASSUME RootInv, NEW n \in Node, Crash(n)
  PROVE  Waiting'
<1>0. Types /\ Waiting
  BY Zenon DEF RootInv, TokenInv
<1> SUFFICES ASSUME NEW r \in Request, req'[r].live
             PROVE  /\ req[r].live /\ req'[r].node = req[r].node /\ Signing(req'[r])
                    /\ state'[req[r].node] = "waiting"
  BY <1>0, WaitingKept, Zenon
<1>1. req'[r] = IF req[r].on = n THEN Free
                ELSE IF req[r].node = n THEN [req[r] EXCEPT !.live = FALSE]
                ELSE req[r]
  BY Zenon DEF Crash
<1>2. [req[r] EXCEPT !.live = FALSE].live = FALSE /\ Free.live = FALSE
  BY <1>0, FreeType, EditLive, Zenon DEF Types
<1>3. req[r].on # n /\ req[r].node # n /\ req'[r] = req[r]
  BY <1>1, <1>2, Zenon
<1>4. Signing(req[r]) /\ req[r].node \in Node /\ state[req[r].node] = "waiting" /\ req[r].live
  BY <1>3, LiveNode, Zenon
<1>5. ~\E s \in Request : req[s].on = n /\ req[s].live /\ req[s].node = req[r].node
  BY <1>0, <1>3, <1>4, Zenon DEF Waiting
<1>6. state'[req[r].node] = state[req[r].node]
  BY <1>3, <1>4, <1>5, Zenon DEF Crash
<1> QED BY <1>3, <1>4, <1>6, Zenon

\* The end of one request, given up or over, moves the node of no other.
LEMMA WaitingEnd ==
  ASSUME RootInv, NEW r \in Request, NEW x, x.live = FALSE, NEW v,
         req' = [req EXCEPT ![r] = x],
         state' = IF req[r].live THEN [state EXCEPT ![req[r].node] = v] ELSE state
  PROVE  Waiting'
<1>0. Types /\ Waiting
  BY Zenon DEF RootInv, TokenInv
<1> SUFFICES ASSUME NEW s \in Request, req'[s].live
             PROVE  /\ req[s].live /\ req'[s].node = req[s].node /\ Signing(req'[s])
                    /\ state'[req[s].node] = "waiting"
  BY <1>0, WaitingKept, Zenon
<1>1. s # r /\ req'[s] = req[s]
  BY <1>0, Zenon DEF Types
<1>2. Signing(req[s]) /\ state[req[s].node] = "waiting" /\ req[s].live
  BY <1>1, LiveNode, Zenon
<1>3. CASE req[r].live
  <2>1. req[s].node # req[r].node
    BY <1>0, <1>1, <1>2, <1>3, Zenon DEF Waiting
  <2>2. state' = [state EXCEPT ![req[r].node] = v]
    BY <1>3, Zenon
  <2>3. state'[req[s].node] = "waiting"
    BY <1>2, <2>1, <2>2, OthersWait
  <2> QED BY <1>1, <1>2, <2>3, Zenon
<1>4. CASE ~req[r].live
  BY <1>1, <1>2, <1>4, Zenon
<1> QED BY <1>3, <1>4, Zenon

LEMMA WaitingShape ==
  ASSUME RootInv, NEW r \in Request, req[r].pc # "free", NEW x, NEW d,
         Effect(r, x, d), Shape(r, x, d)
  PROVE  Waiting'
<1>0. Types /\ Waiting /\ States /\ Requests
  BY Zenon DEF RootInv, TokenInv
<1>1. req' = [req EXCEPT ![r] = x] /\ req'[r] = x /\ \A s \in Request : s # r => req'[s] = req[s]
  BY <1>0, EffectGrows, Zenon DEF Effect
<1>2. CASE Ended(r, x, d) /\ Fails(r)
  <2>1. x.live = FALSE
    BY <1>2, FreeType, ZenonT(60) DEF Ended
  <2>2. state' = IF req[r].live THEN [state EXCEPT ![req[r].node] = "down"] ELSE state
    BY <1>2, Zenon DEF Fails
  <2> QED BY <1>1, <2>1, <2>2, WaitingEnd, Zenon
<1>3. CASE Ended(r, x, d) /\ Reply(r)
  <2>1. x.live = FALSE
    BY <1>3, FreeType, Zenon DEF Ended
  <2>2. state' = IF req[r].live THEN [state EXCEPT ![req[r].node] = "saving"] ELSE state
    BY <1>3, Zenon DEF Reply, nodeVars
  <2> QED BY <1>1, <2>1, <2>2, WaitingEnd, Zenon
<1>4. CASE state' = state /\ (x.live => req[r].live /\ x.node = req[r].node /\ Signing(x))
  <2>1. ASSUME NEW s \in Request, req'[s].live
        PROVE  /\ req[s].live /\ req'[s].node = req[s].node /\ Signing(req'[s])
               /\ state'[req[s].node] = "waiting"
    <3>1. req[s].live /\ req'[s].node = req[s].node /\ (s = r => Signing(x))
      BY <1>1, <1>4, <2>1, Zenon
    <3> QED BY <1>1, <1>4, <3>1, LiveNode, Zenon
  <2> QED BY <1>0, <2>1, WaitingKept, Zenon
<1>5. CASE Mints(r, x, d) /\ UNCHANGED nodeVars
  BY <1>4, <1>5, FreeType, Zenon DEF Mints, nodeVars
<1>6. CASE Kept(req[r], x) /\ x.live = req[r].live /\ Goes(r, x, d) /\ UNCHANGED nodeVars
  <2>1. x.live => Signing(x)
    <3> SUFFICES ASSUME x.live PROVE Signing(x)
      BY Zenon
    <3>1. Signing(req[r]) /\ ~Minting(req[r])
      BY <1>6, LiveNode DEF Signing, Minting
    <3>2. x.pc \in SignPc
      BY <1>0, <1>6, <3>1, GoesPc, Zenon
    <3> QED BY <1>6, <3>1, <3>2, Zenon DEF Signing, Kept
  <2> QED BY <1>4, <1>6, <2>1, Zenon DEF Kept, nodeVars
<1> QED BY <1>2, <1>3, <1>5, <1>6, Zenon DEF Shape, Ended

LEMMA WaitingMint ==
  ASSUME RootInv, NEW r \in Request, NEW t \in Token, MintToken(r, t)
  PROVE  Waiting'
<1>1. Types /\ ~req[r].live
  <2>1. req[r].pc = "free" /\ Types
    BY Zenon DEF MintToken, At, RootInv, TokenInv
  <2> QED BY <2>1, LiveNode, Zenon
<1>2. PICK x : MintBegins(r, x, t)
  BY <1>1, MintBegin, Zenon
<1>3. req' = [req EXCEPT ![r] = x] /\ x.live = FALSE
  BY <1>2, Zenon DEF MintBegins, Begins
<1>4. state' = state
  BY Zenon DEF MintToken, nodeVars
<1> QED BY <1>1, <1>3, <1>4, WaitingEnd, Zenon

LEMMA WaitingEnroll ==
  ASSUME RootInv, NEW r \in Request, NEW n \in Node, Enroll(n, r)
  PROVE  Waiting'
<1>0. Types /\ Waiting
  BY Zenon DEF RootInv, TokenInv
<1>1. PICK x : EnrollBegins(r, x, n)
  BY <1>0, EnrollBegin, Zenon
<1>2. /\ req'[r] = x /\ \A s \in Request : s # r => req'[s] = req[s]
      /\ x.pc = "token" /\ x.then = "sign" /\ x.node = n
  BY <1>0, <1>1, Zenon DEF EnrollBegins, Begins, Types
<1>3. state[n] = "down" /\ state' = [state EXCEPT ![n] = "waiting"] /\ state'[n] = "waiting"
  BY <1>0, Zenon DEF Enroll, Types
<1>4. Signing(x)
  BY <1>2 DEF Signing, SignPc
<1>5. ASSUME NEW s \in Request, s # r, req'[s].live
      PROVE  /\ req[s].live /\ Signing(req'[s]) /\ req'[s].node # n
             /\ state'[req'[s].node] = "waiting"
  <2>1. req'[s] = req[s] /\ req[s].live
    BY <1>2, <1>5, Zenon
  <2>2. Signing(req[s]) /\ state[req[s].node] = "waiting"
    BY <2>1, LiveNode, Zenon
  <2>3. req[s].node # n
    BY <1>3, <2>2
  <2>4. state'[req[s].node] = "waiting"
    BY <1>3, <2>1, <2>3, OthersWait, Zenon
  <2> QED BY <2>1, <2>2, <2>3, <2>4, Zenon
<1>6. ASSUME NEW s \in Request, req'[s].live
      PROVE  /\ Signing(req'[s]) /\ state'[req'[s].node] = "waiting"
             /\ \A u \in Request \ {s} : req'[u].live => req'[u].node # req'[s].node
  <2>1. CASE s = r
    BY <1>2, <1>3, <1>4, <1>5, <2>1, Zenon
  <2>2. CASE s # r
    <3>1. /\ Signing(req'[s]) /\ state'[req'[s].node] = "waiting"
          /\ req'[s] = req[s] /\ req[s].live /\ req[s].node # n
      BY <1>2, <1>5, <1>6, <2>2, ZenonT(60)
    <3>2. ASSUME NEW u \in Request \ {s}, req'[u].live PROVE req'[u].node # req'[s].node
      <4>1. CASE u = r
        BY <1>2, <3>1, <4>1, Zenon
      <4>2. CASE u # r
        <5>1. req'[u] = req[u] /\ req[u].live
          BY <1>2, <3>2, <4>2, Zenon
        <5>2. req[u].node # req[s].node
          BY <1>0, <3>1, <3>2, <5>1, Zenon DEF Waiting
        <5> QED BY <3>1, <5>1, <5>2, Zenon
      <4> QED BY <4>1, <4>2, Zenon
    <3> QED BY <3>1, <3>2, Zenon
  <2> QED BY <2>1, <2>2, Zenon
<1> QED BY <1>6, Zenon DEF Waiting

LEMMA WaitingStep ==
  ASSUME RootInv, Next
  PROVE  Waiting'
<1>1. Types /\ Requests
  BY Zenon DEF RootInv, TokenInv
<1>2. CASE \E r \in Request : Handles(r)
  BY <1>1, <1>2, RequestShape, WaitingShape, Zenon
<1>3. ASSUME NEW r \in Request, ClientTimeout(r) PROVE Waiting'
  <2>1. /\ req' = [req EXCEPT ![r] = [req[r] EXCEPT !.live = FALSE]] /\ req[r].live
        /\ state' = [state EXCEPT ![req[r].node] = "down"]
    BY <1>3, Zenon DEF ClientTimeout
  <2>2. [req[r] EXCEPT !.live = FALSE].live = FALSE
    BY <1>1, EditLive, Zenon DEF Types
  <2> QED BY <2>1, <2>2, WaitingEnd, Zenon
<1> QED BY <1>2, <1>3, WaitingSideStep, WaitingCrash, WaitingMint, WaitingEnroll, Zenon
        DEF Next, Step, Handles, NodeStep, NodeSide, SeedSide

-----------------------------------------------------------------------------
(***************************************************************************)
(* The roots of requests.                                                   *)
(***************************************************************************)
RootPc == {"mint", "sign", "addVoter", "consume", "reply"}

LEMMA RootedParts ==
  ASSUME NEW q
  PROVE  Rooted(q) <=> /\ q.pc \in RootPc => q.root = Committed.ca /\ q.root # 0
                       /\ q.pc = "putCA" =>
                            /\ q.root # 0
                            /\ clustered /\ Committed.ca = 0 => q.root = disk[Seed].ca
                       /\ Signing(q) => q.key # 0
BY Zenon DEF Rooted, RootPc

\* A root that is right stays right.
LEMMA RootStays ==
  ASSUME RootInv, Next, NEW k, k # 0
  PROVE  /\ k = Committed.ca => k = Committed'.ca
         /\ (clustered /\ Committed.ca = 0 => k = disk[Seed].ca) =>
              (clustered' /\ Committed'.ca = 0 => k = disk'[Seed].ca)
<1>1. CaMoves /\ clustered' = clustered /\ Seed \in Node
  BY CaStep, EnrollmentAssumption, Zenon DEF Next
<1>2. disk'[Seed].ca = disk[Seed].ca \/ (disk[Seed].ca = 0 /\ disk'[Seed].ca # 0)
  BY <1>1, DiskStep, Zenon
<1> QED BY <1>1, <1>2, Zenon DEF CaMoves

\* The same request, one step later.
LEMMA RootedKept ==
  ASSUME RootInv, Next, NEW s \in Request, Rooted(req[s]),
         req'[s].pc = req[s].pc, req'[s].root = req[s].root, req'[s].then = req[s].then,
         req'[s].key = req[s].key
  PROVE  Rooted(req[s])'
<1> DEFINE q == req[s]
           x == req'[s]
<1>1. /\ q.pc \in RootPc => q.root = Committed.ca /\ q.root # 0
      /\ q.pc = "putCA" => /\ q.root # 0
                           /\ clustered /\ Committed.ca = 0 => q.root = disk[Seed].ca
      /\ Signing(q) => q.key # 0
  BY RootedParts, Zenon
<1>2. x.pc \in RootPc => x.root = Committed'.ca /\ x.root # 0
  BY <1>1, RootStays, Zenon
<1>3. x.pc = "putCA" => /\ x.root # 0
                        /\ clustered' /\ Committed'.ca = 0 => x.root = disk'[Seed].ca
  BY <1>1, RootStays, Zenon
<1>4. Signing(x) => x.key # 0
  BY <1>1, Zenon DEF Signing
<1> QED BY <1>2, <1>3, <1>4, Zenon DEF Rooted, RootPc

LEMMA RootedFree ==
  ASSUME NEW s, req'[s] = Free
  PROVE  Rooted(req[s])'
<1>1. req'[s].pc = "free"
  BY FreeType, Zenon
<1> QED BY <1>1 DEF Rooted, Signing, SignPc

EarlyPc == {"token", "adopt", "burn", "loadCA"}

\* Before the root is chosen there is nothing to show but the key.
LEMMA RootedEarly ==
  ASSUME NEW s, req'[s].pc \in EarlyPc,
         Signing(req'[s]) => req'[s].key # 0
  PROVE  Rooted(req[s])'
<1>1. req'[s].pc \notin RootPc /\ req'[s].pc # "putCA"
  BY DEF RootPc, EarlyPc
<1> QED BY <1>1, Zenon DEF Rooted, RootPc

\* ensureCA on the node of request r: the published root, or the one to publish.
LEMMA RootedLoads ==
  ASSUME RootInv, NEW r \in Request, req[r].pc # "free", NEW x, NEW d,
         Loads(r, x, d), UNCHANGED nodeVars, clustered' = clustered,
         Committed' = Committed, req'[r] = x, Signing(x) => x.key # 0
  PROVE  Rooted(req[r])'
<1> DEFINE o == req[r].on
<1>0. /\ Types /\ Requests /\ Published /\ Forming /\ AllFiled /\ Seed \in Node
  BY EnrollmentAssumption, Zenon DEF RootInv, TokenInv
<1>1. o \in Node /\ disk' = disk
  BY <1>0, Places, Zenon DEF nodeVars
<1>2. CASE Local(o).ca # 0 /\ x.pc = req[r].then /\ x.root = Local(o).ca
  <2>1. Len(history) \in 1 .. Len(history) /\ history[Len(history)] = Committed
        /\ applied[o] \in 1 .. Len(history) /\ Len(history) \in Nat
    BY <1>0, <1>1, Bounds, Zenon DEF Types, Registered
  <2>2. applied[o] <= Len(history)
    BY <2>1
  <2>3. Committed.ca = Local(o).ca
    BY <1>0, <1>2, <2>1, <2>2, ZenonT(60) DEF Published, Local
  <2>4. x.pc # "putCA"
    <3>1. req[r].then \in {"mint", "sign"}
      BY <1>0, Places DEF Minting, Signing
    <3> QED BY <1>2, <3>1
  <2> QED BY <1>2, <2>3, <2>4, Zenon DEF Rooted
<1>3. CASE Local(o).ca = 0 /\ x.pc = "putCA" /\ x.root = NewCa(o) /\ x.root # 0
  <2>1. ASSUME clustered, Committed.ca = 0 PROVE x.root = disk[Seed].ca
    <3>1. o = Seed /\ disk[Seed].ca # 0
      BY <1>0, <2>1, Zenon DEF Forming
    <3>2. x.root = disk[Seed].caKey
      BY <1>3, <3>1, Zenon DEF NewCa
    <3>3. disk[Seed].caKey \in {0, disk[Seed].ca}
      BY <1>0, Zenon DEF AllFiled, Filed
    <3> QED BY <1>3, <3>2, <3>3, Zenon
  <2>2. "putCA" \notin RootPc
    BY DEF RootPc
  <2> QED BY <1>1, <1>3, <2>1, <2>2, Zenon DEF Rooted, RootPc
<1> QED BY <1>2, <1>3, ZenonT(60) DEF Loads

LEMMA RootedGoes ==
  ASSUME RootInv, Next, NEW r \in Request, req[r].pc # "free", NEW x, NEW d, Shape(r, x, d),
         Kept(req[r], x), Goes(r, x, d), UNCHANGED nodeVars, Committed' = d, req'[r] = x
  PROVE  Rooted(req[r])'
<1>0. /\ Types /\ States /\ Requests /\ Rooted(req[r]) /\ clustered' = clustered
  BY Zenon DEF RootInv, TokenInv, Next
<1>1. Signing(x) => x.key # 0
  <2>1. Signing(x) => Signing(req[r])
    BY <1>0, Places, Zenon DEF Signing, Minting, Kept
  <2> QED BY <1>0, <2>1, Zenon DEF Kept, Rooted
<1>2. CASE Reads(r, x, d) \/ Adopts(r, x, d) \/ Burns(r, x, d)
  <2>1. x.pc \in EarlyPc
    BY <1>2, Zenon DEF Reads, Adopts, Burns, EarlyPc
  <2>2. req'[r].pc \in EarlyPc
    BY <2>1, Zenon
  <2>3. Signing(req'[r]) => req'[r].key # 0
    BY <1>1, Zenon
  <2> QED BY <2>2, <2>3, RootedEarly, Zenon
<1>3. CASE Loads(r, x, d)
  BY <1>0, <1>1, <1>3, RootedLoads, Zenon DEF Loads
<1>4. CASE Puts(r, x, d)
  <2>1. CASE x.pc = "loadCA"
    <3>1. req'[r].pc \in EarlyPc
      BY <2>1, ZenonT(60) DEF EarlyPc
    <3>2. Signing(req'[r]) => req'[r].key # 0
      BY <1>1, Zenon
    <3> QED BY <3>1, <3>2, RootedEarly, Zenon
  <2>2. CASE x.pc # "loadCA"
    <3>1. req[r].pc = "putCA" /\ Committed.ca = 0 /\ x.pc = req[r].then /\ x.root = req[r].root
          /\ d = [Committed EXCEPT !.ca = req[r].root]
      BY <1>4, <2>2, Zenon DEF Puts
    <3>2. d.ca = x.root
      BY <1>0, <3>1, CommittedType, SMTT(60) DEF Records
    <3>3. req[r].root # 0
      BY <1>0, <3>1, Zenon DEF Rooted
    <3>4. x.pc # "putCA"
      <4>1. req[r].then \in {"mint", "sign"}
        BY <1>0, Places DEF Minting, Signing
      <4> QED BY <3>1, <4>1, SMTT(60)
    <3> QED BY <1>1, <3>1, <3>2, <3>3, <3>4, Zenon DEF Rooted
  <2> QED BY <2>1, <2>2, Zenon
<1>5. CASE Signs(r, x, d) \/ Adds(r, x, d) \/ Drops(r, x, d)
  <2>1. x.root = req[r].root /\ req[r].pc \in RootPc /\ x.pc # "putCA"
    BY <1>5 DEF Signs, Adds, Drops, RootPc
  <2>2. req[r].root = Committed.ca /\ req[r].root # 0
    BY <1>0, <2>1, Zenon DEF Rooted, RootPc
  <2>3. d.ca = Committed.ca
    BY <2>2, ShapeCa, Zenon
  <2> QED BY <1>1, <2>1, <2>2, <2>3, ZenonT(60) DEF Rooted
<1> QED BY <1>2, <1>3, <1>4, <1>5, Zenon DEF Goes

LEMMA RootedStep ==
  ASSUME RootInv, Next, NEW s \in Request
  PROVE  Rooted(req[s])'
<1>0. Types /\ Requests /\ Rooted(req[s])
  BY Zenon DEF RootInv, TokenInv
<1>1. CASE \E r \in Request : Handles(r)
  <2>1. PICK r \in Request : req[r].pc # "free" /\ \E x, d : Effect(r, x, d) /\ Shape(r, x, d)
    BY <1>0, <1>1, RequestShape, Zenon
  <2>2. PICK x, d : Effect(r, x, d) /\ Shape(r, x, d)
    BY <2>1, Zenon
  <2>3. Committed' = d /\ req'[r] = x /\ (s # r => req'[s] = req[s])
    BY <1>0, <2>2, EffectFacts, Zenon
  <2>4. CASE s # r
    BY <1>0, <2>3, <2>4, RootedKept, Zenon
  <2>5. CASE s = r /\ x = Free
    BY <2>3, <2>5, RootedFree, Zenon
  <2>6. CASE s = r /\ Kept(req[r], x) /\ Goes(r, x, d) /\ UNCHANGED nodeVars
    BY <2>1, <2>2, <2>3, <2>6, RootedGoes, Zenon
  <2> QED BY <2>2, <2>4, <2>5, <2>6, Zenon DEF Shape, Ended, Mints
<1>2. CASE Around
  <2>1. Faded(req[s], req'[s])
    BY <1>2, Zenon DEF Around
  <2> QED BY <1>0, <2>1, RootedKept, RootedFree, Zenon DEF Faded, Kept
<1>3. ASSUME NEW r \in Request, NEW x,
             (\E t : MintBegins(r, x, t)) \/ \E n : EnrollBegins(r, x, n)
      PROVE  Rooted(req[s])'
  <2>1. req'[r] = x /\ (s # r => req'[s] = req[s])
    BY <1>0, <1>3, Zenon DEF MintBegins, EnrollBegins, Begins, Types
  <2>2. x.pc \in EarlyPc /\ (Signing(x) => x.key # 0)
    BY <1>3 DEF MintBegins, EnrollBegins, Signing, EarlyPc
  <2>3. CASE s = r
    <3>1. req'[s].pc \in EarlyPc
      BY <2>1, <2>2, <2>3, Zenon
    <3>2. Signing(req'[s]) => req'[s].key # 0
      BY <2>1, <2>2, <2>3, Zenon
    <3> QED BY <3>1, <3>2, RootedEarly, Zenon
  <2>4. CASE s # r
    BY <1>0, <2>1, <2>4, RootedKept, Zenon
  <2> QED BY <2>3, <2>4, Zenon
<1> QED BY <1>0, <1>1, <1>2, <1>3, StepCases, Zenon

-----------------------------------------------------------------------------
(***************************************************************************)
(* Voters, leader and the nodes that serve.                                 *)
(***************************************************************************)
Votes ==
  \/ voters' = voters
  \/ voters' = {Seed} /\ voters = {} /\ (clustered => disk[Seed].ca # 0)
  \/ voters \subseteq voters' /\ voters # {} /\ Committed.ca # 0

LeaderMoves == leader' \in {leader, None} \/ leader' \in voters

Serves ==
  \A r \in Request : req'[r].pc # "free" =>
    \/ req[r].pc # "free" /\ req'[r].on = req[r].on
    \/ leader # None /\ req'[r].on = leader

LEMMA ShapeControl ==
  ASSUME RootInv, NEW r \in Request, req[r].pc # "free", NEW x, NEW d,
         Effect(r, x, d), Shape(r, x, d)
  PROVE  Votes /\ LeaderMoves /\ Serves
<1>0. Types /\ Forming /\ Rooted(req[r])
  BY Zenon DEF RootInv, TokenInv
<1>1. req'[r] = x /\ leader' = leader /\ \A s \in Request : s # r => req'[s] = req[s]
  BY <1>0, EffectGrows, Zenon DEF Effect
<1>2. Votes
  <2>1. CASE Adds(r, x, d)
    <3>1. voters # {}
      BY <1>0, Zenon DEF Forming
    <3>2. Committed.ca # 0
      BY <1>0, <2>1, Zenon DEF Rooted, Adds
    <3> QED BY <2>1, <3>1, <3>2, Zenon DEF Votes, Adds
  <2>2. CASE ~Adds(r, x, d)
    <3>1. voters' = voters
      BY <2>2, Zenon DEF Shape, Ended, Mints, Goes, Reads, Adopts, Burns, Loads, Puts, Signs,
                         Drops, Quiet
    <3> QED BY <3>1, Zenon DEF Votes
  <2> QED BY <2>1, <2>2, Zenon
<1>3. Serves
  <2>1. CASE x = Free
    BY <1>1, <2>1, FreeType, Zenon DEF Serves
  <2>2. CASE Kept(req[r], x)
    BY <1>1, <2>2, Zenon DEF Serves, Kept
  <2> QED BY <2>1, <2>2, Zenon DEF Shape, Ended, Mints
<1> QED BY <1>1, <1>2, <1>3, Zenon DEF LeaderMoves

LEMMA Control ==
  ASSUME RootInv, Next
  PROVE  Votes /\ LeaderMoves /\ Serves
<1>0. Types /\ Requests /\ AllFiled /\ Seed \in Node
  BY EnrollmentAssumption, Zenon DEF RootInv, TokenInv
<1>1. CASE \E r \in Request : Handles(r)
  BY <1>0, <1>1, RequestShape, ShapeControl, Zenon
<1>2. ASSUME NEW r \in Request, NEW x,
             (\E t : MintBegins(r, x, t)) \/ \E n : EnrollBegins(r, x, n)
      PROVE  Votes /\ LeaderMoves /\ Serves
  <2>1. Begins(r, x)
    BY <1>2, ZenonT(60) DEF MintBegins, EnrollBegins
  <2>2. /\ req'[r] = x /\ \A s \in Request : s # r => req'[s] = req[s]
        /\ voters' = voters /\ leader' = leader /\ leader # None /\ x.on = leader
    BY <1>0, <2>1, ZenonT(60) DEF Begins, Types
  <2> QED BY <2>2, Zenon DEF Votes, LeaderMoves, Serves
<1>3. CASE Around
  <2>1. Serves
    <3>1. \A s \in Request : Faded(req[s], req'[s])
      BY <1>3, Zenon DEF Around
    <3> QED BY <3>1, FreeType, Zenon DEF Faded, Serves, Kept
  <2>2. CASE Bootstrap
    <3>1. voters' = {Seed} /\ voters = {} /\ leader' = leader /\ state[Seed] = "up"
      BY <2>2, Zenon DEF Bootstrap, registryVars
    <3>2. clustered => disk[Seed].ca # 0
      <4>1. Filed(Seed, "up", identity[Seed], step[Seed], disk[Seed], Committed.ca)
        BY <1>0, <3>1, Zenon DEF AllFiled
      <4> QED BY <4>1, Zenon DEF Filed
    <3> QED BY <2>1, <3>1, <3>2, Zenon DEF Votes, LeaderMoves
  <2>3. CASE ~Bootstrap
    <3>1. \/ \E r \in Request : Handles(r)
          \/ \E r \in Request, t \in Token : MintToken(r, t)
          \/ \E r \in Request, n \in Node : Enroll(n, r)
          \/ voters' = voters /\ (leader' \in {leader, None} \/ leader' \in voters)
      BY <2>3, ZenonT(60) DEF Next, Step, Handles, NodeStep, Genesis, StepDown, Depose, Elect, Crash,
         Load, Save, Provisioned, Replicate, CatchUp, ClientTimeout, Expire, registryVars
    <3>2. CASE voters' = voters /\ (leader' \in {leader, None} \/ leader' \in voters)
      BY <2>1, <3>2, Zenon DEF Votes, LeaderMoves
    <3> QED BY <1>0, <1>1, <1>2, <3>1, <3>2, MintBegin, EnrollBegin, Zenon
  <2> QED BY <2>2, <2>3, Zenon
<1> QED BY <1>0, <1>1, <1>2, <1>3, StepCases, Zenon

LEMMA FormingStep ==
  ASSUME RootInv, Next
  PROVE  Forming'
<1>0. Forming /\ Votes /\ LeaderMoves /\ Serves /\ CaMoves /\ clustered' = clustered
  BY Control, CaStep, Zenon DEF RootInv, Next
<1>1. disk'[Seed].ca = disk[Seed].ca \/ (disk[Seed].ca = 0 /\ disk'[Seed].ca # 0)
  BY DiskStep, EnrollmentAssumption, Zenon
<1>2. ASSUME Committed'.ca = 0
      PROVE  /\ voters' \subseteq {Seed} /\ leader' \in {Seed, None}
             /\ \A r \in Request : req'[r].pc # "free" => req'[r].on = Seed
  <2>1. Committed.ca = 0
    BY <1>0, <1>2, Zenon DEF CaMoves
  <2>2. /\ voters \subseteq {Seed} /\ leader \in {Seed, None}
        /\ \A r \in Request : req[r].pc # "free" => req[r].on = Seed
    BY <1>0, <2>1, Zenon DEF Forming
  <2>3. voters' \subseteq {Seed}
    BY <1>0, <2>1, <2>2, Zenon DEF Votes
  <2>4. leader' \in {Seed, None}
    BY <1>0, <2>2, Zenon DEF LeaderMoves
  <2>5. \A r \in Request : req'[r].pc # "free" => req'[r].on = Seed
    BY <1>0, <2>2, Zenon DEF Serves
  <2> QED BY <2>3, <2>4, <2>5, Zenon
<1>3. ASSUME clustered', voters' # {} PROVE disk'[Seed].ca # 0
  BY <1>0, <1>1, <1>3, Zenon DEF Forming, Votes
<1>4. voters # {} => voters' # {}
  BY <1>0, Zenon DEF Votes
<1>5. ASSUME leader' # None PROVE voters' # {}
  <2>1. CASE leader' \in {leader, None}
    BY <1>0, <1>4, <1>5, <2>1, Zenon DEF Forming
  <2>2. CASE leader' \in voters
    BY <1>4, <2>2, Zenon
  <2> QED BY <1>0, <2>1, <2>2, ZenonT(60) DEF LeaderMoves
<1>6. ASSUME NEW r \in Request, req'[r].pc # "free" PROVE voters' # {}
  BY <1>0, <1>4, <1>6, Zenon DEF Forming, Serves
<1>7. ASSUME clustered', Committed'.ca # 0 PROVE disk'[Seed].ca = Committed'.ca
  BY <1>0, <1>1, <1>7, Zenon DEF Forming, CaMoves
<1> QED BY <1>2, <1>3, <1>5, <1>6, <1>7, Zenon DEF Forming

LEMMA RootStep ==
  ASSUME RootInv, Next
  PROVE  RootInv'
<1>1. TokenInv'
  BY TokenStep, Zenon DEF RootInv
<1>2. Published' /\ Forming' /\ Waiting' /\ AllFiled'
  BY CaStep, FormingStep, WaitingStep, FiledStep, Zenon
<1>3. (\A r \in Request : Rooted(req[r]))'
  BY RootedStep, Zenon
<1> QED BY <1>1, <1>2, <1>3, ZenonT(60) DEF RootInv

LEMMA RootInit == Init => RootInv
<1> SUFFICES ASSUME Init PROVE RootInv
  BY Zenon
<1>1. TokenInv
  BY TokenInit, Zenon
<1>2. /\ Len(history) = 1 /\ history[1].ca = 0 /\ Committed.ca = 0
      /\ \A r \in Request : req[r] = Free /\ req[r].pc = "free"
  BY InitRecords, InitRequests, Zenon
<1>3. /\ state = [n \in Node |-> "down"] /\ disk = [n \in Node |-> NoFiles]
      /\ voters = {} /\ leader = None /\ clustered \in BOOLEAN
  BY EnrollmentAssumption, Zenon DEF Init, RegistryInit
<1>4. Published
  BY <1>2 DEF Published
<1>5. Forming
  BY <1>2, <1>3, Zenon DEF Forming
<1>6. Waiting
  BY <1>2, FreeType, ZenonT(60) DEF Waiting
<1>7. AllFiled
  <2>1. NoFiles.ca = 0 /\ NoFiles.caKey = 0
    BY DEF NoFiles
  <2> QED BY <1>2, <1>3, <2>1 DEF AllFiled, Filed
<1>8. \A r \in Request : Rooted(req[r])
  BY <1>2 DEF Rooted, Signing, SignPc
<1> QED BY <1>1, <1>4, <1>5, <1>6, <1>7, <1>8, Zenon DEF RootInv

LEMMA RootStutter ==
  ASSUME RootInv, UNCHANGED vars
  PROVE  RootInv'
<1>1. TokenInv'
  BY TokenStutter, Zenon DEF RootInv
<1>2. /\ history' = history /\ leader' = leader /\ req' = req /\ clustered' = clustered
      /\ state' = state /\ identity' = identity /\ step' = step /\ disk' = disk
      /\ voters' = voters
  BY Zenon DEF vars, registryVars, nodeVars
<1>3. Committed' = Committed
  BY <1>2, Zenon DEF Committed
<1>4. Published' /\ Waiting'
  BY <1>2, Zenon DEF RootInv, Published, Waiting
<1>5. Forming'
  BY <1>2, <1>3, Zenon DEF RootInv, Forming
<1>6. AllFiled' /\ (\A r \in Request : Rooted(req[r]))'
  BY <1>2, <1>3, ZenonT(60) DEF RootInv, AllFiled, Filed, Rooted
<1> QED BY <1>1, <1>4, <1>5, <1>6, Zenon DEF RootInv

\* ensureCA, NodeIdentity.Save and enrollNode: before a CA is published the seed decides
\* alone and with the root on its disk, and files are written in an order that makes a
\* node without all three of them start over (RootInv).
THEOREM SpecRootInv == Spec => []RootInv
<1>1. RootInv /\ [Next]_vars => RootInv'
  BY RootStep, RootStutter, Zenon
<1> QED BY RootInit, <1>1, PTL DEF Spec

\* NodeIdentity.Save and LoadNodeIdentity: whatever crash interrupted a save, a node runs
\* only with files of one identity, certified by the root it trusts.
THEOREM SpecIdentityWhole == Spec => []IdentityWhole
<1>1. RootInv => IdentityWhole
  BY Zenon DEF RootInv, AllFiled, Filed, IdentityWhole
<1> QED BY <1>1, SpecRootInv, PTL

\* ensureCA and newCARecord: what is published, what requests sign with and what every
\* running node trusts never disagree, for any number of nodes and of overlapping requests.
THEOREM SpecOneRoot == Spec => []OneRoot
<1>1. RootInv => RootsInUse \ {0} \subseteq {Committed.ca} \cup {disk[Seed].ca}
  <2> SUFFICES ASSUME RootInv
               PROVE  RootsInUse \ {0} \subseteq {Committed.ca} \cup {disk[Seed].ca}
    BY Zenon
  <2>1. \A r \in Request : req[r].pc \in {"mint", "sign", "addVoter", "consume", "reply"} =>
          req[r].root = Committed.ca
    BY Zenon DEF RootInv, Rooted
  <2>2. \A n \in Node : disk[n].ca \in {0, Committed.ca, disk[Seed].ca}
    BY Zenon DEF RootInv, AllFiled, Filed
  <2> QED BY <2>1, <2>2, Zenon DEF RootsInUse
<1>2. RootInv => Committed.ca = 0 \/ disk[Seed].ca \in {0, Committed.ca}
  BY EnrollmentAssumption, Zenon DEF RootInv, Forming, AllFiled, Filed
<1>3. RootInv => OneRoot
  BY <1>1, <1>2, Zenon DEF OneRoot
<1> QED BY <1>3, SpecRootInv, PTL

-----------------------------------------------------------------------------
(***************************************************************************)
(* No configuration ever records a node under another node's address, for   *)
(* any number of nodes, moves, elections and reconcilers.                   *)
(***************************************************************************)

\* In the following h stands for host.
OwnAddress(h, m, a) == a = Advertised(m) \/ \E k \in 0..h[m] : a = Private(m, k)

OwnServers(h, servers) ==
  /\ DOMAIN servers \subseteq Peer
  /\ \A m \in DOMAIN servers : OwnAddress(h, m, servers[m])

Entry(h, e) ==
  /\ e = [turn |-> e.turn, index |-> e.index, servers |-> e.servers]
  /\ OwnServers(h, e.servers)

\* A change that has passed the preflight is of an address that was the node's own.
Checked(h, cmd) ==
  cmd.pc \in {"change", "forwarded"} =>
    /\ cmd = [pc |-> cmd.pc, on |-> cmd.on, change |-> cmd.change]
    /\ cmd.on \in Peer /\ cmd.change \in Commands
    /\ cmd.change.op = "add" => OwnAddress(h, cmd.change.id, cmd.change.addr)

MInv ==
  /\ host \in [Peer -> Nat]
  /\ chief \in Peer \cup {Nobody}
  /\ view = [n \in Peer |-> view[n]]
  /\ \A n \in Peer : Entry(host, view[n])
  /\ Checked(host, command)

-----------------------------------------------------------------------------
\* Machines only move on: an address a node had stays one that it had.
LEMMA AddressesStay ==
  ASSUME NEW h \in [Peer -> Nat], NEW g \in [Peer -> Nat], \A n \in Peer : g[n] >= h[n]
  PROVE  /\ \A e : Entry(h, e) => Entry(g, e)
         /\ \A cmd : Checked(h, cmd) => Checked(g, cmd)
<1>1. \A m \in Peer : \A a : OwnAddress(h, m, a) => OwnAddress(g, m, a)
  <2>1. \A m \in Peer : 0..h[m] \subseteq 0..g[m]
    OBVIOUS
  <2> QED BY <2>1 DEF OwnAddress
<1>2. \A e : Entry(h, e) => Entry(g, e)
  BY <1>1 DEF Entry, OwnServers
<1>3. \A c \in Commands : c.id \in Peer
  BY MembershipBounds
<1>4. \A cmd : Checked(h, cmd) => Checked(g, cmd)
  BY <1>1, <1>3, SMTT(60) DEF Checked
<1> QED BY <1>2, <1>4

\* PreflightClusterPeer: who answers at an address is its owner.
LEMMA PreflightOwner ==
  ASSUME MInv, NEW id \in Peer, NEW a, Preflight(id, a)
  PROVE  OwnAddress(host, id, a)
<1>1. id # Nobody
  BY MembershipBounds
<1>2. a[1] = id /\ a \in {Advertised(a[1]), Private(a[1], host[a[1]])}
  BY <1>1 DEF Preflight, At_
<1>3. host[id] \in 0..host[id]
  BY DEF MInv
<1> QED
  BY <1>2, <1>3, SMTT(60) DEF OwnAddress

\* AddVoter and RemoveServer: the leader's next configuration.
LEMMA ChangeKeepsOwners ==
  ASSUME MInv, chief \in Peer, NEW servers, OwnServers(host, servers), Append_(servers)
  PROVE  /\ view' = [n \in Peer |-> view'[n]]
         /\ \A n \in Peer : Entry(host, view'[n])
<1> DEFINE e == [turn |-> turn, index |-> record.index + 1, servers |-> servers]
<1>1. Entry(host, e)
  BY DEF Entry
<1>2. view' = view \/ view' = [view EXCEPT ![chief] = e]
  BY DEF Append_
<1> HIDE DEF e
<1> QED
  BY <1>1, <1>2, SMTT(60) DEF MInv

\* The reconciler's request: the node under the address it advertises.
LEMMA RegistersOwners ==
  ASSUME MInv, chief \in Peer, NEW n \in Peer
  PROVE  OwnServers(host, Registers(n))
<1>1. OwnServers(host, view[chief].servers)
  BY DEF MInv, Entry
<1>2. OwnAddress(host, n, Advertised(n))
  BY DEF OwnAddress
<1> QED
  BY <1>1, <1>2, SMTT(60) DEF Registers, OwnServers, Members

\* The operator's request, after the preflight and whatever happened since.
LEMMA ChangedOwners ==
  ASSUME MInv, chief \in Peer, command.pc \in {"change", "forwarded"}
  PROVE  OwnServers(host, Changed(command.change))
<1>1. OwnServers(host, view[chief].servers)
  BY Zenon DEF MInv, Entry
<1>2. /\ command.change.id \in Peer
      /\ command.change.op = "add" => OwnAddress(host, command.change.id, command.change.addr)
  BY MembershipBounds DEF MInv, Checked
<1> QED
  BY <1>1, <1>2, Zenon DEF Changed, OwnServers, Members

\* The configuration that formation leaves records everybody as themselves.
LEMMA MemberStarts == MemberInit => MInv
<1> SUFFICES ASSUME MemberInit PROVE MInv
  OBVIOUS
<1>1. host = [n \in Peer |-> 0] /\ view = [n \in Peer |-> FirstEntry]
  BY DEF MemberInit
<1>2. chief \in Peer \cup {Nobody} /\ command.pc \notin {"change", "forwarded"}
  BY DEF MemberInit, NoCommand
<1>3. FirstEntry = [turn |-> FirstEntry.turn, index |-> FirstEntry.index,
                    servers |-> FirstEntry.servers]
  BY DEF FirstEntry
<1>4. /\ DOMAIN FirstEntry.servers = Peer
      /\ \A m \in Peer : FirstEntry.servers[m] \in {Private(m, 0), Advertised(m)}
  BY DEF FirstEntry
<1>5. OwnServers(host, FirstEntry.servers)
  BY <1>1, <1>4, SMTT(60) DEF OwnServers, OwnAddress
<1>6. \A n \in Peer : Entry(host, view[n])
  BY <1>1, <1>3, <1>5, SMTT(60) DEF Entry
<1> QED
  BY <1>1, <1>2, <1>6 DEF MInv, Checked

\* Every step of raft, the reconcilers, the operators and the machines.
LEMMA MemberStepKeeps == MInv /\ [MemberNext]_mvars => MInv'
<1> SUFFICES ASSUME MInv, [MemberNext]_mvars PROVE MInv'
  OBVIOUS
<1>1. ASSUME host' = host, chief' \in Peer \cup {Nobody}, Checked(host, command'),
             view' = [n \in Peer |-> view'[n]], \A n \in Peer : Entry(host, view'[n])
      PROVE  MInv'
  BY <1>1 DEF MInv
<1>2. ASSUME host' = host, chief' \in Peer \cup {Nobody}, UNCHANGED view,
             command' = command \/ Checked(host, command')
      PROVE  MInv'
  BY <1>1, <1>2 DEF MInv
<1>3. Checked(host, Answered)
  BY Zenon DEF Checked, Answered
<1>4. CASE CommitEntry
  BY <1>2, <1>4, SMTT(60) DEF CommitEntry, MInv
<1>5. CASE LeaseExpires
  BY <1>2, <1>5, SMTT(60) DEF LeaseExpires
<1>6. CASE ChangeHere
  <2>1. chief \in Peer /\ command.pc \in {"change", "forwarded"}
    BY <1>6 DEF ChangeHere, MInv, Checked
  <2>2. OwnServers(host, Changed(command.change)) /\ Append_(Changed(command.change))
    BY <1>6, <2>1, ChangedOwners, SMTT(60) DEF ChangeHere
  <2>3. view' = [n \in Peer |-> view'[n]] /\ \A n \in Peer : Entry(host, view'[n])
    BY <2>1, <2>2, ChangeKeepsOwners, SMTT(60)
  <2> QED
    BY <1>1, <1>3, <1>6, <2>1, <2>3, SMTT(60) DEF ChangeHere
<1>7. CASE proxyToLeader
  <2>1. command' = Answered \/ (chief \in Peer /\ command' = [command EXCEPT !.pc = "forwarded", !.on = chief])
    BY <1>7 DEF proxyToLeader, MInv
  <2>2. /\ command = [pc |-> command.pc, on |-> command.on, change |-> command.change]
        /\ command.change \in Commands
        /\ command.change.op = "add" => OwnAddress(host, command.change.id, command.change.addr)
    BY <1>7 DEF proxyToLeader, MInv, Checked
  <2>3. Checked(host, command')
    BY <1>3, <2>1, <2>2, ZenonT(60) DEF Checked
  <2> QED
    BY <1>2, <1>7, <2>3, SMTT(60) DEF proxyToLeader, MInv
<1>8. CASE ChangeFails
  BY <1>2, <1>3, <1>8, SMTT(60) DEF ChangeFails, MInv
<1>9. ASSUME NEW n \in Peer, ReconcileHealed(n) \/ joinViaPeers(n) \/ JoinGivesUp(n)
      PROVE  MInv'
  BY <1>2, <1>9, SMTT(60) DEF ReconcileHealed, joinViaPeers, JoinGivesUp, MInv
<1>10. ASSUME NEW n \in Peer, chief \in Peer, Append_(Registers(n)),
              UNCHANGED <<host, chief, command>>
       PROVE  MInv'
  <2>1. view' = [m \in Peer |-> view'[m]] /\ \A m \in Peer : Entry(host, view'[m])
    BY <1>10, RegistersOwners, ChangeKeepsOwners, SMTT(60)
  <2> QED
    BY <1>1, <1>10, <2>1, SMTT(60) DEF MInv
<1>11. ASSUME NEW n \in Peer, ReconcileAsLeader(n) PROVE MInv'
  BY <1>10, <1>11, SMTT(60) DEF ReconcileAsLeader
<1>12. ASSUME NEW n \in Peer, CallJoin(n) PROVE MInv'
  <2>1. PICK a : \/ Leads(a) /\ Append_(Registers(n))
                 \/ UNCHANGED view
    BY <1>12, SMTT(60) DEF CallJoin
  <2>2. UNCHANGED <<host, chief, command>>
    BY <1>12 DEF CallJoin
  <2>3. CASE Leads(a) /\ Append_(Registers(n))
    <3>1. chief \in Peer
      BY <2>3 DEF Leads, MInv
    <3> QED BY <1>10, <2>2, <2>3, <3>1, SMTT(60)
  <2>4. CASE UNCHANGED view
    BY <1>2, <2>2, <2>4, SMTT(60) DEF MInv
  <2> QED BY <2>1, <2>3, <2>4, SMTT(60)
<1>13. ASSUME NEW n \in Peer, ElectChief(n) PROVE MInv'
  <2>1. view' = [view EXCEPT ![n] = [view[n] EXCEPT !.turn = turn + 1]]
    BY <1>13 DEF ElectChief
  <2>2. Entry(host, [view[n] EXCEPT !.turn = turn + 1])
    <3>1. Entry(host, view[n])
      BY DEF MInv
    <3>2. [view[n] EXCEPT !.turn = turn + 1]
            = [turn |-> turn + 1, index |-> view[n].index, servers |-> view[n].servers]
      BY <3>1 DEF Entry
    <3> QED BY <3>1, <3>2, SMTT(60) DEF Entry
  <2>3. view' = [m \in Peer |-> view'[m]] /\ \A m \in Peer : Entry(host, view'[m])
    BY <2>1, <2>2, SMTT(60) DEF MInv
  <2> QED
    BY <1>1, <1>13, <2>3, Zenon DEF ElectChief, MInv
<1>14. ASSUME NEW n \in Peer, ReplicateTo(n) PROVE MInv'
  <2>1. chief \in Peer /\ view' = [view EXCEPT ![n] = view[chief]]
    BY <1>14, SMTT(60) DEF ReplicateTo, MInv
  <2>2. view' = [m \in Peer |-> view'[m]] /\ \A m \in Peer : Entry(host, view'[m])
    BY <2>1 DEF MInv
  <2> QED
    BY <1>1, <1>14, <2>2, SMTT(60) DEF ReplicateTo, MInv
<1>15. ASSUME NEW n \in Peer, Move(n) PROVE MInv'
  <2>1. host' \in [Peer -> Nat] /\ \A m \in Peer : host'[m] >= host[m]
    BY <1>15 DEF Move, MInv
  <2>2. view' = view /\ chief' \in Peer \cup {Nobody}
    BY <1>15 DEF Move, MInv
  <2>3. command' = command \/ command' = Answered
    BY <1>15, SMTT(60) DEF Move
  <2>4. /\ \A e : Entry(host, e) => Entry(host', e)
        /\ \A cmd : Checked(host, cmd) => Checked(host', cmd)
    BY <2>1, AddressesStay, SMTT(60) DEF MInv
  <2> QED
    BY <1>3, <2>1, <2>2, <2>3, <2>4, SMTT(60) DEF MInv
<1>16. ASSUME NEW on \in Peer, NEW c \in Commands, addNode(on, c) PROVE MInv'
  <2>1. OwnAddress(host, c.id, c.addr)
    BY <1>16, PreflightOwner, MembershipBounds, SMTT(60) DEF addNode
  <2>2. Checked(host, command')
    BY <1>16, <2>1, SMTT(60) DEF addNode, Checked
  <2> QED
    BY <1>2, <1>16, <2>2, SMTT(60) DEF addNode, MInv
<1>17. ASSUME NEW on \in Peer, NEW c \in Commands, removeNode(on, c) PROVE MInv'
  <2>1. Checked(host, command')
    BY <1>17 DEF removeNode, Checked
  <2> QED
    BY <1>2, <1>17, <2>1, SMTT(60) DEF removeNode, MInv
<1>18. CASE UNCHANGED mvars
  BY <1>2, <1>18 DEF mvars, MInv
<1> QED
  BY Zenon, <1>4, <1>5, <1>6, <1>7, <1>8, <1>9, <1>11, <1>12, <1>13, <1>14, <1>15, <1>16, <1>17,
     <1>18 DEF MemberNext, MemberStep

\* nodes.go and address_reconciler.go: no configuration in any node's log records a
\* member under an address that was never its own.
THEOREM RecordsOwnAddressHolds == MemberSpec => []RecordsOwnAddress
<1>1. MInv => RecordsOwnAddress
  BY DEF MInv, Entry, OwnServers, OwnAddress, RecordsOwnAddress, Members
<1> QED
  BY <1>1, MemberStarts, MemberStepKeeps, PTL DEF MemberSpec

-----------------------------------------------------------------------------
(***************************************************************************)
(* Both together: a cluster from its first start to its life as a formed    *)
(* one.                                                                     *)
(***************************************************************************)
\* Forming the cluster and the life of the formed one take turns, and neither changes
\* what the other rests on: in all of it tokens are used once, one root is trusted,
\* identities are whole, and nobody is recorded under another node's address.
THEOREM ClusterSafe ==
  ClusterSpec => [](SingleUse /\ OneRoot /\ IdentityWhole /\ RecordsOwnAddress)
<1>1. ClusterInit => Init /\ MemberInit
  BY Zenon DEF ClusterInit
<1>2. [ClusterNext]_cvars => [Next]_vars
  BY Zenon DEF ClusterNext, InCluster, cvars
<1>3. [ClusterNext]_cvars => [MemberNext]_mvars
  BY Zenon DEF ClusterNext, InCluster, cvars
<1>4. ClusterSpec => Spec /\ MemberSpec
  BY <1>1, <1>2, <1>3, PTL DEF ClusterSpec, Spec, MemberSpec
<1> QED
  BY <1>4, SpecSingleUse, SpecOneRoot, SpecIdentityWhole, RecordsOwnAddressHolds, PTL

=============================================================================
