-------------------------- MODULE EnrollmentProofs ---------------------------
(***************************************************************************)
(* Forming a cluster: what holds of join tokens for any number of nodes,    *)
(* tokens and requests, and any number of crashes, timeouts and failing     *)
(* calls.                                                                   *)
(***************************************************************************)
EXTENDS Enrollment, TLAPS

-----------------------------------------------------------------------------
(***************************************************************************)
(* The types.                                                               *)
(***************************************************************************)
JoinRecords == [state : {"absent", "fresh", "burned", "reusable"}, version : Nat]
Records == [ca : Nat, join : [AllToken -> JoinRecords]]

SignPc == {"token", "adopt", "burn", "loadCA", "putCA", "sign", "addVoter", "consume",
           "reply"}
MintPc == {"loadCA", "putCA", "mint"}
Pc == {"free"} \cup SignPc \cup MintPc

Console == [pc : Pc, on : Node \cup {None}, node : Node \cup {None}, live : BOOLEAN,
            token : AllToken \cup {None}, key : Nat, version : Nat, root : Nat,
            then : {"free", "mint", "sign"}]

Cert == [key : Nat, root : Nat]
Disk == [key : Nat, cert : Cert, ca : Nat, caKey : Nat]

Registered ==
  /\ history \in Seq(Records) /\ Len(history) \in Nat \ {0}
  /\ applied \in [Node -> 1 .. Len(history)]
  /\ leader \in Node \cup {None}

Types ==
  /\ Registered
  /\ clustered \in BOOLEAN
  /\ state \in [Node -> {"down", "waiting", "saving", "up"}]
  /\ identity \in [Node -> Cert]
  /\ step \in [Node -> 0 .. 4]
  /\ disk \in [Node -> Disk]
  /\ voters \in SUBSET Node
  /\ req \in [Request -> Console]
  /\ issued \in SUBSET Token
  /\ signed \in [AllToken -> Nat]

\* A request that is under way: on a node, about a token, minting or signing.
UnderWay(q) ==
  \/ q.pc = "free" /\ q.token = None /\ q.live = FALSE
  \/ /\ q.pc \in MintPc /\ q.then = "mint" /\ q.on \in Node /\ q.token \in Token
     /\ q.live = FALSE
  \/ /\ q.pc \in SignPc /\ q.then = "sign" /\ q.on \in Node /\ q.token \in AllToken
     /\ q.node \in Node \ {Seed}

-----------------------------------------------------------------------------
(***************************************************************************)
(* The tokens.                                                              *)
(***************************************************************************)
Minting(q) == q.pc \in MintPc /\ q.then = "mint"
Signing(q) == q.pc \in SignPc /\ q.then = "sign"

\* A request that may still sign with token t, which it has burned.
Spending(q, t) == Signing(q) /\ q.token = t /\ q.pc \in {"loadCA", "putCA", "sign"}

\* A version names one record: the entry that wrote it.
Versions ==
  \A t \in AllToken, i \in 1 .. Len(history) :
    /\ history[i].join[t].version <= i
    /\ history[i].join[t].state = "absent" <=> history[i].join[t].version = 0
    /\ \A j \in 1 .. Len(history) :
         history[i].join[t].version = history[j].join[t].version =>
           history[i].join[t].state = history[j].join[t].state

\* The pre-shared token is only ever reusable, a minted one never.  Until a consume fails
\* to read its record, it keeps the record.
States ==
  \A i \in 1 .. Len(history) :
    /\ history[i].join[Shared].state \in {"absent", "reusable"}
    /\ \A t \in Token : history[i].join[t].state # "reusable"
    /\ \A t \in Token \ issued : history[i].join[t].state = "absent"
    /\ \A j \in i .. Len(history) :
         ~unread /\ history[i].join[Shared].state = "reusable" =>
           history[j].join[Shared] = history[i].join[Shared]

\* What a request may be doing, given the tokens handed out.
Requests ==
  \A r \in Request :
    /\ UnderWay(req[r])
    /\ Minting(req[r]) =>
         /\ req[r].token \in Token \ issued
         /\ \A s \in Request \ {r} : Minting(req[s]) => req[s].token # req[r].token
    /\ Signing(req[r]) => req[r].token \in issued \cup {Shared}
    /\ req[r].pc = "adopt" => req[r].token = Shared
    /\ req[r].pc = "burn" =>
         \E i \in 1 .. Len(history) :
           /\ history[i].join[req[r].token].state = "fresh"
           /\ history[i].join[req[r].token].version = req[r].version
    /\ /\ ~unread /\ Signing(req[r]) /\ req[r].token = Shared
       /\ req[r].pc \in {"loadCA", "putCA", "sign", "addVoter", "consume"}
       => Local(req[r].on).join[Shared].state = "reusable"

\* A token is spent once: by the request that burned it.
Spent ==
  \A t \in Token :
    /\ signed[t] \in {0, 1}
    /\ signed[t] = 1 => t \in issued /\ Committed.join[t].state # "fresh"
    /\ \A r \in Request : Spending(req[r], t) =>
         /\ signed[t] = 0
         /\ Committed.join[t].state # "fresh"
         /\ \A s \in Request \ {r} : ~Spending(req[s], t)

TokenInv == Types /\ Versions /\ States /\ Requests /\ Spent

-----------------------------------------------------------------------------
(***************************************************************************)
(* Records and requests under the edits the handlers make.                  *)
(***************************************************************************)
LEMMA AppendLast ==
  ASSUME NEW S, NEW s \in Seq(S), NEW e \in S
  PROVE  /\ Append(s, e) \in Seq(S) /\ Len(Append(s, e)) = Len(s) + 1
         /\ Append(s, e)[Len(s) + 1] = e
         /\ \A i \in 1 .. Len(s) : Append(s, e)[i] = s[i]
OBVIOUS

LEMMA CommittedType == Types => Committed \in Records
BY DEF Types, Registered, Committed

LEMMA LocalType == Types => \A n \in Node : Local(n) \in Records
BY DEF Types, Registered, Local

LEMMA FreeType == Free \in Console /\ Free.pc = "free" /\ Free.token = None
                  /\ Free.live = FALSE /\ Free.then = "free" /\ Free.on = None
BY DEF Free, Console, Pc

\* The fields that a request keeps from its first step to its last.
Kept(q, x) == /\ x.on = q.on /\ x.node = q.node /\ x.token = q.token /\ x.key = q.key
              /\ x.then = q.then

LEMMA EditPc ==
  ASSUME NEW q \in Console, NEW pc \in Pc
  PROVE  LET x == [q EXCEPT !.pc = pc] IN
         /\ x \in Console /\ x.pc = pc /\ Kept(q, x)
         /\ x.live = q.live /\ x.version = q.version /\ x.root = q.root
BY DEF Console, Kept

LEMMA EditLive ==
  ASSUME NEW q \in Console
  PROVE  LET x == [q EXCEPT !.live = FALSE] IN
         /\ x \in Console /\ x.pc = q.pc /\ Kept(q, x)
         /\ x.live = FALSE /\ x.version = q.version /\ x.root = q.root
BY Zenon DEF Console, Kept

\* The record a request writes.
Written(s) == IF s = "absent" THEN Absent ELSE [state |-> s, version |-> Len(history) + 1]

LEMMA WrittenType ==
  ASSUME Types, NEW s \in {"absent", "fresh", "burned", "reusable"}
  PROVE  /\ Written(s) \in JoinRecords /\ Written(s).state = s
         /\ Written(s).version = IF s = "absent" THEN 0 ELSE Len(history) + 1
<1>1. Len(history) \in Nat
  BY DEF Types, Registered
<1>2. CASE s = "absent"
  BY <1>2 DEF Written, Absent, JoinRecords
<1>3. CASE s # "absent"
  BY <1>1, <1>3 DEF Written, JoinRecords
<1> QED BY <1>2, <1>3

LEMMA JoinRecordType ==
  ASSUME Types, NEW r, req[r].token \in AllToken,
         NEW s \in {"absent", "fresh", "burned", "reusable"}
  PROVE  /\ JoinRecord(r, s) \in Records
         /\ JoinRecord(r, s).ca = Committed.ca
         /\ JoinRecord(r, s).join[req[r].token] = Written(s)
         /\ \A t \in AllToken : t # req[r].token =>
              JoinRecord(r, s).join[t] = Committed.join[t]
<1> DEFINE c == Committed
           w == Written(s)
           t == req[r].token
<1>1. c \in Records /\ w \in JoinRecords /\ t \in AllToken
  BY CommittedType, WrittenType, Zenon
<1>2. JoinRecord(r, s) = [c EXCEPT !.join = [c.join EXCEPT ![t] = w]]
  BY Zenon DEF JoinRecord, Written, Presented
<1> HIDE DEF c, w, t
<1>3. c.join \in [AllToken -> JoinRecords] /\ c.ca \in Nat
  BY <1>1 DEF Records
<1> DEFINE j == [c.join EXCEPT ![t] = w]
<1>4. /\ j \in [AllToken -> JoinRecords] /\ j[t] = w
      /\ \A u \in AllToken : u # t => j[u] = c.join[u]
  BY <1>1, <1>3, Zenon
<1> HIDE DEF j
<1>5. LET d == [c EXCEPT !.join = j] IN d \in Records /\ d.ca = c.ca /\ d.join = j
  BY <1>1, <1>4 DEF Records
<1> QED BY <1>2, <1>4, <1>5, Zenon DEF c, w, t, j

LEMMA NewCaRecordType ==
  ASSUME NEW c \in Records, NEW k \in Nat
  PROVE  LET d == [c EXCEPT !.ca = k] IN d \in Records /\ d.ca = k /\ d.join = c.join
BY DEF Records

LEMMA NewKeyType ==
  ASSUME KeyLeft
  PROVE  NewKey \in Nat /\ NewKey # 0
<1>1. NewKey \in 1 .. MaxKey
  BY DEF KeyLeft, NewKey
<1> QED BY <1>1, EnrollmentAssumption

-----------------------------------------------------------------------------
(***************************************************************************)
(* The steps of a request, each by its effect: x is the request after the   *)
(* step, d the committed records.                                           *)
(***************************************************************************)
Effect(r, x, d) ==
  /\ req' = [req EXCEPT ![r] = x]
  /\ x \in Console /\ d \in Records
  /\ \/ history' = history /\ d = Committed
     \/ history' = Append(history, d)
  /\ leader' = leader
  /\ Registered'
  /\ \A n \in Node : applied[n] <= applied'[n]

Quiet == UNCHANGED <<issued, signed, voters>>

\* An error or the answer.
Ended(r, x, d) ==
  x = Free /\ d = Committed /\ Quiet /\ (Fails(r) \/ Reply(r))

Reads(r, x, d) ==
  LET rec == Local(req[r].on).join[req[r].token]
  IN /\ req[r].pc = "token" /\ d = Committed /\ Quiet
     /\ \/ req[r].token = Shared /\ x.pc = "adopt"
        \/ rec.state = "fresh" /\ x.pc = "burn" /\ x.version = rec.version
        \/ rec.state = "reusable" /\ x.pc = "loadCA"

Adopts(r, x, d) ==
  /\ req[r].pc = "adopt" /\ x.pc = "token" /\ Quiet
  /\ \/ d = Committed
     \/ Committed.join[Shared] = Absent /\ d = JoinRecord(r, "reusable")

Burns(r, x, d) ==
  /\ req[r].pc = "burn" /\ BurnHolds(r)
  /\ x.pc = "loadCA" /\ d = JoinRecord(r, "burned") /\ Quiet

Loads(r, x, d) ==
  /\ req[r].pc = "loadCA" /\ d = Committed /\ Quiet
  /\ \/ Local(req[r].on).ca # 0 /\ x.pc = req[r].then /\ x.root = Local(req[r].on).ca
     \/ /\ Local(req[r].on).ca = 0 /\ x.pc = "putCA"
        /\ x.root = NewCa(req[r].on) /\ x.root # 0

Puts(r, x, d) ==
  /\ req[r].pc = "putCA" /\ x.root = req[r].root /\ Quiet
  /\ \/ Committed.ca = 0 /\ d = [Committed EXCEPT !.ca = req[r].root]
        /\ x.pc = req[r].then
     \/ Committed.ca # 0 /\ d = Committed /\ x.pc = "loadCA"

Mints(r, x, d) ==
  /\ req[r].pc = "mint" /\ x = Free /\ d = JoinRecord(r, "fresh")
  /\ issued' = issued \cup {req[r].token} /\ UNCHANGED <<signed, voters>>

Signs(r, x, d) ==
  /\ req[r].pc = "sign" /\ x.pc = "addVoter" /\ x.root = req[r].root /\ d = Committed
  /\ signed' = [signed EXCEPT ![req[r].token] = @ + 1] /\ UNCHANGED <<issued, voters>>

Adds(r, x, d) ==
  /\ req[r].pc = "addVoter" /\ x.pc = "consume" /\ x.root = req[r].root
  /\ d = Committed /\ voters' = voters \cup {req[r].node}
  /\ UNCHANGED <<issued, signed>>

Drops(r, x, d) ==
  /\ req[r].pc = "consume" /\ x.pc = "reply" /\ x.root = req[r].root /\ Quiet
  /\ \/ d = Committed
     \/ Consumes(r) /\ d = JoinRecord(r, "absent")
     \/ unread' /\ d = JoinRecord(r, "absent")

Goes(r, x, d) ==
  \/ Reads(r, x, d) \/ Adopts(r, x, d) \/ Burns(r, x, d) \/ Loads(r, x, d)
  \/ Puts(r, x, d) \/ Signs(r, x, d) \/ Adds(r, x, d) \/ Drops(r, x, d)

Shape(r, x, d) ==
  \/ Ended(r, x, d)
  \/ Mints(r, x, d) /\ UNCHANGED nodeVars
  \/ Kept(req[r], x) /\ x.live = req[r].live /\ Goes(r, x, d) /\ UNCHANGED nodeVars

\* How the calls of the registry come out.
LEMMA CommitsEffect ==
  ASSUME Types, NEW r \in Request, req[r].on \in Node, NEW x \in Console, NEW d \in Records,
         Commits(req[r].on, d), req' = [req EXCEPT ![r] = x]
  PROVE  Effect(r, x, d)
<1> DEFINE L == Len(history)
           o == req[r].on
<1>1. history \in Seq(Records) /\ L \in Nat /\ applied \in [Node -> 1 .. L]
      /\ leader \in Node \cup {None} /\ o \in Node
  BY DEF Types, Registered
<1>2. history' = Append(history, d) /\ applied' = [applied EXCEPT ![o] = L + 1]
      /\ leader' = leader
  BY Zenon DEF Commits
<1>3. history' \in Seq(Records) /\ Len(history') = L + 1
  BY <1>1, <1>2, AppendLast, Zenon
<1>4. applied' \in [Node -> 1 .. L + 1] /\ \A n \in Node : applied[n] <= applied'[n]
  <2> HIDE DEF L, o
  <2> QED BY <1>1, <1>2
<1>5. L + 1 \in Nat \ {0}
  <2> HIDE DEF L
  <2> QED BY <1>1
<1>6. Registered'
  BY <1>1, <1>2, <1>3, <1>4, <1>5, Zenon DEF Registered
<1> QED BY <1>2, <1>4, <1>6, Zenon DEF Effect

LEMMA RefusedEffect ==
  ASSUME Types, NEW r \in Request, req[r].on \in Node, NEW x \in Console,
         Refused(req[r].on), req' = [req EXCEPT ![r] = x]
  PROVE  Effect(r, x, Committed)
<1> DEFINE L == Len(history)
           o == req[r].on
<1>1. history \in Seq(Records) /\ L \in Nat \ {0} /\ applied \in [Node -> 1 .. L]
      /\ leader \in Node \cup {None} /\ o \in Node
  BY Zenon DEF Types, Registered
<1>2. history' = history /\ applied' = [applied EXCEPT ![o] = L] /\ leader' = leader
  BY Zenon DEF Refused
<1>4. applied' \in [Node -> 1 .. L] /\ \A n \in Node : applied[n] <= applied'[n]
  <2> HIDE DEF L, o
  <2> QED BY <1>1, <1>2
<1>6. Registered'
  BY <1>1, <1>2, <1>4, Zenon DEF Registered
<1> QED BY <1>2, <1>4, <1>6, CommittedType, Zenon DEF Effect

LEMMA NoCallEffect ==
  ASSUME Types, NEW r \in Request, NEW x \in Console,
         UNCHANGED registryVars, req' = [req EXCEPT ![r] = x]
  PROVE  Effect(r, x, Committed)
<1>1. history' = history /\ applied' = applied /\ leader' = leader
  BY Zenon DEF registryVars
<1>2. \A n \in Node : applied[n] <= applied[n]
  BY DEF Types, Registered
<1>3. Registered'
  BY <1>1, Zenon DEF Types, Registered
<1> QED BY <1>1, <1>2, <1>3, CommittedType, Zenon DEF Effect

LEMMA EffectFacts ==
  ASSUME Types, NEW r \in Request, NEW x, NEW d, Effect(r, x, d)
  PROVE  /\ req' \in [Request -> Console] /\ req'[r] = x
         /\ \A s \in Request : s # r => req'[s] = req[s]
         /\ Committed' = d /\ Len(history) <= Len(history')
         /\ \A i \in 1 .. Len(history) : history'[i] = history[i]
         /\ \/ history' = history /\ d = Committed
            \/ /\ Len(history') = Len(history) + 1
               /\ history'[Len(history) + 1] = d
<1>1. req \in [Request -> Console] /\ req' = [req EXCEPT ![r] = x] /\ x \in Console
      /\ history \in Seq(Records) /\ d \in Records
  BY Zenon DEF Types, Registered, Effect
<1>2. /\ req' \in [Request -> Console] /\ req'[r] = x
      /\ \A s \in Request : s # r => req'[s] = req[s]
  BY <1>1, Zenon
<1>3. Len(history) \in Nat
  BY DEF Types, Registered
<1>4. CASE history' = history /\ d = Committed
  BY <1>2, <1>3, <1>4 DEF Committed
<1>5. CASE history' = Append(history, d)
  <2>1. /\ Len(history') = Len(history) + 1 /\ history'[Len(history) + 1] = d
        /\ \A i \in 1 .. Len(history) : history'[i] = history[i]
    BY <1>1, <1>5
  <2>2. Committed' = d
    BY <2>1, Zenon DEF Committed
  <2>3. Len(history) <= Len(history) + 1
    BY <1>3
  <2> QED BY <1>2, <2>1, <2>2, <2>3, Zenon
<1> QED BY <1>4, <1>5, Zenon DEF Effect

LEMMA Places ==
  ASSUME Requests, NEW r \in Request, req[r].pc # "free"
  PROVE  /\ req[r].on \in Node /\ req[r].token \in AllToken
         /\ Minting(req[r]) \/ (Signing(req[r]) /\ req[r].node \in Node \ {Seed})
<1>1. UnderWay(req[r])
  BY Zenon DEF Requests
<1> QED BY <1>1 DEF UnderWay, AllToken, Minting, Signing

\* A request that goes on at pc.
Next1(r, x, pc) ==
  /\ x \in Console /\ req' = [req EXCEPT ![r] = x] /\ x.pc = pc /\ Kept(req[r], x)
  /\ x.live = req[r].live /\ x.root = req[r].root

LEMMA Advance ==
  ASSUME Types, NEW r \in Request, NEW pc \in Pc, Goto(r, pc)
  PROVE  \E x : Next1(r, x, pc)
<1>1. req[r] \in Console
  BY Zenon DEF Types
<1> DEFINE x == [req[r] EXCEPT !.pc = pc]
<1>2. /\ x \in Console /\ x.pc = pc /\ Kept(req[r], x)
      /\ x.live = req[r].live /\ x.root = req[r].root
  BY <1>1, EditPc, Zenon
<1>3. req' = [req EXCEPT ![r] = x]
  BY Zenon DEF Goto
<1> QED BY <1>2, <1>3, Zenon DEF Next1

LEMMA Stages == SignPc \cup MintPc \subseteq Pc
BY DEF Pc

LEMMA FailShape ==
  ASSUME Types, NEW r \in Request, Fails(r), Quiet, UNCHANGED registryVars
  PROVE  \E x, d : Effect(r, x, d) /\ Shape(r, x, d)
<1>1. Effect(r, Free, Committed)
  BY FreeType, NoCallEffect, Zenon DEF Fails
<1> QED BY <1>1, Zenon DEF Shape, Ended

LEMMA ReadTokenShape ==
  ASSUME Types, Requests, NEW r \in Request, ReadToken(r)
  PROVE  \E x, d : Effect(r, x, d) /\ Shape(r, x, d)
<1> DEFINE q == req[r]
           rec == Local(q.on).join[q.token]
<1>1. q.pc = "token" /\ UNCHANGED registryVars /\ Quiet
  BY Zenon DEF ReadToken, At, Quiet
<1>2. q \in Console /\ q.on \in Node /\ q.token \in AllToken
  BY <1>1, Places DEF Types
<1>3. rec \in JoinRecords
  BY <1>2, LocalType, SMTT(60) DEF Records
<1>4. \/ q.token = Shared /\ Goto(r, "adopt") /\ UNCHANGED nodeVars
      \/ /\ rec.state = "fresh" /\ UNCHANGED nodeVars
         /\ req' = [req EXCEPT ![r] = [q EXCEPT !.pc = "burn", !.version = rec.version]]
      \/ rec.state = "reusable" /\ Goto(r, "loadCA") /\ UNCHANGED nodeVars
      \/ Fails(r)
  BY Zenon DEF ReadToken, Presented
<1>5. CASE q.token = Shared /\ Goto(r, "adopt") /\ UNCHANGED nodeVars
  <2>1. "adopt" \in Pc
    BY Stages DEF SignPc
  <2>2. PICK x : Next1(r, x, "adopt")
    BY <1>5, <2>1, Advance, Zenon
  <2>3. Effect(r, x, Committed)
    BY <1>1, <2>2, NoCallEffect, Zenon DEF Next1
  <2>4. Reads(r, x, Committed)
    BY <1>1, <1>5, <2>2, Zenon DEF Reads, Next1
  <2> QED BY <1>5, <2>2, <2>3, <2>4, Zenon DEF Shape, Goes, Next1
<1>6. CASE /\ rec.state = "fresh" /\ UNCHANGED nodeVars
           /\ req' = [req EXCEPT ![r] = [q EXCEPT !.pc = "burn", !.version = rec.version]]
  <2> DEFINE v == rec.version
             x == [q EXCEPT !.pc = "burn", !.version = v]
  <2>0. v \in Nat /\ "burn" \in Pc
    BY <1>3 DEF JoinRecords, Pc, SignPc
  <2> HIDE DEF v
  <2>1. x \in Console /\ x.pc = "burn" /\ x.version = v /\ Kept(q, x) /\ x.live = q.live
    <3> HIDE DEF q
    <3> QED BY <1>2, <2>0, Zenon DEF Console, Kept
  <2>2. req' = [req EXCEPT ![r] = x]
    BY <1>6, Zenon DEF v
  <2> HIDE DEF x
  <2>3. Effect(r, x, Committed)
    BY <1>1, <2>1, <2>2, NoCallEffect, Zenon
  <2>4. Reads(r, x, Committed)
    BY <1>1, <1>6, <2>1, Zenon DEF Reads, v
  <2> QED BY <1>6, <2>1, <2>3, <2>4, Zenon DEF Shape, Goes
<1>7. CASE rec.state = "reusable" /\ Goto(r, "loadCA") /\ UNCHANGED nodeVars
  <2>1. "loadCA" \in Pc
    BY Stages DEF SignPc
  <2>2. PICK x : Next1(r, x, "loadCA")
    BY <1>7, <2>1, Advance, Zenon
  <2>3. Effect(r, x, Committed)
    BY <1>1, <2>2, NoCallEffect, Zenon DEF Next1
  <2>4. Reads(r, x, Committed)
    BY <1>1, <1>7, <2>2, Zenon DEF Reads, Next1
  <2> QED BY <1>7, <2>2, <2>3, <2>4, Zenon DEF Shape, Goes, Next1
<1>8. CASE Fails(r)
  BY <1>1, <1>8, FailShape, Zenon
<1> QED BY <1>4, <1>5, <1>6, <1>7, <1>8, Zenon

LEMMA AdoptShape ==
  ASSUME Types, Requests, NEW r \in Request, AdoptBootstrapToken(r)
  PROVE  \E x, d : Effect(r, x, d) /\ Shape(r, x, d)
<1>1. req[r].pc = "adopt" /\ Goto(r, "token") /\ Quiet /\ UNCHANGED nodeVars
  BY Zenon DEF AdoptBootstrapToken, At, Quiet
<1>2. req[r].on \in Node /\ req[r].token \in AllToken
  BY <1>1, Places
<1>3. "token" \in Pc
  BY Stages DEF SignPc
<1>4. PICK x : Next1(r, x, "token")
  BY <1>1, <1>3, Advance, Zenon
<1>5. x \in Console /\ req' = [req EXCEPT ![r] = x]
  BY <1>4, Zenon DEF Next1
<1>6. CASE Committed.join[Shared] = Absent
  <2> DEFINE d == JoinRecord(r, "reusable")
  <2>1. d \in Records
    BY <1>2, JoinRecordType
  <2>2. Commits(req[r].on, d)
    BY <1>6, Zenon DEF AdoptBootstrapToken
  <2> HIDE DEF d
  <2>3. Effect(r, x, d)
    BY <1>2, <1>5, <2>1, <2>2, CommitsEffect, Zenon
  <2>4. Adopts(r, x, d)
    BY <1>1, <1>4, <1>6, Zenon DEF Adopts, Next1, d
  <2> QED BY <1>1, <1>4, <2>3, <2>4, Zenon DEF Shape, Goes, Next1
<1>7. CASE Committed.join[Shared] # Absent
  <2>1. Effect(r, x, Committed)
    BY <1>2, <1>5, <1>7, RefusedEffect, Zenon DEF AdoptBootstrapToken
  <2>2. Adopts(r, x, Committed)
    BY <1>1, <1>4, Zenon DEF Adopts, Next1
  <2> QED BY <1>1, <1>4, <2>1, <2>2, Zenon DEF Shape, Goes, Next1
<1> QED BY <1>6, <1>7

LEMMA BurnShape ==
  ASSUME Types, Requests, NEW r \in Request, Burn(r)
  PROVE  \E x, d : Effect(r, x, d) /\ Shape(r, x, d)
<1>1. req[r].pc = "burn" /\ Quiet
  BY Zenon DEF Burn, At, Quiet
<1>2. req[r].on \in Node /\ req[r].token \in AllToken
  BY <1>1, Places
<1>3. CASE BurnHolds(r)
  <2> DEFINE d == JoinRecord(r, "burned")
  <2>1. d \in Records
    BY <1>2, JoinRecordType
  <2>2. Commits(req[r].on, d) /\ Goto(r, "loadCA") /\ UNCHANGED nodeVars
    BY <1>3, Zenon DEF Burn
  <2> HIDE DEF d
  <2>3. "loadCA" \in Pc
    BY Stages DEF SignPc
  <2>4. PICK x : Next1(r, x, "loadCA")
    BY <2>2, <2>3, Advance, Zenon
  <2>5. Effect(r, x, d)
    BY <1>2, <2>1, <2>2, <2>4, CommitsEffect, Zenon DEF Next1
  <2>6. Burns(r, x, d)
    BY <1>1, <1>3, <2>4, Zenon DEF Burns, Next1, d
  <2> QED BY <2>2, <2>4, <2>5, <2>6, Zenon DEF Shape, Goes, Next1
<1>4. CASE ~BurnHolds(r)
  <2>1. Refused(req[r].on) /\ Fails(r)
    BY <1>4, Zenon DEF Burn
  <2>2. Effect(r, Free, Committed)
    BY <1>2, <2>1, FreeType, RefusedEffect, Zenon DEF Fails
  <2> QED BY <1>1, <2>1, <2>2, Zenon DEF Shape, Ended
<1> QED BY <1>3, <1>4

LEMMA LoadCAShape ==
  ASSUME Types, Requests, NEW r \in Request, LoadCA(r)
  PROVE  \E x, d : Effect(r, x, d) /\ Shape(r, x, d)
<1> DEFINE q == req[r]
           n == q.on
<1>1. q.pc = "loadCA" /\ Quiet /\ UNCHANGED registryVars
      /\ (KeyLeft \/ Local(n).ca # 0 \/ disk[n].ca # 0)
  BY Zenon DEF LoadCA, At, Quiet
<1>2. n \in Node /\ q \in Console /\ q.then \in {"mint", "sign"}
  BY <1>1, Places DEF Types, Minting, Signing
<1>3. "putCA" \in Pc /\ q.then \in Pc
  BY <1>2, Stages DEF SignPc, MintPc
<1>4. \/ /\ Local(n).ca # 0 /\ UNCHANGED nodeVars
         /\ req' = [req EXCEPT ![r] = [q EXCEPT !.pc = q.then, !.root = Local(n).ca]]
      \/ /\ Local(n).ca = 0 /\ NewCa(n) # 0 /\ UNCHANGED nodeVars
         /\ req' = [req EXCEPT ![r] = [q EXCEPT !.pc = "putCA", !.root = NewCa(n)]]
      \/ Fails(r)
  BY Zenon DEF LoadCA
<1>5. ASSUME NEW pc \in Pc, NEW k \in Nat, UNCHANGED nodeVars,
             req' = [req EXCEPT ![r] = [q EXCEPT !.pc = pc, !.root = k]],
             \/ Local(n).ca # 0 /\ pc = q.then /\ k = Local(n).ca
             \/ Local(n).ca = 0 /\ pc = "putCA" /\ k = NewCa(n) /\ k # 0
      PROVE  \E x, d : Effect(r, x, d) /\ Shape(r, x, d)
  <2> DEFINE x == [q EXCEPT !.pc = pc, !.root = k]
  <2>1. x \in Console /\ x.pc = pc /\ x.root = k /\ Kept(q, x) /\ x.live = q.live
    <3> HIDE DEF q
    <3> QED BY <1>2, Zenon DEF Console, Kept
  <2>2. req' = [req EXCEPT ![r] = x]
    BY <1>5, Zenon
  <2> HIDE DEF x
  <2>3. Effect(r, x, Committed)
    BY <1>1, <2>1, <2>2, NoCallEffect, Zenon
  <2>4. Loads(r, x, Committed)
    BY <1>1, <1>5, <2>1, Zenon DEF Loads
  <2> QED BY <1>5, <2>1, <2>3, <2>4, Zenon DEF Shape, Goes
<1>6. CASE /\ Local(n).ca # 0 /\ UNCHANGED nodeVars
           /\ req' = [req EXCEPT ![r] = [q EXCEPT !.pc = q.then, !.root = Local(n).ca]]
  <2>1. Local(n).ca \in Nat
    BY <1>2, LocalType DEF Records
  <2> QED BY <1>3, <1>5, <1>6, <2>1, Zenon
<1>7. CASE /\ Local(n).ca = 0 /\ NewCa(n) # 0 /\ UNCHANGED nodeVars
           /\ req' = [req EXCEPT ![r] = [q EXCEPT !.pc = "putCA", !.root = NewCa(n)]]
  <2>1. NewCa(n) \in Nat
    <3>1. CASE disk[n].ca # 0
      BY <1>2, <3>1 DEF NewCa, Types, Disk
    <3>2. CASE disk[n].ca = 0
      BY <1>1, <1>7, <3>2, NewKeyType, Zenon DEF NewCa
    <3> QED BY <3>1, <3>2
  <2> QED BY <1>3, <1>5, <1>7, <2>1, Zenon
<1>8. CASE Fails(r)
  BY <1>1, <1>8, FailShape, Zenon
<1> QED BY <1>4, <1>6, <1>7, <1>8, Zenon

LEMMA PutCAShape ==
  ASSUME Types, Requests, NEW r \in Request, PutCA(r)
  PROVE  \E x, d : Effect(r, x, d) /\ Shape(r, x, d)
<1>1. req[r].pc = "putCA" /\ Quiet /\ UNCHANGED nodeVars
  BY Zenon DEF PutCA, At, Quiet
<1>2. req[r].on \in Node /\ req[r].root \in Nat /\ req[r].then \in {"mint", "sign"}
  BY <1>1, Places DEF Types, Console, Minting, Signing
<1>3. "loadCA" \in Pc /\ req[r].then \in Pc
  BY <1>2, Stages DEF SignPc, MintPc
<1>4. CASE Committed.ca = 0
  <2> DEFINE d == [Committed EXCEPT !.ca = req[r].root]
  <2>1. d \in Records
    BY <1>2, CommittedType, NewCaRecordType, Zenon
  <2>2. Commits(req[r].on, d) /\ Goto(r, req[r].then)
    BY <1>4, Zenon DEF PutCA
  <2> HIDE DEF d
  <2>3. PICK x : Next1(r, x, req[r].then)
    BY <1>3, <2>2, Advance, Zenon
  <2>4. Effect(r, x, d)
    BY <1>2, <2>1, <2>2, <2>3, CommitsEffect, Zenon DEF Next1
  <2>5. Puts(r, x, d)
    BY <1>1, <1>4, <2>3, Zenon DEF Puts, Next1, d
  <2> QED BY <1>1, <2>3, <2>4, <2>5, Zenon DEF Shape, Goes, Next1
<1>5. CASE Committed.ca # 0
  <2>1. Refused(req[r].on) /\ Goto(r, "loadCA")
    BY <1>5, Zenon DEF PutCA
  <2>2. PICK x : Next1(r, x, "loadCA")
    BY <1>3, <2>1, Advance, Zenon
  <2>3. Effect(r, x, Committed)
    BY <1>2, <2>1, <2>2, RefusedEffect, Zenon DEF Next1
  <2>4. Puts(r, x, Committed)
    BY <1>1, <1>5, <2>2, Zenon DEF Puts, Next1
  <2> QED BY <1>1, <2>2, <2>3, <2>4, Zenon DEF Shape, Goes, Next1
<1> QED BY <1>4, <1>5

LEMMA MintShape ==
  ASSUME Types, Requests, NEW r \in Request, Mint(r)
  PROVE  \E x, d : Effect(r, x, d) /\ Shape(r, x, d)
<1> DEFINE d == JoinRecord(r, "fresh")
<1>1. /\ req[r].pc = "mint" /\ UNCHANGED <<signed, voters>> /\ UNCHANGED nodeVars
      /\ issued' = issued \cup {req[r].token} /\ Commits(req[r].on, d)
      /\ req' = [req EXCEPT ![r] = Free]
  BY Zenon DEF Mint, At, Presented
<1>2. req[r].on \in Node /\ req[r].token \in AllToken
  BY <1>1, Places
<1>3. d \in Records
  BY <1>2, JoinRecordType
<1> HIDE DEF d
<1>4. Effect(r, Free, d)
  BY <1>1, <1>2, <1>3, FreeType, CommitsEffect, Zenon
<1>5. Mints(r, Free, d)
  BY <1>1, Zenon DEF Mints, d
<1> QED BY <1>1, <1>4, <1>5, Zenon DEF Shape

LEMMA SignShape ==
  ASSUME Types, Requests, NEW r \in Request, Sign(r) \/ AddVoter(r)
  PROVE  \E x, d : Effect(r, x, d) /\ Shape(r, x, d)
<1>1. "addVoter" \in Pc /\ "consume" \in Pc
  BY Stages DEF SignPc
<1>2. UNCHANGED registryVars /\ UNCHANGED nodeVars
  BY Zenon DEF Sign, AddVoter
<1>3. CASE Sign(r)
  <2>1. Goto(r, "addVoter")
    BY <1>3, Zenon DEF Sign
  <2>2. PICK x : Next1(r, x, "addVoter")
    BY <1>1, <2>1, Advance, Zenon
  <2>3. Effect(r, x, Committed)
    BY <1>2, <2>2, NoCallEffect, Zenon DEF Next1
  <2>4. Signs(r, x, Committed)
    BY <1>3, <2>2, Zenon DEF Sign, At, Signs, Next1, Presented
  <2> QED BY <1>2, <2>2, <2>3, <2>4, Zenon DEF Shape, Goes, Next1
<1>4. CASE AddVoter(r)
  <2>1. Goto(r, "consume")
    BY <1>4, Zenon DEF AddVoter
  <2>2. PICK x : Next1(r, x, "consume")
    BY <1>1, <2>1, Advance, Zenon
  <2>3. Effect(r, x, Committed)
    BY <1>2, <2>2, NoCallEffect, Zenon DEF Next1
  <2>4. Adds(r, x, Committed)
    BY <1>4, <2>2, Zenon DEF AddVoter, At, Adds, Next1
  <2> QED BY <1>2, <2>2, <2>3, <2>4, Zenon DEF Shape, Goes, Next1
<1> QED BY <1>3, <1>4

LEMMA ConsumeShape ==
  ASSUME Types, Requests, NEW r \in Request,
         ConsumeJoinToken(r) \/ (ConsumeUnread(r) /\ unread')
  PROVE  \E x, d : Effect(r, x, d) /\ Shape(r, x, d)
<1>1. req[r].pc = "consume" /\ Quiet /\ UNCHANGED nodeVars /\ Goto(r, "reply")
  BY Zenon DEF ConsumeJoinToken, ConsumeUnread, At, Quiet
<1>2. req[r].on \in Node /\ req[r].token \in AllToken
  BY <1>1, Places
<1>3. "reply" \in Pc
  BY Stages DEF SignPc
<1>4. PICK x : Next1(r, x, "reply")
  BY <1>1, <1>3, Advance, Zenon
<1>5. CASE CanWrite(r) /\ ((ConsumeJoinToken(r) /\ Consumes(r)) \/ (ConsumeUnread(r) /\ unread'))
  <2> DEFINE d == JoinRecord(r, "absent")
  <2>1. d \in Records
    BY <1>2, JoinRecordType
  <2>2. Commits(req[r].on, d)
    BY <1>5, Zenon DEF ConsumeJoinToken, ConsumeUnread
  <2> HIDE DEF d
  <2>3. Effect(r, x, d)
    BY <1>2, <1>4, <2>1, <2>2, CommitsEffect, Zenon DEF Next1
  <2>4. Drops(r, x, d)
    BY <1>1, <1>4, <1>5, Zenon DEF Drops, Next1, d
  <2> QED BY <1>1, <1>4, <2>3, <2>4, Zenon DEF Shape, Goes, Next1
<1>6. CASE ~CanWrite(r) \/ (ConsumeJoinToken(r) /\ ~Consumes(r))
  <2>1. UNCHANGED registryVars
    BY <1>6, Zenon DEF ConsumeJoinToken, ConsumeUnread
  <2>2. Effect(r, x, Committed)
    BY <1>4, <2>1, NoCallEffect, Zenon DEF Next1
  <2>3. Drops(r, x, Committed)
    BY <1>1, <1>4, Zenon DEF Drops, Next1
  <2> QED BY <1>1, <1>4, <2>2, <2>3, Zenon DEF Shape, Goes, Next1
<1> QED BY <1>5, <1>6

Handles(r) ==
  RequestStep(r) \/ CallFails(r) \/ (ConsumeUnread(r) /\ unread')

LEMMA RequestShape ==
  ASSUME Types, Requests, NEW r \in Request, Handles(r)
  PROVE  req[r].pc # "free" /\ \E x, d : Effect(r, x, d) /\ Shape(r, x, d)
<1>1. req[r].pc # "free"
  BY Zenon DEF Handles, RequestStep, CallFails, ReadToken, AdoptBootstrapToken, Burn, LoadCA,
         PutCA, Mint, Sign, AddVoter, ConsumeJoinToken, ConsumeUnread, Reply, NotLeader, At
<1>2. CASE Reply(r)
  <2>1. req' = [req EXCEPT ![r] = Free] /\ UNCHANGED registryVars /\ Quiet
    BY <1>2, Zenon DEF Reply, Quiet
  <2>2. Effect(r, Free, Committed)
    BY <2>1, FreeType, NoCallEffect, Zenon
  <2> QED BY <1>1, <1>2, <2>1, <2>2, Zenon DEF Shape, Ended
<1>3. CASE NotLeader(r) \/ CallFails(r)
  BY <1>1, <1>3, FailShape, Zenon DEF NotLeader, CallFails, Quiet
<1> QED BY <1>1, <1>2, <1>3, ReadTokenShape, AdoptShape, BurnShape, LoadCAShape, PutCAShape,
           MintShape, SignShape, ConsumeShape, ZenonT(60) DEF Handles, RequestStep

-----------------------------------------------------------------------------
(***************************************************************************)
(* The other steps, as the requests see them.                               *)
(***************************************************************************)
\* A request that goes on, is given up by its caller, or is lost.
Faded(q, x) ==
  \/ x = Free
  \/ /\ x.pc = q.pc /\ Kept(q, x) /\ x.version = q.version /\ x.root = q.root
     /\ x.live \in {FALSE, q.live}

Around ==
  /\ req' \in [Request -> Console]
  /\ \A r \in Request : Faded(req[r], req'[r])
  /\ history' = history /\ Registered'
  /\ \A n \in Node : applied[n] <= applied'[n]
  /\ issued' = issued /\ signed' = signed

NodeSide(n) == Load(n) \/ Save(n) \/ Provisioned(n) \/ Elect(n)
SeedSide == Genesis \/ Bootstrap \/ StepDown \/ Depose \/ \E t \in Token : Expire(t)

LEMMA AppliedNumbers == Types => \A n \in Node : applied[n] <= applied[n]
BY DEF Types, Registered

LEMMA StillAround ==
  ASSUME Types, (\E n \in Node : NodeSide(n)) \/ SeedSide
  PROVE  Around
<1>1. /\ history' = history /\ applied' = applied /\ req' = req /\ issued' = issued
      /\ signed' = signed
  BY Zenon DEF NodeSide, Load, Save, Provisioned, Elect, SeedSide, Genesis, Bootstrap,
               StepDown, Depose, Expire, registryVars
<1>2. leader' \in Node \cup {None}
  BY Zenon DEF NodeSide, Load, Save, Provisioned, Elect, SeedSide, Genesis, Bootstrap,
               StepDown, Depose, Expire, registryVars, Types, Registered
<1>4. req \in [Request -> Console] /\ Registered
  BY Zenon DEF Types
<1>3. \A n \in Node : applied[n] <= applied[n]
  BY AppliedNumbers, Zenon
<1>5. \A r \in Request : Faded(req[r], req[r])
  BY Zenon DEF Faded, Kept
<1>6. Registered'
  BY <1>1, <1>2, <1>4, Zenon DEF Registered
<1> QED BY <1>1, <1>3, <1>4, <1>5, <1>6, Zenon DEF Around

LEMMA ReplicateAround ==
  ASSUME Types, NEW n \in Node, Replicate(n)
  PROVE  Around
<1> DEFINE L == Len(history)
<1>1. /\ history' = history /\ req' = req /\ issued' = issued /\ signed' = signed
      /\ applied[n] < L /\ applied' = [applied EXCEPT ![n] = applied[n] + 1]
      /\ leader' = leader
  BY Zenon DEF Replicate, CatchUp
<1>2. L \in Nat /\ applied \in [Node -> 1 .. L] /\ req \in [Request -> Console] /\ Registered
  BY DEF Types, Registered
<1>3. applied' \in [Node -> 1 .. L] /\ \A m \in Node : applied[m] <= applied'[m]
  <2> HIDE DEF L
  <2> QED BY <1>1, <1>2
<1>4. Registered'
  BY <1>1, <1>2, <1>3, Zenon DEF Registered
<1>5. \A r \in Request : Faded(req[r], req[r])
  BY Zenon DEF Faded, Kept
<1> QED BY <1>1, <1>2, <1>3, <1>4, <1>5, Zenon DEF Around

LEMMA LiveAround ==
  ASSUME NEW q \in Console
  PROVE  LET x == [q EXCEPT !.live = FALSE] IN
         x \in Console /\ Faded(q, x) /\ x.live = FALSE /\ x.node = q.node /\ x.on = q.on
<1>1. LET x == [q EXCEPT !.live = FALSE] IN
      /\ x \in Console /\ x.pc = q.pc /\ Kept(q, x)
      /\ x.live = FALSE /\ x.version = q.version /\ x.root = q.root
  BY EditLive, Zenon
<1> QED BY <1>1, Zenon DEF Faded, Kept

LEMMA CrashAround ==
  ASSUME Types, NEW n \in Node, Crash(n)
  PROVE  Around
<1>1. /\ history' = history /\ applied' = applied /\ issued' = issued /\ signed' = signed
      /\ leader' = IF leader = n THEN None ELSE leader
  BY Zenon DEF Crash
<1>2. req \in [Request -> Console] /\ Registered
  BY Zenon DEF Types
<1>3. Registered'
  BY <1>1, <1>2, Zenon DEF Registered
<1> DEFINE f(r) == IF req[r].on = n THEN Free
                   ELSE IF req[r].node = n THEN [req[r] EXCEPT !.live = FALSE]
                   ELSE req[r]
<1>4. \A r \in Request : f(r) \in Console /\ Faded(req[r], f(r))
  <2> SUFFICES ASSUME NEW r \in Request PROVE f(r) \in Console /\ Faded(req[r], f(r))
    BY Zenon
  <2>1. req[r] \in Console
    BY <1>2, Zenon
  <2>2. [req[r] EXCEPT !.live = FALSE] \in Console
        /\ Faded(req[r], [req[r] EXCEPT !.live = FALSE])
    BY <2>1, LiveAround, Zenon
  <2>3. Faded(req[r], req[r]) /\ Faded(req[r], Free) /\ Free \in Console
    BY FreeType, Zenon DEF Faded, Kept
  <2> QED BY <2>1, <2>2, <2>3, Zenon
<1>5. req' = [r \in Request |-> f(r)]
  BY Zenon DEF Crash
<1> HIDE DEF f
<1>6. req' \in [Request -> Console] /\ \A r \in Request : Faded(req[r], req'[r])
  BY <1>4, <1>5, Zenon
<1>7. \A m \in Node : applied[m] <= applied[m]
  BY AppliedNumbers, Zenon
<1> QED BY <1>1, <1>3, <1>6, <1>7, Zenon DEF Around

LEMMA TimeoutAround ==
  ASSUME Types, NEW r \in Request, ClientTimeout(r)
  PROVE  Around
<1>1. /\ history' = history /\ applied' = applied /\ issued' = issued /\ signed' = signed
      /\ leader' = leader
      /\ req' = [req EXCEPT ![r] = [req[r] EXCEPT !.live = FALSE]]
  BY Zenon DEF ClientTimeout, registryVars
<1>2. req \in [Request -> Console] /\ Registered
  BY Zenon DEF Types
<1>3. Registered'
  BY <1>1, <1>2, Zenon DEF Registered
<1>4. [req[r] EXCEPT !.live = FALSE] \in Console
      /\ Faded(req[r], [req[r] EXCEPT !.live = FALSE])
  BY <1>2, LiveAround, Zenon
<1>5. \A s \in Request : Faded(req[s], req[s])
  BY Zenon DEF Faded, Kept
<1>6. req' \in [Request -> Console] /\ \A s \in Request : Faded(req[s], req'[s])
  BY <1>1, <1>2, <1>4, <1>5, Zenon
<1>7. \A m \in Node : applied[m] <= applied[m]
  BY AppliedNumbers, Zenon
<1> QED BY <1>1, <1>3, <1>6, <1>7, Zenon DEF Around

\* A new request: for a token to mint, or from a joiner.
Begins(r, x) ==
  /\ req' = [req EXCEPT ![r] = x] /\ x \in Console /\ req[r].pc = "free"
  /\ x.on = leader /\ leader \in Node /\ leader # None
  /\ history' = history /\ applied' = applied /\ leader' = leader
  /\ issued' = issued /\ signed' = signed /\ voters' = voters

MintBegins(r, x, t) ==
  /\ Begins(r, x) /\ x.pc = "loadCA" /\ x.then = "mint" /\ x.token = t /\ x.live = FALSE
  /\ t \in Token \ issued /\ \A s \in Request : req[s].token # t

EnrollBegins(r, x, n) ==
  /\ Begins(r, x) /\ x.pc = "token" /\ x.then = "sign" /\ x.token \in issued \cup {Shared}
  /\ x.node = n /\ n \in Node \ {Seed} /\ x.key # 0

LEMMA MintBegin ==
  ASSUME Types, NEW r \in Request, NEW t \in Token, MintToken(r, t)
  PROVE  UNCHANGED nodeVars /\ \E x : MintBegins(r, x, t)
<1> DEFINE x == [Free EXCEPT !.pc = "loadCA", !.on = leader, !.token = t, !.then = "mint"]
<1>1. leader \in Node /\ leader # None
  BY Zenon DEF MintToken, Types, Registered
<1>2. /\ x \in Console /\ x.pc = "loadCA" /\ x.then = "mint" /\ x.token = t
      /\ x.live = FALSE /\ x.on = leader
  BY <1>1, FreeType, Zenon DEF Free, Console, Pc, MintPc, AllToken
<1>3. /\ req' = [req EXCEPT ![r] = x] /\ UNCHANGED nodeVars
      /\ history' = history /\ applied' = applied /\ leader' = leader
      /\ issued' = issued /\ signed' = signed /\ voters' = voters
      /\ req[r].pc = "free" /\ t \in Token \ issued
      /\ \A s \in Request : req[s].token # t
  BY Zenon DEF MintToken, registryVars, At
<1> HIDE DEF x
<1> QED BY <1>1, <1>2, <1>3, Zenon DEF MintBegins, Begins

LEMMA EnrollBegin ==
  ASSUME Types, NEW r \in Request, NEW n \in Node, Enroll(n, r)
  PROVE  /\ clustered /\ ~LoadNodeIdentity(n) /\ state[n] = "down"
         /\ state' = [state EXCEPT ![n] = "waiting"]
         /\ UNCHANGED <<identity, step, disk>>
         /\ \E x : EnrollBegins(r, x, n)
<1>1. leader \in Node /\ leader # None /\ n # Seed
  BY Zenon DEF Enroll, Types, Registered
<1>2. PICK t \in TokensOf[n] \cap (issued \cup {Shared}) :
        req' = [req EXCEPT ![r] = [Free EXCEPT !.pc = "token", !.on = leader, !.node = n,
                              !.live = TRUE, !.token = t, !.key = NewKey, !.then = "sign"]]
  BY Zenon DEF Enroll
<1>3. NewKey \in Nat /\ NewKey # 0
  BY NewKeyType, Zenon DEF Enroll
<1>4. t \in AllToken /\ t \in issued \cup {Shared}
  BY DEF Types, AllToken
<1> DEFINE k == NewKey
           x == [Free EXCEPT !.pc = "token", !.on = leader, !.node = n,
                             !.live = TRUE, !.token = t, !.key = k, !.then = "sign"]
<1>5. /\ x \in Console /\ x.pc = "token" /\ x.then = "sign" /\ x.token = t
      /\ x.node = n /\ x.on = leader /\ x.key = k
  <2> HIDE DEF k
  <2>1. k \in Nat
    BY <1>3 DEF k
  <2> QED BY <1>1, <1>4, <2>1, FreeType DEF Free, Console, Pc, SignPc
<1>6. req' = [req EXCEPT ![r] = x]
  BY <1>2, Zenon
<1> HIDE DEF x
<1>7. /\ history' = history /\ applied' = applied /\ leader' = leader
      /\ issued' = issued /\ signed' = signed /\ voters' = voters
      /\ req[r].pc = "free"
  BY Zenon DEF Enroll, registryVars, At
<1>8. EnrollBegins(r, x, n)
  BY <1>1, <1>3, <1>4, <1>5, <1>6, <1>7, Zenon DEF EnrollBegins, Begins
<1> QED BY <1>8, Zenon DEF Enroll

\* Every step is one of these.
LEMMA StepCases ==
  ASSUME Types, Next
  PROVE  \/ Around
         \/ \E r \in Request : Handles(r)
         \/ \E r \in Request : \E x, t : MintBegins(r, x, t)
         \/ \E r \in Request : \E x, n : EnrollBegins(r, x, n)
<1>1. CASE SeedSide \/ \E n \in Node : NodeSide(n)
  BY <1>1, StillAround, Zenon
<1>2. CASE \E n \in Node : Replicate(n) \/ Crash(n)
  BY <1>2, ReplicateAround, CrashAround, Zenon
<1>3. CASE \E r \in Request : ClientTimeout(r)
  BY <1>3, TimeoutAround, Zenon
<1>4. CASE \E r \in Request, t \in Token : MintToken(r, t)
  BY <1>4, MintBegin, Zenon
<1>5. CASE \E n \in Node, r \in Request : Enroll(n, r)
  BY <1>5, EnrollBegin, Zenon
<1> QED BY <1>1, <1>2, <1>3, <1>4, <1>5, Zenon
        DEF Next, Step, Handles, NodeStep, NodeSide, SeedSide

\* A failed lookup is not forgotten.
StillUnread == unread => unread'

LEMMA UnreadStep == Next => StillUnread
BY Zenon DEF Next, StillUnread

-----------------------------------------------------------------------------
(***************************************************************************)
(* The records, as the committed writes leave them.                         *)
(***************************************************************************)
Grows(d) ==
  /\ Committed' = d /\ Len(history) <= Len(history')
  /\ \A i \in 1 .. Len(history) : history'[i] = history[i]
  /\ \/ history' = history /\ d = Committed
     \/ Len(history') = Len(history) + 1 /\ history'[Len(history) + 1] = d

\* Each record is the one there was, or one written now.
Rewrites(d) ==
  \A t \in AllToken :
    \/ d.join[t] = Committed.join[t]
    \/ \E s \in {"absent", "fresh", "burned", "reusable"} : d.join[t] = Written(s)

\* No write ends the pre-shared token whose record could be read, or makes another one
\* reusable.
Respects(d) ==
  /\ \/ d.join[Shared] = Committed.join[Shared]
     \/ unread' /\ d.join[Shared].state = "absent"
     \/ Committed.join[Shared].state = "absent" /\ d.join[Shared].state = "reusable"
  /\ \A t \in Token : d.join[t].state = Committed.join[t].state
                      \/ (d.join[t].state # "reusable" /\ t \in issued')

LEMMA Bounds ==
  ASSUME Types
  PROVE  /\ Len(history) \in 1 .. Len(history) /\ Len(history) \in Nat
         /\ history[Len(history)] = Committed
         /\ \A i \in 1 .. Len(history), t \in AllToken : history[i].join[t] \in JoinRecords
<1>1. history \in Seq(Records) /\ Len(history) \in Nat \ {0}
  BY DEF Types, Registered
<1>2. \A i \in 1 .. Len(history) : history[i] \in Records
  BY <1>1
<1>3. \A i \in 1 .. Len(history), t \in AllToken : history[i].join[t] \in JoinRecords
  BY <1>2 DEF Records
<1> QED BY <1>1, <1>3 DEF Committed

LEMMA NewIndex ==
  ASSUME NEW L \in Nat, NEW i \in 1 .. L + 1
  PROVE  i \in 1 .. L \/ i = L + 1
OBVIOUS

\* Entry i, with the record of t that was there, or the new one.
LEMMA OldOrNew ==
  ASSUME Types, NEW d, Grows(d), NEW i \in 1 .. Len(history')
  PROVE  \/ i \in 1 .. Len(history) /\ history'[i] = history[i]
         \/ /\ i = Len(history) + 1 /\ history'[i] = d /\ i = Len(history')
<1>1. Len(history) \in Nat
  BY Bounds, Zenon
<1>2. CASE history' = history
  BY <1>2, Zenon
<1>3. CASE Len(history') = Len(history) + 1 /\ history'[Len(history) + 1] = d
  <2>1. i \in 1 .. Len(history) \/ i = Len(history) + 1
    BY <1>1, <1>3, NewIndex, Zenon
  <2> QED BY <1>3, <2>1, Zenon DEF Grows
<1> QED BY <1>2, <1>3, Zenon DEF Grows

\* The record of t in entry i of the new history: an old one, or written now.
LEMMA RecordOf ==
  ASSUME Types, NEW d, Grows(d), Rewrites(d), NEW i \in 1 .. Len(history'),
         NEW t \in AllToken
  PROVE  \/ \E j \in 1 .. Len(history) : j <= i /\ history'[i].join[t] = history[j].join[t]
         \/ /\ i = Len(history) + 1
            /\ \E s \in {"absent", "fresh", "burned", "reusable"} :
                 history'[i].join[t] = Written(s)
<1>1. /\ Len(history) \in 1 .. Len(history) /\ Len(history) \in Nat
      /\ history[Len(history)] = Committed
  BY Bounds, Zenon
<1>2. CASE i \in 1 .. Len(history) /\ history'[i] = history[i]
  <2>1. i <= i
    BY <1>2
  <2> QED BY <1>2, <2>1, Zenon
<1>3. CASE i = Len(history) + 1 /\ history'[i] = d
  <2>1. CASE d.join[t] = Committed.join[t]
    <3>1. Len(history) <= i
      BY <1>1, <1>3
    <3> QED BY <1>1, <1>3, <2>1, <3>1, Zenon
  <2>2. CASE \E s \in {"absent", "fresh", "burned", "reusable"} : d.join[t] = Written(s)
    BY <1>3, <2>2, Zenon
  <2> QED BY <2>1, <2>2, Zenon DEF Rewrites
<1> QED BY <1>2, <1>3, OldOrNew, Zenon

\* What is known of one record of the new history.
Known(i, t) ==
  LET a == history'[i].join[t]
  IN /\ a.version \in Nat /\ a.version <= i
     /\ a.state = "absent" <=> a.version = 0
     /\ \/ a.version <= Len(history) /\ \E j \in 1 .. Len(history) : a = history[j].join[t]
        \/ i = Len(history) + 1 /\ a.version = i
        \/ a.version = 0

LEMMA KnownRecord ==
  ASSUME Types, Versions, NEW d, Grows(d), Rewrites(d), NEW i \in 1 .. Len(history'),
         NEW t \in AllToken
  PROVE  Known(i, t)
<1> DEFINE a == history'[i].join[t]
           L == Len(history)
<1>0. L \in Nat
  BY Bounds, Zenon
<1>i. i \in Nat
  <2>1. Len(history') = L \/ Len(history') = L + 1
    BY Zenon DEF Grows
  <2> QED BY <1>0, <2>1
<1>1. CASE \E j \in 1 .. L : j <= i /\ a = history[j].join[t]
  <2>1. PICK j \in 1 .. L : j <= i /\ a = history[j].join[t]
    BY <1>1, Zenon
  <2>2. a \in JoinRecords
    BY <2>1, Bounds, Zenon
  <2>3. a.version <= j /\ (a.state = "absent" <=> a.version = 0)
    BY <2>1, Zenon DEF Versions
  <2> HIDE DEF a, L
  <2>4. a.version \in Nat
    BY <2>2 DEF JoinRecords
  <2>5. a.version <= i /\ a.version <= L
    BY <1>0, <1>i, <2>1, <2>3, <2>4
  <2> QED BY <2>1, <2>3, <2>4, <2>5, Zenon DEF Known, a, L
<1>2. CASE i = L + 1 /\ \E s \in {"absent", "fresh", "burned", "reusable"} : a = Written(s)
  <2>1. PICK s \in {"absent", "fresh", "burned", "reusable"} : a = Written(s)
    BY <1>2, Zenon
  <2>2. a.state = s /\ a.version = IF s = "absent" THEN 0 ELSE L + 1
    BY <2>1, WrittenType, Zenon
  <2> HIDE DEF a, L
  <2>3. /\ a.version \in Nat /\ a.version <= i
        /\ a.state = "absent" <=> a.version = 0
        /\ (i = L + 1 /\ a.version = i) \/ a.version = 0
    BY <1>0, <1>2, <2>2
  <2> QED BY <2>3, Zenon DEF Known, a, L
<1> QED BY <1>1, <1>2, RecordOf, Zenon

LEMMA VersionsGrow ==
  ASSUME Types, Versions, NEW d, Grows(d), Rewrites(d)
  PROVE  Versions'
<1>1. SUFFICES ASSUME NEW t \in AllToken, NEW i \in 1 .. Len(history'),
                      NEW j \in 1 .. Len(history'),
                      history'[i].join[t].version = history'[j].join[t].version
               PROVE  history'[i].join[t].state = history'[j].join[t].state
  BY KnownRecord, Zenon DEF Versions, Known
<1> DEFINE a == history'[i].join[t]
           b == history'[j].join[t]
           L == Len(history)
<1>2. Known(i, t) /\ Known(j, t) /\ L \in Nat
  BY KnownRecord, Bounds, Zenon
<1>3. CASE a.version = 0
  BY <1>1, <1>2, <1>3, Zenon DEF Known
<1>4. CASE a.version # 0 /\ a.version <= L
  <2>1. b.version <= L
    BY <1>1, <1>4, Zenon
  <2>2. ~(i = L + 1 /\ a.version = i) /\ ~(j = L + 1 /\ b.version = j)
    <3> HIDE DEF a, b, L
    <3> QED BY <1>2, <1>4, <2>1
  <2>3. PICK k \in 1 .. L : a = history[k].join[t]
    BY <1>1, <1>2, <1>4, <2>2, Zenon DEF Known
  <2>4. PICK m \in 1 .. L : b = history[m].join[t]
    BY <1>1, <1>2, <1>4, <2>2, Zenon DEF Known
  <2>5. history[k].join[t].version = history[m].join[t].version
    BY <1>1, <2>3, <2>4, Zenon
  <2>6. history[k].join[t].state = history[m].join[t].state
    BY <2>5, Zenon DEF Versions
  <2> QED BY <2>3, <2>4, <2>6, Zenon
<1>5. CASE a.version # 0 /\ ~(a.version <= L)
  BY <1>1, <1>2, <1>5, Zenon DEF Known
<1> QED BY <1>3, <1>4, <1>5, Zenon

LEMMA StatesGrow ==
  ASSUME Types, States, StillUnread, NEW d, Grows(d), Respects(d), issued \subseteq issued'
  PROVE  States'
<1> DEFINE L == Len(history)
<1>0. /\ L \in 1 .. L /\ L \in Nat /\ history[L] = Committed /\ Shared \in AllToken
  BY Bounds, Zenon DEF AllToken
<1>1. ASSUME NEW i \in 1 .. Len(history')
      PROVE  /\ history'[i].join[Shared].state \in {"absent", "reusable"}
             /\ \A t \in Token : history'[i].join[t].state # "reusable"
             /\ \A t \in Token \ issued' : history'[i].join[t].state = "absent"
  <2>1. CASE i \in 1 .. L /\ history'[i] = history[i]
    BY <2>1, Zenon DEF States
  <2>2. CASE i = L + 1 /\ history'[i] = d
    BY <1>0, <2>2, ZenonT(60) DEF States, Respects
  <2> QED BY <2>1, <2>2, OldOrNew, Zenon
<1>2. ASSUME NEW i \in 1 .. Len(history'), NEW j \in i .. Len(history'),
             ~unread', history'[i].join[Shared].state = "reusable"
      PROVE  history'[j].join[Shared] = history'[i].join[Shared]
  <2>0. ~unread
    BY <1>2, Zenon DEF StillUnread
  <2>1. j \in 1 .. Len(history')
    <3>1. Len(history') = L \/ Len(history') = L + 1
      BY Zenon DEF Grows
    <3> QED BY <1>0, <3>1
  <2>2. CASE j \in 1 .. L /\ history'[j] = history[j]
    <3>1. i \in 1 .. L /\ j \in i .. L
      <4> HIDE DEF L
      <4> QED BY <1>0, <2>2
    <3>2. history'[i] = history[i]
      BY <3>1, Zenon DEF Grows
    <3> QED BY <1>2, <2>0, <2>2, <3>1, <3>2, Zenon DEF States
  <2>3. CASE j = L + 1 /\ history'[j] = d /\ i = L + 1
    BY <2>3, Zenon
  <2>4. CASE j = L + 1 /\ history'[j] = d /\ i \in 1 .. L /\ history'[i] = history[i]
    <3>1. L \in i .. L
      <4> HIDE DEF L
      <4> QED BY <1>0, <2>4
    <3>2. Committed.join[Shared] = history[i].join[Shared]
      BY <1>0, <1>2, <2>0, <2>4, <3>1, Zenon DEF States
    <3>3. Committed.join[Shared].state = "reusable"
      BY <1>2, <2>4, <3>2, Zenon
    <3>4. d.join[Shared] = Committed.join[Shared]
      BY <1>2, <3>3 DEF Respects
    <3> QED BY <2>4, <3>2, <3>4, Zenon
  <2> QED BY <2>1, <2>2, <2>3, <2>4, OldOrNew, Zenon
<1> QED BY <1>1, <1>2, Zenon DEF States

LEMMA SameJoin ==
  ASSUME NEW d, d.join = Committed.join
  PROVE  Rewrites(d) /\ Respects(d)
BY Zenon DEF Rewrites, Respects

LEMMA OneJoin ==
  ASSUME Types, NEW r, req[r].token \in AllToken,
         NEW s \in {"absent", "fresh", "burned", "reusable"}, NEW d, d = JoinRecord(r, s)
  PROVE  /\ Rewrites(d) /\ d.join[req[r].token].state = s /\ d.ca = Committed.ca
         /\ \A t \in AllToken : t # req[r].token => d.join[t] = Committed.join[t]
<1>1. /\ d.join[req[r].token] = Written(s) /\ d.ca = Committed.ca
      /\ \A t \in AllToken : t # req[r].token => d.join[t] = Committed.join[t]
  BY JoinRecordType, Zenon
<1> QED BY <1>1, WrittenType, Zenon DEF Rewrites

\* A write to the record of a token that was handed out.
LEMMA TokenWrite ==
  ASSUME Types, NEW r, req[r].token \in Token, req[r].token \in issued',
         NEW s \in {"absent", "fresh", "burned"}, NEW d, d = JoinRecord(r, s)
  PROVE  Rewrites(d) /\ Respects(d)
<1>1. req[r].token \in AllToken /\ req[r].token # Shared /\ Shared \in AllToken
      /\ Token \subseteq AllToken
  BY EnrollmentAssumption, Zenon DEF AllToken
<1>2. s \in {"absent", "fresh", "burned", "reusable"} /\ s # "reusable"
  OBVIOUS
<1>3. /\ Rewrites(d) /\ d.join[req[r].token].state = s
      /\ \A t \in AllToken : t # req[r].token => d.join[t] = Committed.join[t]
  BY <1>1, <1>2, OneJoin
<1>4. d.join[Shared] = Committed.join[Shared]
  BY <1>1, <1>3, Zenon
<1>5. \A t \in Token : d.join[t].state = Committed.join[t].state
                       \/ (d.join[t].state # "reusable" /\ t \in issued')
  <2> SUFFICES ASSUME NEW t \in Token
               PROVE  \/ d.join[t].state = Committed.join[t].state
                      \/ d.join[t].state # "reusable" /\ t \in issued'
    BY Zenon
  <2>1. CASE t = req[r].token
    BY <1>2, <1>3, <2>1, Zenon
  <2>2. CASE t # req[r].token
    BY <1>1, <1>3, <2>2, Zenon
  <2> QED BY <2>1, <2>2, Zenon
<1> QED BY <1>3, <1>4, <1>5, Zenon DEF Respects

\* The record a join token was read from says whether it is the pre-shared one.
LEMMA BurnedToken ==
  ASSUME Types, States, Requests, NEW r \in Request, req[r].pc = "burn"
  PROVE  req[r].token \in Token /\ req[r].token \in issued
<1>1. req[r].pc # "free" /\ "burn" \notin MintPc
  BY DEF MintPc
<1>2. req[r].token \in AllToken /\ req[r].token \in issued \cup {Shared}
  BY <1>1, Places, Zenon DEF Requests, Minting
<1>3. PICK i \in 1 .. Len(history) : history[i].join[req[r].token].state = "fresh"
  BY Zenon DEF Requests
<1>4. history[i].join[Shared].state # "fresh"
  BY DEF States
<1> QED BY <1>2, <1>3, <1>4, Zenon DEF AllToken

\* A token that is consumed is a minted one, unless a lookup has failed.
LEMMA Dropped ==
  ASSUME Types, States, Requests, StillUnread, NEW r \in Request, req[r].pc = "consume",
         Consumes(r) \/ unread'
  PROVE  \/ req[r].token \in Token /\ req[r].token \in issued
         \/ unread' /\ req[r].token = Shared
<1>1. req[r].pc # "free" /\ "consume" \notin MintPc
      /\ req[r].pc \in {"loadCA", "putCA", "sign", "addVoter", "consume"}
  BY DEF MintPc
<1>2. /\ req[r].token \in AllToken /\ req[r].token \in issued \cup {Shared}
      /\ Signing(req[r])
  BY <1>1, Places, Zenon DEF Requests, Minting
<1>3. req[r].token # Shared \/ unread'
  BY <1>1, <1>2, Zenon DEF Requests, Consumes, Presented, StillUnread
<1> QED BY <1>2, <1>3, Zenon DEF AllToken

\* A failed lookup of the pre-shared token ends its record, and nothing else.
LEMMA SharedDropped ==
  ASSUME Types, NEW r, req[r].token = Shared, unread', NEW d, d = JoinRecord(r, "absent")
  PROVE  Rewrites(d) /\ Respects(d)
<1>1. /\ Rewrites(d) /\ d.join[Shared].state = "absent"
      /\ \A t \in AllToken : t # Shared => d.join[t] = Committed.join[t]
  BY OneJoin DEF AllToken
<1>2. \A t \in Token : d.join[t] = Committed.join[t]
  BY <1>1, EnrollmentAssumption, Zenon DEF AllToken
<1> QED BY <1>1, <1>2, Zenon DEF Respects

LEMMA RecordStep ==
  ASSUME Types, States, Requests, StillUnread, NEW r \in Request, req[r].pc # "free",
         NEW x, NEW d, Shape(r, x, d)
  PROVE  Rewrites(d) /\ Respects(d) /\ issued \subseteq issued'
<1>0. Committed \in Records
  BY CommittedType
<1>1. CASE d = Committed
  <2>1. issued \subseteq issued'
    BY Zenon DEF Shape, Ended, Mints, Goes, Reads, Adopts, Burns, Loads, Puts, Signs, Adds,
                 Drops, Quiet
  <2> QED BY <1>1, <2>1, SameJoin, Zenon
<1>2. CASE Adopts(r, x, d) /\ d # Committed
  <2>1. /\ Committed.join[Shared] = Absent /\ d = JoinRecord(r, "reusable")
        /\ req[r].pc = "adopt" /\ issued' = issued
    BY <1>2, Zenon DEF Adopts, Quiet
  <2>2. req[r].token = Shared /\ Shared \in AllToken
    BY <2>1, Zenon DEF Requests, AllToken
  <2>3. /\ Rewrites(d) /\ d.join[Shared].state = "reusable"
        /\ \A t \in AllToken : t # Shared => d.join[t] = Committed.join[t]
    BY <2>1, <2>2, OneJoin
  <2>4. Committed.join[Shared].state = "absent"
    BY <2>1 DEF Absent
  <2>5. \A t \in Token : d.join[t] = Committed.join[t]
    BY <2>3, EnrollmentAssumption, Zenon DEF AllToken
  <2> QED BY <2>1, <2>3, <2>4, <2>5, Zenon DEF Respects
<1>3. CASE Burns(r, x, d)
  BY <1>3, BurnedToken, TokenWrite DEF Burns, Quiet
<1>4. CASE Puts(r, x, d) /\ d # Committed
  <2>1. d = [Committed EXCEPT !.ca = req[r].root] /\ issued' = issued
    BY <1>4, Zenon DEF Puts, Quiet
  <2>2. d.join = Committed.join
    BY <1>0, <2>1 DEF Records
  <2> QED BY <2>1, <2>2, SameJoin, Zenon
<1>5. CASE Mints(r, x, d)
  <2>1. req[r].pc = "mint" /\ d = JoinRecord(r, "fresh") /\ issued' = issued \cup {req[r].token}
    BY <1>5, Zenon DEF Mints
  <2>2. "mint" \notin SignPc
    BY DEF SignPc
  <2>3. Minting(req[r])
    BY <2>1, <2>2, Places, Zenon DEF Signing
  <2>4. req[r].token \in Token
    BY <2>3, Zenon DEF Requests
  <2> QED BY <2>1, <2>4, TokenWrite
<1>6. CASE Drops(r, x, d) /\ d # Committed
  <2>1. /\ req[r].pc = "consume" /\ d = JoinRecord(r, "absent") /\ issued' = issued
        /\ Consumes(r) \/ unread'
    BY <1>6, Zenon DEF Drops, Quiet
  <2>2. CASE unread' /\ req[r].token = Shared
    BY <2>1, <2>2, SharedDropped, Zenon
  <2>3. CASE req[r].token \in Token /\ req[r].token \in issued
    BY <2>1, <2>3, TokenWrite
  <2> QED BY <2>1, <2>2, <2>3, Dropped, Zenon
<1> QED BY <1>1, <1>2, <1>3, <1>4, <1>5, <1>6, Zenon
        DEF Shape, Ended, Goes, Reads, Loads, Signs, Adds

-----------------------------------------------------------------------------
(***************************************************************************)
(* The types are kept.                                                      *)
(***************************************************************************)
NodeTypes ==
  /\ state \in [Node -> {"down", "waiting", "saving", "up"}]
  /\ identity \in [Node -> Cert]
  /\ step \in [Node -> 0 .. 4]
  /\ disk \in [Node -> Disk]
  /\ voters \in SUBSET Node

LEMMA UpdateType ==
  ASSUME NEW S, NEW f \in [Node -> S], NEW n, NEW v \in S
  PROVE  [f EXCEPT ![n] = v] \in [Node -> S]
BY Zenon

LEMMA BumpType ==
  ASSUME NEW T, NEW f \in [T -> Nat], NEW t \in T
  PROVE  /\ [f EXCEPT ![t] = @ + 1] \in [T -> Nat]
         /\ [f EXCEPT ![t] = @ + 1][t] = f[t] + 1
         /\ \A u \in T : u # t => [f EXCEPT ![t] = @ + 1][u] = f[u]
OBVIOUS

LEMMA NodeTypesKept ==
  ASSUME Types, Requests, UNCHANGED nodeVars, voters' \in SUBSET Node
  PROVE  NodeTypes'
BY Zenon DEF NodeTypes, Types, nodeVars

LEMMA FailsTypes ==
  ASSUME Types, Requests, NEW r \in Request, Fails(r), voters' = voters
  PROVE  NodeTypes'
<1>1. state' \in [Node -> {"down", "waiting", "saving", "up"}]
  BY Zenon DEF Fails, Types
<1> QED BY <1>1, Zenon DEF NodeTypes, Types, Fails

LEMMA ReplyTypes ==
  ASSUME Types, Requests, NEW r \in Request, Reply(r)
  PROVE  NodeTypes'
<1>1. req[r] \in Console /\ voters' = voters
  BY Zenon DEF Types, Reply
<1>2. CASE ~req[r].live
  BY <1>1, <1>2, NodeTypesKept, Zenon DEF Reply, Types
<1>3. CASE req[r].live
  <2> DEFINE n == req[r].node
             c == [key |-> req[r].key, root |-> req[r].root]
  <2>1. c \in Cert
    BY <1>1 DEF Console, Cert
  <2>2. /\ identity' = [identity EXCEPT ![n] = c] /\ step' = [step EXCEPT ![n] = 0]
        /\ state' = [state EXCEPT ![n] = "saving"] /\ disk' = disk
    BY <1>3, Zenon DEF Reply
  <2> HIDE DEF c, n
  <2>3. identity' \in [Node -> Cert]
    BY <2>1, <2>2, Zenon DEF Types
  <2>4. step' \in [Node -> 0 .. 4]
    BY <2>2, UpdateType DEF Types
  <2>5. state' \in [Node -> {"down", "waiting", "saving", "up"}]
    BY <2>2, UpdateType, Zenon DEF Types
  <2> QED BY <1>1, <2>2, <2>3, <2>4, <2>5, Zenon DEF NodeTypes, Types
<1> QED BY <1>2, <1>3, Zenon

LEMMA ShapeTypes ==
  ASSUME Types, Requests, NEW r \in Request, NEW x, NEW d, Shape(r, x, d)
  PROVE  NodeTypes' /\ issued' \in SUBSET Token /\ signed' \in [AllToken -> Nat]
<1>1. CASE Ended(r, x, d)
  BY <1>1, FailsTypes, ReplyTypes, Zenon DEF Ended, Quiet, Types
<1>2. CASE Mints(r, x, d) /\ UNCHANGED nodeVars
  <2>1. "mint" \notin SignPc /\ "mint" # "free"
    BY DEF SignPc
  <2>2. req[r].token \in Token
    BY <1>2, <2>1, Places, Zenon DEF Mints, Signing, Requests
  <2> QED BY <1>2, <2>2, NodeTypesKept, Zenon DEF Mints, Types
<1>3. CASE Kept(req[r], x) /\ x.live = req[r].live /\ Goes(r, x, d) /\ UNCHANGED nodeVars
  <2>1. CASE Signs(r, x, d)
    <3>1. signed' \in [AllToken -> Nat]
      <4>1. req[r].pc # "free"
        BY <2>1 DEF Signs
      <4> QED BY <2>1, <4>1, Places, BumpType, Zenon DEF Signs, Types
    <3> QED BY <1>3, <2>1, <3>1, NodeTypesKept, Zenon DEF Signs, Types
  <2>2. CASE Adds(r, x, d)
    <3>1. "addVoter" \notin MintPc /\ "addVoter" # "free"
      BY DEF MintPc
    <3>2. req[r].node \in Node
      BY <2>2, <3>1, Places, Zenon DEF Adds, Minting
    <3> QED BY <1>3, <2>2, <3>2, NodeTypesKept, Zenon DEF Adds, Types
  <2>3. CASE Quiet
    BY <1>3, <2>3, NodeTypesKept, Zenon DEF Quiet, Types
  <2> QED BY <1>3, <2>1, <2>2, <2>3, Zenon
          DEF Goes, Reads, Adopts, Burns, Loads, Puts, Drops
<1> QED BY <1>1, <1>2, <1>3, Zenon DEF Shape

\* The file that Save writes next, and what the disk holds then.
Saved(n, e) ==
  LET a == disk[n]
      b == identity[n]
  IN \/ step[n] = 0 /\ e = [a EXCEPT !.key = b.key]
     \/ step[n] = 1 /\ e = [a EXCEPT !.cert = b]
     \/ step[n] = 2 /\ e = [a EXCEPT !.ca = b.root]
     \/ step[n] = 3 /\ n = Seed /\ e = [a EXCEPT !.caKey = b.root]

LEMMA SaveShape ==
  ASSUME Types, NEW n \in Node, Save(n)
  PROVE  /\ step' = [step EXCEPT ![n] = step[n] + 1] /\ step[n] + 1 \in 0 .. 4
         /\ \E e \in Disk : disk' = [disk EXCEPT ![n] = e] /\ Saved(n, e)
<1> DEFINE k == step[n]
           F == Files(n)
           a == disk[n]
           b == identity[n]
<1>1. k \in 0 .. 4 /\ a \in Disk /\ b \in Cert
  BY Zenon DEF Types
<1>2. k < Len(F) /\ step' = [step EXCEPT ![n] = k + 1]
  BY Zenon DEF Save
<1>3. step'[n] = k + 1
  BY <1>2, Zenon DEF Types
<1>4. disk' = [disk EXCEPT ![n] = [a EXCEPT ![F[k + 1]] = FileContent(n, F[k + 1])]]
  BY <1>3, Zenon DEF Save
<1>5. \/ k = 0 /\ F[k + 1] = "key"
      \/ k = 1 /\ F[k + 1] = "cert"
      \/ k = 2 /\ F[k + 1] = "ca"
      \/ k = 3 /\ F[k + 1] = "caKey" /\ n = Seed
  <2> HIDE DEF k
  <2>1. CASE n = Seed
    BY <1>1, <1>2, <2>1 DEF Files
  <2>2. CASE n # Seed
    BY <1>1, <1>2, <2>2 DEF Files
  <2> QED BY <2>1, <2>2
<1>6. k + 1 \in 0 .. 4
  <2> HIDE DEF k
  <2> QED BY <1>1, <1>5
<1> DEFINE f == F[k + 1]
           v == FileContent(n, f)
           e == [a EXCEPT ![f] = v]
<1>7. /\ f = "key" => v = b.key
      /\ f = "cert" => v = b
      /\ f \in {"ca", "caKey"} => v = b.root
  <2> HIDE DEF f
  <2> QED BY DEF FileContent
<1> HIDE DEF f, v
<1>8. e \in Disk /\ Saved(n, e)
  <2>1. CASE k = 0 /\ f = "key"
    <3>1. e = [a EXCEPT !.key = b.key]
      BY <1>7, <2>1, Zenon
    <3>2. [a EXCEPT !.key = b.key] \in Disk
      <4> HIDE DEF a, b
      <4> QED BY <1>1 DEF Disk, Cert
    <3> QED BY <2>1, <3>1, <3>2, Zenon DEF Saved
  <2>2. CASE k = 1 /\ f = "cert"
    <3>1. e = [a EXCEPT !.cert = b]
      BY <1>7, <2>2, Zenon
    <3>2. [a EXCEPT !.cert = b] \in Disk
      <4> HIDE DEF a, b
      <4> QED BY <1>1 DEF Disk
    <3> QED BY <2>2, <3>1, <3>2, Zenon DEF Saved
  <2>3. CASE k = 2 /\ f = "ca"
    <3>1. e = [a EXCEPT !.ca = b.root]
      BY <1>7, <2>3, Zenon
    <3>2. [a EXCEPT !.ca = b.root] \in Disk
      <4> HIDE DEF a, b
      <4> QED BY <1>1 DEF Disk, Cert
    <3> QED BY <2>3, <3>1, <3>2, Zenon DEF Saved
  <2>4. CASE k = 3 /\ f = "caKey" /\ n = Seed
    <3>1. e = [a EXCEPT !.caKey = b.root]
      BY <1>7, <2>4, Zenon
    <3>2. [a EXCEPT !.caKey = b.root] \in Disk
      <4> HIDE DEF a, b
      <4> QED BY <1>1 DEF Disk, Cert
    <3> QED BY <2>4, <3>1, <3>2, Zenon DEF Saved
  <2> QED BY <1>5, <2>1, <2>2, <2>3, <2>4, Zenon DEF f
<1>9. disk' = [disk EXCEPT ![n] = e]
  BY <1>4, Zenon DEF f, v
<1> QED BY <1>2, <1>6, <1>8, <1>9, Zenon

LEMMA SideTypes ==
  ASSUME Types, (\E n \in Node : NodeSide(n) \/ Replicate(n) \/ Crash(n)) \/ SeedSide
                 \/ \E r \in Request : ClientTimeout(r)
  PROVE  NodeTypes'
<1> DEFINE S == {"down", "waiting", "saving", "up"}
<1>0. /\ state \in [Node -> S] /\ identity \in [Node -> Cert] /\ step \in [Node -> 0 .. 4]
      /\ disk \in [Node -> Disk] /\ voters \in SUBSET Node /\ Seed \in Node
  BY EnrollmentAssumption, Zenon DEF Types
<1>a. "down" \in S /\ "saving" \in S /\ "up" \in S
  OBVIOUS
<1> HIDE DEF S
<1>1. ASSUME NEW n \in Node, Load(n) \/ Provisioned(n) PROVE NodeTypes'
  BY <1>0, <1>1, <1>a, UpdateType, Zenon DEF Load, Provisioned, NodeTypes, S
<1>2. ASSUME NEW n \in Node, Save(n) PROVE NodeTypes'
  <2>1. step' \in [Node -> 0 .. 4] /\ disk' \in [Node -> Disk]
    BY <1>0, <1>2, SaveShape, UpdateType, ZenonT(60)
  <2> QED BY <1>0, <1>2, <2>1, Zenon DEF Save, NodeTypes, S
<1>3. CASE Genesis
  <2> DEFINE c == [key |-> NewKey, root |-> NewKey]
  <2>1. c \in Cert
    <3>1. NewKey \in Nat
      BY <1>3, NewKeyType, Zenon DEF Genesis
    <3> QED BY <3>1, Zenon DEF Cert
  <2>2. /\ identity' = [identity EXCEPT ![Seed] = c] /\ step' = [step EXCEPT ![Seed] = 0]
        /\ state' = [state EXCEPT ![Seed] = "saving"] /\ disk' = disk /\ voters' = voters
    BY <1>3, Zenon DEF Genesis
  <2> HIDE DEF c
  <2>3. 0 \in 0 .. 4
    OBVIOUS
  <2> QED BY <1>0, <1>a, <2>1, <2>2, <2>3, UpdateType, Zenon DEF NodeTypes, S
<1>4. CASE Bootstrap
  BY <1>0, <1>4, Zenon DEF Bootstrap, NodeTypes, nodeVars, S
<1>5. CASE \/ StepDown \/ Depose \/ \E t \in Token : Expire(t)
           \/ \E n \in Node : Elect(n) \/ Replicate(n)
  BY <1>0, <1>5, Zenon DEF StepDown, Depose, Expire, Elect, Replicate, NodeTypes, nodeVars, S
<1>6. ASSUME NEW n \in Node, Crash(n) PROVE NodeTypes'
  <2>1. \A m \in Node : state[m] \in S
    BY <1>0, Zenon
  <2>2. state' \in [Node -> S]
    BY <1>6, <1>a, <2>1, Zenon DEF Crash
  <2> QED BY <1>0, <1>6, <2>2, Zenon DEF Crash, NodeTypes, S
<1>7. ASSUME NEW r \in Request, ClientTimeout(r) PROVE NodeTypes'
  BY <1>0, <1>7, <1>a, UpdateType, Zenon DEF ClientTimeout, NodeTypes, S
<1> QED BY <1>1, <1>2, <1>3, <1>4, <1>5, <1>6, <1>7, Zenon DEF NodeSide, SeedSide

LEMMA TypesStep ==
  ASSUME Types, Requests, Next
  PROVE  Types'
<1>1. clustered' \in BOOLEAN
  BY Zenon DEF Next, Types
<1>2. CASE \E r \in Request : Handles(r)
  <2>1. PICK r \in Request : \E x, d : Effect(r, x, d) /\ Shape(r, x, d)
    BY <1>2, RequestShape, Zenon
  <2>2. PICK x, d : Effect(r, x, d) /\ Shape(r, x, d)
    BY <2>1, Zenon
  <2>3. req' \in [Request -> Console] /\ Registered'
    BY <2>2, EffectFacts, Zenon DEF Effect
  <2> QED BY <1>1, <2>2, <2>3, ShapeTypes, Zenon DEF Types, NodeTypes
<1>3. CASE \/ (\E n \in Node : NodeSide(n) \/ Replicate(n) \/ Crash(n)) \/ SeedSide
           \/ \E r \in Request : ClientTimeout(r)
  <2>1. NodeTypes'
    BY <1>3, SideTypes, Zenon
  <2>2. Around
    BY <1>3, StillAround, ReplicateAround, CrashAround, TimeoutAround, Zenon
  <2> QED BY <1>1, <2>1, <2>2, Zenon DEF Around, NodeTypes, Types
<1>4. ASSUME NEW r \in Request, NEW x, Begins(r, x), NodeTypes' PROVE Types'
  <2>1. req' \in [Request -> Console]
    BY <1>4, Zenon DEF Begins, Types
  <2>2. Registered'
    BY <1>4, Zenon DEF Begins, Types, Registered
  <2> QED BY <1>1, <1>4, <2>1, <2>2, Zenon DEF Begins, Types, NodeTypes
<1>5. ASSUME NEW r \in Request, NEW t \in Token, MintToken(r, t) PROVE Types'
  <2>1. UNCHANGED nodeVars /\ \E x : MintBegins(r, x, t)
    BY <1>5, MintBegin, Zenon
  <2>2. NodeTypes'
    BY <2>1, NodeTypesKept, Zenon DEF MintBegins, Begins, Types
  <2> QED BY <1>4, <2>1, <2>2, Zenon DEF MintBegins
<1>6. ASSUME NEW r \in Request, NEW n \in Node, Enroll(n, r) PROVE Types'
  <2>1. /\ state' = [state EXCEPT ![n] = "waiting"] /\ UNCHANGED <<identity, step, disk>>
        /\ \E x : EnrollBegins(r, x, n)
    BY <1>6, EnrollBegin, Zenon
  <2>2. NodeTypes'
    BY <2>1, UpdateType, Zenon DEF EnrollBegins, Begins, Types, NodeTypes
  <2> QED BY <1>4, <2>1, <2>2, Zenon DEF EnrollBegins
<1> QED BY <1>2, <1>3, <1>5, <1>6, Zenon DEF Next, Step, Handles, NodeStep, NodeSide, SeedSide

-----------------------------------------------------------------------------
(***************************************************************************)
(* The requests stay what they may be.                                      *)
(***************************************************************************)
LatePc == {"loadCA", "putCA", "sign", "addVoter", "consume"}

\* Requests, for one request and without the uniqueness of a token to mint.
Held(r) ==
  /\ UnderWay(req[r])
  /\ Signing(req[r]) => req[r].token \in issued \cup {Shared}
  /\ req[r].pc = "adopt" => req[r].token = Shared
  /\ req[r].pc = "burn" =>
       \E i \in 1 .. Len(history) :
         /\ history[i].join[req[r].token].state = "fresh"
         /\ history[i].join[req[r].token].version = req[r].version
  /\ ~unread /\ Signing(req[r]) /\ req[r].token = Shared /\ req[r].pc \in LatePc =>
       Local(req[r].on).join[Shared].state = "reusable"

Only(r) ==
  Minting(req[r]) =>
    /\ req[r].token \in Token \ issued
    /\ \A s \in Request \ {r} : Minting(req[s]) => req[s].token # req[r].token

AllHeld == \A r \in Request : Held(r) /\ Only(r)

LEMMA RequestsParts == Requests <=> AllHeld
BY Zenon DEF Requests, AllHeld, Held, Only, LatePc

\* A replica that has the record of the pre-shared token keeps it.
LEMMA LocalKept ==
  ASSUME Types, Types', States', ~unread', NEW d, Grows(d), NEW n \in Node,
         applied[n] <= applied'[n], Local(n).join[Shared].state = "reusable"
  PROVE  Local(n)'.join[Shared].state = "reusable"
<1> DEFINE i == applied[n]
           j == applied'[n]
           L == Len(history')
<1>1. i \in 1 .. Len(history) /\ j \in 1 .. L /\ L \in Nat /\ Len(history) \in Nat
      /\ Len(history) <= L
  BY Zenon DEF Types, Registered, Grows
<1>2. i \in 1 .. L /\ j \in i .. L
  <2> HIDE DEF i, j, L
  <2> QED BY <1>1 DEF i, j
<1>3. history'[i] = history[i]
  BY <1>1, Zenon DEF Grows
<1>4. history'[i].join[Shared].state = "reusable"
  BY <1>3, Zenon DEF Local
<1>5. history'[j].join[Shared] = history'[i].join[Shared]
  BY <1>2, <1>4, Zenon DEF States
<1> QED BY <1>4, <1>5, Zenon DEF Local

LEMMA FreeHeld ==
  ASSUME NEW r \in Request, req'[r] = Free
  PROVE  Held(r)' /\ ~Minting(req'[r]) /\ ~Signing(req'[r])
<1>1. req'[r].pc = "free" /\ req'[r].token = None /\ req'[r].live = FALSE
  BY FreeType, Zenon
<1>2. "free" \notin SignPc /\ "free" \notin MintPc /\ "free" \notin LatePc
  BY DEF SignPc, MintPc, LatePc
<1> QED BY <1>1, <1>2 DEF Held, UnderWay, Signing, Minting

\* A request that another step leaves alone, or only its caller gave up.
LEMMA FadedHeld ==
  ASSUME Types, Types', States', StillUnread, NEW d, Grows(d), NEW r \in Request, Held(r),
         Faded(req[r], req'[r]), issued \subseteq issued',
         \A n \in Node : applied[n] <= applied'[n]
  PROVE  Held(r)'
<1> DEFINE q == req[r]
           x == req'[r]
<1>1. CASE x = Free
  BY <1>1, FreeHeld, Zenon
<1>2. CASE x # Free
  <2>1. /\ x.pc = q.pc /\ Kept(q, x) /\ x.version = q.version
        /\ x.live \in {FALSE, q.live}
    BY <1>2, Zenon DEF Faded
  <2>2. UnderWay(x)
    BY <2>1, Zenon DEF UnderWay, Kept, Held
  <2>3. Signing(x) => Signing(q) /\ x.token \in issued' \cup {Shared}
    BY <2>1, Zenon DEF Signing, Kept, Held
  <2>4. x.pc = "adopt" => x.token = Shared
    BY <2>1, Zenon DEF Kept, Held
  <2>5. ASSUME x.pc = "burn"
        PROVE  \E i \in 1 .. Len(history') :
                 /\ history'[i].join[x.token].state = "fresh"
                 /\ history'[i].join[x.token].version = x.version
    <3>1. PICK i \in 1 .. Len(history) :
            /\ history[i].join[x.token].state = "fresh"
            /\ history[i].join[x.token].version = x.version
      BY <2>1, <2>5, Zenon DEF Held, Kept
    <3>2. history'[i] = history[i]
      BY Zenon DEF Grows
    <3>3. i \in 1 .. Len(history')
      BY DEF Grows, Types, Registered
    <3> QED BY <3>1, <3>2, <3>3, Zenon
  <2>6. ASSUME ~unread', Signing(x), x.token = Shared, x.pc \in LatePc
        PROVE  history'[applied'[x.on]].join[Shared].state = "reusable"
    <3>1. q.on \in Node /\ x.on = q.on
      BY <2>1, <2>3, <2>6 DEF Held, UnderWay, Signing, MintPc, SignPc, Kept
    <3>2. Local(q.on).join[Shared].state = "reusable"
      BY <2>1, <2>3, <2>6, Zenon DEF Held, Kept, StillUnread
    <3>3. Local(q.on)'.join[Shared].state = "reusable"
      BY <2>6, <3>1, <3>2, LocalKept, Zenon
    <3> QED BY <3>1, <3>3, Zenon DEF Local
  <2> QED BY <2>2, <2>3, <2>4, <2>5, <2>6, Zenon DEF Held, Local
<1> QED BY <1>1, <1>2, Zenon

\* Where a request that goes on may be, and what it knows there.
LEMMA GoesPc ==
  ASSUME Types, States, Requests, NEW r \in Request, req[r].pc # "free",
         NEW x, NEW d, Kept(req[r], x), Goes(r, x, d)
  PROVE  LET q == req[r]
             rec == Local(q.on).join[q.token]
         IN /\ \/ Minting(q) /\ x.pc \in MintPc
               \/ Signing(q) /\ x.pc \in SignPc
            /\ x.pc = "adopt" => q.token = Shared
            /\ x.pc = "burn" => rec.state = "fresh" /\ x.version = rec.version
            /\ ~unread /\ Signing(q) /\ q.token = Shared /\ x.pc \in LatePc =>
                 rec.state = "reusable"
<1> DEFINE q == req[r]
           rec == Local(q.on).join[q.token]
<1>1. Minting(q) \/ Signing(q)
  BY Places, Zenon
<1>2. q.pc = "burn" => q.token # Shared
  BY BurnedToken, EnrollmentAssumption, Zenon
<1>3. ~unread /\ Signing(q) /\ q.token = Shared /\ q.pc \in LatePc => rec.state = "reusable"
  BY RequestsParts, ZenonT(60) DEF AllHeld, Held
<1> HIDE DEF q, rec
<1>4. CASE Reads(r, x, d)
  <2>1. /\ q.pc = "token"
        /\ \/ q.token = Shared /\ x.pc = "adopt"
           \/ rec.state = "fresh" /\ x.pc = "burn" /\ x.version = rec.version
           \/ rec.state = "reusable" /\ x.pc = "loadCA"
    BY <1>4, Zenon DEF Reads, q, rec
  <2>2. Signing(q)
    BY <1>1, <2>1 DEF Minting, MintPc
  <2> QED BY <2>1, <2>2 DEF SignPc, LatePc, q, rec
<1>5. CASE Adopts(r, x, d)
  <2>1. q.pc = "adopt" /\ x.pc = "token"
    BY <1>5, Zenon DEF Adopts, q
  <2>2. Signing(q)
    BY <1>1, <2>1 DEF Minting, MintPc
  <2> QED BY <2>1, <2>2 DEF SignPc, LatePc, q, rec
<1>6. CASE Burns(r, x, d)
  <2>1. q.pc = "burn" /\ x.pc = "loadCA"
    BY <1>6, Zenon DEF Burns, q
  <2>2. Signing(q)
    BY <1>1, <2>1 DEF Minting, MintPc
  <2> QED BY <1>2, <2>1, <2>2 DEF SignPc, LatePc, q, rec
<1>7. CASE Loads(r, x, d) \/ Puts(r, x, d)
  <2>1. q.pc \in {"loadCA", "putCA"} /\ x.pc \in {"loadCA", "putCA", q.then}
    BY <1>7, Zenon DEF Loads, Puts, q
  <2>2. CASE Minting(q)
    <3>1. q.then = "mint" /\ ~Signing(q)
      BY <2>2, SMTT(60) DEF Minting, Signing
    <3> QED BY <2>1, <2>2, <3>1 DEF MintPc, LatePc, q, rec
  <2>3. CASE Signing(q)
    <3>1. q.then = "sign" /\ q.pc \in LatePc
      BY <2>1, <2>3, SMTT(60) DEF Signing, LatePc
    <3> QED BY <1>3, <2>1, <2>3, <3>1 DEF SignPc, LatePc, q, rec
  <2> QED BY <1>1, <2>2, <2>3, Zenon
<1>8. CASE Signs(r, x, d) \/ Adds(r, x, d) \/ Drops(r, x, d)
  <2>1. \/ q.pc = "sign" /\ x.pc = "addVoter"
        \/ q.pc = "addVoter" /\ x.pc = "consume"
        \/ q.pc = "consume" /\ x.pc = "reply"
    BY <1>8, Zenon DEF Signs, Adds, Drops, q
  <2>2. Signing(q) /\ q.pc \in LatePc
    BY <1>1, <2>1 DEF Minting, MintPc, LatePc
  <2> QED BY <1>3, <2>1, <2>2 DEF SignPc, LatePc, q, rec
<1> QED BY <1>4, <1>5, <1>6, <1>7, <1>8, Zenon DEF Goes

LEMMA GoesHeld ==
  ASSUME Types, Types', States, States', Requests, StillUnread, NEW r \in Request,
         req[r].pc # "free", NEW d, Grows(d), Kept(req[r], req'[r]), req'[r].live = req[r].live,
         Goes(r, req'[r], d), issued \subseteq issued',
         \A n \in Node : applied[n] <= applied'[n]
  PROVE  Held(r)'
<1> DEFINE q == req[r]
           x == req'[r]
           rec == Local(q.on).join[q.token]
<1>1. /\ \/ Minting(q) /\ x.pc \in MintPc
         \/ Signing(q) /\ x.pc \in SignPc
      /\ x.pc = "adopt" => q.token = Shared
      /\ x.pc = "burn" => rec.state = "fresh" /\ x.version = rec.version
      /\ ~unread /\ Signing(q) /\ q.token = Shared /\ x.pc \in LatePc =>
           rec.state = "reusable"
  BY GoesPc, Zenon
<1>2. Held(r) /\ q.on \in Node
  BY RequestsParts, Places, ZenonT(60) DEF AllHeld
<1>3. UnderWay(x)
  <2>1. UnderWay(q) /\ "free" \notin MintPc /\ "free" \notin SignPc
    BY <1>2 DEF Held, MintPc, SignPc
  <2> QED BY <1>1, <2>1, SMTT(60) DEF UnderWay, Kept, Minting, Signing
<1>4. Signing(x) => Signing(q) /\ x.token \in issued' \cup {Shared}
  <2>1. ~(Minting(q) /\ Signing(x))
    BY DEF Minting, Signing, Kept
  <2> QED BY <1>1, <1>2, <2>1, Zenon DEF Kept, Held
<1>5. x.pc = "adopt" => x.token = Shared
  BY <1>1, Zenon DEF Kept
<1>6. ASSUME x.pc = "burn"
      PROVE  \E i \in 1 .. Len(history') :
               /\ history'[i].join[x.token].state = "fresh"
               /\ history'[i].join[x.token].version = x.version
  <2> DEFINE i == applied[q.on]
  <2>1. i \in 1 .. Len(history)
    BY <1>2, Zenon DEF Types, Registered
  <2>2. history'[i] = history[i]
    BY <2>1, Zenon DEF Grows
  <2>3. i \in 1 .. Len(history')
    <3> HIDE DEF i
    <3> QED BY <2>1 DEF Grows, Types, Registered
  <2> QED BY <1>1, <1>6, <2>2, <2>3, Zenon DEF Local, Kept
<1>7. ASSUME ~unread', Signing(x), x.token = Shared, x.pc \in LatePc
      PROVE  history'[applied'[x.on]].join[Shared].state = "reusable"
  <2>1. Local(q.on).join[Shared].state = "reusable" /\ x.on = q.on
    BY <1>1, <1>4, <1>7, Zenon DEF Kept, StillUnread
  <2>2. Local(q.on)'.join[Shared].state = "reusable"
    BY <1>2, <1>7, <2>1, LocalKept, Zenon
  <2> QED BY <2>1, <2>2, Zenon DEF Local
<1> QED BY <1>3, <1>4, <1>5, <1>6, <1>7, Zenon DEF Held, Local

\* Minting is what a request does from its start to its end, and hands one token out.
LEMMA ShapeMint ==
  ASSUME Types, States, Requests, NEW r \in Request, req[r].pc # "free", NEW x, NEW d,
         Shape(r, x, d)
  PROVE  /\ Minting(x) => Minting(req[r]) /\ x.token = req[r].token /\ issued' = issued
         /\ issued' = issued \/ (Minting(req[r]) /\ issued' = issued \cup {req[r].token})
<1>0. ~Minting(Free) /\ "mint" \notin SignPc
  BY FreeType DEF Minting, MintPc, SignPc
<1>1. CASE Ended(r, x, d)
  BY <1>0, <1>1, Zenon DEF Ended, Quiet
<1>2. CASE Mints(r, x, d)
  BY <1>0, <1>2, Places, Zenon DEF Mints, Signing
<1>3. CASE Kept(req[r], x) /\ Goes(r, x, d)
  <2>1. Minting(req[r]) \/ Signing(req[r])
    BY Places, Zenon
  <2>2. Minting(x) => ~Signing(req[r])
    BY <1>3 DEF Minting, Signing, Kept
  <2>3. issued' = issued
    BY <1>3, Zenon DEF Goes, Reads, Adopts, Burns, Loads, Puts, Signs, Adds, Drops, Quiet
  <2> QED BY <1>3, <2>1, <2>2, <2>3, Zenon DEF Kept
<1> QED BY <1>1, <1>2, <1>3, Zenon DEF Shape

LEMMA EffectGrows ==
  ASSUME Types, NEW r \in Request, NEW x, NEW d, Effect(r, x, d)
  PROVE  /\ req'[r] = x /\ Grows(d)
         /\ \A s \in Request : s # r => req'[s] = req[s]
         /\ \A n \in Node : applied[n] <= applied'[n]
<1>1. /\ req'[r] = x
      /\ \A s \in Request : s # r => req'[s] = req[s]
      /\ Committed' = d /\ Len(history) <= Len(history')
      /\ \A i \in 1 .. Len(history) : history'[i] = history[i]
      /\ \/ history' = history /\ d = Committed
         \/ /\ Len(history') = Len(history) + 1
            /\ history'[Len(history) + 1] = d
  BY EffectFacts
<1>2. Grows(d)
  BY <1>1, Zenon DEF Grows
<1> QED BY <1>1, <1>2, Zenon DEF Effect

LEMMA AroundGrows ==
  ASSUME Types, history' = history
  PROVE  Grows(Committed)
<1>1. Len(history) <= Len(history)
  BY DEF Types, Registered
<1>2. Committed' = Committed
  BY Zenon DEF Committed
<1>3. \A i \in 1 .. Len(history) : history'[i] = history[i]
  BY Zenon
<1>4. Len(history) <= Len(history')
  BY <1>1, Zenon
<1> QED BY <1>2, <1>3, <1>4, Zenon DEF Grows

LEMMA RequestsByRequest ==
  ASSUME Types, Types', States, States', Requests, StillUnread, NEW r \in Request,
         req[r].pc # "free", NEW x, NEW d, Effect(r, x, d), Shape(r, x, d)
  PROVE  Requests'
<1>1. /\ req'[r] = x /\ Grows(d)
      /\ \A s \in Request : s # r => req'[s] = req[s]
      /\ \A n \in Node : applied[n] <= applied'[n]
  BY EffectGrows, Zenon
<1>2. issued \subseteq issued'
  BY RecordStep, Zenon
<1>3. /\ Minting(x) => Minting(req[r]) /\ x.token = req[r].token /\ issued' = issued
      /\ issued' = issued \/ (Minting(req[r]) /\ issued' = issued \cup {req[r].token})
  BY ShapeMint, Zenon
<1>4. \A s \in Request : Held(s) /\ Only(s)
  BY RequestsParts, Zenon DEF AllHeld
<1>5. ASSUME NEW s \in Request PROVE Held(s)'
  <2>1. CASE s # r
    <3>1. Faded(req[s], req'[s])
      BY <1>1, <2>1, Zenon DEF Faded, Kept
    <3> QED BY <1>1, <1>2, <1>4, <3>1, FadedHeld, Zenon
  <2>2. CASE s = r /\ x = Free
    BY <1>1, <2>2, FreeHeld, Zenon
  <2>3. CASE s = r /\ Kept(req[r], x) /\ x.live = req[r].live /\ Goes(r, x, d)
    BY <1>1, <1>2, <2>3, GoesHeld, Zenon
  <2> QED BY <2>1, <2>2, <2>3, Zenon DEF Shape, Ended, Mints
<1>6. ASSUME NEW s \in Request, Minting(req'[s])
      PROVE  Minting(req[s]) /\ req'[s].token = req[s].token
  BY <1>1, <1>3, <1>6, Zenon
<1>7. ASSUME NEW s \in Request, Minting(req'[s])
      PROVE  req'[s].token \notin issued'
  <2>1. CASE s = r
    BY <1>1, <1>3, <1>4, <1>7, <2>1, Zenon DEF Only
  <2>2. CASE s # r
    <3>1. Minting(req[s]) /\ req'[s].token = req[s].token /\ req[s].token \notin issued
      BY <1>4, <1>6, <1>7, Zenon DEF Only
    <3>2. Minting(req[r]) => req[r].token # req[s].token
      BY <1>4, <2>2, <3>1, Zenon DEF Only
    <3>3. CASE issued' = issued
      BY <3>1, <3>3, Zenon
    <3>4. CASE Minting(req[r]) /\ issued' = issued \cup {req[r].token}
      BY <3>1, <3>2, <3>4, Zenon
    <3> QED BY <1>3, <3>3, <3>4, Zenon
  <2> QED BY <2>1, <2>2, Zenon
<1>8. ASSUME NEW s \in Request PROVE Only(s)'
  <2>1. ASSUME Minting(req'[s]) PROVE req'[s].token \in Token
    BY <1>4, <1>6, <2>1, Zenon DEF Only
  <2>2. ASSUME Minting(req'[s]), NEW u \in Request \ {s}, Minting(req'[u])
        PROVE  req'[u].token # req'[s].token
    BY <1>4, <1>6, <2>2, Zenon DEF Only
  <2> QED BY <1>7, <2>1, <2>2, Zenon DEF Only
<1>9. AllHeld'
  BY <1>5, <1>8, Zenon DEF AllHeld
<1> QED BY <1>9, RequestsParts, PTL

LEMMA RequestsAround ==
  ASSUME Types, Types', States', Requests, StillUnread, Around
  PROVE  Requests'
<1>1. Grows(Committed)
  BY AroundGrows, Zenon DEF Around
<1>2. \A s \in Request : Held(s) /\ Only(s)
  BY RequestsParts, Zenon DEF AllHeld
<1>3. ASSUME NEW s \in Request PROVE Held(s)'
  BY <1>1, <1>2, FadedHeld, Zenon DEF Around
<1>4. ASSUME NEW s \in Request, Minting(req'[s])
      PROVE  Minting(req[s]) /\ req'[s].token = req[s].token
  BY <1>4, FreeHeld, Zenon DEF Around, Faded, Minting, Kept
<1>5. ASSUME NEW s \in Request PROVE Only(s)'
  <2>1. ASSUME Minting(req'[s]) PROVE req'[s].token \in Token \ issued'
    BY <1>2, <1>4, <2>1, Zenon DEF Only, Around
  <2>2. ASSUME Minting(req'[s]), NEW u \in Request \ {s}, Minting(req'[u])
        PROVE  req'[u].token # req'[s].token
    BY <1>2, <1>4, <2>2, Zenon DEF Only
  <2> QED BY <2>1, <2>2, Zenon DEF Only
<1>6. AllHeld'
  BY <1>3, <1>5, Zenon DEF AllHeld
<1> QED BY <1>6, RequestsParts, PTL

LEMMA RequestsBegin ==
  ASSUME Types, Types', States', Requests, StillUnread, NEW r \in Request, NEW x,
         Begins(r, x), (\E t : MintBegins(r, x, t)) \/ \E n : EnrollBegins(r, x, n)
  PROVE  Requests'
<1>1. /\ Grows(Committed) /\ applied' = applied /\ issued' = issued
      /\ req'[r] = x /\ \A s \in Request : s # r => req'[s] = req[s]
  BY AroundGrows, Zenon DEF Begins, Types
<1>2. \A s \in Request : Held(s) /\ Only(s)
  BY RequestsParts, Zenon DEF AllHeld
<1>3. ASSUME NEW s \in Request, s # r PROVE Held(s)'
  <2>1. Faded(req[s], req'[s])
    BY <1>1, <1>3, Zenon DEF Faded, Kept
  <2>2. \A n \in Node : applied[n] <= applied'[n]
    BY <1>1, AppliedNumbers, Zenon
  <2> QED BY <1>1, <1>2, <2>1, <2>2, FadedHeld, Zenon
<1>4. Held(r)' /\ (Minting(x) => /\ x.token \in Token \ issued
                                 /\ \A s \in Request : req[s].token # x.token)
  <2>1. CASE \E t : MintBegins(r, x, t)
    <3>1. /\ x.pc = "loadCA" /\ x.then = "mint" /\ x.live = FALSE /\ x.token \in Token \ issued
          /\ \A s \in Request : req[s].token # x.token
          /\ x.on \in Node
      BY <2>1, Zenon DEF MintBegins, Begins
    <3>2. UnderWay(x) /\ ~Signing(x)
      BY <3>1, SMTT(60) DEF UnderWay, Signing, MintPc
    <3>3. Held(r)'
      BY <1>1, <3>1, <3>2 DEF Held
    <3> QED BY <3>1, <3>3, Zenon
  <2>2. CASE \E n : EnrollBegins(r, x, n)
    <3>1. /\ x.pc = "token" /\ x.then = "sign" /\ x.token \in issued \cup {Shared}
          /\ x.on \in Node /\ x.node \in Node \ {Seed}
      BY <2>2, Zenon DEF EnrollBegins, Begins
    <3>2. UnderWay(x) /\ ~Minting(x)
      BY <3>1 DEF UnderWay, Minting, SignPc, AllToken, Types
    <3>3. "token" \notin LatePc
      BY SMTT(60) DEF LatePc
    <3>4. Held(r)'
      BY <1>1, <3>1, <3>2, <3>3, Zenon DEF Held
    <3> QED BY <3>2, <3>4, Zenon
  <2> QED BY <2>1, <2>2, Zenon
<1>5. ASSUME NEW s \in Request PROVE Only(s)'
  <2>1. ASSUME Minting(req'[s]) PROVE req'[s].token \in Token \ issued'
    BY <1>1, <1>2, <1>4, <2>1, Zenon DEF Only
  <2>2. ASSUME Minting(req'[s]), NEW u \in Request \ {s}, Minting(req'[u])
        PROVE  req'[u].token # req'[s].token
    <3>1. CASE s = r
      BY <1>1, <1>4, <2>2, <3>1, Zenon
    <3>2. CASE u = r
      BY <1>1, <1>4, <2>2, <3>2, Zenon
    <3>3. CASE s # r /\ u # r
      BY <1>1, <1>2, <2>2, <3>3, Zenon DEF Only
    <3> QED BY <3>1, <3>2, <3>3, Zenon
  <2> QED BY <2>1, <2>2, Zenon DEF Only
<1>6. AllHeld'
  BY <1>3, <1>4, <1>5, Zenon DEF AllHeld
<1> QED BY <1>6, RequestsParts, PTL

-----------------------------------------------------------------------------
(***************************************************************************)
(* A token is spent once.                                                   *)
(***************************************************************************)
LEMMA SpentKept ==
  ASSUME Spent, signed' = signed, issued \subseteq issued',
         \A t \in Token : Committed'.join[t].state = "fresh" => Committed.join[t].state = "fresh",
         \A t \in Token, s \in Request : Spending(req'[s], t) => Spending(req[s], t)
  PROVE  Spent'
BY Zenon DEF Spent

LEMMA SpentAround ==
  ASSUME Spent, Around
  PROVE  Spent'
<1>1. Committed' = Committed
  BY Zenon DEF Around, Committed
<1>2. \A t \in Token, s \in Request : Spending(req'[s], t) => Spending(req[s], t)
  <2> SUFFICES ASSUME NEW t \in Token, NEW s \in Request, Spending(req'[s], t)
               PROVE  Spending(req[s], t)
    BY Zenon
  <2>1. req'[s] # Free
    BY FreeType DEF Spending
  <2> QED BY <2>1, Zenon DEF Around, Faded, Kept, Spending, Signing
<1> QED BY <1>1, <1>2, SpentKept, ZenonT(60) DEF Around

LEMMA SpentBegin ==
  ASSUME Types, Spent, NEW r \in Request, NEW x, Begins(r, x),
         (\E t : MintBegins(r, x, t)) \/ \E n : EnrollBegins(r, x, n)
  PROVE  Spent'
<1>1. /\ Committed' = Committed /\ issued' = issued /\ signed' = signed
      /\ req'[r] = x /\ \A s \in Request : s # r => req'[s] = req[s]
  BY Zenon DEF Begins, Committed, Types
<1>2. x.then = "mint" \/ x.pc = "token"
  BY Zenon DEF MintBegins, EnrollBegins
<1>3. \A t : ~Spending(x, t)
  BY <1>2 DEF Spending, Signing
<1> QED BY <1>1, <1>3, SpentKept, Zenon

\* The compare-and-set of Burn: the record is still the one that was read.
LEMMA SpentBurn ==
  ASSUME Types, Versions, States, Requests, Spent, NEW r \in Request, NEW x, NEW d,
         Kept(req[r], x), Burns(r, x, d), Committed' = d, req'[r] = x,
         \A s \in Request : s # r => req'[s] = req[s]
  PROVE  Spent'
<1> DEFINE t == req[r].token
           L == Len(history)
<1>1. /\ req[r].pc = "burn" /\ Committed.join[t].version = req[r].version
      /\ x.pc = "loadCA" /\ d = JoinRecord(r, "burned")
      /\ issued' = issued /\ signed' = signed
  BY Zenon DEF Burns, BurnHolds, Presented, Quiet
<1>2. t \in Token /\ t \in issued /\ t \in AllToken
  BY <1>1, BurnedToken, Zenon DEF AllToken
<1>3. PICK i \in 1 .. L : /\ history[i].join[t].state = "fresh"
                          /\ history[i].join[t].version = req[r].version
  BY <1>1, Zenon DEF Requests
<1>4. L \in 1 .. L /\ history[L] = Committed
  BY Bounds, Zenon
<1>5. Committed.join[t].state = "fresh"
  <2>1. history[i].join[t].version = history[L].join[t].version
    BY <1>1, <1>3, <1>4, Zenon
  <2>2. history[i].join[t].state = history[L].join[t].state
    BY <1>2, <1>4, <2>1, Zenon DEF Versions
  <2> QED BY <1>3, <1>4, <2>2, Zenon
<1>6. signed[t] = 0 /\ \A s \in Request : ~Spending(req[s], t)
  <2> HIDE DEF t
  <2>1. signed[t] \in {0, 1} /\ signed[t] # 1
    BY <1>2, <1>5, Zenon DEF Spent
  <2>2. ASSUME NEW s \in Request, Spending(req[s], t) PROVE FALSE
    BY <1>2, <1>5, <2>2, ZenonT(60) DEF Spent
  <2> QED BY <2>1, <2>2, Zenon
<1>7. "burned" \in {"absent", "fresh", "burned", "reusable"} /\ "burned" # "fresh"
  BY SMTT(60)
<1>8. /\ d.join[t].state = "burned"
      /\ \A u \in AllToken : u # t => d.join[u] = Committed.join[u]
  BY <1>1, <1>2, <1>7, OneJoin, SMTT(60)
<1>9. \A u \in Token : Spending(x, u) => u = t
  BY Zenon DEF Spending, Kept
<1>10. ASSUME NEW u \in Token
       PROVE  /\ signed'[u] \in {0, 1}
              /\ signed'[u] = 1 => u \in issued' /\ Committed'.join[u].state # "fresh"
              /\ \A q \in Request : Spending(req'[q], u) =>
                   /\ signed'[u] = 0
                   /\ Committed'.join[u].state # "fresh"
                   /\ \A s \in Request \ {q} : ~Spending(req'[s], u)
  <2>1. CASE u = t
    <3>1. \A s \in Request : s # r => ~Spending(req'[s], t)
      BY <1>6, Zenon
    <3> QED BY <1>1, <1>6, <1>7, <1>8, <2>1, <3>1, Zenon DEF Spent
  <2>2. CASE u # t
    <3>1. Committed'.join[u] = Committed.join[u]
      BY <1>8, <2>2, Zenon DEF AllToken
    <3>2. \A s \in Request : Spending(req'[s], u) => Spending(req[s], u)
      BY <1>9, <2>2, Zenon
    <3> QED BY <1>1, <3>1, <3>2, Zenon DEF Spent
  <2> QED BY <2>1, <2>2, Zenon
<1> QED BY <1>10, Zenon DEF Spent

LEMMA SpentSign ==
  ASSUME Types, Requests, Spent, NEW r \in Request, NEW x, NEW d,
         Signs(r, x, d), Committed' = d, req'[r] = x,
         \A s \in Request : s # r => req'[s] = req[s]
  PROVE  Spent'
<1> DEFINE t == req[r].token
<1>1. /\ req[r].pc = "sign" /\ x.pc = "addVoter" /\ Committed' = Committed
      /\ issued' = issued /\ signed' = [signed EXCEPT ![t] = @ + 1]
  BY Zenon DEF Signs
<1>2. "sign" \notin MintPc /\ "sign" # "free"
      /\ "sign" \in {"loadCA", "putCA", "sign"} /\ "addVoter" \notin {"loadCA", "putCA", "sign"}
  BY DEF MintPc
<1>3. t \in AllToken /\ Signing(req[r]) /\ Spending(req[r], t)
  BY <1>1, <1>2, Places, Zenon DEF Minting, Spending
<1>4. t \in issued \cup {Shared}
  BY <1>3, Zenon DEF Requests
<1>5. /\ signed'[t] = signed[t] + 1
      /\ \A u \in AllToken : u # t => signed'[u] = signed[u]
  BY <1>1, <1>3, BumpType, Zenon DEF Types
<1>6. \A u : ~Spending(x, u)
  BY <1>1, <1>2, Zenon DEF Spending
<1>7. ASSUME NEW u \in Token
      PROVE  /\ signed'[u] \in {0, 1}
             /\ signed'[u] = 1 => u \in issued' /\ Committed'.join[u].state # "fresh"
             /\ \A q \in Request : Spending(req'[q], u) =>
                  /\ signed'[u] = 0
                  /\ Committed'.join[u].state # "fresh"
                  /\ \A s \in Request \ {q} : ~Spending(req'[s], u)
  <2>1. CASE u = t
    <3>1. /\ signed[t] = 0 /\ Committed.join[t].state # "fresh"
          /\ \A s \in Request \ {r} : ~Spending(req[s], t)
      BY <1>3, <2>1, Zenon DEF Spent
    <3>2. signed'[t] = 1
      BY <1>5, <3>1
    <3>3. t \in issued
      BY <1>4, <2>1, EnrollmentAssumption, Zenon
    <3>4. \A s \in Request : ~Spending(req'[s], t)
      BY <1>6, <3>1, Zenon
    <3> QED BY <1>1, <2>1, <3>1, <3>2, <3>3, <3>4, Zenon
  <2>2. CASE u # t
    <3>1. signed'[u] = signed[u]
      BY <1>5, <2>2, Zenon DEF AllToken
    <3>2. \A s \in Request : Spending(req'[s], u) => Spending(req[s], u)
      BY <1>6, Zenon
    <3> QED BY <1>1, <3>1, <3>2, Zenon DEF Spent
  <2> QED BY <2>1, <2>2, Zenon
<1> QED BY <1>7, Zenon DEF Spent

LEMMA SpentMint ==
  ASSUME Types, Requests, Spent, NEW r \in Request, NEW x, NEW d,
         Mints(r, x, d), Committed' = d, req'[r] = x,
         \A s \in Request : s # r => req'[s] = req[s]
  PROVE  Spent'
<1> DEFINE t == req[r].token
<1>1. /\ req[r].pc = "mint" /\ x = Free /\ d = JoinRecord(r, "fresh")
      /\ issued' = issued \cup {t} /\ signed' = signed
  BY Zenon DEF Mints
<1>2. "mint" \notin SignPc /\ "mint" # "free"
      /\ "fresh" \in {"absent", "fresh", "burned", "reusable"}
  BY DEF SignPc
<1>3. Minting(req[r])
  BY <1>1, <1>2, Places, Zenon DEF Signing
<1>4. t \in Token /\ t \notin issued /\ t \in AllToken
  BY <1>3, Zenon DEF Requests, AllToken
<1>5. \A u \in AllToken : u # t => d.join[u] = Committed.join[u]
  BY <1>1, <1>2, <1>4, OneJoin, SMTT(60)
<1>6. \A s \in Request : ~Spending(req[s], t)
  <2> SUFFICES ASSUME NEW s \in Request, Spending(req[s], t) PROVE FALSE
    BY Zenon
  <2>1. Signing(req[s]) /\ req[s].token = t
    BY Zenon DEF Spending
  <2>2. t \in issued \cup {Shared}
    BY <2>1, ZenonT(60) DEF Requests
  <2> QED BY <1>4, <2>2, EnrollmentAssumption, Zenon
<1>7. \A u : ~Spending(x, u)
  BY <1>1, FreeType, SMTT(60) DEF Spending
<1>8. ASSUME NEW u \in Token
      PROVE  /\ signed'[u] \in {0, 1}
             /\ signed'[u] = 1 => u \in issued' /\ Committed'.join[u].state # "fresh"
             /\ \A q \in Request : Spending(req'[q], u) =>
                  /\ signed'[u] = 0
                  /\ Committed'.join[u].state # "fresh"
                  /\ \A s \in Request \ {q} : ~Spending(req'[s], u)
  <2>1. \A s \in Request : Spending(req'[s], u) => Spending(req[s], u)
    BY <1>7, Zenon
  <2>2. CASE u = t
    <3>1. \A s \in Request : ~Spending(req'[s], u)
      BY <1>6, <2>1, <2>2, Zenon
    <3>2. signed'[u] \in {0, 1} /\ signed'[u] # 1
      BY <1>1, <1>4, <2>2, Zenon DEF Spent
    <3> QED BY <3>1, <3>2, Zenon
  <2>3. CASE u # t
    <3>1. Committed'.join[u] = Committed.join[u]
      BY <1>5, <2>3, Zenon DEF AllToken
    <3> QED BY <1>1, <2>1, <3>1, Zenon DEF Spent
  <2> QED BY <2>2, <2>3, Zenon
<1> QED BY <1>8, Zenon DEF Spent

\* Every other step of a request: nothing becomes fresh, and nobody starts to spend.
LEMMA SpentOther ==
  ASSUME Types, States, Requests, Spent, NEW r \in Request, req[r].pc # "free", NEW x, NEW d,
         (x = Free /\ d = Committed /\ Quiet)
         \/ (Kept(req[r], x) /\ Goes(r, x, d) /\ ~Burns(r, x, d) /\ ~Signs(r, x, d)),
         Committed' = d, req'[r] = x,
         \A s \in Request : s # r => req'[s] = req[s]
  PROVE  Spent'
<1>0. Committed \in Records
  BY CommittedType
<1>1. signed' = signed /\ issued' = issued
  BY Zenon DEF Quiet, Goes, Reads, Adopts, Loads, Puts, Adds, Drops
<1>2. \A t \in Token : d.join[t].state = "fresh" => Committed.join[t].state = "fresh"
  <2>1. CASE d = Committed \/ d = [Committed EXCEPT !.ca = req[r].root]
    <3>1. d.join = Committed.join
      BY <1>0, <2>1 DEF Records
    <3> QED BY <3>1, Zenon
  <2>2. ASSUME NEW s \in {"absent", "reusable"}, d = JoinRecord(r, s)
        PROVE  \A t \in Token : d.join[t].state = "fresh" => Committed.join[t].state = "fresh"
    <3>1. req[r].token \in AllToken /\ s # "fresh"
          /\ s \in {"absent", "fresh", "burned", "reusable"}
      BY Places, SMTT(60)
    <3>2. /\ d.join[req[r].token].state = s
          /\ \A t \in AllToken : t # req[r].token => d.join[t] = Committed.join[t]
      BY <2>2, <3>1, OneJoin, SMTT(60)
    <3> QED BY <3>1, <3>2, ZenonT(60) DEF AllToken
  <2> QED BY <2>1, <2>2, Zenon DEF Goes, Reads, Adopts, Loads, Puts, Adds, Drops
<1>3. \A t \in Token : Spending(x, t) => Spending(req[r], t)
  <2> SUFFICES ASSUME NEW t \in Token, Spending(x, t) PROVE Spending(req[r], t)
    BY Zenon
  <2>1. x # Free
    BY FreeType DEF Spending
  <2>2. x.then = "sign" /\ x.pc \in {"loadCA", "putCA", "sign"} /\ x.token = t
    BY Zenon DEF Spending, Signing
  <2>3. Kept(req[r], x) /\ Goes(r, x, d) /\ ~Burns(r, x, d) /\ ~Signs(r, x, d)
    BY <2>1, Zenon
  <2>4. Signing(req[r]) /\ req[r].token = t /\ req[r].on \in Node
    BY <2>2, <2>3, Places, SMTT(60) DEF Kept, Minting
  <2>5. CASE Loads(r, x, d) \/ Puts(r, x, d)
    <3>1. req[r].pc \in {"loadCA", "putCA"}
      BY <2>5 DEF Loads, Puts
    <3> QED BY <2>4, <3>1, Zenon DEF Spending
  <2>6. CASE Reads(r, x, d)
    <3>1. Local(req[r].on).join[t].state = "reusable"
      BY <2>2, <2>4, <2>6, Zenon DEF Reads
    <3>2. applied[req[r].on] \in 1 .. Len(history)
      BY <2>4, ZenonT(60) DEF Types, Registered
    <3> QED BY <3>1, <3>2, ZenonT(60) DEF States, Local
  <2>7. CASE Adopts(r, x, d) \/ Adds(r, x, d) \/ Drops(r, x, d)
    BY <2>2, <2>7, Zenon DEF Adopts, Adds, Drops
  <2> QED BY <2>3, <2>5, <2>6, <2>7, Zenon DEF Goes
<1> QED BY <1>1, <1>2, <1>3, SpentKept, ZenonT(60)

LEMMA SpentByRequest ==
  ASSUME Types, Versions, States, Requests, Spent, NEW r \in Request, req[r].pc # "free",
         NEW x, NEW d, Effect(r, x, d), Shape(r, x, d)
  PROVE  Spent'
<1>1. Committed' = d /\ req'[r] = x /\ \A s \in Request : s # r => req'[s] = req[s]
  BY EffectGrows, Zenon DEF Grows
<1>2. CASE Ended(r, x, d)
  BY <1>1, <1>2, SpentOther, Zenon DEF Ended
<1>3. CASE Mints(r, x, d)
  BY <1>1, <1>3, SpentMint, Zenon
<1>4. CASE Kept(req[r], x) /\ Burns(r, x, d)
  BY <1>1, <1>4, SpentBurn, Zenon
<1>5. CASE Signs(r, x, d)
  BY <1>1, <1>5, SpentSign, Zenon
<1>6. CASE Kept(req[r], x) /\ Goes(r, x, d) /\ ~Burns(r, x, d) /\ ~Signs(r, x, d)
  BY <1>1, <1>6, SpentOther, Zenon
<1> QED BY <1>2, <1>3, <1>4, <1>5, <1>6, Zenon DEF Shape

\* What one step may do to the record of the pre-shared token.
SharedKept ==
  ~unread' /\ Committed.join[Shared].state = "reusable" =>
    Committed'.join[Shared] = Committed.join[Shared]

LEMMA TokenStep ==
  ASSUME TokenInv, Next
  PROVE  TokenInv' /\ SharedKept
<1>1. Types /\ Versions /\ States /\ Requests /\ Spent /\ StillUnread
  BY UnreadStep, Zenon DEF TokenInv
<1>2. Types'
  BY <1>1, TypesStep, Zenon
<1>3. CASE \E r \in Request : Handles(r)
  <2>1. PICK r \in Request : req[r].pc # "free" /\ \E x, d : Effect(r, x, d) /\ Shape(r, x, d)
    BY <1>1, <1>3, RequestShape, Zenon
  <2>2. PICK x, d : Effect(r, x, d) /\ Shape(r, x, d)
    BY <2>1, Zenon
  <2>3. Grows(d) /\ Rewrites(d) /\ Respects(d) /\ issued \subseteq issued'
    BY <1>1, <2>1, <2>2, EffectGrows, RecordStep, Zenon
  <2>4. Versions' /\ States'
    BY <1>1, <2>3, VersionsGrow, StatesGrow, Zenon
  <2>5. Requests' /\ Spent'
    BY <1>1, <1>2, <2>1, <2>2, <2>4, RequestsByRequest, SpentByRequest, Zenon
  <2>6. SharedKept
    BY <2>3 DEF SharedKept, Respects, Grows
  <2> QED BY <1>2, <2>4, <2>5, <2>6, Zenon DEF TokenInv
<1>4. CASE history' = history /\ issued' = issued
  <2>1. Grows(Committed) /\ Rewrites(Committed) /\ Respects(Committed) /\ issued \subseteq issued'
    BY <1>1, <1>4, AroundGrows, SameJoin, Zenon
  <2>2. Versions' /\ States' /\ SharedKept
    BY <1>1, <2>1, VersionsGrow, StatesGrow, Zenon DEF SharedKept, Grows
  <2>3. CASE Around
    BY <1>1, <1>2, <2>2, <2>3, RequestsAround, SpentAround, Zenon DEF TokenInv
  <2>4. ASSUME NEW r \in Request, NEW x,
               (\E t : MintBegins(r, x, t)) \/ \E n : EnrollBegins(r, x, n)
        PROVE  Requests' /\ Spent'
    <3>1. Begins(r, x)
      BY <2>4, Zenon DEF MintBegins, EnrollBegins
    <3> QED BY <1>1, <1>2, <2>2, <2>4, <3>1, RequestsBegin, SpentBegin, Zenon
  <2>5. CASE \E r \in Request : Handles(r)
    BY <1>3, <2>5, Zenon
  <2> QED BY <1>1, <1>2, <2>2, <2>3, <2>4, <2>5, StepCases, Zenon DEF TokenInv
<1>5. \/ \E r \in Request : Handles(r)
      \/ history' = history /\ issued' = issued
  BY <1>1, StepCases, Zenon DEF Around, MintBegins, EnrollBegins, Begins
<1> QED BY <1>3, <1>4, <1>5, Zenon

-----------------------------------------------------------------------------
(***************************************************************************)
(* The start, and steps that change nothing.                                *)
(***************************************************************************)
LEMMA InitTypes ==
  ASSUME Init
  PROVE  Types
<1>1. Absent \in JoinRecords
  BY DEF Absent, JoinRecords
<1>2. NoRecords \in Records
  BY <1>1, Zenon DEF NoRecords, Records
<1>3. /\ history = <<NoRecords>> /\ applied = [n \in Node |-> 1] /\ leader = None
  BY Zenon DEF Init, RegistryInit
<1>4. Registered
  <2>1. history \in Seq(Records) /\ Len(history) = 1
    BY <1>2, <1>3
  <2>2. applied \in [Node -> 1 .. Len(history)]
    BY <1>3, <2>1
  <2> QED BY <1>3, <2>1, <2>2, SMTT(60) DEF Registered
<1>5. NoCert \in Cert
  BY DEF NoCert, Cert
<1>6. NoFiles \in Disk
  BY <1>5 DEF NoFiles, Disk
<1>7. NodeTypes
  BY <1>5, <1>6 DEF Init, NodeTypes
<1>8. clustered \in BOOLEAN /\ issued \in SUBSET Token
  BY EnrollmentAssumption, Zenon DEF Init
<1>9. req \in [Request -> Console] /\ signed \in [AllToken -> Nat]
  BY FreeType DEF Init
<1> QED BY <1>4, <1>7, <1>8, <1>9, Zenon DEF Types, NodeTypes

LEMMA InitRecords ==
  ASSUME Init
  PROVE  /\ Len(history) = 1 /\ history[1].ca = 0 /\ Committed.ca = 0
         /\ \A i \in 1 .. Len(history), t \in AllToken : history[i].join[t] = Absent
<1>1. history = <<NoRecords>>
  BY Zenon DEF Init, RegistryInit
<1>2. Len(history) = 1 /\ history[1] = NoRecords
  BY <1>1
<1>3. NoRecords.ca = 0 /\ \A t \in AllToken : NoRecords.join[t] = Absent
  BY DEF NoRecords
<1>4. \A i \in 1 .. Len(history) : i = 1
  BY <1>2
<1> QED BY <1>2, <1>3, <1>4, Zenon DEF Committed

LEMMA InitRequests ==
  ASSUME Init
  PROVE  Requests /\ \A r \in Request : req[r] = Free /\ req[r].pc = "free"
<1>1. \A r \in Request : req[r] = Free
  BY Zenon DEF Init
<1>2. "free" \notin MintPc /\ "free" \notin SignPc
  BY DEF MintPc, SignPc
<1>3. ~Minting(Free) /\ ~Signing(Free) /\ UnderWay(Free)
  BY <1>2, FreeType, Zenon DEF Minting, Signing, UnderWay
<1>4. Free.pc = "free" /\ "free" # "adopt" /\ "free" # "burn"
  BY FreeType
<1> QED BY <1>1, <1>3, <1>4, Zenon DEF Requests

LEMMA TokenInit == Init => TokenInv
<1> SUFFICES ASSUME Init PROVE TokenInv
  BY Zenon
<1>1. Types /\ Requests
  BY InitTypes, InitRequests, Zenon
<1>2. Absent.state = "absent" /\ Absent.version = 0
  BY DEF Absent
<1>3. Len(history) = 1 /\ \A i \in 1 .. Len(history), t \in AllToken : history[i].join[t] = Absent
  BY InitRecords, Zenon
<1>4. \A i \in 1 .. Len(history) : 0 <= i
  OBVIOUS
<1>5. Versions
  BY <1>2, <1>3, <1>4, ZenonT(60) DEF Versions
<1>6. States
  <2>1. Shared \in AllToken /\ Token \subseteq AllToken
    BY Zenon DEF AllToken
  <2> QED BY <1>2, <1>3, <2>1 DEF States
<1>7. Spent
  <2>1. \A t \in Token : signed[t] = 0
    BY Zenon DEF Init, AllToken
  <2>2. \A r \in Request, t \in Token : ~Spending(req[r], t)
    BY InitRequests DEF Spending
  <2> QED BY <2>1, <2>2 DEF Spent
<1> QED BY <1>1, <1>5, <1>6, <1>7, Zenon DEF TokenInv

LEMMA TokenStutter ==
  ASSUME TokenInv, UNCHANGED vars
  PROVE  TokenInv'
<1>1. /\ history' = history /\ applied' = applied /\ leader' = leader /\ req' = req
      /\ issued' = issued /\ signed' = signed /\ clustered' = clustered /\ state' = state
      /\ identity' = identity /\ step' = step /\ disk' = disk /\ voters' = voters
      /\ unread' = unread
  BY Zenon DEF vars, registryVars, nodeVars
<1>2. Types' /\ Versions' /\ States'
  <2>1. Types /\ Versions /\ States
    BY Zenon DEF TokenInv
  <2>2. Types'
    BY <1>1, <2>1, Zenon DEF Types, Registered
  <2>3. Grows(Committed) /\ Rewrites(Committed) /\ Respects(Committed) /\ issued \subseteq issued'
    BY <1>1, <2>1, AroundGrows, SameJoin, Zenon
  <2>4. StillUnread
    BY <1>1, Zenon DEF StillUnread
  <2> QED BY <2>1, <2>2, <2>3, <2>4, VersionsGrow, StatesGrow, Zenon
<1>3. Committed' = Committed /\ \A n : Local(n)' = Local(n)
  BY <1>1, Zenon DEF Committed, Local
<1>4. Spent'
  BY <1>1, <1>3, Zenon DEF TokenInv, Spent
<1>5. AllHeld'
  <2>1. AllHeld
    BY RequestsParts, Zenon DEF TokenInv
  <2> QED BY <1>1, <2>1, ZenonT(60) DEF AllHeld, Held, Only, Local
<1>6. Requests'
  BY <1>5, RequestsParts, PTL
<1> QED BY <1>2, <1>4, <1>6, Zenon DEF TokenInv

\* signNodeEnrollment: however many nodes, tokens and requests there are, and however
\* crashes, timeouts, deposed leaders and failing calls interleave with them, what the
\* requests know of the token they present stays true of the records (TokenInv).
THEOREM SpecTokenInv == Spec => []TokenInv
<1>1. TokenInv /\ [Next]_vars => TokenInv'
  BY TokenStep, TokenStutter, Zenon
<1> QED BY TokenInit, <1>1, PTL DEF Spec

\* signNodeEnrollment: a minted join token signs at most one certificate.  The burn is a
\* compare-and-set on the version that was read, and a version names one record.
THEOREM SpecSingleUse == Spec => []SingleUse
<1>1. TokenInv => SingleUse
  BY DEF TokenInv, Spent, SingleUse
<1> QED BY SpecTokenInv, <1>1, PTL

\* consumeJoinToken: as long as no lookup of consumeJoinToken has failed, no step ends the
\* record of the pre-shared token once it is adopted, because the replica a request reads
\* has the record from the moment it was used.
THEOREM SpecSharedTokenKept == Spec => SharedTokenKept
<1>1. TokenInv /\ [Next]_vars =>
        [~unread' /\ Committed.join[Shared].state = "reusable" =>
           Committed'.join[Shared] = Committed.join[Shared]]_vars
  BY TokenStep, Zenon DEF SharedKept
<1> QED BY SpecTokenInv, <1>1, PTL DEF Spec, SharedTokenKept

=============================================================================
