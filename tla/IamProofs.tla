------------------------------ MODULE IamProofs ------------------------------
(***************************************************************************)
(* Console handlers that overlap: what holds of the identity records for    *)
(* any number of names, nodes and requests in progress.                     *)
(***************************************************************************)
EXTENDS Iam, TLAPS

-----------------------------------------------------------------------------
(***************************************************************************)
(* The types.                                                               *)
(***************************************************************************)
Records == [user : SUBSET Name, genesis : BOOLEAN, bound : SUBSET Name,
            group : SUBSET Name, token : SUBSET (Name \X Request), cert : SUBSET Name]

Op == {"none"} \cup UNION {w.ops : w \in Workloads}

Pc == {"free", "start", "token", "put", "scan", "tokens", "certs", "group", "bindings",
       "create", "read", "bind", "marker", "users", "needsSetup", "ok"}

Console == [op : Op, pc : Pc, on : Node \cup {None}, name : Name \cup {None},
            copy : Records, alone : BOOLEAN, knew : BOOLEAN, local : BOOLEAN,
            misread : BOOLEAN]

Registered ==
  /\ history \in Seq(Records) /\ Len(history) \in Nat \ {0}
  /\ applied \in [Node -> 1 .. Len(history)]

Types ==
  /\ workload \in Workloads
  /\ Registered
  /\ leader \in Node \cup {None}
  /\ req \in [Request -> Console]
  /\ \A r \in Request : req[r] # Free => req[r].on \in Node /\ req[r].name \in Name
  /\ terms \in Nat /\ known \in BOOLEAN /\ lost \in BOOLEAN /\ granted \in SUBSET Name

\* A request that is under way and that no other one has overlapped is the only
\* one.
Alone ==
  \A r, q \in Request : req[r].alone /\ q # r => req[q] = Free

-----------------------------------------------------------------------------
(***************************************************************************)
(* Records and requests under the edits the handlers make.                  *)
(***************************************************************************)
LEMMA AppendLast ==
  ASSUME NEW S, NEW s \in Seq(S), NEW e \in S
  PROVE  /\ Append(s, e) \in Seq(S) /\ Len(Append(s, e)) = Len(s) + 1
         /\ Append(s, e)[Len(s) + 1] = e
         /\ \A i \in 1 .. Len(s) : Append(s, e)[i] = s[i]
OBVIOUS

LEMMA EditUser ==
  ASSUME NEW c \in Records, NEW S \in SUBSET Name
  PROVE  LET d == [c EXCEPT !.user = S] IN
         /\ d \in Records /\ d.user = S
         /\ d.genesis = c.genesis /\ d.bound = c.bound /\ d.group = c.group
         /\ d.token = c.token /\ d.cert = c.cert
BY DEF Records

LEMMA EditGenesis ==
  ASSUME NEW c \in Records
  PROVE  LET d == [c EXCEPT !.genesis = TRUE] IN
         /\ d \in Records /\ d.genesis = TRUE
         /\ d.user = c.user /\ d.bound = c.bound /\ d.group = c.group
         /\ d.token = c.token /\ d.cert = c.cert
BY Zenon DEF Records

LEMMA EditBound ==
  ASSUME NEW c \in Records, NEW S \in SUBSET Name
  PROVE  LET d == [c EXCEPT !.bound = S] IN
         /\ d \in Records /\ d.bound = S
         /\ d.user = c.user /\ d.genesis = c.genesis /\ d.group = c.group
         /\ d.token = c.token /\ d.cert = c.cert
BY DEF Records

LEMMA EditGroup ==
  ASSUME NEW c \in Records, NEW S \in SUBSET Name
  PROVE  LET d == [c EXCEPT !.group = S] IN
         /\ d \in Records /\ d.group = S
         /\ d.user = c.user /\ d.genesis = c.genesis /\ d.bound = c.bound
         /\ d.token = c.token /\ d.cert = c.cert
BY DEF Records

LEMMA EditToken ==
  ASSUME NEW c \in Records, NEW T \in SUBSET (Name \X Request)
  PROVE  LET d == [c EXCEPT !.token = T] IN
         /\ d \in Records /\ d.token = T
         /\ d.user = c.user /\ d.genesis = c.genesis /\ d.bound = c.bound
         /\ d.group = c.group /\ d.cert = c.cert
BY DEF Records

LEMMA EditCert ==
  ASSUME NEW c \in Records, NEW S \in SUBSET Name
  PROVE  LET d == [c EXCEPT !.cert = S] IN
         /\ d \in Records /\ d.cert = S
         /\ d.user = c.user /\ d.genesis = c.genesis /\ d.bound = c.bound
         /\ d.group = c.group /\ d.token = c.token
BY DEF Records

Kept(q, x) == /\ x.op = q.op /\ x.on = q.on /\ x.name = q.name
              /\ x.alone = q.alone /\ x.knew = q.knew /\ x.local = q.local
              /\ q.misread /\ q.pc # "start" => x.misread

LEMMA EditPc ==
  ASSUME NEW q \in Console, NEW pc \in Pc
  PROVE  LET x == [q EXCEPT !.pc = pc] IN
         x \in Console /\ x.pc = pc /\ x.copy = q.copy /\ Kept(q, x)
BY DEF Console, Kept

LEMMA EditCopy ==
  ASSUME NEW q \in Console, NEW pc \in Pc, NEW c \in Records
  PROVE  LET x == [q EXCEPT !.pc = pc, !.copy = c] IN
         x \in Console /\ x.pc = pc /\ x.copy = c /\ Kept(q, x)
BY Zenon DEF Console, Kept

LEMMA EditSeen ==
  ASSUME NEW q \in Console, NEW g \in BOOLEAN, NEW m \in BOOLEAN, q.pc = "start"
  PROVE  LET x == [q EXCEPT !.pc = "users", !.copy.genesis = g, !.misread = m] IN
         /\ x \in Console /\ x.pc = "users" /\ x.copy.genesis = g /\ x.misread = m
         /\ Kept(q, x)
<1> DEFINE c == [q.copy EXCEPT !.genesis = g]
<1>1. c \in Records /\ c.genesis = g
  BY DEF Console, Records
<1> HIDE DEF c
<1>2. LET x == [q EXCEPT !.pc = "users", !.copy = c, !.misread = m] IN
      /\ x \in Console /\ x.pc = "users" /\ x.copy = c /\ x.misread = m /\ Kept(q, x)
  BY <1>1, Zenon DEF Console, Kept, Pc
<1> QED BY <1>1, <1>2, Zenon DEF c

LEMMA EditCopiedTokens ==
  ASSUME NEW q \in Console, NEW t
  PROVE  LET x == [q EXCEPT !.copy.token = @ \ {t}]
             c == [q.copy EXCEPT !.token = @ \ {t}]
         IN x \in Console /\ x.pc = q.pc /\ x.copy = c /\ c \in Records /\ Kept(q, x)
<1>1. q.copy \in Records /\ q.copy.token \ {t} \in SUBSET (Name \X Request)
  BY DEF Console, Records
<1> DEFINE c == [q.copy EXCEPT !.token = @ \ {t}]
<1>2. c \in Records
  BY <1>1, EditToken, Zenon
<1> HIDE DEF c
<1>3. LET x == [q EXCEPT !.copy = c] IN
      x \in Console /\ x.pc = q.pc /\ x.copy = c /\ Kept(q, x)
  BY <1>2 DEF Console, Kept
<1> QED BY <1>2, <1>3, Zenon DEF c

LEMMA FreeType == NoRecords \in Records /\ Free \in Console /\ ~Free.alone /\ ~Free.knew
BY DEF NoRecords, Records, Free, Console, Op, Pc

-----------------------------------------------------------------------------
(***************************************************************************)
(* What a step of one request leaves of the registry and of the others.     *)
(***************************************************************************)
Effect(r, x, d) ==
  /\ req' = [req EXCEPT ![r] = x]
  /\ Committed' = d
  /\ leader' = leader
  /\ Registered'
  /\ \/ UNCHANGED <<history, applied>>
     \/ /\ leader = req[r].on
        /\ history' = history \/ history' = Append(history, d)
        /\ applied' = [applied EXCEPT ![leader] = Len(history')]

LEMMA CommittedType == Types => Committed \in Records
BY DEF Types, Registered, Committed

LEMMA ViewType ==
  ASSUME Types, NEW r \in Request, req[r] # Free
  PROVE  View(r) \in Records
<1>1. /\ req[r].on \in Node /\ history \in Seq(Records)
      /\ applied \in [Node -> 1 .. Len(history)]
  BY Zenon DEF Types, Registered
<1>2. applied[req[r].on] \in 1 .. Len(history)
  BY <1>1, Zenon
<1> QED BY <1>1, <1>2 DEF View, Local

\* A write through the replicator.
LEMMA CommitsEffect ==
  ASSUME Types, NEW r \in Request, req[r] # Free, NEW d \in Records, NEW x,
         leader = req[r].on, Commits(req[r].on, d), req' = [req EXCEPT ![r] = x]
  PROVE  Effect(r, x, d) /\ history' = Append(history, d)
<1>1. /\ history \in Seq(Records) /\ Len(history) \in Nat \ {0}
      /\ applied \in [Node -> 1 .. Len(history)] /\ leader \in Node
  BY Zenon DEF Types, Registered
<1>2. /\ history' = Append(history, d) /\ leader' = leader
      /\ applied' = [applied EXCEPT ![leader] = Len(history) + 1]
  BY Zenon DEF Commits
<1>3. /\ history' \in Seq(Records) /\ Len(history') = Len(history) + 1
      /\ history'[Len(history) + 1] = d
  BY <1>1, <1>2, AppendLast, ZenonT(60)
<1>4. applied' \in [Node -> 1 .. Len(history')] /\ Len(history') \in Nat \ {0}
  BY <1>1, <1>2, <1>3
<1>5. Committed' = d
  BY <1>3, Zenon DEF Committed
<1> QED BY <1>2, <1>3, <1>4, <1>5, Zenon DEF Effect, Registered

LEMMA NestedPc ==
  ASSUME NEW f \in [Request -> Console], NEW r \in Request, NEW pc
  PROVE  [f EXCEPT ![r].pc = pc] = [f EXCEPT ![r] = [f[r] EXCEPT !.pc = pc]]
OBVIOUS

LEMMA WritesEffect ==
  ASSUME Types, NEW r \in Request, req[r] # Free, NEW d \in Records, NEW pc,
         Writes(r, d, pc)
  PROVE  Effect(r, [req[r] EXCEPT !.pc = pc], d)
<1>1. leader = req[r].on /\ Commits(req[r].on, d) /\ Step(r, pc)
  BY Zenon DEF Writes
<1>2. req' = [req EXCEPT ![r] = [req[r] EXCEPT !.pc = pc]]
  BY <1>1, NestedPc, Zenon DEF Types, Step
<1> QED BY <1>1, <1>2, CommitsEffect, Zenon

\* A read.
LEMMA ReadsEffect ==
  ASSUME Types, NEW r \in Request, NEW x, UNCHANGED registryVars,
         req' = [req EXCEPT ![r] = x]
  PROVE  Effect(r, x, Committed)
<1>1. UNCHANGED <<history, applied, leader>>
  BY Zenon DEF registryVars
<1> QED BY <1>1, Zenon DEF Types, Effect, Registered, Committed

LEMMA StepEffect ==
  ASSUME Types, NEW r \in Request, NEW pc, UNCHANGED registryVars, Step(r, pc)
  PROVE  Effect(r, [req[r] EXCEPT !.pc = pc], Committed)
BY ReadsEffect, NestedPc, Zenon DEF Types, Step

LEMMA CopyEffect ==
  ASSUME Types, NEW r \in Request, NEW pc, NEW c, UNCHANGED registryVars,
         req' = [req EXCEPT ![r].pc = pc, ![r].copy = c]
  PROVE  Effect(r, [req[r] EXCEPT !.pc = pc, !.copy = c], Committed)
<1>1. req \in [Request -> Console]
  BY Zenon DEF Types
<1>2. req' = [req EXCEPT ![r] = [req[r] EXCEPT !.pc = pc, !.copy = c]]
  BY <1>1, Zenon
<1> QED BY <1>2, ReadsEffect, Zenon

\* A refused create-if-absent.
LEMMA RefusedEffect ==
  ASSUME Types, NEW r \in Request, req[r] # Free, leader = req[r].on,
         Refused(req[r].on), Done(r)
  PROVE  Effect(r, Free, Committed)
<1>1. /\ history \in Seq(Records) /\ Len(history) \in Nat \ {0}
      /\ applied \in [Node -> 1 .. Len(history)] /\ leader \in Node
  BY Zenon DEF Types, Registered
<1>2. /\ history' = history /\ leader' = leader /\ req' = [req EXCEPT ![r] = Free]
      /\ applied' = [applied EXCEPT ![leader] = Len(history)]
  BY Zenon DEF Refused, Done
<1>3. applied' \in [Node -> 1 .. Len(history')]
  BY <1>1, <1>2
<1> QED BY <1>1, <1>2, <1>3, Zenon DEF Effect, Registered, Committed

LEMMA CreatesEffect ==
  ASSUME Types, NEW r \in Request, req[r] # Free, NEW d \in Records, NEW pc, NEW absent,
         Creates(r, absent, d, pc)
  PROVE  \/ absent /\ Effect(r, [req[r] EXCEPT !.pc = pc], d)
         \/ Effect(r, Free, Committed)
<1>1. CASE absent
  BY <1>1, WritesEffect, Zenon DEF Creates
<1>2. CASE ~absent
  BY <1>2, RefusedEffect, Zenon DEF Creates
<1> QED BY <1>1, <1>2

-----------------------------------------------------------------------------
(***************************************************************************)
(* The handlers, each by its effect: x is the request after the step, d the *)
(* committed records.                                                       *)
(***************************************************************************)
To(q, pc) == [q EXCEPT !.pc = pc]
Copied(q, pc, c) == [q EXCEPT !.pc = pc, !.copy = c]

\* Identities, credentials and groups.
Plain(r) ==
  \/ Create(r) \/ WriteTokenIndex(r) \/ CreateToken(r) \/ PutToken(r) \/ IssueCert(r)
  \/ PutCertIndex(r) \/ RevokeCredentials(r) \/ SetGroup(r)

PlainStep(r, x, d) ==
  /\ req[r].op \in {"create", "mint", "issue", "revokeCredential", "group"}
  /\ x = Free \/ \E pc \in {"ok", "token", "put"} : x = To(req[r], pc)
  /\ d \in Records /\ d.bound = Committed.bound /\ d.genesis = Committed.genesis

BindingStep(r, x, d) ==
  /\ req[r].op \in {"grant", "revoke"}
  /\ \/ /\ req[r].pc = "start"
        /\ x = Copied(req[r], "put", View(r)) /\ d = Committed
     \/ /\ req[r].pc = "put" /\ x = To(req[r], "ok")
        /\ d = [Committed EXCEPT !.bound =
                  ApplyBinding(req[r].copy.bound, req[r].name, req[r].op = "grant")]

Bindings(r) == ReadBindings(r) \/ PutBindings(r)

LEMMA NotFree ==
  ASSUME NEW r, req[r].op # "none" \/ req[r].pc # "free"
  PROVE  req[r] # Free
BY DEF Free

LEMMA PlainEffect ==
  ASSUME Types, NEW r \in Request, Plain(r)
  PROVE  req[r] # Free /\ \E x, d : Effect(r, x, d) /\ PlainStep(r, x, d)
<1> DEFINE c == Committed
           n == req[r].name
<1>1. req[r] # Free /\ req[r].op \in {"create", "mint", "issue", "revokeCredential", "group"}
  BY NotFree, Zenon
     DEF Plain, Create, WriteTokenIndex, CreateToken, PutToken, IssueCert, PutCertIndex,
         RevokeCredentials, SetGroup, At
<1>2. c \in Records /\ n \in Name
  BY <1>1, CommittedType, Zenon DEF Types
<1> HIDE DEF c, n
<1>3. c.user \cup {n} \in SUBSET Name /\ c.cert \cup {n} \in SUBSET Name
      /\ c.cert \ {n} \in SUBSET Name
      /\ c.token \cup {<<n, r>>} \in SUBSET (Name \X Request)
      /\ \A u : c.token \ {u} \in SUBSET (Name \X Request)
  BY <1>2 DEF Records
<1>4. ASSUME NEW d \in Records, d.bound = c.bound, d.genesis = c.genesis,
             NEW pc \in {"ok", "token"}, Writes(r, d, pc)
      PROVE  \E x, e : Effect(r, x, e) /\ PlainStep(r, x, e)
  <2>1. Effect(r, To(req[r], pc), d)
    BY <1>1, <1>4, WritesEffect, Zenon DEF To
  <2> QED BY <1>1, <1>4, <2>1, Zenon DEF PlainStep, c
<1>5. CASE Create(r)
  <2> DEFINE d == [c EXCEPT !.user = @ \cup {n}]
             pc == IF n \in ServiceAccount THEN "token" ELSE "ok"
  <2>1. Creates(r, n \notin c.user, d, pc)
    BY <1>5, Zenon DEF Create, c, n
  <2>2. d \in Records /\ d.bound = c.bound /\ d.genesis = c.genesis
    BY <1>2, <1>3, EditUser, Zenon
  <2>3. pc \in {"ok", "token"}
    BY Zenon
  <2> HIDE DEF d, pc
  <2>4. CASE Writes(r, d, pc)
    BY <1>1, <1>4, <2>2, <2>3, <2>4, Zenon
  <2>5. CASE Effect(r, Free, c)
    BY <1>1, <1>2, <2>5, Zenon DEF PlainStep, c
  <2> QED BY <1>1, <2>1, <2>4, <2>5, RefusedEffect, Zenon DEF Creates, c
<1>6. CASE WriteTokenIndex(r) \/ PutToken(r)
  <2> DEFINE d == [c EXCEPT !.token = @ \cup {<<n, r>>}]
  <2>1. Writes(r, d, "ok")
    BY <1>6, Zenon DEF WriteTokenIndex, PutToken, TokenEntry, c, n
  <2>2. d \in Records /\ d.bound = c.bound /\ d.genesis = c.genesis
    BY <1>2, <1>3, EditToken, Zenon
  <2> HIDE DEF d
  <2> QED BY <1>1, <1>4, <2>1, <2>2, Zenon
<1>7. CASE CreateToken(r) \/ IssueCert(r)
  <2>1. UNCHANGED registryVars /\ (Step(r, "put") \/ Done(r))
    BY <1>7, Zenon DEF CreateToken, IssueCert
  <2>2. Effect(r, To(req[r], "put"), c) \/ Effect(r, Free, c)
    BY <2>1, StepEffect, ReadsEffect, Zenon DEF To, c, Done
  <2> QED BY <1>1, <1>2, <2>2, Zenon DEF PlainStep, c
<1>8. CASE PutCertIndex(r)
  <2> DEFINE d == [c EXCEPT !.cert = @ \cup {n}]
  <2>1. Writes(r, d, "ok")
    BY <1>8, Zenon DEF PutCertIndex, c, n
  <2>2. d \in Records /\ d.bound = c.bound /\ d.genesis = c.genesis
    BY <1>2, <1>3, EditCert, Zenon
  <2> HIDE DEF d
  <2> QED BY <1>1, <1>4, <2>1, <2>2, Zenon
<1>9. CASE RevokeCredentials(r)
  <2>1. ASSUME NEW u, Writes(r, [c EXCEPT !.token = @ \ {u}], "ok")
        PROVE  \E x, e : Effect(r, x, e) /\ PlainStep(r, x, e)
    <3> DEFINE d == [c EXCEPT !.token = @ \ {u}]
    <3>1. d \in Records /\ d.bound = c.bound /\ d.genesis = c.genesis
      BY <1>2, <1>3, EditToken, Zenon
    <3>2. Writes(r, d, "ok")
      BY <2>1, Zenon
    <3> HIDE DEF d
    <3> QED BY <1>4, <3>1, <3>2, Zenon
  <2>2. ASSUME Writes(r, [c EXCEPT !.cert = @ \ {n}], "ok")
        PROVE  \E x, e : Effect(r, x, e) /\ PlainStep(r, x, e)
    <3> DEFINE d == [c EXCEPT !.cert = @ \ {n}]
    <3>1. d \in Records /\ d.bound = c.bound /\ d.genesis = c.genesis
      BY <1>2, <1>3, EditCert, Zenon
    <3>2. Writes(r, d, "ok")
      BY <2>2, Zenon
    <3> HIDE DEF d
    <3> QED BY <1>4, <3>1, <3>2, Zenon
  <2> QED BY <1>1, <1>9, <2>1, <2>2, Zenon DEF RevokeCredentials, c, n
<1>10. CASE SetGroup(r)
  <2>1. PICK S \in SUBSET Name : Writes(r, [c EXCEPT !.group = S], "ok")
    BY <1>10, Zenon DEF SetGroup, c
  <2> DEFINE d == [c EXCEPT !.group = S]
  <2>2. d \in Records /\ d.bound = c.bound /\ d.genesis = c.genesis
    BY <1>2, EditGroup, Zenon
  <2> HIDE DEF d
  <2> QED BY <1>1, <1>4, <2>1, <2>2, Zenon DEF d
<1> QED BY <1>1, <1>5, <1>6, <1>7, <1>8, <1>9, <1>10, Zenon DEF Plain

LEMMA BindingType ==
  ASSUME NEW c \in Records, NEW b \in SUBSET Name, NEW n \in Name, NEW g \in BOOLEAN
  PROVE  LET d == [c EXCEPT !.bound = ApplyBinding(b, n, g)] IN
         /\ d \in Records /\ d.bound = ApplyBinding(b, n, g) /\ d.genesis = c.genesis
         /\ d.user = c.user /\ d.group = c.group /\ d.token = c.token /\ d.cert = c.cert
<1>1. ApplyBinding(b, n, g) \in SUBSET Name
  BY DEF ApplyBinding
<1> HIDE DEF ApplyBinding
<1> QED BY <1>1, EditBound, Zenon

LEMMA BindingEffect ==
  ASSUME Types, NEW r \in Request, Bindings(r)
  PROVE  /\ req[r] # Free
         /\ \E x, d : Effect(r, x, d) /\ BindingStep(r, x, d) /\ d \in Records
<1> DEFINE c == Committed
<1>1. req[r] # Free /\ req[r].op \in {"grant", "revoke"}
  BY NotFree, Zenon DEF Bindings, ReadBindings, PutBindings
<1>2. /\ c \in Records /\ req[r].name \in Name /\ req[r] \in Console /\ View(r) \in Records
  BY <1>1, CommittedType, ViewType, Zenon DEF Types
<1>3. req[r].copy.bound \in SUBSET Name
  BY <1>2 DEF Console, Records
<1> HIDE DEF c
<1>4. CASE ReadBindings(r)
  <2>1. Effect(r, Copied(req[r], "put", View(r)), c)
    BY <1>4, CopyEffect, Zenon DEF ReadBindings, Copied, c
  <2>2. req[r].pc = "start"
    BY <1>4, Zenon DEF ReadBindings
  <2> QED BY <1>1, <1>2, <2>1, <2>2, Zenon DEF BindingStep, c
<1>5. CASE PutBindings(r)
  <2> DEFINE d == [c EXCEPT !.bound =
                     ApplyBinding(req[r].copy.bound, req[r].name, req[r].op = "grant")]
  <2>1. Writes(r, d, "ok") /\ req[r].pc = "put"
    BY <1>5, Zenon DEF PutBindings, c
  <2>2. d \in Records
    BY <1>2, <1>3, BindingType, Zenon
  <2>3. Effect(r, To(req[r], "ok"), d)
    <3> HIDE DEF d
    <3> QED BY <1>1, <2>1, <2>2, WritesEffect, Zenon DEF To
  <2> QED BY <1>1, <2>1, <2>2, <2>3, Zenon DEF BindingStep, c
<1> QED BY <1>4, <1>5, Zenon DEF Bindings

\* The stages of a deletion.
Delete(r) == \/ RemoveIdentity(r) \/ ScanForPurge(r) \/ PurgeTokens(r) \/ PurgeCerts(r)
             \/ PurgeGroup(r) \/ PurgeBindings(r)

DeleteStep(r, x, d) ==
  LET q == req[r]
      c == Committed
      n == req[r].name
  IN /\ q.op = "delete"
     /\ \/ /\ q.pc = "start" /\ x = To(q, "scan") /\ d = [c EXCEPT !.user = @ \ {n}]
           /\ applied'[q.on] = Len(history')
        \/ q.pc = "scan" /\ x = Copied(q, "tokens", View(r)) /\ d = c
        \/ /\ q.pc = "tokens" /\ TokensOf(n, q.copy.token) = {}
           /\ x = To(q, "certs") /\ d = c
        \/ /\ q.pc = "tokens"
           /\ \E t : /\ x = [q EXCEPT !.copy.token = @ \ {t}]
                     /\ d = [c EXCEPT !.token = @ \ {t}]
        \/ /\ q.pc = "certs" /\ x = To(q, "group")
           /\ d = IF n \in q.copy.cert THEN [c EXCEPT !.cert = @ \ {n}] ELSE c
        \/ /\ q.pc = "group" /\ x = To(q, "bindings")
           /\ d = IF n \in q.copy.group THEN [c EXCEPT !.group = q.copy.group \ {n}]
                  ELSE c
        \/ /\ q.pc = "bindings" /\ x = To(q, "ok")
           /\ d = IF n \in q.copy.bound THEN [c EXCEPT !.bound = q.copy.bound \ {n}]
                  ELSE c

LEMMA PurgesEffect ==
  ASSUME Types, NEW r \in Request, req[r] # Free, NEW pc, NEW found, NEW d \in Records,
         NEW next, Purges(r, pc, found, d, next)
  PROVE  /\ req[r].op = "delete" /\ req[r].pc = pc
         /\ Effect(r, To(req[r], next), IF found THEN d ELSE Committed)
<1>1. CASE found
  BY <1>1, WritesEffect, Zenon DEF Purges, At, To
<1>2. CASE ~found
  BY <1>2, StepEffect, Zenon DEF Purges, At, To
<1> QED BY <1>1, <1>2, Zenon

LEMMA DeleteEffect ==
  ASSUME Types, NEW r \in Request, Delete(r)
  PROVE  /\ req[r] # Free
         /\ \E x, d : Effect(r, x, d) /\ DeleteStep(r, x, d) /\ d \in Records
<1> DEFINE c == Committed
           n == req[r].name
           q == req[r]
<1>1. req[r] # Free /\ q.op = "delete"
  BY NotFree, Zenon DEF Delete, RemoveIdentity, ScanForPurge, PurgeTokens, PurgeCerts,
                        PurgeGroup, PurgeBindings, Purges, At
<1>2. c \in Records /\ n \in Name /\ q \in Console /\ View(r) \in Records
  BY <1>1, CommittedType, ViewType, Zenon DEF Types
<1>3. /\ c.user \ {n} \in SUBSET Name /\ c.cert \ {n} \in SUBSET Name
      /\ q.copy.group \ {n} \in SUBSET Name /\ q.copy.bound \ {n} \in SUBSET Name
      /\ \A u : c.token \ {u} \in SUBSET (Name \X Request)
  <2> HIDE DEF c, n, q
  <2>1. q.copy \in Records
    BY <1>2, Zenon DEF Console
  <2> QED BY <1>2, <2>1 DEF Records
<1>4. CASE RemoveIdentity(r)
  <2> DEFINE d == [c EXCEPT !.user = @ \ {n}]
  <2>1. Writes(r, d, "scan") /\ q.pc = "start"
    BY <1>4, Zenon DEF RemoveIdentity, At
  <2>2. d \in Records
    <3> HIDE DEF c, n
    <3> QED BY <1>2, <1>3, EditUser, Zenon
  <2>3. Effect(r, To(q, "scan"), d)
    <3> HIDE DEF d
    <3> QED BY <1>1, <2>1, <2>2, WritesEffect, Zenon DEF To
  <2>4. applied'[q.on] = Len(history')
    <3>1. /\ history' = Append(history, d) /\ applied' = [applied EXCEPT ![q.on] = Len(history) + 1]
      BY <2>1, Zenon DEF Writes, Commits
    <3>2. /\ history \in Seq(Records) /\ q.on \in Node
          /\ applied \in [Node -> 1 .. Len(history)]
      BY <1>1, Zenon DEF Types, Registered
    <3> HIDE DEF d, q
    <3>3. Len(history') = Len(history) + 1
      BY <2>2, <3>1, <3>2, AppendLast, Zenon
    <3> QED BY <3>1, <3>2, <3>3, Zenon
  <2> QED BY <1>1, <2>1, <2>2, <2>3, <2>4, Zenon DEF DeleteStep
<1>5. CASE ScanForPurge(r)
  <2>1. Effect(r, Copied(q, "tokens", View(r)), c) /\ q.pc = "scan"
    BY <1>5, CopyEffect, Zenon DEF ScanForPurge, At, Copied
  <2> QED BY <1>1, <1>2, <2>1, Zenon DEF DeleteStep
<1>6. CASE PurgeTokens(r)
  <2>0. q.pc = "tokens"
    BY <1>6, Zenon DEF PurgeTokens, At
  <2>1. CASE TokensOf(n, q.copy.token) = {}
    <3>1. Effect(r, To(q, "certs"), c)
      BY <1>6, <2>1, StepEffect, Zenon DEF PurgeTokens, To
    <3> QED BY <1>1, <1>2, <2>0, <2>1, <3>1, Zenon DEF DeleteStep
  <2>2. CASE TokensOf(n, q.copy.token) # {}
    <3>1. PICK u : /\ leader = q.on /\ Commits(q.on, [c EXCEPT !.token = @ \ {u}])
                   /\ req' = [req EXCEPT ![r].copy.token = @ \ {u}]
      BY <1>6, <2>2, Zenon DEF PurgeTokens
    <3> DEFINE d == [c EXCEPT !.token = @ \ {u}]
               x == [q EXCEPT !.copy.token = @ \ {u}]
    <3>2. d \in Records
      <4> HIDE DEF c
      <4> QED BY <1>2, <1>3, EditToken, Zenon
    <3>3. req' = [req EXCEPT ![r] = x]
      <4>1. req \in [Request -> Console]
        BY Zenon DEF Types
      <4> QED BY <3>1, <4>1
    <3>4. Effect(r, x, d)
      <4> HIDE DEF x, d
      <4>1. leader = req[r].on /\ Commits(req[r].on, d)
        BY <3>1, Zenon DEF d
      <4> QED BY <1>1, <3>2, <3>3, <4>1, CommitsEffect, Zenon
    <3> QED BY <1>1, <2>0, <3>2, <3>4, Zenon DEF DeleteStep
  <2> QED BY <2>1, <2>2, Zenon
<1>7. CASE PurgeCerts(r)
  <2> DEFINE d == [c EXCEPT !.cert = @ \ {n}]
             e == IF n \in q.copy.cert THEN d ELSE c
  <2>1. d \in Records
    <3> HIDE DEF c, n
    <3> QED BY <1>2, <1>3, EditCert, Zenon
  <2>2. Purges(r, "certs", n \in q.copy.cert, d, "group")
    BY <1>7, Zenon DEF PurgeCerts
  <2>3. q.pc = "certs" /\ Effect(r, To(q, "group"), e)
    <3> HIDE DEF d
    <3> QED BY <1>1, <2>1, <2>2, PurgesEffect, Zenon
  <2>4. e \in Records
    BY <1>2, <2>1, Zenon
  <2> QED BY <1>1, <2>3, <2>4, Zenon DEF DeleteStep
<1>8. CASE PurgeGroup(r)
  <2> DEFINE d == [c EXCEPT !.group = q.copy.group \ {n}]
             e == IF n \in q.copy.group THEN d ELSE c
  <2>1. d \in Records
    <3> HIDE DEF c, n, q
    <3> QED BY <1>2, <1>3, EditGroup, Zenon
  <2>2. Purges(r, "group", n \in q.copy.group, d, "bindings")
    BY <1>8, Zenon DEF PurgeGroup
  <2>3. q.pc = "group" /\ Effect(r, To(q, "bindings"), e)
    <3> HIDE DEF d
    <3> QED BY <1>1, <2>1, <2>2, PurgesEffect, Zenon
  <2>4. e \in Records
    BY <1>2, <2>1, Zenon
  <2> QED BY <1>1, <2>3, <2>4, Zenon DEF DeleteStep
<1>9. CASE PurgeBindings(r)
  <2> DEFINE d == [c EXCEPT !.bound = q.copy.bound \ {n}]
             e == IF n \in q.copy.bound THEN d ELSE c
  <2>1. d \in Records
    <3> HIDE DEF c, n, q
    <3> QED BY <1>2, <1>3, EditBound, Zenon
  <2>2. Purges(r, "bindings", n \in q.copy.bound, d, "ok")
    BY <1>9, Zenon DEF PurgeBindings
  <2>3. q.pc = "bindings" /\ Effect(r, To(q, "ok"), e)
    <3> HIDE DEF d
    <3> QED BY <1>1, <2>1, <2>2, PurgesEffect, Zenon
  <2>4. e \in Records
    BY <1>2, <2>1, Zenon
  <2> QED BY <1>1, <2>3, <2>4, Zenon DEF DeleteStep
<1> QED BY <1>4, <1>5, <1>6, <1>7, <1>8, <1>9, Zenon DEF Delete

\* First-run setup.
SetUp(r) == \/ ClusterInitialized(r) \/ AnyUserExists(r) \/ CreateAdmin(r)
            \/ ReadAdmins(r) \/ BindAdmin(r) \/ PutGenesisRecord(r)

\* The two reads that decide whether setup is open.
SetupRead(r, x, d) ==
  LET q == req[r]
  IN /\ d = Committed
     /\ \/ q.pc = "users" /\ q.op = "bootstrap" /\ x = Free
        \/ /\ x \in Console /\ Kept(q, x)
           /\ \/ /\ q.op \in {"bootstrap", "status"} /\ q.pc = "start" /\ x.pc = "users"
                 /\ x.copy.genesis => View(r).genesis
                 /\ ~x.misread => x.copy.genesis = View(r).genesis
              \/ /\ q.pc = "users" /\ q.op # "status" /\ x.pc = "create"
                 /\ q.op = "bootstrap" => ~q.copy.genesis
              \/ /\ q.pc = "users" /\ q.op = "status"
                 /\ \/ x.pc = "marker"
                    \/ x.pc = "ok" /\ q.copy.genesis
                    \/ x.pc = "needsSetup" /\ ~q.copy.genesis

SetupStep(r, x, d) ==
  LET q == req[r]
      c == Committed
  IN \/ SetupRead(r, x, d)
     \/ /\ q.op = "bootstrap" /\ q.pc = "create" /\ x = Free /\ d = c
     \/ /\ q.op = "bootstrap" /\ q.pc = "create" /\ leader = q.on
        /\ x = To(q, "read") /\ d = [c EXCEPT !.user = @ \cup {q.name}]
     \/ /\ q.op = "bootstrap" /\ q.pc = "read"
        /\ x = Copied(q, "bind", View(r)) /\ d = c
     \/ /\ q.op = "bootstrap" /\ q.pc = "bind" /\ x = To(q, "marker")
        /\ d = [c EXCEPT !.bound = ApplyBinding(q.copy.bound, q.name, TRUE)]
     \/ /\ q.pc = "marker" /\ x = To(q, "ok")
        /\ \/ d = [c EXCEPT !.genesis = TRUE]
           \/ d = c /\ (c.genesis \/ leader # q.on \/ lost')

LEMMA InitializedEffect ==
  ASSUME Types, NEW r \in Request, req[r] # Free, ClusterInitialized(r)
  PROVE  \E x : Effect(r, x, Committed) /\ SetupRead(r, x, Committed)
<1> DEFINE q == req[r]
           v == View(r)
<1>1. q \in Console /\ v.genesis \in BOOLEAN /\ req \in [Request -> Console]
  <2>1. v \in Records
    BY ViewType, Zenon
  <2> QED BY <2>1 DEF Types, Records
<1>2. q.op \in {"bootstrap", "status"} /\ q.pc = "start" /\ UNCHANGED registryVars
  BY Zenon DEF ClusterInitialized
<1>3. PICK g \in {FALSE, v.genesis} :
        req' = [req EXCEPT ![r].pc = "users", ![r].copy.genesis = g,
                           ![r].misread = g # v.genesis]
  BY Zenon DEF ClusterInitialized
<1> DEFINE m == g # v.genesis
           x == [q EXCEPT !.pc = "users", !.copy.genesis = g, !.misread = m]
<1>4. g \in BOOLEAN /\ m \in BOOLEAN
  BY <1>1, Zenon
<1>5. /\ x \in Console /\ x.pc = "users" /\ x.copy.genesis = g /\ x.misread = m
      /\ Kept(q, x)
  <2> HIDE DEF m, q
  <2> QED BY <1>1, <1>2, <1>4, EditSeen, ZenonT(60)
<1>6. req' = [req EXCEPT ![r] = x]
  BY <1>1, <1>3, Zenon
<1>7. Effect(r, x, Committed)
  <2> HIDE DEF x
  <2> QED BY <1>2, <1>6, ReadsEffect, Zenon
<1>8. (x.copy.genesis => v.genesis) /\ (~x.misread => x.copy.genesis = v.genesis)
  <2> HIDE DEF x, v
  <2> QED BY <1>1, <1>5, Zenon DEF m
<1> HIDE DEF x
<1> QED BY <1>2, <1>5, <1>7, <1>8, Zenon DEF SetupRead

LEMMA AnyUserEffect ==
  ASSUME Types, NEW r \in Request, req[r] # Free, AnyUserExists(r)
  PROVE  \E x : Effect(r, x, Committed) /\ SetupRead(r, x, Committed)
<1> DEFINE q == req[r]
           users == AnyUser(View(r))
<1>1. q \in Console /\ req \in [Request -> Console]
  BY Zenon DEF Types
<1>2. q.pc = "users" /\ UNCHANGED registryVars
  BY Zenon DEF AnyUserExists
<1>3. PICK seen \in {FALSE, users} :
        LET pc == IF q.op = "status" THEN StatusAfterReads(q.copy.genesis, seen)
                  ELSE "create"
            misread == q.misread \/ seen # users
        IN IF q.op = "bootstrap" /\ (q.copy.genesis \/ seen)
           THEN Done(r)
           ELSE req' = [req EXCEPT ![r].pc = pc, ![r].misread = misread]
  BY Zenon DEF AnyUserExists
<1> DEFINE pc == IF q.op = "status" THEN StatusAfterReads(q.copy.genesis, seen)
                 ELSE "create"
           m == q.misread \/ seen # users
           x == [q EXCEPT !.pc = pc, !.misread = m]
<1>4. CASE q.op = "bootstrap" /\ (q.copy.genesis \/ seen)
  <2>1. Effect(r, Free, Committed)
    BY <1>2, <1>3, <1>4, ReadsEffect, Zenon DEF Done
  <2> QED BY <1>2, <1>4, <2>1, Zenon DEF SetupRead
<1>5. CASE ~(q.op = "bootstrap" /\ (q.copy.genesis \/ seen))
  <2>0. m \in BOOLEAN /\ (q.misread => m)
    <3>1. q.misread \in BOOLEAN
      BY <1>1, Zenon DEF Console
    <3> QED BY <3>1, Zenon
  <2>1. \/ q.op # "status" /\ pc = "create"
        \/ /\ q.op = "status"
           /\ \/ pc = "marker"
              \/ pc = "ok" /\ q.copy.genesis
              \/ pc = "needsSetup" /\ ~q.copy.genesis
    <3> HIDE DEF q, users, m
    <3> QED BY DEF StatusAfterReads
  <2>2. pc \in Pc
    <3> HIDE DEF pc, m, q
    <3> QED BY <2>1 DEF Pc
  <2>3. x \in Console /\ x.pc = pc /\ Kept(q, x)
    <3> HIDE DEF pc, m, q
    <3> QED BY <1>1, <2>0, <2>2, ZenonT(60) DEF Console, Kept
  <2>4. req' = [req EXCEPT ![r] = x]
    <3>1. req' = [req EXCEPT ![r].pc = pc, ![r].misread = m]
      BY <1>3, <1>5, Zenon
    <3> HIDE DEF pc, m
    <3> QED BY <1>1, <3>1, Zenon
  <2>5. Effect(r, x, Committed)
    <3> HIDE DEF x
    <3> QED BY <1>2, <2>4, ReadsEffect, Zenon
  <2> HIDE DEF x, pc, m
  <2> QED BY <1>2, <1>5, <2>1, <2>3, <2>5, Zenon DEF SetupRead
<1> QED BY <1>4, <1>5, Zenon

LEMMA SetupEffect ==
  ASSUME Types, NEW r \in Request, SetUp(r)
  PROVE  /\ req[r] # Free
         /\ \E x, d : Effect(r, x, d) /\ SetupStep(r, x, d) /\ d \in Records
<1> DEFINE c == Committed
           q == req[r]
<1>1. req[r] # Free
  BY NotFree, Zenon DEF SetUp, ClusterInitialized, AnyUserExists, CreateAdmin,
                        ReadAdmins, BindAdmin, PutGenesisRecord, At
<1>2. c \in Records /\ q.name \in Name /\ q \in Console /\ View(r) \in Records
  BY <1>1, CommittedType, ViewType, Zenon DEF Types
<1>3. c.user \cup {q.name} \in SUBSET Name /\ q.copy.bound \in SUBSET Name
  <2> HIDE DEF c, q
  <2>1. q.copy \in Records
    BY <1>2, Zenon DEF Console
  <2> QED BY <1>2, <2>1 DEF Records
<1>4. CASE ClusterInitialized(r) \/ AnyUserExists(r)
  BY <1>1, <1>2, <1>4, InitializedEffect, AnyUserEffect, Zenon DEF SetupStep
<1>5. CASE CreateAdmin(r)
  <2> DEFINE d == [c EXCEPT !.user = @ \cup {q.name}]
             absent == q.name \notin c.user
  <2>1. Creates(r, absent, d, "read") /\ q.op = "bootstrap" /\ q.pc = "create"
    BY <1>5, Zenon DEF CreateAdmin, At
  <2>2. d \in Records
    <3> HIDE DEF c, q
    <3> QED BY <1>2, <1>3, EditUser, Zenon
  <2>3. /\ Effect(r, To(q, "read"), d) \/ Effect(r, Free, c)
        /\ leader = q.on
    <3> HIDE DEF d, absent
    <3> QED BY <1>1, <2>1, <2>2, CreatesEffect, Zenon DEF To, Creates, Writes
  <2> QED BY <1>1, <1>2, <2>1, <2>2, <2>3, Zenon DEF SetupStep
<1>6. CASE ReadAdmins(r)
  <2>1. Effect(r, Copied(q, "bind", View(r)), c) /\ q.op = "bootstrap" /\ q.pc = "read"
    BY <1>6, CopyEffect, Zenon DEF ReadAdmins, At, Copied
  <2> QED BY <1>1, <1>2, <2>1, Zenon DEF SetupStep
<1>7. CASE BindAdmin(r)
  <2> DEFINE d == [c EXCEPT !.bound = ApplyBinding(q.copy.bound, q.name, TRUE)]
  <2>1. Writes(r, d, "marker") /\ q.op = "bootstrap" /\ q.pc = "bind"
    BY <1>7, Zenon DEF BindAdmin, At
  <2>2. d \in Records
    <3> HIDE DEF c, q
    <3> QED BY <1>2, <1>3, BindingType, Zenon
  <2>3. Effect(r, To(q, "marker"), d)
    <3> HIDE DEF d
    <3> QED BY <1>1, <2>1, <2>2, WritesEffect, Zenon DEF To
  <2> QED BY <1>1, <2>1, <2>2, <2>3, Zenon DEF SetupStep
<1>8. CASE PutGenesisRecord(r)
  <2>0. q.pc = "marker"
    BY <1>8, Zenon DEF PutGenesisRecord
  <2> DEFINE d == [c EXCEPT !.genesis = TRUE]
  <2>1. CASE Writes(r, d, "ok")
    <3>2. d \in Records
      <4> HIDE DEF c
      <4> QED BY <1>2, EditGenesis, Zenon
    <3>3. Effect(r, To(q, "ok"), d)
      <4> HIDE DEF d
      <4> QED BY <1>1, <2>1, <3>2, WritesEffect, Zenon DEF To
    <3> QED BY <1>1, <2>0, <3>2, <3>3, Zenon DEF SetupStep
  <2>2. CASE /\ Step(r, "ok") /\ UNCHANGED registryVars
             /\ lost' = (lost \/ (leader = q.on /\ ~c.genesis))
    <3>1. Effect(r, To(q, "ok"), c)
      BY <2>2, StepEffect, Zenon DEF To
    <3> QED BY <1>1, <1>2, <2>0, <2>2, <3>1, Zenon DEF SetupStep
  <2> QED BY <1>8, <2>1, <2>2, Zenon DEF PutGenesisRecord
<1> QED BY <1>4, <1>5, <1>6, <1>7, <1>8, Zenon DEF SetUp

\* What all steps of a request have in common.
LEMMA HandlerKinds ==
  ASSUME NEW r, Handler(r)
  PROVE  Plain(r) \/ Bindings(r) \/ Delete(r) \/ SetUp(r)
BY Zenon DEF Handler, Plain, Bindings, Delete, SetUp

LEMMA EndEffect ==
  ASSUME Types, NEW r \in Request, Answer(r) \/ CallFails(r)
  PROVE  req[r] # Free /\ Effect(r, Free, Committed)
<1>1. req[r] # Free
  <2>1. CASE Answer(r)
    BY <2>1 DEF Answer, Free
  <2>2. CASE CallFails(r)
    BY <2>2, Zenon DEF CallFails
  <2> QED BY <2>1, <2>2
<1> QED BY <1>1, ReadsEffect, Zenon DEF Answer, CallFails, Done

Kind(r, x, d) == \/ PlainStep(r, x, d) \/ BindingStep(r, x, d) \/ DeleteStep(r, x, d)
                 \/ SetupStep(r, x, d) \/ (x = Free /\ d = Committed)

Frame(r, x, d) ==
  /\ x \in Console /\ d \in Records
  /\ x = Free \/ Kept(req[r], x)
  /\ Committed.genesis => d.genesis
  /\ Kind(r, x, d)

LEMMA RequestFrame ==
  ASSUME Types, NEW r \in Request, Handler(r) \/ Answer(r) \/ CallFails(r)
  PROVE  req[r] # Free /\ \E x, d : Effect(r, x, d) /\ Frame(r, x, d)
<1> DEFINE c == Committed
           q == req[r]
<1>1. c \in Records /\ q \in Console /\ Free \in Console
  BY CommittedType, FreeType, Zenon DEF Types
<1>2. ASSUME NEW pc \in Pc
      PROVE  To(q, pc) \in Console /\ Kept(q, To(q, pc))
  BY <1>1, EditPc, Zenon DEF To
<1>3. ASSUME NEW pc \in Pc, q # Free
      PROVE  Copied(q, pc, View(r)) \in Console /\ Kept(q, Copied(q, pc, View(r)))
  BY <1>1, <1>3, ViewType, EditCopy, Zenon DEF Copied
<1>p. {"ok", "token", "put", "scan", "tokens", "certs", "group", "bindings", "create",
       "read", "bind", "marker", "users", "needsSetup"} \subseteq Pc
  BY DEF Pc
<1>4. CASE Answer(r) \/ CallFails(r)
  BY <1>1, <1>4, EndEffect, Zenon DEF Frame, Kind
<1>5. CASE Plain(r)
  <2>1. PICK x, d : q # Free /\ Effect(r, x, d) /\ PlainStep(r, x, d)
    BY <1>5, PlainEffect, Zenon
  <2>2. x = Free \/ (x \in Console /\ Kept(q, x))
    BY <1>2, <1>p, <2>1, Zenon DEF PlainStep
  <2> QED BY <1>1, <2>1, <2>2, Zenon DEF PlainStep, Frame, Kind
<1>6. CASE Bindings(r)
  <2>1. PICK x, d : q # Free /\ Effect(r, x, d) /\ BindingStep(r, x, d) /\ d \in Records
    BY <1>6, BindingEffect, Zenon
  <2>2. x \in Console /\ Kept(q, x)
    BY <1>2, <1>3, <1>p, <2>1, Zenon DEF BindingStep
  <2>3. d.genesis = c.genesis
    <3>1. q.copy.bound \in SUBSET Name /\ q.name \in Name
      BY <1>1, <2>1 DEF Console, Records, Types
    <3>2. ASSUME NEW g \in BOOLEAN
          PROVE  [c EXCEPT !.bound = ApplyBinding(q.copy.bound, q.name, g)].genesis
                   = c.genesis
      <4> HIDE DEF c, q
      <4> QED BY <1>1, <3>1, BindingType, SMT
    <3>3. (q.op = "grant") \in BOOLEAN
      BY Zenon
    <3> QED BY <2>1, <3>2, <3>3, Zenon DEF BindingStep
  <2> QED BY <2>1, <2>2, <2>3, Zenon DEF Frame, Kind
<1>7. CASE Delete(r)
  <2>1. PICK x, d : q # Free /\ Effect(r, x, d) /\ DeleteStep(r, x, d) /\ d \in Records
    BY <1>7, DeleteEffect, Zenon
  <2>2. x \in Console /\ Kept(q, x)
    <3>1. ASSUME NEW t
          PROVE  [q EXCEPT !.copy.token = @ \ {t}] \in Console
                 /\ Kept(q, [q EXCEPT !.copy.token = @ \ {t}])
      BY <1>1, EditCopiedTokens, Zenon
    <3>2. \/ \E pc \in {"scan", "certs", "group", "bindings", "ok"} : x = To(q, pc)
          \/ x = Copied(q, "tokens", View(r))
          \/ \E t : x = [q EXCEPT !.copy.token = @ \ {t}]
      BY <2>1, Zenon DEF DeleteStep
    <3> QED BY <1>2, <1>3, <1>p, <2>1, <3>1, <3>2, Zenon
  <2>3. d.genesis = c.genesis
    <3> HIDE DEF c, q
    <3>1. \/ \E S : d = [c EXCEPT !.user = S] \/ d = [c EXCEPT !.cert = S]
                    \/ d = [c EXCEPT !.group = S] \/ d = [c EXCEPT !.bound = S]
                    \/ d = [c EXCEPT !.token = S]
          \/ d = c
      BY <2>1, Zenon DEF DeleteStep, c
    <3> QED BY <1>1, <3>1 DEF Records
  <2> QED BY <2>1, <2>2, <2>3, Zenon DEF Frame, Kind
<1>8. CASE SetUp(r)
  <2>1. PICK x, d : q # Free /\ Effect(r, x, d) /\ SetupStep(r, x, d) /\ d \in Records
    BY <1>8, SetupEffect, Zenon
  <2>2. x = Free \/ (x \in Console /\ Kept(q, x))
    BY <1>2, <1>3, <1>p, <2>1, Zenon DEF SetupStep, SetupRead
  <2>3. c.genesis => d.genesis
    <3> HIDE DEF c, q
    <3>1. \/ \E S : d = [c EXCEPT !.user = S] \/ d = [c EXCEPT !.bound = S]
          \/ d = c \/ d = [c EXCEPT !.genesis = TRUE]
      BY <2>1, Zenon DEF SetupStep, SetupRead, c
    <3> QED BY <1>1, <3>1 DEF Records
  <2> QED BY <1>1, <2>1, <2>2, <2>3, Zenon DEF Frame, Kind
<1> QED BY <1>4, <1>5, <1>6, <1>7, <1>8, HandlerKinds, Zenon

Aside(q, x) == /\ x.op = q.op /\ x.pc = q.pc /\ x.on = q.on /\ x.name = q.name
               /\ x.copy = q.copy /\ x.knew = q.knew /\ x.alone = FALSE
               /\ x.local = q.local /\ x.misread = q.misread
               /\ q = Free => x = Free

LEMMA NotAlone ==
  ASSUME NEW q \in Console
  PROVE  [q EXCEPT !.alone = FALSE] \in Console /\ Aside(q, [q EXCEPT !.alone = FALSE])
<1>1. LET x == [q EXCEPT !.alone = FALSE] IN
         /\ x.op = q.op /\ x.pc = q.pc /\ x.on = q.on /\ x.name = q.name
         /\ x.copy = q.copy /\ x.knew = q.knew /\ x.alone = FALSE
         /\ x.local = q.local /\ x.misread = q.misread
  BY DEF Console
<1>3. [q EXCEPT !.alone = FALSE] \in Console
  BY Zenon DEF Console
<1>2. q = Free => [q EXCEPT !.alone = FALSE] = Free
  <2>1. [Free EXCEPT !.alone = FALSE] = Free
    <3>1. ASSUME NEW f \in Console, f.alone = FALSE
          PROVE  [f EXCEPT !.alone = FALSE] = f
      BY <3>1 DEF Console
    <3>2. Free \in Console /\ Free.alone = FALSE
      BY FreeType DEF Free
    <3> QED BY <3>1, <3>2, Zenon
  <2> QED BY <2>1, Zenon
<1> QED BY <1>1, <1>2, <1>3, Zenon DEF Aside

\* A new request; the ones it overlaps are no longer alone.
LEMMA BeginEffect ==
  ASSUME Types, NEW r \in Request, NEW op \in workload.ops, NEW n \in workload.names,
         NEW m \in workload.nodes, Begin(r, op, n, m)
  PROVE  /\ UNCHANGED <<history, applied, leader, terms, known, lost>>
         /\ req' \in [Request -> Console]
         /\ req[r] = Free /\ (m = leader \/ op \in {"bootstrap", "status"})
         /\ req'[r].op = op /\ req'[r].pc = "start" /\ req'[r].on = m
         /\ (req'[r].local <=> m # leader)
         /\ req'[r].name = n /\ req'[r].knew = known
         /\ req'[r].alone => \A s \in Request : s # r => req[s] = Free
         /\ req'[r].on \in Node /\ req'[r].name \in Name
         /\ \A s \in Request : s # r => Aside(req[s], req'[s])
<1>1. /\ req \in [Request -> Console]
      /\ known \in BOOLEAN /\ workload \in Workloads
  BY Zenon DEF Types, Begin
<1>2. op \in Op /\ n \in Name /\ m \in Node
  BY <1>1, IamAssumption, Zenon DEF Op
<1> DEFINE alone == \A q \in Request \ {r} : req[q] = Free
           local == m # leader
           x == [Free EXCEPT !.op = op, !.pc = "start", !.on = m, !.name = n,
                              !.alone = alone, !.knew = known, !.local = local]
<1>3. /\ x \in Console /\ x.on = m /\ x.local = local /\ x.name = n /\ x.op = op /\ x.pc = "start"
      /\ x.alone = alone /\ x.knew = known
  <2>1. alone \in BOOLEAN /\ local \in BOOLEAN
    BY Zenon
  <2> HIDE DEF alone, local
  <2> QED BY <1>1, <1>2, <2>1, FreeType, Zenon DEF Free, Console, Pc
<1>4. \A s \in Request : /\ [req[s] EXCEPT !.alone = FALSE] \in Console
                         /\ Aside(req[s], [req[s] EXCEPT !.alone = FALSE])
  BY <1>1, NotAlone, Zenon
<1>5. req' = [s \in Request |-> IF s = r THEN x ELSE [req[s] EXCEPT !.alone = FALSE]]
  BY Zenon DEF Begin
<1> HIDE DEF x
<1>6. /\ req' \in [Request -> Console] /\ req'[r] = x
      /\ \A s \in Request : s # r => Aside(req[s], req'[s])
  <2> DEFINE f(s) == IF s = r THEN x ELSE [req[s] EXCEPT !.alone = FALSE]
  <2>1. \A s \in Request : f(s) \in Console
    BY <1>3, <1>4, Zenon
  <2> QED BY <1>4, <1>5, <2>1, Zenon
<1>7. /\ UNCHANGED <<history, applied, leader, terms, known, lost>> /\ req[r] = Free
      /\ m = leader \/ op \in {"bootstrap", "status"}
  BY Zenon DEF Begin, registryVars
<1>8. req'[r].alone => \A s \in Request : s # r => req[s] = Free
  BY <1>3, <1>6, Zenon
<1> QED BY <1>1, <1>2, <1>3, <1>6, <1>7, <1>8, Zenon

-----------------------------------------------------------------------------
(***************************************************************************)
(* The invariants.                                                          *)
(***************************************************************************)
\* Only setup looks for users and writes the marker, only setup is asked for.
Placed ==
  \A r \in Request :
    /\ req[r].pc \in {"users", "marker"} => req[r].op \in {"bootstrap", "status"}
    /\ req[r].pc = "needsSetup" => req[r].op = "status"

\* A setup request that a node answers itself and that has written nothing.
Outside(q) ==
  /\ q.local
  /\ \/ q.op = "status"
     \/ q.op = "bootstrap" /\ q.pc \in {"start", "users", "create"}

\* Until the leader changes, every other request runs on it and reads what is
\* committed.
Sync ==
  /\ terms = 0 =>
       /\ leader = None /\ Len(history) = 1 /\ ~known
       /\ \A r \in Request : req[r] # Free => Outside(req[r]) /\ ~req[r].knew
  /\ terms = 1 =>
       /\ leader \in Node /\ applied[leader] = Len(history)
       /\ \A r \in Request : req[r] # Free => req[r].on = leader \/ Outside(req[r])

\* How far an undisturbed deletion has come.
PurgeStage(q, c) ==
  q.op = "delete" /\ q.alone =>
    /\ q.pc = "tokens" => q.copy.token = c.token
    /\ q.pc \in {"certs", "group", "bindings", "ok"} => TokensOf(q.name, c.token) = {}
    /\ q.pc \in {"tokens", "certs"} => q.copy.cert = c.cert
    /\ q.pc \in {"group", "bindings", "ok"} => q.name \notin c.cert
    /\ q.pc \in {"tokens", "certs", "group"} => q.copy.group = c.group
    /\ q.pc \in {"bindings", "ok"} => q.name \notin c.group
    /\ q.pc \in {"tokens", "certs", "group", "bindings"} => q.copy.bound = c.bound
    /\ q.pc = "ok" => q.name \notin c.bound

Purging ==
  \A r \in Request :
    /\ PurgeStage(req[r], Committed)
    /\ req[r].op = "delete" /\ req[r].alone /\ req[r].pc = "scan" =>
         applied[req[r].on] = Len(history)

\* Whoever is about to put the policy record back knows every grant.
Rebinds(q) ==
  \/ q.op \in {"grant", "revoke"} /\ q.pc = "put"
  \/ q.op = "bootstrap" /\ q.pc = "bind"
  \/ q.op = "delete" /\ q.pc \in {"tokens", "certs", "group", "bindings"}

Granting ==
  /\ \A r \in Request : req[r].op \in {"revoke", "delete"} => req[r].name \notin granted
  /\ terms <= 1 =>
       /\ granted \subseteq Committed.bound
       /\ \A r \in Request :
            /\ Rebinds(req[r]) => granted \subseteq req[r].copy.bound
            /\ req[r].op = "grant" /\ req[r].pc = "ok" /\ req[r].alone =>
                 req[r].name \in Committed.bound

\* What a request may still do to the promise that setup is over.
ClosedFor(q, c, l) ==
  /\ q.knew => c.genesis
  /\ q.knew /\ q.local => q.on # l
  /\ q.knew /\ ~q.misread => /\ ~(q.op = "bootstrap" /\ q.pc \in {"read", "bind"})
                             /\ ~q.local => q.pc \notin {"create", "needsSetup"}
  /\ ~q.local /\ q.pc = "users" => /\ q.copy.genesis => c.genesis
                                   /\ q.knew /\ ~q.misread => q.copy.genesis
  /\ ~q.local /\ q.op \in {"bootstrap", "status"} /\ q.pc = "ok" => c.genesis

Closed ==
  terms <= 1 /\ ~lost =>
    /\ known => Committed.genesis
    /\ \A r \in Request : ClosedFor(req[r], Committed, leader)

IamInv == Types /\ Alone /\ Placed /\ Sync /\ Purging /\ Granting /\ Closed

-----------------------------------------------------------------------------
(***************************************************************************)
(* The steps.                                                               *)
(***************************************************************************)
\* A request other than r that is under way is not alone.
LEMMA RequestStep ==
  ASSUME Types, Alone, NEW r \in Request, Handler(r) \/ Answer(r) \/ CallFails(r)
  PROVE  \E x, d : /\ req[r] # Free /\ Effect(r, x, d) /\ Frame(r, x, d)
                   /\ req' \in [Request -> Console] /\ req'[r] = x /\ Committed' = d
                   /\ \A s \in Request : s # r => req'[s] = req[s] /\ ~req[s].alone
                   /\ leader' = leader /\ terms' = terms
<1>1. req[r] # Free
  BY RequestFrame, Zenon
<1>2. PICK x, d : Effect(r, x, d) /\ Frame(r, x, d)
  BY RequestFrame, Zenon
<1>3. req \in [Request -> Console] /\ x \in Console /\ req' = [req EXCEPT ![r] = x]
      /\ Committed' = d /\ leader' = leader
  BY <1>2, Zenon DEF Types, Effect, Frame
<1>4. req' \in [Request -> Console] /\ req'[r] = x
      /\ \A s \in Request : s # r => req'[s] = req[s]
  BY <1>3, Zenon
<1>5. \A s \in Request : s # r => ~req[s].alone
  BY <1>1, Zenon DEF Alone
<1>6. terms' = terms
  <2>1. CASE Handler(r)
    BY <2>1, Zenon DEF Handler, Create, WriteTokenIndex, CreateToken, PutToken, IssueCert,
          PutCertIndex, RevokeCredentials, ReadBindings, PutBindings, SetGroup,
          RemoveIdentity, ScanForPurge, PurgeTokens, PurgeCerts, PurgeGroup,
          PurgeBindings, Purges, ClusterInitialized, CreateAdmin, ReadAdmins, BindAdmin,
          PutGenesisRecord, AnyUserExists, Quiet
  <2>2. CASE Answer(r) \/ CallFails(r)
    BY <2>2, Zenon DEF Answer, CallFails, Quiet
  <2> QED BY <2>1, <2>2, Zenon
<1> QED BY <1>1, <1>2, <1>3, <1>4, <1>5, <1>6, Zenon

\* Only an answer changes what callers know and what counts as granted.
LEMMA HandlerQuiet ==
  ASSUME Types, NEW r, Handler(r) \/ CallFails(r)
  PROVE  known' = known /\ granted' = granted
         /\ lost' \in {lost, TRUE}
<1>1. CASE Handler(r) /\ ~PutGenesisRecord(r)
  BY <1>1, Zenon DEF Handler, Create, WriteTokenIndex, CreateToken, PutToken, IssueCert,
        PutCertIndex, RevokeCredentials, ReadBindings, PutBindings, SetGroup,
        RemoveIdentity, ScanForPurge, PurgeTokens, PurgeCerts, PurgeGroup,
        PurgeBindings, Purges, ClusterInitialized, CreateAdmin, ReadAdmins, BindAdmin,
        AnyUserExists, Quiet
<1>2. CASE CallFails(r)
  BY <1>2, Zenon DEF CallFails, Quiet
<1>3. CASE PutGenesisRecord(r)
  <2>1. \E b \in BOOLEAN : lost' = lost \/ lost' = (lost \/ b)
    BY <1>3, Zenon DEF PutGenesisRecord
  <2>2. lost' \in {lost, TRUE}
    BY <2>1 DEF Types
  <2> QED BY <1>3, <2>2, Zenon DEF PutGenesisRecord
<1> QED BY <1>1, <1>2, <1>3, Zenon

\* What the environment does to the replicas.
LEMMA ReplicaStep ==
  ASSUME Types, NEW n \in workload.nodes, Elect(n) \/ Replicate(n)
  PROVE  /\ n \in Node
         /\ req' = req /\ known' = known /\ lost' = lost /\ granted' = granted
         /\ history' = history /\ Committed' = Committed /\ Registered'
         /\ \/ /\ terms' = terms + 1 /\ leader' = n /\ applied' = applied
            \/ /\ terms' = terms /\ leader' = leader
               /\ \A m \in Node : applied[m] = Len(history) => applied'[m] = applied[m]
<1>1. n \in Node
  BY IamAssumption, Zenon DEF Types
<1>2. CASE Elect(n)
  BY <1>1, <1>2, Zenon DEF Elect, Registered, Types, Committed
<1>3. CASE Replicate(n)
  <2>1. /\ applied[n] < Len(history) /\ applied' = [applied EXCEPT ![n] = applied[n] + 1]
        /\ history' = history /\ leader' = leader /\ terms' = terms
        /\ req' = req /\ known' = known /\ lost' = lost /\ granted' = granted
    BY <1>3, Zenon DEF Replicate, CatchUp
  <2>2. applied \in [Node -> 1 .. Len(history)] /\ Len(history) \in Nat
        /\ history \in Seq(Records) /\ Len(history) \in Nat \ {0}
    BY Zenon DEF Types, Registered
  <2>3. applied' \in [Node -> 1 .. Len(history)]
        /\ \A m \in Node : applied[m] = Len(history) => applied'[m] = applied[m]
    <3> DEFINE L == Len(history)
    <3> HIDE DEF L
    <3>1. applied \in [Node -> 1 .. L] /\ L \in Nat /\ applied[n] < L
      BY <2>1, <2>2, Zenon DEF L
    <3>2. applied' = [applied EXCEPT ![n] = applied[n] + 1]
      BY <2>1, Zenon
    <3>3. applied' \in [Node -> 1 .. L]
          /\ \A m \in Node : applied[m] = L => applied'[m] = applied[m]
      BY <1>1, <3>1, <3>2
    <3> QED BY <3>3, Zenon DEF L
  <2> QED BY <1>1, <2>1, <2>2, <2>3, Zenon DEF Registered, Committed
<1> QED BY <1>2, <1>3, Zenon

-----------------------------------------------------------------------------
(***************************************************************************)
(* Each invariant is kept: by a request, by a new request, by the replicas. *)
(***************************************************************************)
Requested(r) == Handler(r) \/ Answer(r) \/ CallFails(r)

Begun(r) == \E op \in workload.ops, n \in workload.names, m \in workload.nodes :
              Begin(r, op, n, m)

\* The steps, one by one.
LEMMA StepCases ==
  ASSUME Next
  PROVE  /\ workload' = workload
         /\ \/ \E n \in workload.nodes : Elect(n) \/ Replicate(n)
            \/ \E r \in Request : Requested(r)
            \/ \E r \in Request : Begun(r)
BY Zenon DEF Next, Requested, Begun

LEMMA TypesInit == Init => Types
<1> SUFFICES ASSUME Init PROVE Types
  OBVIOUS
<1>1. NoRecords \in Records
  BY DEF NoRecords, Records
<1> DEFINE S == Name \ ServiceAccount
           old == [NoRecords EXCEPT !.user = S, !.bound = S]
<1>2. old \in Records
  BY Zenon DEF NoRecords, Records
<1>3. PICK c \in Records : history = <<c>>
  BY <1>1, <1>2, Zenon DEF Init, RegistryInit
<1>4. history \in Seq(Records) /\ Len(history) = 1
  BY <1>3
<1>5. applied \in [Node -> 1 .. 1]
  BY DEF Init, RegistryInit
<1>6. Registered
  BY <1>4, <1>5 DEF Registered
<1>7. terms \in Nat /\ known \in BOOLEAN /\ lost \in BOOLEAN /\ granted \in SUBSET Name
  BY Zenon DEF Init
<1>8. req \in [Request -> Console] /\ \A r \in Request : req[r] = Free
  BY FreeType, Zenon DEF Init
<1>9. workload \in Workloads /\ leader \in Node \cup {None}
  BY Zenon DEF Init, RegistryInit
<1> QED BY <1>6, <1>7, <1>8, <1>9, Zenon DEF Types

LEMMA TypesStep ==
  ASSUME Types, Alone, Next
  PROVE  Types'
<1>0. workload' \in Workloads
  BY StepCases, Zenon DEF Types
<1>1. ASSUME NEW n \in workload.nodes, Elect(n) \/ Replicate(n)
      PROVE  Types'
  <2>1. Registered' /\ req' = req /\ known' = known /\ lost' = lost /\ granted' = granted
        /\ leader' \in Node \cup {None} /\ terms' \in {terms, terms + 1}
    BY <1>1, ReplicaStep, Zenon DEF Types
  <2>2. terms' \in Nat
    BY <2>1 DEF Types
  <2> QED BY <1>0, <2>1, <2>2, Zenon DEF Types
<1>2. ASSUME NEW r \in Request, Requested(r)
      PROVE  Types'
  <2>1. PICK x, d : /\ req[r] # Free /\ Effect(r, x, d) /\ Frame(r, x, d)
                    /\ req' \in [Request -> Console] /\ req'[r] = x
                    /\ \A s \in Request : s # r => req'[s] = req[s]
                    /\ leader' = leader /\ terms' = terms
    BY <1>2, RequestStep, Zenon DEF Requested
  <2>2. req[r].on \in Node /\ req[r].name \in Name
    BY <2>1, Zenon DEF Types
  <2>3. \A s \in Request : req'[s] # Free => req'[s].on \in Node /\ req'[s].name \in Name
    BY <2>1, <2>2, Zenon DEF Types, Frame, Kept
  <2>4. known' \in BOOLEAN /\ lost' \in BOOLEAN /\ granted' \in SUBSET Name
    <3>1. CASE Handler(r) \/ CallFails(r)
      BY <3>1, HandlerQuiet, Zenon DEF Types
    <3>2. CASE Answer(r)
      BY <2>2, <3>2, Zenon DEF Types, Answer
    <3> QED BY <1>2, <3>1, <3>2, Zenon DEF Requested
  <2> QED BY <1>0, <2>1, <2>3, <2>4, Zenon DEF Types, Effect
<1>3. ASSUME NEW r \in Request, NEW op \in workload.ops, NEW n \in workload.names,
             NEW m \in workload.nodes, Begin(r, op, n, m)
      PROVE  Types'
  <2>1. /\ UNCHANGED <<history, applied, leader, terms, known, lost>>
        /\ req' \in [Request -> Console] /\ req'[r].on \in Node /\ req'[r].name \in Name
        /\ \A s \in Request : s # r => Aside(req[s], req'[s])
    BY <1>3, BeginEffect, ZenonT(60)
  <2>2. ASSUME NEW s \in Request, s # r, req'[s] # Free
        PROVE  req'[s].on \in Node /\ req'[s].name \in Name
    BY <2>1, <2>2, Zenon DEF Types, Aside
  <2>3. granted' \in SUBSET Name
    BY <1>3, Zenon DEF Types, Begin
  <2> QED BY <1>0, <2>1, <2>2, <2>3, Zenon DEF Types, Registered
<1> QED BY <1>1, <1>2, <1>3, StepCases, Zenon DEF Begun

LEMMA AloneStep ==
  ASSUME Types, Alone, Next
  PROVE  Alone'
<1>1. ASSUME NEW n \in workload.nodes, Elect(n) \/ Replicate(n)
      PROVE  Alone'
  BY <1>1, ReplicaStep, Zenon DEF Alone
<1>2. ASSUME NEW r \in Request, Requested(r)
      PROVE  Alone'
  <2>1. PICK x, d : /\ Frame(r, x, d) /\ req'[r] = x
                    /\ \A s \in Request : s # r => req'[s] = req[s] /\ ~req[s].alone
    BY <1>2, RequestStep, Zenon DEF Requested
  <2>2. ~Free.alone
    BY DEF Free
  <2> QED BY <2>1, <2>2, ZenonT(60) DEF Alone, Frame, Kept
<1>3. ASSUME NEW r \in Request, NEW op \in workload.ops, NEW n \in workload.names,
             NEW m \in workload.nodes, Begin(r, op, n, m)
      PROVE  Alone'
  <2>1. /\ req'[r].alone => \A s \in Request : s # r => req[s] = Free
        /\ \A s \in Request : s # r => Aside(req[s], req'[s])
    BY <1>3, BeginEffect, ZenonT(60)
  <2> QED BY <2>1, Zenon DEF Alone, Aside
<1> QED BY <1>1, <1>2, <1>3, StepCases, Zenon DEF Begun

LEMMA Stages ==
  ASSUME Types, NEW r \in Request, req[r] # Free
  PROVE  /\ \A pc \in Pc : To(req[r], pc).pc = pc /\ To(req[r], pc).copy = req[r].copy
         /\ \A pc \in Pc : /\ Copied(req[r], pc, View(r)).pc = pc
                           /\ Copied(req[r], pc, View(r)).copy = View(r)
         /\ {"ok", "token", "put", "scan", "tokens", "certs", "group", "bindings",
             "create", "read", "bind", "marker", "users", "needsSetup"} \subseteq Pc
<1>1. req[r] \in Console /\ View(r) \in Records
  BY ViewType, Zenon DEF Types
<1>2. \A pc \in Pc : To(req[r], pc).pc = pc /\ To(req[r], pc).copy = req[r].copy
  BY <1>1, EditPc, Zenon DEF To
<1>3. \A pc \in Pc : /\ Copied(req[r], pc, View(r)).pc = pc
                     /\ Copied(req[r], pc, View(r)).copy = View(r)
  <2> SUFFICES ASSUME NEW pc \in Pc
               PROVE  /\ Copied(req[r], pc, View(r)).pc = pc
                      /\ Copied(req[r], pc, View(r)).copy = View(r)
    BY Zenon
  <2> DEFINE q == req[r]
             v == View(r)
  <2> HIDE DEF q, v
  <2>1. q \in Console /\ v \in Records
    BY <1>1, Zenon DEF q, v
  <2>2. Copied(q, pc, v).pc = pc /\ Copied(q, pc, v).copy = v
    BY <2>1 DEF Copied, Console
  <2> QED BY <2>2, Zenon DEF q, v
<1>4. {"ok", "token", "put", "scan", "tokens", "certs", "group", "bindings",
       "create", "read", "bind", "marker", "users", "needsSetup"} \subseteq Pc
  BY DEF Pc
<1> QED BY <1>2, <1>3, <1>4, Zenon

\* The grants and revocations, field by field.
BindingShape(r, x, d) ==
  LET q == req[r]
      c == Committed
  IN \/ q.pc = "start" /\ x.pc = "put" /\ x.copy = View(r) /\ d = c
     \/ /\ q.pc = "put" /\ x.pc = "ok" /\ d.genesis = c.genesis
        /\ d.bound = ApplyBinding(q.copy.bound, q.name, q.op = "grant")

LEMMA Binds ==
  ASSUME Types, NEW r \in Request, req[r] # Free, NEW x, NEW d, BindingStep(r, x, d)
  PROVE  req[r].op \in {"grant", "revoke"} /\ BindingShape(r, x, d)
<1> DEFINE c == Committed
           q == req[r]
<1>1. req[r].op \in {"grant", "revoke"}
  BY Zenon DEF BindingStep
<1>2. CASE q.pc = "start" /\ x = Copied(q, "put", View(r)) /\ d = c
  BY <1>1, <1>2, Stages, Zenon DEF BindingShape
<1>3. CASE /\ q.pc = "put" /\ x = To(q, "ok")
           /\ d = [c EXCEPT !.bound = ApplyBinding(q.copy.bound, q.name, q.op = "grant")]
  <2>1. q \in Console /\ q.name \in Name /\ c \in Records
    BY CommittedType, Zenon DEF Types
  <2>2. q.copy.bound \in SUBSET Name
    BY <2>1 DEF Console, Records
  <2>3. ASSUME NEW g \in BOOLEAN
        PROVE  LET e == [c EXCEPT !.bound = ApplyBinding(q.copy.bound, q.name, g)]
               IN /\ e.genesis = c.genesis
                  /\ e.bound = ApplyBinding(q.copy.bound, q.name, g)
    <3> HIDE DEF c, q
    <3> QED BY <2>1, <2>2, BindingType, SMT
  <2>4. (q.op = "grant") \in BOOLEAN
    BY Zenon
  <2>5. x.pc = "ok"
    BY <1>3, Stages, ZenonT(60)
  <2>6. d.genesis = c.genesis
        /\ d.bound = ApplyBinding(q.copy.bound, q.name, q.op = "grant")
    BY <1>3, <2>3, <2>4, Zenon
  <2> QED BY <1>1, <1>3, <2>5, <2>6, Zenon DEF BindingShape
<1> QED BY <1>2, <1>3, Zenon DEF BindingStep

SameBut(c, d, f) ==
  /\ f # "token" => d.token = c.token
  /\ f # "cert" => d.cert = c.cert
  /\ f # "group" => d.group = c.group
  /\ f # "bound" => d.bound = c.bound

\* A deletion, field by field.
DeleteShape(r, x, d) ==
  LET q == req[r]
      c == Committed
      n == req[r].name
  IN \/ /\ q.pc = "start" /\ x.pc = "scan" /\ SameBut(c, d, "user")
        /\ applied'[q.on] = Len(history')
     \/ q.pc = "scan" /\ x.pc = "tokens" /\ x.copy = View(r) /\ d = c
     \/ /\ q.pc = "tokens" /\ TokensOf(n, q.copy.token) = {}
        /\ x.pc = "certs" /\ x.copy = q.copy /\ d = c
     \/ /\ q.pc = "tokens" /\ x.pc = "tokens"
        /\ \E t : /\ x.copy.token = q.copy.token \ {t} /\ SameBut(q.copy, x.copy, "token")
                  /\ d.token = c.token \ {t} /\ SameBut(c, d, "token")
     \/ /\ q.pc = "certs" /\ x.pc = "group" /\ x.copy = q.copy
        /\ IF n \in q.copy.cert THEN d.cert = c.cert \ {n} /\ SameBut(c, d, "cert")
           ELSE d = c
     \/ /\ q.pc = "group" /\ x.pc = "bindings" /\ x.copy = q.copy
        /\ IF n \in q.copy.group
           THEN d.group = q.copy.group \ {n} /\ SameBut(c, d, "group") ELSE d = c
     \/ /\ q.pc = "bindings" /\ x.pc = "ok"
        /\ IF n \in q.copy.bound
           THEN d.bound = q.copy.bound \ {n} /\ SameBut(c, d, "bound") ELSE d = c

LEMMA Deletes ==
  ASSUME Types, NEW r \in Request, req[r] # Free, NEW x, NEW d, DeleteStep(r, x, d)
  PROVE  req[r].op = "delete" /\ DeleteShape(r, x, d)
<1> DEFINE c == Committed
           q == req[r]
           n == q.name
<1>0. q.op = "delete"
  BY Zenon DEF DeleteStep
<1>1. q \in Console /\ c \in Records /\ q.copy \in Records
  BY CommittedType DEF Types, Console
<1>2. CASE /\ q.pc = "start" /\ x = To(q, "scan") /\ d = [c EXCEPT !.user = c.user \ {n}]
           /\ applied'[q.on] = Len(history')
  <2>1. \A S : SameBut(c, [c EXCEPT !.user = S], "user")
    <3> HIDE DEF c
    <3> QED BY <1>1 DEF Records, SameBut
  <2>2. x.pc = "scan"
    BY <1>2, Stages, ZenonT(60)
  <2> QED BY <1>0, <1>2, <2>1, <2>2, Zenon DEF DeleteShape
<1>3. CASE q.pc = "scan" /\ x = Copied(q, "tokens", View(r)) /\ d = c
  BY <1>0, <1>3, Stages, Zenon DEF DeleteShape
<1>4. CASE /\ q.pc = "tokens" /\ TokensOf(n, q.copy.token) = {}
           /\ x = To(q, "certs") /\ d = c
  BY <1>0, <1>4, Stages, Zenon DEF DeleteShape
<1>5. CASE /\ q.pc = "tokens"
           /\ \E t : /\ x = [q EXCEPT !.copy.token = @ \ {t}]
                     /\ d = [c EXCEPT !.token = @ \ {t}]
  <2>1. PICK t : /\ x = [q EXCEPT !.copy.token = @ \ {t}]
                 /\ d = [c EXCEPT !.token = c.token \ {t}]
    BY <1>5, Zenon
  <2>2. \A S : LET e == [c EXCEPT !.token = S] IN e.token = S /\ SameBut(c, e, "token")
    <3> HIDE DEF c
    <3> QED BY <1>1 DEF Records, SameBut
  <2>3. x.pc = q.pc /\ x.copy = [q.copy EXCEPT !.token = q.copy.token \ {t}]
    BY <1>1, <2>1, EditCopiedTokens, Zenon
  <2>4. \A S : LET e == [q.copy EXCEPT !.token = S]
               IN e.token = S /\ SameBut(q.copy, e, "token")
    <3> DEFINE k == q.copy
    <3> HIDE DEF k
    <3>1. k \in Records
      BY <1>1 DEF k
    <3>2. \A S : LET e == [k EXCEPT !.token = S] IN e.token = S /\ SameBut(k, e, "token")
      BY <3>1 DEF Records, SameBut
    <3> QED BY <3>2, Zenon DEF k
  <2>5. d.token = c.token \ {t} /\ SameBut(c, d, "token")
    BY <2>1, <2>2, Zenon
  <2>6. x.copy.token = q.copy.token \ {t} /\ SameBut(q.copy, x.copy, "token")
    BY <2>3, <2>4, ZenonT(60)
  <2>7. \E u : /\ x.copy.token = q.copy.token \ {u} /\ SameBut(q.copy, x.copy, "token")
               /\ d.token = c.token \ {u} /\ SameBut(c, d, "token")
    BY <2>5, <2>6, Zenon
  <2> QED BY <1>0, <1>5, <2>3, <2>7, Zenon DEF DeleteShape
<1>6. CASE /\ q.pc = "certs" /\ x = To(q, "group")
           /\ d = IF n \in q.copy.cert THEN [c EXCEPT !.cert = c.cert \ {n}] ELSE c
  <2>1. \A S : LET e == [c EXCEPT !.cert = S] IN e.cert = S /\ SameBut(c, e, "cert")
    <3> HIDE DEF c
    <3> QED BY <1>1 DEF Records, SameBut
  <2>2. x.pc = "group" /\ x.copy = q.copy
    BY <1>6, Stages, ZenonT(60)
  <2> QED BY <1>0, <1>6, <2>1, <2>2, Zenon DEF DeleteShape
<1>7. CASE /\ q.pc = "group" /\ x = To(q, "bindings")
           /\ d = IF n \in q.copy.group THEN [c EXCEPT !.group = q.copy.group \ {n}] ELSE c
  <2>1. \A S : LET e == [c EXCEPT !.group = S] IN e.group = S /\ SameBut(c, e, "group")
    <3> HIDE DEF c
    <3> QED BY <1>1 DEF Records, SameBut
  <2>2. x.pc = "bindings" /\ x.copy = q.copy
    BY <1>7, Stages, ZenonT(60)
  <2> QED BY <1>0, <1>7, <2>1, <2>2, Zenon DEF DeleteShape
<1>8. CASE /\ q.pc = "bindings" /\ x = To(q, "ok")
           /\ d = IF n \in q.copy.bound THEN [c EXCEPT !.bound = q.copy.bound \ {n}] ELSE c
  <2>1. \A S : LET e == [c EXCEPT !.bound = S] IN e.bound = S /\ SameBut(c, e, "bound")
    <3> HIDE DEF c
    <3> QED BY <1>1 DEF Records, SameBut
  <2>2. x.pc = "ok"
    BY <1>8, Stages, ZenonT(60)
  <2> QED BY <1>0, <1>8, <2>1, <2>2, Zenon DEF DeleteShape
<1> HIDE DEF c, q, n
<1> QED BY <1>2, <1>3, <1>4, <1>5, <1>6, <1>7, <1>8, Zenon DEF DeleteStep, c, q, n

\* First-run setup, field by field.
SetupShape(r, x, d) ==
  LET q == req[r]
      c == Committed
  IN \/ SetupRead(r, x, d)
     \/ /\ q.op = "bootstrap" /\ q.pc = "create" /\ x = Free /\ d = c
     \/ /\ q.op = "bootstrap" /\ q.pc = "create" /\ leader = q.on /\ x.pc = "read"
        /\ d.bound = c.bound /\ d.genesis = c.genesis
     \/ /\ q.op = "bootstrap" /\ q.pc = "read" /\ x.pc = "bind" /\ x.copy = View(r)
        /\ d = c
     \/ /\ q.op = "bootstrap" /\ q.pc = "bind" /\ x.pc = "marker"
        /\ d.bound = ApplyBinding(q.copy.bound, q.name, TRUE) /\ d.genesis = c.genesis
     \/ /\ q.pc = "marker" /\ x.pc = "ok" /\ d.bound = c.bound
        /\ \/ d.genesis = TRUE
           \/ d = c /\ (c.genesis \/ leader # q.on \/ lost')

LEMMA SetsUp ==
  ASSUME Types, NEW r \in Request, req[r] # Free, NEW x, NEW d, SetupStep(r, x, d)
  PROVE  SetupShape(r, x, d)
<1> DEFINE c == Committed
           q == req[r]
<1>1. q \in Console /\ c \in Records /\ q.copy \in Records /\ q.name \in Name
  BY CommittedType DEF Types, Console
<1>2. CASE q.op = "bootstrap" /\ q.pc = "create" /\ x = Free /\ d = c
  BY <1>2, Zenon DEF SetupShape
<1>3. CASE SetupRead(r, x, d)
  BY <1>3, Zenon DEF SetupShape
<1>4. CASE /\ q.op = "bootstrap" /\ q.pc = "create" /\ leader = q.on
           /\ x = To(q, "read") /\ d = [c EXCEPT !.user = c.user \cup {q.name}]
  <2>1. \A S : LET e == [c EXCEPT !.user = S]
               IN e.bound = c.bound /\ e.genesis = c.genesis
    <3> HIDE DEF c
    <3> QED BY <1>1 DEF Records
  <2>2. x.pc = "read"
    BY <1>4, Stages, Zenon
  <2> QED BY <1>4, <2>1, <2>2, Zenon DEF SetupShape
<1>5. CASE q.op = "bootstrap" /\ q.pc = "read" /\ x = Copied(q, "bind", View(r)) /\ d = c
  <2>1. x.pc = "bind" /\ x.copy = View(r)
    BY <1>5, Stages, Zenon
  <2> QED BY <1>5, <2>1, ZenonT(60) DEF SetupShape
<1>6. CASE /\ q.op = "bootstrap" /\ q.pc = "bind" /\ x = To(q, "marker")
           /\ d = [c EXCEPT !.bound = ApplyBinding(q.copy.bound, q.name, TRUE)]
  <2>1. \A S : LET e == [c EXCEPT !.bound = S] IN e.bound = S /\ e.genesis = c.genesis
    <3> HIDE DEF c
    <3> QED BY <1>1 DEF Records
  <2>2. x.pc = "marker"
    BY <1>6, Stages, Zenon
  <2> QED BY <1>6, <2>1, <2>2, Zenon DEF SetupShape
<1>7. CASE /\ q.pc = "marker" /\ x = To(q, "ok")
           /\ \/ d = [c EXCEPT !.genesis = TRUE]
              \/ d = c /\ (c.genesis \/ leader # q.on \/ lost')
  <2>1. LET e == [c EXCEPT !.genesis = TRUE] IN e.bound = c.bound /\ e.genesis = TRUE
    <3> HIDE DEF c
    <3> QED BY <1>1 DEF Records
  <2>2. x.pc = "ok"
    BY <1>7, Stages, ZenonT(60)
  <2> QED BY <1>7, <2>1, <2>2, Zenon DEF SetupShape
<1> HIDE DEF c, q
<1> QED BY <1>2, <1>3, <1>4, <1>5, <1>6, <1>7, Zenon DEF SetupStep, c, q

\* The other handlers touch neither the bindings nor the marker.
LEMMA PlainShape ==
  ASSUME Types, NEW r \in Request, req[r] # Free, NEW x, NEW d, PlainStep(r, x, d)
  PROVE  /\ req[r].op \in {"create", "mint", "issue", "revokeCredential", "group"}
         /\ x = Free \/ x.pc \in {"ok", "token", "put"}
         /\ d.bound = Committed.bound /\ d.genesis = Committed.genesis
<1>1. \A pc \in {"ok", "token", "put"} : To(req[r], pc).pc = pc
  BY Stages, SMT
<1>2. x = Free \/ x.pc \in {"ok", "token", "put"}
  BY <1>1, Zenon DEF PlainStep
<1> QED BY <1>2, Zenon DEF PlainStep

\* The same for whatever a request does next.
Shape(r, x, d) ==
  LET q == req[r]
      c == Committed
  IN \/ x = Free /\ d = c
     \/ /\ q.op \in {"create", "mint", "issue", "revokeCredential", "group"}
        /\ x = Free \/ x.pc \in {"ok", "token", "put"}
        /\ d.bound = c.bound /\ d.genesis = c.genesis
     \/ q.op \in {"grant", "revoke"} /\ BindingShape(r, x, d)
     \/ q.op = "delete" /\ DeleteShape(r, x, d)
     \/ SetupShape(r, x, d)

LEMMA Shapes ==
  ASSUME Types, NEW r \in Request, req[r] # Free, NEW x, NEW d, Frame(r, x, d)
  PROVE  /\ x = Free \/ Kept(req[r], x)
         /\ Committed.genesis => d.genesis
         /\ Shape(r, x, d)
<1>1. x = Free \/ Kept(req[r], x)
  BY Zenon DEF Frame
<1>2. Committed.genesis => d.genesis
  BY Zenon DEF Frame
<1>3. CASE PlainStep(r, x, d)
  BY <1>1, <1>2, <1>3, PlainShape, Zenon DEF Shape
<1>4. CASE BindingStep(r, x, d)
  BY <1>1, <1>2, <1>4, Binds, Zenon DEF Shape
<1>5. CASE DeleteStep(r, x, d)
  BY <1>1, <1>2, <1>5, Deletes, Zenon DEF Shape
<1>6. CASE SetupStep(r, x, d)
  BY <1>1, <1>2, <1>6, SetsUp, Zenon DEF Shape
<1>7. CASE x = Free /\ d = Committed
  BY <1>1, <1>2, <1>7, Zenon DEF Shape
<1> QED BY <1>3, <1>4, <1>5, <1>6, <1>7, Zenon DEF Frame, Kind

LEMMA StagePlaced ==
  ASSUME Types, Placed, NEW r \in Request, NEW x, NEW d, req[r] # Free, Frame(r, x, d)
  PROVE  /\ x.pc \in {"users", "marker"} => x.op \in {"bootstrap", "status"}
         /\ x.pc = "needsSetup" => x.op = "status"
<1>1. x = Free \/ x.op = req[r].op
  BY Shapes, Zenon DEF Kept
<1>2. Free.pc = "free"
  BY SMTT(60) DEF Free
<1>3. \/ x = Free
      \/ x.pc \in {"ok", "token", "put", "scan", "tokens", "certs", "group",
                   "bindings", "create", "read", "bind"}
      \/ /\ x.pc \in {"users", "marker", "needsSetup"}
         /\ req[r].op \in {"bootstrap", "status"}
         /\ x.pc = "needsSetup" => req[r].op = "status"
  <2>1. Shape(r, x, d)
    BY Shapes, Zenon
  <2>2. CASE SetupRead(r, x, d)
    BY <2>2, Zenon DEF SetupRead
  <2>3. CASE ~SetupRead(r, x, d)
    BY <2>1, <2>3, Zenon DEF Shape, BindingShape, DeleteShape, SetupShape, Placed
  <2> QED BY <2>2, <2>3
<1> QED BY <1>1, <1>2, <1>3

LEMMA PlacedStep ==
  ASSUME Types, Alone, Placed, Next
  PROVE  Placed'
<1>1. ASSUME NEW n \in workload.nodes, Elect(n) \/ Replicate(n)
      PROVE  Placed'
  BY <1>1, ReplicaStep, Zenon DEF Placed
<1>2. ASSUME NEW r \in Request, Requested(r)
      PROVE  Placed'
  <2>1. PICK x, d : /\ req[r] # Free /\ Frame(r, x, d) /\ req'[r] = x
                    /\ \A s \in Request : s # r => req'[s] = req[s]
    BY <1>2, RequestStep, Zenon DEF Requested
  <2> QED BY <2>1, StagePlaced, Zenon DEF Placed
<1>3. ASSUME NEW r \in Request, NEW op \in workload.ops, NEW n \in workload.names,
             NEW m \in workload.nodes, Begin(r, op, n, m)
      PROVE  Placed'
  <2>1. /\ req'[r].pc = "start"
        /\ \A s \in Request : s # r => Aside(req[s], req'[s])
    BY <1>3, BeginEffect, ZenonT(60)
  <2> QED BY <2>1, Zenon DEF Placed, Aside
<1> QED BY <1>1, <1>2, <1>3, StepCases, Zenon DEF Begun

\* A request a node answers itself stays outside until it writes, as the leader.
LEMMA OutsideStep ==
  ASSUME Types, NEW r \in Request, req[r] # Free, Outside(req[r]), NEW x, NEW d,
         Frame(r, x, d)
  PROVE  x = Free \/ Outside(x) \/ leader = req[r].on
<1> DEFINE q == req[r]
<1>1. /\ x = Free \/ Kept(q, x)
      /\ Shape(r, x, d)
  BY Shapes, SMT
<1>2. CASE x # Free
  <2>1. x.op = q.op /\ x.local = q.local
    BY <1>1, <1>2, Zenon DEF Kept
  <2>2. CASE q.op = "status"
    BY <2>1, <2>2, Zenon DEF Outside
  <2>3. CASE q.op = "bootstrap" /\ q.pc \in {"start", "users", "create"}
    <3>1. SetupShape(r, x, d)
      BY <1>1, <1>2, <2>3 DEF Shape
    <3>2. x.pc \in {"users", "create"} \/ leader = q.on
      <4>1. CASE SetupRead(r, x, d)
        BY <1>2, <2>3, <4>1 DEF SetupRead
      <4>2. CASE ~SetupRead(r, x, d)
        BY <1>2, <2>3, <3>1, <4>2 DEF SetupShape
      <4> QED BY <4>1, <4>2
    <3> QED BY <2>1, <2>3, <3>2 DEF Outside
  <2> QED BY <2>2, <2>3, Zenon DEF Outside
<1> QED BY <1>2

LEMMA SyncStep ==
  ASSUME Types, Alone, Sync, Next
  PROVE  Sync'
<1>0. terms \in Nat /\ applied \in [Node -> 1 .. Len(history)] /\ Len(history) \in Nat
  BY Zenon DEF Types, Registered
<1>1. ASSUME NEW n \in workload.nodes, Elect(n) \/ Replicate(n)
      PROVE  Sync'
  <2>0. /\ n \in Node /\ req' = req /\ history' = history
        /\ known' = known
        /\ \/ /\ terms' = terms + 1 /\ leader' = n /\ applied' = applied
           \/ /\ terms' = terms /\ leader' = leader
              /\ \A m \in Node : applied[m] = Len(history) => applied'[m] = applied[m]
    BY <1>1, ReplicaStep, Zenon
  <2>1. CASE terms' = terms /\ leader' = leader
              /\ \A m \in Node : applied[m] = Len(history) => applied'[m] = applied[m]
    BY <2>0, <2>1, Zenon DEF Sync
  <2>2. CASE terms' = terms + 1 /\ leader' = n /\ applied' = applied
    <3>1. terms' # 0 /\ (terms' = 1 => terms = 0)
      BY <1>0, <2>2
    <3>2. terms' = 1 => /\ Len(history) = 1
                        /\ \A r \in Request : req[r] # Free => Outside(req[r])
      BY <3>1, Zenon DEF Sync
    <3>3. Len(history) = 1 => applied[n] = Len(history)
      BY <1>0, <2>0
    <3> QED BY <2>0, <2>2, <3>1, <3>2, <3>3, Zenon DEF Sync
  <2> QED BY <2>0, <2>1, <2>2, Zenon
<1>2. ASSUME NEW r \in Request, Requested(r)
      PROVE  Sync'
  <2>1. PICK x, d : /\ req[r] # Free /\ Effect(r, x, d) /\ Frame(r, x, d) /\ req'[r] = x
                    /\ \A s \in Request : s # r => req'[s] = req[s]
                    /\ leader' = leader /\ terms' = terms
    BY <1>2, RequestStep, Zenon DEF Requested
  <2>2. ASSUME terms = 0
        PROVE  /\ leader = None /\ Len(history') = 1 /\ ~known'
               /\ \A s \in Request : req'[s] # Free => Outside(req'[s]) /\ ~req'[s].knew
    <3>1. /\ leader = None /\ Len(history) = 1 /\ ~known
          /\ Outside(req[r]) /\ ~req[r].knew /\ req[r].on \in Node
      BY <2>1, <2>2, Zenon DEF Sync, Types
    <3>2. leader # req[r].on
      BY <3>1, IamAssumption, Zenon
    <3>3. history' = history
      BY <2>1, <3>2, Zenon DEF Effect
    <3>4. x = Free \/ (Outside(x) /\ ~x.knew)
      BY <2>1, <3>1, <3>2, OutsideStep, Zenon DEF Frame, Kept
    <3>5. ~known'
      <4>1. CASE Handler(r) \/ CallFails(r)
        BY <3>1, <4>1, HandlerQuiet, Zenon
      <4>2. CASE Answer(r)
        BY <3>1, <4>2, Zenon DEF Answer, Outside
      <4> QED BY <1>2, <4>1, <4>2, Zenon DEF Requested
    <3>6. \A s \in Request : req'[s] # Free => Outside(req'[s]) /\ ~req'[s].knew
      BY <2>1, <2>2, <3>4, Zenon DEF Sync
    <3> QED BY <3>1, <3>3, <3>5, <3>6, Zenon
  <2>3. ASSUME terms = 1
        PROVE  /\ leader \in Node /\ applied'[leader] = Len(history')
               /\ \A s \in Request : req'[s] # Free => req'[s].on = leader \/ Outside(req'[s])
    <3>1. leader \in Node /\ applied[leader] = Len(history)
      BY <2>3, Zenon DEF Sync
    <3>2. applied'[leader] = Len(history')
      BY <1>0, <2>1, <3>1, Zenon DEF Effect
    <3>3. x = Free \/ x.on = leader \/ Outside(x)
      <4>1. x = Free \/ x.on = req[r].on
        BY <2>1, Zenon DEF Frame, Kept
      <4>2. req[r].on = leader \/ Outside(req[r])
        BY <2>1, <2>3, Zenon DEF Sync
      <4> QED BY <2>1, <4>1, <4>2, OutsideStep, Zenon
    <3>4. \A s \in Request : req'[s] # Free => req'[s].on = leader \/ Outside(req'[s])
      BY <2>1, <2>3, <3>3, Zenon DEF Sync
    <3> QED BY <3>1, <3>2, <3>4, Zenon
  <2> QED BY <2>1, <2>2, <2>3, Zenon DEF Sync
<1>3. ASSUME NEW r \in Request, NEW op \in workload.ops, NEW n \in workload.names,
             NEW m \in workload.nodes, Begin(r, op, n, m)
      PROVE  Sync'
  <2>1. /\ UNCHANGED <<history, applied, leader, terms, known>>
        /\ req'[r].on = m /\ (req'[r].local <=> m # leader) /\ req'[r].pc = "start"
        /\ req'[r].op = op /\ req'[r].knew = known
        /\ m = leader \/ op \in {"bootstrap", "status"}
        /\ \A s \in Request : s # r => Aside(req[s], req'[s])
    BY <1>3, BeginEffect, ZenonT(60)
  <2>m. m \in Node
    BY IamAssumption, Zenon DEF Types
  <2>2. req'[r].on = leader \/ Outside(req'[r])
    BY <2>1 DEF Outside
  <2>3. ASSUME NEW s \in Request, s # r, req'[s] # Free
        PROVE  /\ req[s] # Free /\ req'[s].on = req[s].on /\ req'[s].knew = req[s].knew
               /\ Outside(req[s]) => Outside(req'[s])
    BY <2>1, <2>3, Zenon DEF Aside, Outside
  <2>4. ASSUME terms = 0
        PROVE  /\ leader = None /\ Len(history') = 1 /\ ~known'
               /\ \A s \in Request : req'[s] # Free => Outside(req'[s]) /\ ~req'[s].knew
    <3>1. leader = None /\ Len(history) = 1 /\ ~known
      BY <2>4, Zenon DEF Sync
    <3>2. m # leader
      BY <2>m, <3>1, IamAssumption, Zenon
    <3>3. Outside(req'[r]) /\ ~req'[r].knew
      BY <2>1, <2>2, <3>1, <3>2, Zenon
    <3> QED BY <2>1, <2>3, <2>4, <3>1, <3>3, Zenon DEF Sync
  <2>5. ASSUME terms = 1, NEW s \in Request, req'[s] # Free
        PROVE  req'[s].on = leader \/ Outside(req'[s])
    BY <2>2, <2>3, <2>5, Zenon DEF Sync
  <2> QED BY <2>1, <2>4, <2>5, Zenon DEF Sync
<1> QED BY <1>1, <1>2, <1>3, StepCases, Zenon DEF Begun

\* Until the leader changes, any other request reads what is committed.
LEMMA ReadsCommitted ==
  ASSUME Types, Sync, terms <= 1, NEW r \in Request, req[r] # Free, ~Outside(req[r])
  PROVE  View(r) = Committed /\ leader = req[r].on
<1>1. terms = 0 \/ terms = 1
  BY DEF Types
<1> QED BY <1>1, Zenon DEF Sync, View, Local, Committed

\* An undisturbed deletion goes from one stage to the next.
LEMMA PurgeStep ==
  ASSUME Types, Purging, NEW r \in Request, req[r] # Free, req[r].op = "delete",
         req[r].alone, NEW x, NEW d, Kept(req[r], x), DeleteShape(r, x, d)
  PROVE  /\ PurgeStage(x, d)
         /\ x.pc = "scan" => applied'[x.on] = Len(history')
<1> DEFINE q == req[r]
           c == Committed
           n == q.name
<1>1. PurgeStage(q, c) /\ (q.pc = "scan" => applied[q.on] = Len(history))
  BY Zenon DEF Purging
<1>2. q.op = "delete" /\ q.alone /\ x.name = n /\ x.on = q.on
  BY Zenon DEF Kept
<1>3. q.pc = "scan" => View(r) = c
  BY <1>1, Zenon DEF View, Local, Committed
<1> DEFINE v == View(r)
<1>4. CASE q.pc = "start" /\ x.pc = "scan" /\ applied'[q.on] = Len(history')
  BY <1>2, <1>4 DEF PurgeStage
<1>5. CASE q.pc = "scan" /\ x.pc = "tokens" /\ x.copy = v /\ d = c
  <2> HIDE DEF q, c, n, v
  <2> QED BY <1>3, <1>5 DEF PurgeStage, v, q, c
<1>6. CASE /\ q.pc = "tokens" /\ TokensOf(n, q.copy.token) = {}
           /\ x.pc = "certs" /\ x.copy = q.copy /\ d = c
  <2> HIDE DEF q, c, n
  <2> QED BY <1>1, <1>2, <1>6 DEF PurgeStage
<1>7. CASE /\ q.pc = "tokens" /\ x.pc = "tokens"
           /\ \E t : /\ x.copy.token = q.copy.token \ {t}
                     /\ SameBut(q.copy, x.copy, "token")
                     /\ d.token = c.token \ {t} /\ SameBut(c, d, "token")
  <2> HIDE DEF q, c, n
  <2> QED BY <1>1, <1>2, <1>7 DEF PurgeStage, SameBut
<1>8. CASE /\ q.pc = "certs" /\ x.pc = "group" /\ x.copy = q.copy
           /\ IF n \in q.copy.cert THEN d.cert = c.cert \ {n} /\ SameBut(c, d, "cert")
              ELSE d = c
  <2> HIDE DEF q, c, n
  <2>1. q.copy.cert = c.cert
    BY <1>1, <1>2, <1>8 DEF PurgeStage
  <2>2. n \notin d.cert /\ d.token = c.token /\ d.group = c.group /\ d.bound = c.bound
    BY <1>8, <2>1 DEF SameBut
  <2>3. q.pc = "certs" /\ x.pc = "group" /\ x.copy = q.copy
    BY <1>8
  <2> QED BY <1>1, <1>2, <2>2, <2>3 DEF PurgeStage, n
<1>9. CASE /\ q.pc = "group" /\ x.pc = "bindings" /\ x.copy = q.copy
           /\ IF n \in q.copy.group
              THEN d.group = q.copy.group \ {n} /\ SameBut(c, d, "group") ELSE d = c
  <2> HIDE DEF q, c, n
  <2>1. q.copy.group = c.group
    BY <1>1, <1>2, <1>9 DEF PurgeStage
  <2>2. n \notin d.group /\ d.token = c.token /\ d.cert = c.cert /\ d.bound = c.bound
    BY <1>9, <2>1 DEF SameBut
  <2>3. q.pc = "group" /\ x.pc = "bindings" /\ x.copy = q.copy
    BY <1>9
  <2> QED BY <1>1, <1>2, <2>2, <2>3 DEF PurgeStage, n
<1>10. CASE /\ q.pc = "bindings" /\ x.pc = "ok"
            /\ IF n \in q.copy.bound
               THEN d.bound = q.copy.bound \ {n} /\ SameBut(c, d, "bound") ELSE d = c
  <2> HIDE DEF q, c, n
  <2>1. q.copy.bound = c.bound
    BY <1>1, <1>2, <1>10 DEF PurgeStage
  <2>2. n \notin d.bound /\ d.token = c.token /\ d.cert = c.cert /\ d.group = c.group
    BY <1>10, <2>1 DEF SameBut
  <2>3. q.pc = "bindings" /\ x.pc = "ok"
    BY <1>10
  <2> QED BY <1>1, <1>2, <2>2, <2>3 DEF PurgeStage, n
<1> HIDE DEF q, c, n, v
<1> QED BY <1>4, <1>5, <1>6, <1>7, <1>8, <1>9, <1>10, Zenon DEF DeleteShape, q, c, n, v

LEMMA PurgingStep ==
  ASSUME Types, Alone, Placed, Purging, Next
  PROVE  Purging'
<1>1. ASSUME NEW n \in workload.nodes, Elect(n) \/ Replicate(n)
      PROVE  Purging'
  <2>1. /\ req' = req /\ history' = history /\ Committed' = Committed
        /\ \A m \in Node : applied[m] = Len(history) => applied'[m] = applied[m]
    BY <1>1, ReplicaStep, Zenon
  <2>2. \A r \in Request : req[r].op = "delete" => req[r].on \in Node
    <3>1. Free.op # "delete"
      BY DEF Free
    <3> QED BY <3>1, Zenon DEF Types
  <2> QED BY <2>1, <2>2, Zenon DEF Purging
<1>2. ASSUME NEW r \in Request, Requested(r)
      PROVE  Purging'
  <2>1. PICK x, d : /\ req[r] # Free /\ Frame(r, x, d) /\ req'[r] = x /\ Committed' = d
                    /\ \A s \in Request : s # r => req'[s] = req[s] /\ ~req[s].alone
    BY <1>2, RequestStep, Zenon DEF Requested
  <2>2. ASSUME NEW s \in Request, s # r
        PROVE  ~req'[s].alone
    BY <2>1, <2>2, Zenon
  <2>3. ASSUME x.op = "delete", x.alone
        PROVE  PurgeStage(x, d) /\ (x.pc = "scan" => applied'[x.on] = Len(history'))
    <3>1. Free.op # "delete"
      BY DEF Free
    <3>2. Kept(req[r], x) /\ Shape(r, x, d) /\ x # Free
      BY <2>1, <2>3, <3>1, Shapes, SMT
    <3>3. req[r].op = "delete" /\ req[r].alone
      BY <2>3, <3>2, Zenon DEF Kept
    <3>4. DeleteShape(r, x, d)
      <4>1. ~SetupShape(r, x, d)
        BY <3>2, <3>3 DEF SetupShape, SetupRead, Placed
      <4> QED BY <3>2, <3>3, <4>1, Zenon DEF Shape
    <3> QED BY <2>1, <3>2, <3>3, <3>4, PurgeStep, Zenon
  <2>4. PurgeStage(x, d) /\ (x.op = "delete" /\ x.alone /\ x.pc = "scan" =>
                               applied'[x.on] = Len(history'))
    <3>1. CASE x.op = "delete" /\ x.alone
      BY <2>3, <3>1, Zenon
    <3>2. CASE ~(x.op = "delete" /\ x.alone)
      BY <3>2, Zenon DEF PurgeStage
    <3> QED BY <3>1, <3>2, Zenon
  <2>5. ASSUME NEW s \in Request, s # r
        PROVE  PurgeStage(req'[s], Committed')
    BY <2>2, <2>5, Zenon DEF PurgeStage
  <2> QED BY <2>1, <2>2, <2>4, <2>5, Zenon DEF Purging
<1>3. ASSUME NEW r \in Request, NEW op \in workload.ops, NEW n \in workload.names,
             NEW m \in workload.nodes, Begin(r, op, n, m)
      PROVE  Purging'
  <2>1. req'[r].pc = "start" /\ \A s \in Request : s # r => ~req'[s].alone
    BY <1>3, BeginEffect, Zenon DEF Aside
  <2>2. PurgeStage(req'[r], Committed')
    BY <2>1, Zenon DEF PurgeStage
  <2>3. ASSUME NEW s \in Request, s # r
        PROVE  PurgeStage(req'[s], Committed')
    BY <2>1, <2>3, Zenon DEF PurgeStage
  <2> QED BY <2>1, <2>2, <2>3, Zenon DEF Purging
<1> QED BY <1>1, <1>2, <1>3, StepCases, Zenon DEF Begun

\* A read-modify-write of the policy record loses no grant.
LEMMA GrantStep ==
  ASSUME Types, Placed, Sync, Granting, terms <= 1, NEW r \in Request, req[r] # Free,
         NEW x, NEW d, Kept(req[r], x), Shape(r, x, d)
  PROVE  /\ granted \subseteq d.bound
         /\ Rebinds(x) => granted \subseteq x.copy.bound
         /\ x.op = "grant" /\ x.pc = "ok" => x.name \in d.bound
<1> DEFINE q == req[r]
           c == Committed
           n == q.name
           v == View(r)
<1>1. /\ granted \subseteq c.bound
      /\ Rebinds(q) => granted \subseteq q.copy.bound
      /\ q.op \in {"revoke", "delete"} => n \notin granted
  BY Zenon DEF Granting
<1>2. ~Outside(q) => v = c
  BY ReadsCommitted, Zenon
<1>o. Outside(q) => q.op = "status" \/ (q.op = "bootstrap" /\ q.pc # "read")
  BY DEF Outside
<1>3. x.op = q.op /\ x.name = n
  BY Zenon DEF Kept
<1>4. q.pc \in {"users", "marker"} => q.op \in {"bootstrap", "status"}
  BY Zenon DEF Placed
<1>f. Free.pc = "free"
  BY DEF Free
<1>5. CASE x = Free /\ d = c
  <2> HIDE DEF q, c, n, v
  <2> QED BY <1>1, <1>5, <1>f DEF Rebinds
<1>6. CASE /\ q.op \in {"create", "mint", "issue", "revokeCredential", "group"}
           /\ d.bound = c.bound
  <2> HIDE DEF q, c, n, v
  <2> QED BY <1>1, <1>3, <1>6 DEF Rebinds
<1>7. CASE q.op \in {"grant", "revoke"} /\ BindingShape(r, x, d)
  <2>1. \/ q.pc = "start" /\ x.pc = "put" /\ x.copy = v /\ d = c
        \/ /\ q.pc = "put" /\ x.pc = "ok"
           /\ d.bound = ApplyBinding(q.copy.bound, n, q.op = "grant")
    BY <1>7, Zenon DEF BindingShape
  <2> HIDE DEF q, c, n, v
  <2>2. CASE q.pc = "start" /\ x.pc = "put" /\ x.copy = v /\ d = c
    BY <1>1, <1>2, <1>7, <1>o, <2>2
  <2>3. CASE /\ q.pc = "put" /\ x.pc = "ok"
             /\ d.bound = ApplyBinding(q.copy.bound, n, q.op = "grant")
    <3>1. granted \subseteq q.copy.bound /\ ~Rebinds(x)
      BY <1>1, <1>3, <1>7, <2>3 DEF Rebinds
    <3>2. CASE q.op = "grant"
      BY <1>3, <2>3, <3>1, <3>2, SMTT(60) DEF ApplyBinding
    <3>3. CASE q.op = "revoke"
      BY <1>1, <1>3, <2>3, <3>1, <3>3, SMTT(60) DEF ApplyBinding
    <3> QED BY <1>7, <3>2, <3>3
  <2> QED BY <2>1, <2>2, <2>3, Zenon
<1>8. CASE q.op = "delete" /\ DeleteShape(r, x, d)
  <2>1. \/ d.bound = c.bound
        \/ q.pc = "bindings" /\ d.bound = q.copy.bound \ {n}
    <3> HIDE DEF q, c, n, v
    <3> QED BY <1>8, Zenon DEF DeleteShape, SameBut, q, c, n
  <2>2. \/ x.pc \in {"scan", "ok"}
        \/ x.pc = "tokens" /\ x.copy = v
        \/ /\ q.pc \in {"tokens", "certs", "group", "bindings"}
           /\ x.copy.bound = q.copy.bound
    <3> HIDE DEF q, c, n, v
    <3> QED BY <1>8, Zenon DEF DeleteShape, SameBut, q, v
  <2> HIDE DEF q, c, n, v
  <2>3. v = c
    BY <1>2, <1>8, <1>o
  <2> QED BY <1>1, <1>3, <1>8, <2>1, <2>2, <2>3 DEF Rebinds
<1>9. CASE SetupShape(r, x, d)
  <2>1. q.op \in {"bootstrap", "status"}
    BY <1>4, <1>9, Zenon DEF SetupShape, SetupRead
  <2>2. \/ d.bound = c.bound
        \/ /\ q.op = "bootstrap" /\ q.pc = "bind"
           /\ d.bound = ApplyBinding(q.copy.bound, n, TRUE)
    BY <1>9, Zenon DEF SetupShape, SetupRead
  <2>3. x.pc = "bind" => x.copy = v /\ q.op = "bootstrap" /\ q.pc = "read"
    BY <1>9, <1>f DEF SetupShape, SetupRead
  <2> HIDE DEF q, c, n, v
  <2>4. ApplyBinding(q.copy.bound, n, TRUE) = q.copy.bound \cup {n}
    BY DEF ApplyBinding
  <2>5. x.pc = "bind" => v = c
    BY <1>2, <1>o, <2>3
  <2> QED BY <1>1, <1>3, <2>1, <2>2, <2>3, <2>4, <2>5, Zenon DEF Rebinds
<1> QED BY <1>5, <1>6, <1>7, <1>8, <1>9, Zenon DEF Shape

LEMMA GrantingStep ==
  ASSUME Types, Alone, Placed, Sync, Granting, Next
  PROVE  Granting'
<1>f. Free.op = "none" /\ Free.pc = "free" /\ ~Free.alone
  BY DEF Free
<1>g. Free.op \notin {"revoke", "delete"} /\ ~Rebinds(Free) /\ Free.op # "grant"
  BY <1>f DEF Rebinds
<1>1. ASSUME NEW n \in workload.nodes, Elect(n) \/ Replicate(n)
      PROVE  Granting'
  <2>1. /\ req' = req /\ granted' = granted /\ Committed' = Committed
        /\ terms' = terms \/ terms' = terms + 1
    BY <1>1, ReplicaStep, Zenon
  <2>2. terms' <= 1 => terms <= 1
    BY <2>1 DEF Types
  <2> QED BY <2>1, <2>2, Zenon DEF Granting
<1>2. ASSUME NEW r \in Request, Requested(r)
      PROVE  Granting'
  <2>1. PICK x, d : /\ req[r] # Free /\ Frame(r, x, d) /\ req'[r] = x /\ Committed' = d
                    /\ \A s \in Request : s # r => req'[s] = req[s] /\ ~req[s].alone
                    /\ terms' = terms
    BY <1>2, RequestStep, Zenon DEF Requested
  <2>2. CASE Handler(r) \/ CallFails(r)
    <3>1. granted' = granted
      BY <2>2, HandlerQuiet, Zenon
    <3>2. x = Free \/ (Kept(req[r], x) /\ Shape(r, x, d))
      BY <2>1, Shapes, Zenon
    <3>3. \A s \in Request : req'[s].op \in {"revoke", "delete"} => req'[s].name \notin granted
      BY <1>g, <2>1, <3>2, Zenon DEF Granting, Kept
    <3>4. ASSUME terms <= 1
          PROVE  /\ granted \subseteq d.bound
                 /\ Rebinds(x) => granted \subseteq x.copy.bound
                 /\ x.op = "grant" /\ x.pc = "ok" => x.name \in d.bound
      <4>1. CASE x # Free
        BY <2>1, <3>2, <3>4, <4>1, GrantStep, Zenon
      <4>2. CASE x = Free
        <5>1. granted \subseteq Committed.bound
          BY <3>4, Zenon DEF Granting
        <5>2. d.bound = Committed.bound
          <6>1. Shape(r, Free, d)
            BY <2>1, <4>2, Shapes, Zenon
          <6> QED BY <1>f, <6>1 DEF Shape, BindingShape, DeleteShape, SetupShape, SetupRead
        <5> QED BY <1>g, <4>2, <5>1, <5>2, Zenon
      <4> QED BY <4>1, <4>2, Zenon
    <3> QED BY <2>1, <3>1, <3>3, <3>4, Zenon DEF Granting
  <2>3. CASE Answer(r)
    <3>1. req'[r] = Free /\ Committed' = Committed
      <4>1. Effect(r, Free, Committed) /\ req \in [Request -> Console]
        BY <2>3, EndEffect, Zenon DEF Types
      <4> QED BY <4>1, Zenon DEF Effect
    <3>2. CASE granted' = granted
      BY <1>g, <2>1, <3>1, <3>2, Zenon DEF Granting
    <3>3. CASE req[r].op = "grant" /\ req[r].alone /\ granted' = granted \cup {req[r].name}
      <4>1. \A s \in Request : req'[s] = Free
        BY <2>1, <3>1, <3>3, Zenon DEF Alone
      <4>2. req[r].pc = "ok"
        BY <2>3, <3>3 DEF Answer, Placed
      <4>3. terms <= 1 => granted' \subseteq Committed.bound
        BY <3>3, <4>2, Zenon DEF Granting
      <4> QED BY <1>g, <2>1, <3>1, <4>1, <4>3, Zenon DEF Granting
    <3> QED BY <2>3, <3>2, <3>3, Zenon DEF Answer
  <2> QED BY <1>2, <2>2, <2>3, Zenon DEF Requested
<1>3. ASSUME NEW r \in Request, NEW op \in workload.ops, NEW n \in workload.names,
             NEW m \in workload.nodes, Begin(r, op, n, m)
      PROVE  Granting'
  <2>1. /\ history' = history /\ terms' = terms
        /\ req'[r].pc = "start" /\ req'[r].op = op /\ req'[r].name = n
        /\ \A s \in Request : s # r => Aside(req[s], req'[s])
    BY <1>3, BeginEffect, ZenonT(60)
  <2>2. granted' = IF op \in {"revoke", "delete"} THEN granted \ {n} ELSE granted
    BY <1>3, Zenon DEF Begin
  <2>3. granted' \subseteq granted /\ Committed' = Committed
    BY <2>1, <2>2 DEF Committed
  <2>4. \A s \in Request : req'[s].op \in {"revoke", "delete"} => req'[s].name \notin granted'
    <3>1. req'[r].op \in {"revoke", "delete"} => req'[r].name \notin granted'
      BY <2>1, <2>2
    <3> QED BY <2>1, <2>3, <3>1, Zenon DEF Granting, Aside
  <2>5. ASSUME NEW s \in Request, terms <= 1
        PROVE  /\ Rebinds(req'[s]) => granted' \subseteq req'[s].copy.bound
               /\ ~(req'[s].op = "grant" /\ req'[s].pc = "ok" /\ req'[s].alone)
    <3>1. CASE s = r
      BY <2>1, <3>1 DEF Rebinds
    <3>2. CASE s # r
      <4>1. Rebinds(req'[s]) => Rebinds(req[s])
        BY <2>1, <3>2, Zenon DEF Rebinds, Aside
      <4> QED BY <2>1, <2>3, <2>5, <3>2, <4>1, Zenon DEF Granting, Aside
    <3> QED BY <3>1, <3>2, Zenon
  <2> QED BY <2>1, <2>3, <2>4, <2>5, Zenon DEF Granting
<1> QED BY <1>1, <1>2, <1>3, StepCases, Zenon DEF Begun

LEMMA ClosedForStep ==
  ASSUME Types, Placed, Sync, terms <= 1, NEW r \in Request, req[r] # Free,
         NEW x, NEW d, Kept(req[r], x), Shape(r, x, d), Committed.genesis => d.genesis,
         ClosedFor(req[r], Committed, leader), ~lost'
  PROVE  ClosedFor(x, d, leader)
<1> DEFINE q == req[r]
           c == Committed
           v == View(r)
<1>1. ~q.local => v = c /\ leader = q.on
  BY ReadsCommitted, Zenon DEF Outside
<1>2. /\ x.op = q.op /\ x.knew = q.knew /\ x.local = q.local /\ x.on = q.on
      /\ q.misread /\ q.pc # "start" => x.misread
  BY Zenon DEF Kept
<1>3. q.pc \in {"users", "marker"} => q.op \in {"bootstrap", "status"}
  BY Zenon DEF Placed
<1>f. Free.pc = "free" /\ Free.op = "none" /\ ~Free.knew
  BY DEF Free
<1>4. ClosedFor(q, c, leader) /\ (c.genesis => d.genesis)
  BY Zenon
<1>5. CASE x = Free
  <2> HIDE DEF q, c, v
  <2> QED BY <1>5, <1>f DEF ClosedFor
<1>6. CASE /\ q.op \in {"create", "mint", "issue", "revokeCredential", "group"}
           /\ x.pc \in {"ok", "token", "put"}
  <2> HIDE DEF q, c, v
  <2> QED BY <1>2, <1>4, <1>6, SMTT(60) DEF ClosedFor
<1>7. CASE q.op \in {"grant", "revoke"} /\ BindingShape(r, x, d)
  <2>1. x.pc \in {"put", "ok"}
    BY <1>7, Zenon DEF BindingShape
  <2> HIDE DEF q, c, v
  <2> QED BY <1>2, <1>4, <1>7, <2>1 DEF ClosedFor
<1>8. CASE q.op = "delete" /\ DeleteShape(r, x, d)
  <2>1. x.pc \in {"scan", "tokens", "certs", "group", "bindings", "ok"}
    BY <1>8 DEF DeleteShape
  <2> HIDE DEF q, c, v
  <2> QED BY <1>2, <1>4, <1>8, <2>1, SMTT(60) DEF ClosedFor
<1>9. CASE SetupShape(r, x, d)
  <2>1. CASE x # Free /\ SetupRead(r, x, d)
    <3>1. /\ d = c
          /\ \/ /\ q.op \in {"bootstrap", "status"} /\ q.pc = "start" /\ x.pc = "users"
                /\ x.copy.genesis => v.genesis
                /\ ~x.misread => x.copy.genesis = v.genesis
             \/ q.pc = "users" /\ q.op = "bootstrap" /\ x.pc = "create" /\ ~q.copy.genesis
             \/ /\ q.pc = "users" /\ q.op = "status"
                /\ \/ x.pc = "marker"
                   \/ x.pc = "ok" /\ q.copy.genesis
                   \/ x.pc = "needsSetup" /\ ~q.copy.genesis
      BY <1>3, <2>1 DEF SetupRead
    <3> HIDE DEF q, c, v
    <3> QED BY <1>1, <1>2, <1>4, <3>1 DEF ClosedFor
  <2>2. CASE x # Free /\ ~SetupRead(r, x, d)
    <3>1. \/ q.op = "bootstrap" /\ q.pc = "create" /\ x.pc = "read" /\ leader = q.on
          \/ q.op = "bootstrap" /\ q.pc = "read" /\ x.pc = "bind"
          \/ q.op = "bootstrap" /\ q.pc = "bind" /\ x.pc = "marker"
          \/ q.pc = "marker" /\ x.pc = "ok" /\ (d.genesis \/ leader # q.on)
      <4> HIDE DEF q, c, v
      <4> QED BY <1>4, <1>9, <2>2, Zenon DEF SetupShape, q, c, v
    <3> HIDE DEF q, c, v
    <3> QED BY <1>1, <1>2, <1>4, <3>1 DEF ClosedFor
  <2> QED BY <1>5, <2>1, <2>2
<1> QED BY <1>5, <1>6, <1>7, <1>8, <1>9, Zenon DEF Shape

LEMMA ClosedStep ==
  ASSUME Types, Alone, Placed, Sync, Closed, Next
  PROVE  Closed'
<1>f. Free.pc = "free" /\ Free.op = "none" /\ ~Free.knew
  BY DEF Free
<1>1. ASSUME NEW n \in workload.nodes, Elect(n) \/ Replicate(n)
      PROVE  Closed'
  <2>1. /\ req' = req /\ known' = known /\ lost' = lost /\ Committed' = Committed
        /\ \/ terms' = terms /\ leader' = leader
           \/ terms' = terms + 1
    BY <1>1, ReplicaStep, Zenon
  <2>2. CASE terms' = terms /\ leader' = leader
    BY <2>1, <2>2, Zenon DEF Closed
  <2>3. CASE terms' = terms + 1
    <3>1. terms' <= 1 => terms = 0
      BY <2>3 DEF Types
    <3>2. ASSUME terms = 0, NEW r \in Request
          PROVE  ClosedFor(req[r], Committed, leader')
      <4>1. CASE req[r] = Free
        BY <1>f, <4>1 DEF ClosedFor
      <4>2. CASE req[r] # Free
        BY <3>2, <4>2, Zenon DEF Sync, Outside, ClosedFor
      <4> QED BY <4>1, <4>2
    <3>3. terms = 0 => ~known
      BY Zenon DEF Sync
    <3> QED BY <2>1, <3>1, <3>2, <3>3, Zenon DEF Closed
  <2> QED BY <2>1, <2>2, <2>3, Zenon
<1> DEFINE Each == \A r \in Request : ClosedFor(req[r], Committed, leader)
<1>c. (terms' <= 1 /\ ~lost' => (known' => Committed'.genesis) /\ Each') => Closed'
  BY Zenon DEF Closed
<1>o. terms <= 1 /\ ~lost => (known => Committed.genesis) /\ Each
  BY Zenon DEF Closed
<1>2. ASSUME NEW r \in Request, Requested(r)
      PROVE  Closed'
  <2>1. PICK x, d : /\ req[r] # Free /\ Frame(r, x, d) /\ req'[r] = x /\ Committed' = d
                    /\ \A s \in Request : s # r => req'[s] = req[s]
                    /\ leader' = leader /\ terms' = terms
    BY <1>2, RequestStep, Zenon DEF Requested
  <2>l. lost => lost'
    <3>1. lost' \in {lost, TRUE}
      BY <1>2, HandlerQuiet, Zenon DEF Requested, Answer
    <3> QED BY <3>1
  <2>2. /\ x = Free \/ Kept(req[r], x)
        /\ Committed.genesis => d.genesis
        /\ Shape(r, x, d)
    BY <2>1, Shapes, SMT
  <2>3. ASSUME terms <= 1, ~lost'
        PROVE  (known' => d.genesis) /\ Each'
    <3>1. known => Committed.genesis
      BY <1>o, <2>3, <2>l, Zenon
    <3>2. known' => d.genesis
      <4>1. CASE Handler(r) \/ CallFails(r)
        BY <2>2, <3>1, <4>1, HandlerQuiet, Zenon
      <4>2. CASE Answer(r)
        <5>1. known' => Committed.genesis
          BY <1>o, <2>3, <2>l, <3>1, <4>2, Zenon DEF Answer, ClosedFor
        <5> QED BY <2>2, <5>1, Zenon
      <4> QED BY <1>2, <4>1, <4>2, Zenon DEF Requested
    <3>3. ClosedFor(x, d, leader)
      <4>1. CASE x = Free
        BY <1>f, <4>1 DEF ClosedFor
      <4>2. CASE x # Free
        BY <1>o, <2>1, <2>2, <2>3, <2>l, <4>2, ClosedForStep, Zenon
      <4> QED BY <4>1, <4>2, Zenon
    <3>4. ASSUME NEW s \in Request, s # r
          PROVE  ClosedFor(req'[s], d, leader)
      <4>1. ClosedFor(req[s], Committed, leader)
        BY <1>o, <2>3, <2>l, Zenon
      <4>2. ClosedFor(req[s], d, leader)
        BY <2>2, <4>1, Zenon DEF ClosedFor
      <4> QED BY <2>1, <3>4, <4>2, Zenon
    <3> QED BY <2>1, <3>2, <3>3, <3>4, Zenon
  <2> QED BY <1>c, <2>1, <2>3, Zenon
<1>3. ASSUME NEW r \in Request, NEW op \in workload.ops, NEW n \in workload.names,
             NEW m \in workload.nodes, Begin(r, op, n, m)
      PROVE  Closed'
  <2>1. /\ UNCHANGED <<history, leader, terms, known, lost>>
        /\ req'[r].pc = "start" /\ req'[r].knew = known
        /\ req'[r].on = m /\ (req'[r].local <=> m # leader)
        /\ \A s \in Request : s # r => Aside(req[s], req'[s])
    BY <1>3, BeginEffect, ZenonT(60)
  <2>2. Committed' = Committed
    BY <2>1, Zenon DEF Committed
  <2>3. ASSUME terms <= 1, ~lost, NEW s \in Request
        PROVE  ClosedFor(req'[s], Committed, leader)
    <3>1. CASE s = r
      BY <1>o, <2>1, <2>3, <3>1 DEF ClosedFor
    <3>2. CASE s # r
      <4>1. ClosedFor(req[s], Committed, leader)
        BY <1>o, <2>3, Zenon
      <4> QED BY <2>1, <3>2, <4>1, Zenon DEF ClosedFor, Aside
    <3> QED BY <3>1, <3>2, Zenon
  <2> QED BY <1>c, <1>o, <2>1, <2>2, <2>3, Zenon
<1> QED BY <1>1, <1>2, <1>3, StepCases, Zenon DEF Begun

-----------------------------------------------------------------------------
(***************************************************************************)
(* The theorems.                                                            *)
(***************************************************************************)
LEMMA IamInit == Init => IamInv
<1> SUFFICES ASSUME Init PROVE IamInv
  OBVIOUS
<1>1. Types
  BY TypesInit
<1>2. \A r \in Request : req[r] = Free
  BY Zenon DEF Init
<1>3. Free.op = "none" /\ Free.pc = "free" /\ ~Free.alone /\ ~Free.knew
  BY DEF Free
<1>4. Alone /\ Placed
  BY <1>2, <1>3, Zenon DEF Alone, Placed
<1>5. Sync
  <2>1. terms = 0 /\ leader = None /\ Len(history) = 1 /\ ~known
    BY DEF Init, RegistryInit
  <2> QED BY <1>2, <2>1 DEF Sync
<1>6. Purging
  BY <1>2, <1>3, Zenon DEF Purging, PurgeStage
<1>7. Granting
  <2>1. granted = {}
    BY Zenon DEF Init
  <2> QED BY <1>2, <1>3, <2>1 DEF Granting, Rebinds
<1>8. Closed
  <2>1. known = FALSE
    BY Zenon DEF Init
  <2> QED BY <1>2, <1>3, <2>1 DEF Closed, ClosedFor
<1> QED BY <1>1, <1>4, <1>5, <1>6, <1>7, <1>8, Zenon DEF IamInv

LEMMA IamStutter ==
  ASSUME IamInv, UNCHANGED vars
  PROVE  IamInv'
<1>1. /\ history' = history /\ applied' = applied /\ leader' = leader /\ req' = req
      /\ terms' = terms /\ workload' = workload /\ known' = known /\ lost' = lost
      /\ granted' = granted
  BY Zenon DEF vars, registryVars
<1>2. Committed' = Committed
  BY <1>1, Zenon DEF Committed
<1>3. Types' /\ Alone' /\ Placed' /\ Sync'
  BY <1>1, Zenon DEF IamInv, Types, Registered, Alone, Placed, Sync
<1>4. Purging' /\ Granting' /\ Closed'
  BY <1>1, <1>2, Zenon DEF IamInv, Purging, Granting, Closed
<1> QED BY <1>3, <1>4, Zenon DEF IamInv

LEMMA IamStep == IamInv /\ [Next]_vars => IamInv'
<1> SUFFICES ASSUME IamInv, [Next]_vars PROVE IamInv'
  OBVIOUS
<1>1. CASE Next
  <2>1. Types' /\ Alone' /\ Placed'
    BY <1>1, TypesStep, AloneStep, PlacedStep, Zenon DEF IamInv
  <2>2. Sync' /\ Purging' /\ Granting' /\ Closed'
    BY <1>1, SyncStep, PurgingStep, GrantingStep, ClosedStep, Zenon DEF IamInv
  <2> QED BY <2>1, <2>2, Zenon DEF IamInv
<1>2. CASE UNCHANGED vars
  BY <1>2, IamStutter, Zenon
<1> QED BY <1>1, <1>2, Zenon

\* The inductive invariant of the console's handlers: request stages, the copies
\* they hold and the committed records stay consistent under every interleaving
\* of requests, replication and elections.
THEOREM SpecIamInv == Spec => []IamInv
BY IamInit, IamStep, PTL DEF Spec

\* purgePrincipal: a deletion that no other request overlapped leaves no token,
\* certificate, membership or binding behind, for any number of names, tokens,
\* nodes and requests, and whatever led up to it.
THEOREM SpecPurgeComplete == Spec => []PurgeComplete
<1>1. IamInv => PurgeComplete
  <2> SUFFICES ASSUME IamInv, NEW r \in Request, At(r, "delete", "ok"), req[r].alone
               PROVE  ~Residue(req[r].name)
    BY Zenon DEF PurgeComplete
  <2>1. PurgeStage(req[r], Committed) /\ req[r].op = "delete" /\ req[r].pc = "ok"
    BY Zenon DEF IamInv, Purging, At
  <2> QED BY <2>1 DEF PurgeStage, Residue
<1> QED BY <1>1, SpecIamInv, PTL

\* grantRole: a grant acknowledged while no other request was under way stays in
\* the policy record until it is revoked or its owner deleted, however the later
\* read-modify-writes of that record overlap, as long as the leader stays.
THEOREM SpecGrantsKept == Spec => []GrantsKept
<1>1. IamInv => GrantsKept
  BY Zenon DEF IamInv, Granting, GrantsKept
<1> QED BY <1>1, SpecIamInv, PTL

\* setupStatus and setupBootstrap: once the leader told a caller that setup is
\* complete, no request that began later, on whatever node, makes an administrator,
\* and the leader finds setup open for none, while the leader stays, the request's own
\* reads succeed and no write of the marker has failed, for any number of names, nodes
\* and requests.
THEOREM SpecSetupStaysClosed == Spec => []SetupStaysClosed
<1>1. IamInv => SetupStaysClosed
  BY Zenon DEF IamInv, Closed, ClosedFor, SetupStaysClosed
<1> QED BY <1>1, SpecIamInv, PTL

=============================================================================
