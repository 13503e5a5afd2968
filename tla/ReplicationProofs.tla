------------------------- MODULE ReplicationProofs --------------------------
(***************************************************************************)
(* The storage operations, the hash chain and the replicas, for any number  *)
(* of nodes, keys, requests and crashes.                                    *)
(***************************************************************************)
EXTENDS Replication, TLAPS

-----------------------------------------------------------------------------
(***************************************************************************)
(* Facts about the storage operations, for every store, command, version    *)
(* and clock.  The replicated path is meant: commitVersion is an index > 0. *)
(***************************************************************************)

(***************************************************************************)
(* A command that carries an absolute expiry wherever it carries a TTL.     *)
(***************************************************************************)
StampedRecord(r) == r.ttl > 0 => r.expiresAt # 0

Stamped(cmd) ==
  CASE cmd.op \in {"put", "touch", "increment"} -> StampedRecord(cmd)
    [] cmd.op = "batch" -> \A i \in DOMAIN cmd.records :
                              StampedRecord(cmd.records[i])
    [] OTHER -> TRUE

\* The one index more that a commit brings.
LEMMA NextIndex ==
  ASSUME NEW n \in Nat, NEW j \in 0 .. n + 1, j \notin 0 .. n
  PROVE  j = n + 1
OBVIOUS

\* resolveExpiry leaves an absolute expiry alone and yields a natural number.
LEMMA ResolveExpiryNat ==
  ASSUME NEW ttl \in Nat, NEW e \in Nat, NEW now \in Nat
  PROVE  /\ resolveExpiry(ttl, e, now) \in Nat
         /\ (ttl > 0 => resolveExpiry(ttl, e, now) # 0)
         /\ ((ttl > 0 => e # 0) => resolveExpiry(ttl, e, now) = e)
BY DEF resolveExpiry, ExpiryFromTtl

\* Two's-complement addition stays within the counter's width.
LEMMA CounterAddType ==
  ASSUME NEW a \in Counter, NEW b \in Counter
  PROVE  CounterAdd(a, b) \in Counter
BY StorageAssumption DEF CounterAdd, Counter

LEMMA CounterFromEnvelopeType ==
  ASSUME NEW e \in Envelope \cup {Absent}, NEW f \in Counter
  PROVE  counterFromEnvelope(e, f) \in Counter
BY DEF counterFromEnvelope, Envelope

\* Every operation maps stores to stores.
LEMMA PutType ==
  ASSUME NEW db \in Store, NEW r \in PutRequest, NEW cv \in Nat \ {0},
         NEW now \in Nat
  PROVE  Put(db, r, cv, now) \in Store
<1>1. CASE ~PutAccepted(db, r)
  BY <1>1 DEF Put
<1>2. CASE PutAccepted(db, r)
  <2>1. r.key \in Key
    BY <1>2 DEF PutAccepted, PutRequest, KeyArg
  <2>2. resolveExpiry(r.ttl, r.expiresAt, now) \in Nat
    BY ResolveExpiryNat, Zenon DEF PutRequest
  <2>3. NextVersion(db[r.key], cv) \in Nat
    BY DEF NextVersion
  <2>4. r.value \in Value
    BY DEF PutRequest
  <2> QED
    BY <1>2, <2>1, <2>2, <2>3, <2>4 DEF Put, Store, Envelope
<1> QED BY <1>1, <1>2, Zenon

LEMMA TouchType ==
  ASSUME NEW db \in Store, NEW r \in TouchRequest, NEW cv \in Nat \ {0},
         NEW now \in Nat
  PROVE  Touch(db, r, cv, now) \in Store
<1>1. CASE ~TouchAccepted(db, r)
  BY <1>1 DEF Touch
<1>2. CASE TouchAccepted(db, r)
  <2>1. r.key \in Key /\ db[r.key] # Absent
    BY <1>2 DEF TouchAccepted, TouchRequest, KeyArg
  <2>2. resolveExpiry(r.ttl, r.expiresAt, now) \in Nat
    BY ResolveExpiryNat, Zenon DEF TouchRequest
  <2>3. NextVersion(db[r.key], cv) \in Nat
    BY DEF NextVersion
  <2>4. db[r.key].value \in Value
    BY <2>1 DEF Store, Envelope
  <2> QED
    BY <1>2, <2>1, <2>2, <2>3, <2>4 DEF Touch, Store, Envelope
<1> QED BY <1>1, <1>2, Zenon

LEMMA RemoveType ==
  ASSUME NEW db \in Store, NEW r \in RemoveRequest
  PROVE  Remove(db, r) \in Store
BY Zenon DEF Remove, Store

LEMMA IncrementType ==
  ASSUME NEW db \in Store, NEW r \in IncrementRequest, NEW cv \in Nat \ {0},
         NEW now \in Nat
  PROVE  Increment(db, r, cv, now) \in Store
<1>1. CASE r.key = NilKey
  BY <1>1 DEF Increment
<1>2. CASE r.key # NilKey
  <2>1. r.key \in Key /\ db[r.key] \in Envelope \cup {Absent}
    BY <1>2 DEF IncrementRequest, KeyArg, Store
  <2>2. resolveExpiry(r.ttl, r.expiresAt, now) \in Nat
    BY ResolveExpiryNat, Zenon DEF IncrementRequest
  <2>3. NextVersion(db[r.key], cv) \in Nat
    BY DEF NextVersion
  <2>4. CounterAdd(counterFromEnvelope(db[r.key], r.initial), r.delta) \in Value
    BY <2>1, CounterAddType, CounterFromEnvelopeType DEF IncrementRequest, Value
  <2> QED
    BY <1>2, <2>1, <2>2, <2>3, <2>4 DEF Increment, Store, Envelope
<1> QED BY <1>1, <1>2, Zenon

LEMMA SeqElement ==
  ASSUME NEW S, NEW s \in Seq(S), NEW i \in DOMAIN s
  PROVE  s[i] \in S
OBVIOUS

LEMMA SetBatchType ==
  ASSUME NEW db \in Store, NEW r \in BatchRequest, NEW cv \in Nat \ {0},
         NEW now \in Nat
  PROVE  SetBatch(db, r, cv, now) \in Store
<1>1. CASE ~BatchAccepted(r.records)
  BY <1>1 DEF SetBatch
<1>2. CASE BatchAccepted(r.records)
  <2>0. r.records \in Seq(BatchRecord)
    BY DEF BatchRequest
  <2> SUFFICES ASSUME NEW k \in Key
               PROVE  SetBatch(db, r, cv, now)[k] \in Envelope \cup {Absent}
    BY <1>2, Zenon DEF SetBatch, Store
  <2>1. CASE ~\E i \in DOMAIN r.records : IsLastWrite(r.records, k, i)
    BY <1>2, <2>1 DEF SetBatch, Store
  <2>2. CASE \E i \in DOMAIN r.records : IsLastWrite(r.records, k, i)
    <3> DEFINE i == CHOOSE i \in DOMAIN r.records : IsLastWrite(r.records, k, i)
               last == r.records[i]
    <3>1. i \in DOMAIN r.records
      BY <2>2
    <3>2. last \in BatchRecord
      BY <2>0, <3>1, SeqElement, Zenon
    <3>3. resolveExpiry(last.ttl, last.expiresAt, now) \in Nat
      BY <3>2, ResolveExpiryNat, Zenon DEF BatchRecord
    <3>4. SetBatch(db, r, cv, now)[k] =
            [version |-> cv,
             expiresAt |-> resolveExpiry(last.ttl, last.expiresAt, now),
             value |-> last.value]
      BY <1>2, <2>2 DEF SetBatch
    <3>5. last.value \in Value
      BY <3>2 DEF BatchRecord
    <3> HIDE DEF last
    <3> QED BY <3>3, <3>4, <3>5 DEF Envelope
  <2> QED BY <2>1, <2>2, Zenon
<1> QED BY <1>1, <1>2, Zenon

LEMMA ReclaimType ==
  ASSUME NEW db \in Store, NEW r \in ReclaimRequest
  PROVE  Reclaim(db, r) \in Store
BY DEF Reclaim, Store

LEMMA CommandCases ==
  ASSUME NEW cmd \in Command
  PROVE  \/ cmd \in PutRequest /\ cmd.op = "put"
         \/ cmd \in TouchRequest /\ cmd.op = "touch"
         \/ cmd \in RemoveRequest /\ cmd.op = "remove"
         \/ cmd \in IncrementRequest /\ cmd.op = "increment"
         \/ cmd \in BatchRequest /\ cmd.op = "batch"
         \/ cmd \in ReclaimRequest /\ cmd.op = "reclaim"
BY DEF Command, ClientRequest, PutRequest, TouchRequest, RemoveRequest,
       IncrementRequest, BatchRequest, ReclaimRequest

LEMMA ExecCases ==
  ASSUME NEW db, NEW cmd, NEW cv, NEW now
  PROVE  /\ cmd.op = "put" => Exec(db, cmd, cv, now) = Put(db, cmd, cv, now)
         /\ cmd.op = "touch" => Exec(db, cmd, cv, now) = Touch(db, cmd, cv, now)
         /\ cmd.op = "remove" => Exec(db, cmd, cv, now) = Remove(db, cmd)
         /\ cmd.op = "increment" =>
              Exec(db, cmd, cv, now) = Increment(db, cmd, cv, now)
         /\ cmd.op = "batch" =>
              Exec(db, cmd, cv, now) = SetBatch(db, cmd, cv, now)
         /\ cmd.op = "reclaim" => Exec(db, cmd, cv, now) = Reclaim(db, cmd)
BY DEF Exec

\* Storage stays well typed whatever FSM.Apply executes.
THEOREM ExecType ==
  ASSUME NEW db \in Store, NEW cmd \in Command, NEW cv \in Nat \ {0},
         NEW now \in Nat
  PROVE  Exec(db, cmd, cv, now) \in Store
BY CommandCases, ExecCases, PutType, TouchType, RemoveType, IncrementType,
   SetBatchType, ReclaimType

-----------------------------------------------------------------------------
\* A stamped command has the same effect on every node: the clock of the node
\* that executes it does not matter.
THEOREM StampedExecClockFree ==
  ASSUME NEW db \in Store, NEW cmd \in Command, Stamped(cmd),
         NEW cv \in Nat \ {0}, NEW t \in Nat, NEW u \in Nat
  PROVE  Exec(db, cmd, cv, t) = Exec(db, cmd, cv, u)
<1>1. CASE cmd \in PutRequest /\ cmd.op = "put"
  <2>1. resolveExpiry(cmd.ttl, cmd.expiresAt, t)
          = resolveExpiry(cmd.ttl, cmd.expiresAt, u)
    BY <1>1, ResolveExpiryNat DEF Stamped, StampedRecord, PutRequest
  <2>2. Put(db, cmd, cv, t) = Put(db, cmd, cv, u)
    BY <2>1 DEF Put
  <2> QED BY <1>1, <2>2, ExecCases
<1>2. CASE cmd \in TouchRequest /\ cmd.op = "touch"
  <2>1. resolveExpiry(cmd.ttl, cmd.expiresAt, t)
          = resolveExpiry(cmd.ttl, cmd.expiresAt, u)
    BY <1>2, ResolveExpiryNat DEF Stamped, StampedRecord, TouchRequest
  <2>2. Touch(db, cmd, cv, t) = Touch(db, cmd, cv, u)
    BY <2>1 DEF Touch
  <2> QED BY <1>2, <2>2, ExecCases
<1>3. CASE cmd \in IncrementRequest /\ cmd.op = "increment"
  <2>1. resolveExpiry(cmd.ttl, cmd.expiresAt, t)
          = resolveExpiry(cmd.ttl, cmd.expiresAt, u)
    BY <1>3, ResolveExpiryNat DEF Stamped, StampedRecord, IncrementRequest
  <2>2. Increment(db, cmd, cv, t) = Increment(db, cmd, cv, u)
    BY <2>1 DEF Increment
  <2> QED BY <1>3, <2>2, ExecCases
<1>4. CASE cmd \in BatchRequest /\ cmd.op = "batch"
  <2>1. cmd.records \in Seq(BatchRecord)
    BY <1>4 DEF BatchRequest
  <2>2. ASSUME NEW i \in DOMAIN cmd.records
        PROVE  resolveExpiry(cmd.records[i].ttl, cmd.records[i].expiresAt, t)
                 = resolveExpiry(cmd.records[i].ttl, cmd.records[i].expiresAt, u)
    <3>1. cmd.records[i] \in BatchRecord
      BY <2>1, SeqElement
    <3>2. StampedRecord(cmd.records[i])
      BY <1>4 DEF Stamped
    <3>3. cmd.records[i].ttl \in Nat /\ cmd.records[i].expiresAt \in Nat
      BY <3>1 DEF BatchRecord
    <3>4. cmd.records[i].ttl > 0 => cmd.records[i].expiresAt # 0
      BY <3>2 DEF StampedRecord
    <3>5. ASSUME NEW now \in Nat
          PROVE  resolveExpiry(cmd.records[i].ttl, cmd.records[i].expiresAt, now)
                   = cmd.records[i].expiresAt
      BY <3>3, <3>4 DEF resolveExpiry
    <3> QED BY <3>5, Zenon
  <2>3. SetBatch(db, cmd, cv, t) = SetBatch(db, cmd, cv, u)
    <3>1. CASE ~BatchAccepted(cmd.records)
      BY <3>1 DEF SetBatch
    <3>2. CASE BatchAccepted(cmd.records)
      <4>1. ASSUME NEW k \in Key
            PROVE  SetBatch(db, cmd, cv, t)[k] = SetBatch(db, cmd, cv, u)[k]
        <5>1. CASE ~\E i \in DOMAIN cmd.records :
                      IsLastWrite(cmd.records, k, i)
          BY <3>2, <5>1 DEF SetBatch
        <5>2. CASE \E i \in DOMAIN cmd.records :
                     IsLastWrite(cmd.records, k, i)
          <6> DEFINE i == CHOOSE i \in DOMAIN cmd.records :
                            IsLastWrite(cmd.records, k, i)
          <6>1. i \in DOMAIN cmd.records
            BY <5>2
          <6> HIDE DEF i
          <6>2. resolveExpiry(cmd.records[i].ttl, cmd.records[i].expiresAt, t)
                 = resolveExpiry(cmd.records[i].ttl, cmd.records[i].expiresAt, u)
            BY <2>2, <6>1
          <6> QED BY <3>2, <5>2, <6>2 DEF SetBatch, i
        <5> QED BY <5>1, <5>2, Zenon
      <4> QED BY <3>2, <4>1, Zenon DEF SetBatch
    <3> QED BY <3>1, <3>2, Zenon
  <2> QED BY <1>4, <2>3, ExecCases
<1>5. CASE cmd.op \in {"remove", "reclaim"}
  BY <1>5, ExecCases
<1> QED BY <1>1, <1>2, <1>3, <1>4, <1>5, CommandCases

-----------------------------------------------------------------------------
(***************************************************************************)
(* What one command may do to one key: leave it, remove it, or write an     *)
(* envelope of the command's version and expiry.                            *)
(***************************************************************************)
WrittenBy(envelope, cmd, k, cv) ==
  /\ envelope \in Envelope
  /\ envelope.version = cv
  /\ WritesKey(cmd, k)
  /\ envelope.expiresAt = CommandedExpiry(cmd, k)

THEOREM ExecEffect ==
  ASSUME NEW db \in Store, NEW cmd \in Command, Stamped(cmd),
         NEW cv \in Nat \ {0}, NEW t \in Nat, NEW k \in Key
  PROVE  LET new == Exec(db, cmd, cv, t)[k] IN
         new = db[k] \/ new = Absent \/ WrittenBy(new, cmd, k, cv)
<1> DEFINE new == Exec(db, cmd, cv, t)[k]
<1>0. new \in Envelope \cup {Absent}
  BY ExecType DEF Store
<1>1. CASE cmd \in PutRequest /\ cmd.op = "put"
  <2>1. resolveExpiry(cmd.ttl, cmd.expiresAt, t) = cmd.expiresAt
    BY <1>1, ResolveExpiryNat DEF Stamped, StampedRecord, PutRequest
  <2>2. Exec(db, cmd, cv, t) = Put(db, cmd, cv, t)
    BY <1>1, ExecCases
  <2>3. WritesKey(cmd, k) <=> cmd.key = k
    BY <1>1 DEF WritesKey
  <2>4. CommandedExpiry(cmd, k) = cmd.expiresAt
    BY <1>1 DEF CommandedExpiry
  <2>5. new = db[k] \/ (cmd.key = k /\ new.version = cv
                         /\ new.expiresAt = cmd.expiresAt)
    BY <2>1, <2>2 DEF Put, NextVersion, Store
  <2> QED BY <1>0, <2>3, <2>4, <2>5 DEF WrittenBy
<1>2. CASE cmd \in TouchRequest /\ cmd.op = "touch"
  <2>1. resolveExpiry(cmd.ttl, cmd.expiresAt, t) = cmd.expiresAt
    BY <1>2, ResolveExpiryNat DEF Stamped, StampedRecord, TouchRequest
  <2>2. Exec(db, cmd, cv, t) = Touch(db, cmd, cv, t)
    BY <1>2, ExecCases
  <2>3. WritesKey(cmd, k) <=> cmd.key = k
    BY <1>2 DEF WritesKey
  <2>4. CommandedExpiry(cmd, k) = cmd.expiresAt
    BY <1>2 DEF CommandedExpiry
  <2>5. new = db[k] \/ (cmd.key = k /\ new.version = cv
                         /\ new.expiresAt = cmd.expiresAt)
    BY <2>1, <2>2 DEF Touch, NextVersion, Store
  <2> QED BY <1>0, <2>3, <2>4, <2>5 DEF WrittenBy
<1>3. CASE cmd \in IncrementRequest /\ cmd.op = "increment"
  <2>1. resolveExpiry(cmd.ttl, cmd.expiresAt, t) = cmd.expiresAt
    BY <1>3, ResolveExpiryNat DEF Stamped, StampedRecord, IncrementRequest
  <2>2. Exec(db, cmd, cv, t) = Increment(db, cmd, cv, t)
    BY <1>3, ExecCases
  <2>3. WritesKey(cmd, k) <=> cmd.key = k
    BY <1>3 DEF WritesKey
  <2>4. CommandedExpiry(cmd, k) = cmd.expiresAt
    BY <1>3 DEF CommandedExpiry
  <2>5. new = db[k] \/ (cmd.key = k /\ new.version = cv
                         /\ new.expiresAt = cmd.expiresAt)
    BY <2>1, <2>2, SMTT(60) DEF Increment, NextVersion, Store
  <2> QED BY <1>0, <2>3, <2>4, <2>5 DEF WrittenBy
<1>4. CASE cmd \in BatchRequest /\ cmd.op = "batch"
  <2>1. Exec(db, cmd, cv, t) = SetBatch(db, cmd, cv, t)
    BY <1>4, ExecCases
  <2>2. CASE ~BatchAccepted(cmd.records)
    BY <2>1, <2>2 DEF SetBatch
  <2>3. CASE /\ BatchAccepted(cmd.records)
             /\ ~\E i \in DOMAIN cmd.records : IsLastWrite(cmd.records, k, i)
    BY <2>1, <2>3 DEF SetBatch
  <2>4. CASE /\ BatchAccepted(cmd.records)
             /\ \E i \in DOMAIN cmd.records : IsLastWrite(cmd.records, k, i)
    <3> DEFINE i == CHOOSE i \in DOMAIN cmd.records :
                      IsLastWrite(cmd.records, k, i)
    <3>1. i \in DOMAIN cmd.records /\ IsLastWrite(cmd.records, k, i)
      BY <2>4
    <3>2. new = [version |-> cv,
                 expiresAt |-> resolveExpiry(cmd.records[i].ttl,
                                             cmd.records[i].expiresAt, t),
                 value |-> cmd.records[i].value]
      BY <2>1, <2>4 DEF SetBatch
    <3>3. CommandedExpiry(cmd, k) = cmd.records[i].expiresAt
      BY <1>4 DEF CommandedExpiry
    <3> HIDE DEF i
    <3>4. cmd.records[i] \in BatchRecord /\ StampedRecord(cmd.records[i])
      BY <1>4, <3>1, SeqElement DEF Stamped, BatchRequest
    <3>5. cmd.records[i].ttl \in Nat /\ cmd.records[i].expiresAt \in Nat
      BY <3>4 DEF BatchRecord
    <3>6. resolveExpiry(cmd.records[i].ttl, cmd.records[i].expiresAt, t)
            = cmd.records[i].expiresAt
      BY <3>4, <3>5 DEF StampedRecord, resolveExpiry
    <3>7. WritesKey(cmd, k)
      BY <1>4, <3>1 DEF WritesKey, IsLastWrite
    <3>8. new.version = cv /\ new.expiresAt = CommandedExpiry(cmd, k)
      BY <3>2, <3>3, <3>6
    <3>9. new \in Envelope
      <4>1. cmd.records[i].value \in Value
        BY <3>4 DEF BatchRecord
      <4> QED BY <3>2, <3>5, <3>6, <4>1 DEF Envelope
    <3> QED BY <3>7, <3>8, <3>9 DEF WrittenBy
  <2> QED BY <2>2, <2>3, <2>4, Zenon
<1>5. CASE cmd \in RemoveRequest /\ cmd.op = "remove"
  BY <1>5, ExecCases DEF Remove, Store
<1>6. CASE cmd \in ReclaimRequest /\ cmd.op = "reclaim"
  BY <1>6, ExecCases DEF Reclaim
<1> QED BY <1>1, <1>2, <1>3, <1>4, <1>5, <1>6, CommandCases

-----------------------------------------------------------------------------
(***************************************************************************)
(* Safety of the replicated write path for any number of nodes, keys,       *)
(* requests, crashes, faults and elections, and any length of the log.      *)
(***************************************************************************)

(***************************************************************************)
(* Facts about sequences: what an election and a proposal do to the log.    *)
(***************************************************************************)
LEMMA AppendFacts ==
  ASSUME NEW S, NEW s \in Seq(S), NEW e \in S
  PROVE  /\ Append(s, e) \in Seq(S)
         /\ Len(Append(s, e)) = Len(s) + 1
         /\ \A i \in 1 .. Len(s) : Append(s, e)[i] = s[i]
         /\ Append(s, e)[Len(s) + 1] = e
OBVIOUS

LEMMA TruncateFacts ==
  ASSUME NEW S, NEW s \in Seq(S), NEW keep \in 0 .. Len(s)
  PROVE  /\ SubSeq(s, 1, keep) \in Seq(S)
         /\ Len(SubSeq(s, 1, keep)) = keep
         /\ \A i \in 1 .. keep : SubSeq(s, 1, keep)[i] = s[i]
OBVIOUS

LEMMA FunctionIsSeq ==
  ASSUME NEW S, NEW n \in Nat, NEW f \in [1 .. n -> S]
  PROVE  f \in Seq(S)
OBVIOUS

(***************************************************************************)
(* KeyValueService's stamp: a request becomes a command whose effect does   *)
(* not depend on a clock.                                                   *)
(***************************************************************************)
LEMMA StampExpiryFacts ==
  ASSUME NEW S, NEW r \in S, NEW now \in Nat,
         S \in {PutRequest, TouchRequest, IncrementRequest, BatchRecord}
  PROVE  /\ StampExpiry(r, now) \in S
         /\ StampedRecord(StampExpiry(r, now))
<1>0. r \in PutRequest \cup TouchRequest \cup IncrementRequest \cup BatchRecord
  OBVIOUS
<1>1. r.ttl \in Nat /\ r.expiresAt \in Nat
  BY <1>0 DEF PutRequest, TouchRequest, IncrementRequest, BatchRecord
<1>2. /\ resolveExpiry(r.ttl, r.expiresAt, now) \in Nat
      /\ r.ttl > 0 => resolveExpiry(r.ttl, r.expiresAt, now) # 0
  BY <1>1, ResolveExpiryNat, Zenon
<1>3. CASE S = PutRequest
  BY <1>2, <1>3 DEF StampExpiry, StampedRecord, PutRequest
<1>4. CASE S = TouchRequest
  BY <1>2, <1>4 DEF StampExpiry, StampedRecord, TouchRequest
<1>5. CASE S = IncrementRequest
  BY <1>2, <1>5 DEF StampExpiry, StampedRecord, IncrementRequest
<1>6. CASE S = BatchRecord
  BY <1>2, <1>6 DEF StampExpiry, StampedRecord, BatchRecord
<1> QED BY <1>3, <1>4, <1>5, <1>6, Zenon

LEMMA StampFacts ==
  ASSUME NEW r \in ClientRequest, NEW now \in Nat
  PROVE  Stamp(r, now) \in ClientRequest /\ Stamped(Stamp(r, now))
<1>1. CASE r \in PutRequest \cup TouchRequest \cup IncrementRequest
  <2>1. r.op \in {"put", "touch", "increment"}
    BY <1>1 DEF PutRequest, TouchRequest, IncrementRequest
  <2>2. Stamp(r, now) = StampExpiry(r, now)
    BY <2>1 DEF Stamp
  <2>3. /\ StampExpiry(r, now) \in PutRequest \cup TouchRequest
                                     \cup IncrementRequest
        /\ StampedRecord(StampExpiry(r, now))
    BY <1>1, StampExpiryFacts
  <2>4. StampExpiry(r, now).op \in {"put", "touch", "increment"}
    BY <2>3 DEF PutRequest, TouchRequest, IncrementRequest
  <2> QED BY <2>2, <2>3, <2>4 DEF Stamped, ClientRequest
<1>2. CASE r \in RemoveRequest
  BY <1>2 DEF Stamp, Stamped, RemoveRequest, ClientRequest
<1>3. CASE r \in BatchRequest
  <2> DEFINE recs == [i \in DOMAIN r.records |-> StampExpiry(r.records[i], now)]
  <2>1. r.op = "batch" /\ r.records \in Seq(BatchRecord)
    BY <1>3 DEF BatchRequest
  <2>2. Stamp(r, now) = [r EXCEPT !.records = recs]
    BY <2>1 DEF Stamp
  <2>3. ASSUME NEW i \in DOMAIN r.records
        PROVE  recs[i] \in BatchRecord /\ StampedRecord(recs[i])
    <3>1. r.records[i] \in BatchRecord
      BY <2>1, SeqElement
    <3> QED BY <3>1, StampExpiryFacts
  <2>4. recs \in Seq(BatchRecord)
    <3>1. DOMAIN recs = 1 .. Len(r.records)
      BY <2>1
    <3>2. recs \in [1 .. Len(r.records) -> BatchRecord]
      BY <2>3, <3>1, Zenon
    <3> HIDE DEF recs
    <3> QED BY <2>1, <3>2, FunctionIsSeq
  <2>5. Stamp(r, now) \in BatchRequest /\ Stamp(r, now).records = recs
    <3> HIDE DEF recs
    <3> QED BY <1>3, <2>2, <2>4 DEF BatchRequest
  <2>6. Stamp(r, now).op = "batch"
    BY <2>5 DEF BatchRequest
  <2> QED BY <2>3, <2>5, <2>6 DEF Stamped, ClientRequest
<1> QED BY <1>1, <1>2, <1>3 DEF ClientRequest

LEMMA NoopNotCommand == Noop \notin Command
<1>1. Noop.op = "noop"
  BY DEF Noop
<1> QED BY <1>1, CommandCases

LEMMA AdvanceFacts ==
  ASSUME NEW c \in HashChain, NEW i \in Nat, NEW t \in Nat, NEW cmd \in Command
  PROVE  /\ Advance(c, i, t, cmd) \in HashChain
         /\ i <= Advance(c, i, t, cmd).index
         /\ c.index <= Advance(c, i, t, cmd).index
<1>1. CASE i <= c.index
  BY <1>1 DEF Advance, HashChain
<1>2. CASE ~(i <= c.index)
  <2> DEFINE e == [index |-> i, term |-> t, cmd |-> cmd]
  <2>1. e \in Folded
    BY DEF Folded
  <2>2. Append(c.digest, e) \in Seq(Folded)
    BY <2>1, AppendFacts DEF HashChain
  <2>3. Advance(c, i, t, cmd) = [index |-> i, digest |-> Append(c.digest, e)]
    BY <1>2 DEF Advance, NextDigest
  <2> HIDE DEF e
  <2> QED BY <1>2, <2>2, <2>3 DEF HashChain
<1> QED BY <1>1, <1>2, Zenon

Result == [store : Store, digest : Seq(Folded)]

LEMMA OutcomeType ==
  ASSUME NEW prev \in Result, NEW i \in Nat \ {0}, NEW e \in Entry
  PROVE  Outcome(prev, i, e) \in Result
<1>1. CASE e.cmd = Noop
  BY <1>1 DEF Outcome
<1>2. CASE e.cmd # Noop
  <2>1. e.cmd \in Command /\ e.term \in Nat
    BY <1>2 DEF Entry
  <2>2. Exec(prev.store, e.cmd, i, 0) \in Store
    BY <2>1, ExecType DEF Result
  <2>3. NextDigest(prev.digest, i, e.term, e.cmd) \in Seq(Folded)
    <3> DEFINE f == [index |-> i, term |-> e.term, cmd |-> e.cmd]
    <3>1. f \in Folded
      BY <2>1 DEF Folded
    <3> HIDE DEF f
    <3>2. Append(prev.digest, f) \in Seq(Folded)
      BY <3>1, AppendFacts, SMTT(60) DEF Result
    <3> QED BY <3>2 DEF NextDigest, f
  <2> QED BY <1>2, <2>2, <2>3 DEF Outcome, Result
<1> QED BY <1>1, <1>2, Zenon

LEMMA ScanExpiredType ==
  ASSUME NEW db \in Store, NEW now, NEW limit, NEW f \in ScanExpired(db, now, limit)
  PROVE  \A e \in f : /\ e \in ReclaimEntry
                      /\ db[e.key] # Absent
                      /\ e.version = db[e.key].version
                      /\ IsExpired(db[e.key].expiresAt, now)
<1>1. PICK T \in SUBSET Expired(db, now) :
        f = {[key |-> k, version |-> db[k].version] : k \in T}
  BY DEF ScanExpired, Batches
<1>2. ASSUME NEW k \in Key, db[k] # Absent PROVE db[k].version \in Nat
  BY <1>2 DEF Store, Envelope
<1> QED BY <1>1, <1>2 DEF Expired, ReclaimEntry
-----------------------------------------------------------------------------
(***************************************************************************)
(* The base invariant: types, and what holds between advanceChain and the   *)
(* operation of the same entry.                                             *)
(***************************************************************************)
Chained ==
  \A n \in Node : pc[n] = "chained" =>
    /\ applied[n] < commitIndex
    /\ NextEntry(n).cmd # Noop
    /\ applied[n] < chain[n].index

Base == TypeOK /\ Chained

\* The types, with the numbers as such.
LEMMA BaseTypes ==
  ASSUME Base
  PROVE  /\ log \in Seq(Entry) /\ Len(log) \in Nat
         /\ commitIndex \in 0 .. Len(log) /\ commitIndex \in Nat
         /\ term \in Nat /\ leader \in Node \cup {None} /\ clock \in [Node -> Nat]
         /\ applied \in [Node -> 0 .. commitIndex] /\ acked \in 0 .. commitIndex
         /\ pc \in [Node -> {"idle", "chained"}] /\ store \in [Node -> Store]
         /\ head \in [Node -> HashChain] /\ chain \in [Node -> HashChain]
         /\ sweep \in [Node -> SUBSET ReclaimEntry]
         /\ crashes \in [Node -> Nat] /\ faults \in [Node -> Nat]
         /\ ref \in Seq(Result) /\ Len(ref) = commitIndex + 1
<1>1. log \in Seq(Entry) /\ commitIndex \in 0 .. Len(log)
  BY Zenon DEF Base, TypeOK
<1>2. Len(log) \in Nat /\ commitIndex \in Nat
  BY <1>1
<1> QED BY <1>1, <1>2, Zenon DEF Base, TypeOK, Result

LEMMA BaseInit == Init => Base
<1> SUFFICES ASSUME Init PROVE Base
  OBVIOUS
<1>1. EmptyStore \in Store
  BY DEF EmptyStore, Store
<1>2. Genesis \in HashChain
  BY DEF Genesis, HashChain, GenesisDigest
<1>3. TypeOK
  BY <1>1, <1>2 DEF Init, TypeOK, GenesisDigest
<1>4. Chained
  BY DEF Init, Chained
<1> QED BY <1>3, <1>4 DEF Base

\* raft's contract as the model states it, used by every later proof: a step
\* only extends the committed prefix, and its outcomes with it.
LEMMA HistoryGrows ==
  ASSUME Base, [Next]_vars
  PROVE  /\ log' \in Seq(Entry)
         /\ commitIndex' \in 0 .. Len(log')
         /\ commitIndex <= commitIndex'
         /\ \A i \in 1 .. commitIndex : log'[i] = log[i]
         /\ ref' \in Seq(Result) /\ Len(ref') = commitIndex' + 1
         /\ \A i \in 1 .. commitIndex + 1 : ref'[i] = ref[i]
<1>0. /\ log \in Seq(Entry) /\ Len(log) \in Nat
      /\ commitIndex \in 0 .. Len(log)
      /\ ref \in Seq(Result) /\ Len(ref) = commitIndex + 1
      /\ term \in Nat /\ clock \in [Node -> Nat]
      /\ sweep \in [Node -> SUBSET ReclaimEntry]
  BY BaseTypes, Zenon
<1>1. CASE Commit
  <2>0. commitIndex + 1 \in DOMAIN log /\ commitIndex + 1 \in DOMAIN ref
    BY <1>0, <1>1 DEF Commit
  <2>1. log[commitIndex + 1] \in Entry /\ ref[commitIndex + 1] \in Result
    BY <1>0, <2>0, SeqElement
  <2>2. Outcome(Prefix(commitIndex), commitIndex + 1, log[commitIndex + 1])
          \in Result
    BY <1>0, <2>1, OutcomeType DEF Prefix
  <2>3. ref' \in Seq(Result) /\ Len(ref') = Len(ref) + 1
        /\ \A i \in 1 .. Len(ref) : ref'[i] = ref[i]
    BY <1>0, <1>1, <2>2, AppendFacts DEF Commit
  <2> QED BY <1>0, <1>1, <2>3 DEF Commit
<1>2. CASE \E n \in Node : LeaderElected(n)
  <2>1. PICK keep \in commitIndex .. Len(log) :
          log' = Append(SubSeq(log, 1, keep), [term |-> term + 1, cmd |-> Noop])
    BY <1>2 DEF LeaderElected
  <2>2. [term |-> term + 1, cmd |-> Noop] \in Entry
    BY <1>0 DEF Entry
  <2>3. /\ SubSeq(log, 1, keep) \in Seq(Entry)
        /\ Len(SubSeq(log, 1, keep)) = keep
        /\ \A i \in 1 .. keep : SubSeq(log, 1, keep)[i] = log[i]
    BY <1>0, TruncateFacts
  <2>4. /\ log' \in Seq(Entry)
        /\ Len(log') = keep + 1
        /\ \A i \in 1 .. keep : log'[i] = log[i]
    BY <2>1, <2>2, <2>3, AppendFacts
  <2>5. UNCHANGED <<commitIndex, ref>>
    BY <1>2 DEF LeaderElected
  <2> QED BY <1>0, <2>4, <2>5
<1>3. ASSUME NEW cmd \in Command, NEW n \in Node, applyCommand(n, cmd)
      PROVE  /\ log' \in Seq(Entry)
             /\ Len(log') = Len(log) + 1
             /\ \A i \in 1 .. Len(log) : log'[i] = log[i]
  <2>1. [term |-> term, cmd |-> cmd] \in Entry
    BY <1>0, SMTT(60) DEF Entry
  <2> QED BY <1>0, <1>3, <2>1, AppendFacts DEF applyCommand
<1>4. CASE \E n \in Node, r \in Requests : Propose(n, r)
  <2>1. PICK n \in Node, r \in Requests : Propose(n, r)
    BY <1>4
  <2>2. Stamp(r, clock[n]) \in Command
    BY <1>0, StampFacts, ReplicationAssumption, ZenonT(60) DEF Command
  <2> QED BY <1>0, <1>3, <2>1, <2>2 DEF Propose, applyCommand
<1>5. CASE \E n \in Node : ReclaimPropose(n)
  <2>1. PICK n \in Node : ReclaimPropose(n)
    BY <1>5
  <2>2. [op |-> "reclaim", entries |-> sweep[n]] \in Command
    BY <1>0 DEF Command, ReclaimRequest
  <2> QED BY <1>0, <1>3, <2>1, <2>2 DEF ReclaimPropose, applyCommand
<1>6. CASE UNCHANGED <<log, commitIndex, ref>>
  BY <1>0, <1>6
<1>7. CASE UNCHANGED vars
  BY <1>6, <1>7 DEF vars, raftVars
<1>8. ASSUME NEW n \in Node,
             \/ advanceChain(n) \/ Apply(n) \/ SkipNoop(n) \/ Restart(n)
             \/ Tick(n) \/ ReclaimScan(n) \/ ReclaimAbandon(n)
      PROVE  UNCHANGED <<log, commitIndex, ref>>
  BY <1>8, Zenon DEF advanceChain, Apply, SkipNoop, Restart, Tick, ReclaimScan,
              ReclaimAbandon, raftVars
<1> QED BY <1>1, <1>2, <1>4, <1>5, <1>6, <1>7, <1>8, Zenon DEF Next

LEMMA HistoryStable ==
  ASSUME Base, [Next]_vars
  PROVE  /\ log' \in Seq(Entry)
         /\ commitIndex' \in 0 .. Len(log')
         /\ commitIndex <= commitIndex'
         /\ \A i \in 1 .. commitIndex : log'[i] = log[i]
         /\ ref' \in Seq(Result) /\ Len(ref') = commitIndex' + 1
         /\ \A i \in 1 .. commitIndex + 1 : ref'[i] = ref[i]
         /\ commitIndex' \in Nat
<1>1. commitIndex' \in 0 .. Len(log') /\ log' \in Seq(Entry)
  BY HistoryGrows, Zenon
<1>2. commitIndex' \in Nat
  BY <1>1
<1> QED BY <1>2, HistoryGrows, Zenon

\* The entry a node applies next is a typed command, unless it is raft's own.
LEMMA NextEntryType ==
  ASSUME Base, NEW n \in Node, applied[n] < commitIndex, NextEntry(n).cmd # Noop
  PROVE  /\ NextEntry(n).cmd \in Command
         /\ NextEntry(n).term \in Nat
         /\ applied[n] + 1 \in 1 .. commitIndex
<1>0. /\ commitIndex \in 0 .. Len(log)
      /\ applied[n] \in 0 .. commitIndex
      /\ log \in Seq(Entry)
  BY DEF Base, TypeOK
<1>1. applied[n] + 1 \in 1 .. commitIndex /\ applied[n] + 1 \in DOMAIN log
  BY <1>0
<1>2. NextEntry(n) \in Entry
  BY <1>1, SeqElement DEF Base, TypeOK, NextEntry
<1> QED BY <1>1, <1>2 DEF Entry

LEMMA BaseStep == Base /\ [Next]_vars => Base'
<1> SUFFICES ASSUME Base, [Next]_vars PROVE Base'
  OBVIOUS
<1>0. /\ log' \in Seq(Entry)
      /\ commitIndex' \in 0 .. Len(log')
      /\ commitIndex <= commitIndex'
      /\ \A i \in 1 .. commitIndex : log'[i] = log[i]
      /\ ref' \in Seq(Result) /\ Len(ref') = commitIndex' + 1
  BY HistoryStable, Zenon
<1>c. commitIndex \in Nat /\ commitIndex' \in Nat /\ commitIndex <= commitIndex'
  BY <1>0, BaseTypes
<1>t. /\ commitIndex \in Nat /\ commitIndex' \in Nat
      /\ applied \in [Node -> 0 .. commitIndex]
      /\ acked \in 0 .. commitIndex
      /\ term \in Nat /\ leader \in Node \cup {None}
      /\ clock \in [Node -> Nat] /\ crashes \in [Node -> Nat]
      /\ faults \in [Node -> Nat]
      /\ sweep \in [Node -> SUBSET ReclaimEntry]
      /\ pc \in [Node -> {"idle", "chained"}]
      /\ store \in [Node -> Store]
      /\ head \in [Node -> HashChain] /\ chain \in [Node -> HashChain]
  BY <1>c, BaseTypes, Zenon
\* Steps that leave the FSMs alone.
<1>1. CASE UNCHANGED <<fsmVars, acked>> /\ term' \in Nat
           /\ leader' \in Node \cup {None} /\ clock' \in [Node -> Nat]
           /\ crashes' \in [Node -> Nat] /\ faults' \in [Node -> Nat]
           /\ sweep' \in [Node -> SUBSET ReclaimEntry]
  <2>1. TypeOK'
    <3>1. applied' \in [Node -> 0 .. commitIndex'] /\ acked' \in 0 .. commitIndex'
      <4>1. applied' = applied /\ acked' = acked
        BY <1>1 DEF fsmVars
      <4>2. 0 .. commitIndex \subseteq 0 .. commitIndex'
        BY <1>0, <1>t
      <4> QED BY <1>t, <4>1, <4>2, Zenon
    <3> QED BY <1>0, <1>1, <3>1, Zenon DEF Base, TypeOK, fsmVars, Result
  <2>2. Chained'
    <3> SUFFICES ASSUME NEW n \in Node, pc[n] = "chained"
                 PROVE  /\ applied[n] < commitIndex'
                        /\ log'[applied[n] + 1].cmd # Noop
                        /\ applied[n] < chain[n].index
      BY <1>1 DEF Chained, fsmVars, NextEntry
    <3>1. /\ applied[n] < commitIndex
          /\ log[applied[n] + 1].cmd # Noop
          /\ applied[n] < chain[n].index
      BY DEF Base, Chained, NextEntry
    <3>2. applied[n] \in Nat /\ applied[n] + 1 \in 1 .. commitIndex
      BY <1>t, <3>1
    <3>3. log'[applied[n] + 1].cmd # Noop
      BY <1>0, <3>1, <3>2, Zenon
    <3>4. applied[n] < commitIndex'
      BY <1>c, <3>1, <3>2
    <3> QED BY <3>1, <3>3, <3>4, ZenonT(60)
  <2> QED BY <2>1, <2>2 DEF Base
<1>2. CASE Commit
  BY <1>1, <1>2, <1>t, Zenon DEF Commit, envVars
<1>3. ASSUME NEW n \in Node, LeaderElected(n) PROVE Base'
  <2>1. term' \in Nat
    BY <1>3, <1>t DEF LeaderElected
  <2> QED BY <1>1, <1>3, <1>t, <2>1, Zenon DEF LeaderElected, envVars
<1>4. ASSUME NEW n \in Node, NEW r \in Requests, Propose(n, r) PROVE Base'
  BY <1>1, <1>4, <1>t DEF Propose, applyCommand, envVars
<1>5. ASSUME NEW n \in Node, Tick(n) PROVE Base'
  BY <1>1, <1>5, <1>t DEF Tick, raftVars
<1>6. ASSUME NEW n \in Node, ReclaimScan(n) PROVE Base'
  <2>1. PICK found \in ScanExpired(store[n], clock[n], Limit) :
          sweep' = [sweep EXCEPT ![n] = found]
    BY <1>6, Zenon DEF ReclaimScan
  <2>2. found \in SUBSET ReclaimEntry
    BY <1>t, ScanExpiredType
  <2>3. sweep' \in [Node -> SUBSET ReclaimEntry]
    BY <1>t, <2>1, <2>2
  <2> QED BY <1>1, <1>6, <1>t, <2>3 DEF ReclaimScan, raftVars, envVars
<1>7. ASSUME NEW n \in Node, ReclaimPropose(n) PROVE Base'
  BY <1>1, <1>7, <1>t, Zenon DEF ReclaimPropose, applyCommand, envVars
<1>8. ASSUME NEW n \in Node, ReclaimAbandon(n) PROVE Base'
  BY <1>1, <1>8, <1>t DEF ReclaimAbandon, raftVars, envVars
\* Steps of one node's FSM: the log and its outcomes stay.
<1>9. ASSUME NEW n \in Node, advanceChain(n) PROVE Base'
  <2> DEFINE c == Advance(chain[n], applied[n] + 1,
                          NextEntry(n).term, NextEntry(n).cmd)
  <2>1. /\ NextEntry(n).cmd \in Command /\ NextEntry(n).term \in Nat
        /\ applied[n] + 1 \in 1 .. commitIndex
    BY <1>9, NextEntryType DEF advanceChain, FsmReady
  <2>2. chain[n] \in HashChain
    BY <1>t, SMTT(60)
  <2>3. c \in HashChain /\ applied[n] + 1 <= c.index
    <3> DEFINE i == applied[n] + 1
    <3>1. i \in Nat
      BY <2>1
    <3> HIDE DEF i
    <3>2. /\ Advance(chain[n], i, NextEntry(n).term, NextEntry(n).cmd) \in HashChain
          /\ i <= Advance(chain[n], i, NextEntry(n).term, NextEntry(n).cmd).index
      BY <2>1, <2>2, <3>1, AdvanceFacts, Zenon
    <3> QED BY <3>2 DEF i
  <2>4. /\ chain' = [chain EXCEPT ![n] = c]
        /\ head' \in [Node -> HashChain]
        /\ faults' \in [Node -> Nat]
        /\ pc' = [pc EXCEPT ![n] = "chained"]
    <3> HIDE DEF c
    <3>1. /\ chain' = [chain EXCEPT ![n] = c]
          /\ \/ head' = [head EXCEPT ![n] = c] /\ faults' = faults
             \/ head' = head /\ faults' = [faults EXCEPT ![n] = @ + 1]
          /\ pc' = [pc EXCEPT ![n] = "chained"]
      BY <1>9 DEF advanceChain, c
    <3> QED BY <1>t, <2>3, <3>1
  <2>5. UNCHANGED <<raftVars, applied, store, clock, crashes, sweep, acked, ref>>
    BY <1>9 DEF advanceChain
  <2> HIDE DEF c
  <2>6. TypeOK'
    BY <2>3, <2>4, <2>5, Zenon DEF Base, TypeOK, raftVars
  <2>7. Chained'
    <3> SUFFICES ASSUME NEW m \in Node, pc'[m] = "chained"
                 PROVE  /\ applied[m] < commitIndex
                        /\ log[applied[m] + 1].cmd # Noop
                        /\ applied[m] < chain'[m].index
      BY <2>5 DEF Chained, NextEntry, raftVars
    <3>1. CASE m = n
      <4>1. chain'[m] = c
        BY <1>t, <2>4, <3>1
      <4>2. applied[n] < commitIndex /\ NextEntry(n).cmd # Noop
        BY <1>9, Zenon DEF advanceChain, FsmReady
      <4>3. applied[n] \in Nat /\ applied[n] < c.index
        <5>1. applied[n] \in 0 .. commitIndex
          BY <1>t, Zenon
        <5>2. c.index \in Nat
          BY <2>3 DEF HashChain
        <5> QED BY <1>c, <2>3, <5>1, <5>2
      <4> QED BY <3>1, <4>1, <4>2, <4>3, Zenon DEF NextEntry
    <3>2. CASE m # n
      BY <1>t, <2>4, <3>2, SMTT(60) DEF Base, Chained, NextEntry
    <3> QED BY <3>1, <3>2, Zenon
  <2> QED BY <2>6, <2>7 DEF Base
<1>10. ASSUME NEW n \in Node, Apply(n) PROVE Base'
  <2>1. /\ NextEntry(n).cmd \in Command
        /\ applied[n] + 1 \in 1 .. commitIndex
    BY <1>10, NextEntryType DEF Apply, Base, Chained
  <2>2. Exec(store[n], NextEntry(n).cmd, applied[n] + 1, clock[n]) \in Store
    <3>1. store[n] \in Store /\ clock[n] \in Nat /\ applied[n] + 1 \in Nat \ {0}
      BY <1>t, <2>1, SMTT(60)
    <3> QED BY <2>1, <3>1, ExecType
  <2>3. store' \in [Node -> Store] /\ faults' \in [Node -> Nat]
    <3>1. CASE store' = store /\ faults' = [faults EXCEPT ![n] = @ + 1]
      BY <1>t, <3>1
    <3>2. CASE /\ store' = [store EXCEPT ![n] = Exec(@, NextEntry(n).cmd,
                                                 applied[n] + 1, clock[n])]
              /\ faults' = faults
      BY <1>t, <2>2, <3>2, SMTT(60)
    <3> QED BY <1>10, <3>1, <3>2 DEF Apply
  <2>4. acked' \in 0 .. commitIndex
    BY <1>10, <1>t, <2>1 DEF Apply, Answer
  <2>5. /\ applied' = [applied EXCEPT ![n] = @ + 1]
        /\ pc' = [pc EXCEPT ![n] = "idle"]
        /\ UNCHANGED <<raftVars, head, chain, clock, crashes, sweep, ref>>
    BY <1>10 DEF Apply
  <2>6. TypeOK'
    <3>1. /\ applied' \in [Node -> 0 .. commitIndex]
          /\ pc' \in [Node -> {"idle", "chained"}]
      BY <1>t, <2>1, <2>5
    <3> QED BY <1>0, <1>t, <2>3, <2>4, <2>5, <3>1, Zenon DEF TypeOK, raftVars, Result
  <2>7. Chained'
    BY <1>t, <2>5 DEF Base, Chained, NextEntry, raftVars
  <2> QED BY <2>6, <2>7 DEF Base
<1>11. ASSUME NEW n \in Node, SkipNoop(n) PROVE Base'
  <2>1. applied' \in [Node -> 0 .. commitIndex]
    BY <1>11, <1>t DEF SkipNoop, FsmReady
  <2>2. TypeOK'
    BY <1>0, <1>11, <1>t, <2>1, Zenon DEF SkipNoop, FsmReady, TypeOK, raftVars, envVars, Result
  <2>3. Chained'
    BY <1>11, <1>t DEF SkipNoop, FsmReady, Base, Chained, NextEntry, raftVars
  <2> QED BY <2>2, <2>3 DEF Base
<1>12. ASSUME NEW n \in Node, Restart(n) PROVE Base'
  <2>1. TypeOK'
    <3>1. /\ applied' \in [Node -> 0 .. commitIndex]
          /\ pc' \in [Node -> {"idle", "chained"}]
          /\ chain' \in [Node -> HashChain]
          /\ sweep' \in [Node -> SUBSET ReclaimEntry]
          /\ crashes' \in [Node -> Nat]
          /\ leader' \in Node \cup {None}
      BY <1>12, <1>t DEF Restart
    <3> QED BY <1>0, <1>12, <1>t, <3>1, Zenon DEF Restart, TypeOK, Result
  <2>2. Chained'
    BY <1>12, <1>t DEF Restart, Base, Chained, NextEntry
  <2> QED BY <2>1, <2>2 DEF Base
<1>13. CASE UNCHANGED vars
  BY <1>1, <1>13, <1>t DEF vars, raftVars, fsmVars, envVars
<1> QED
  BY <1>2, <1>3, <1>4, <1>5, <1>6, <1>7, <1>8, <1>9, <1>10, <1>11, <1>12, <1>13, Zenon
  DEF Next

\* Every reachable state of the write path is well typed.
THEOREM TypeCorrect == Spec => []TypeOK
<1>1. Base => TypeOK
  BY DEF Base
<1> QED BY BaseInit, BaseStep, <1>1, PTL DEF Spec
-----------------------------------------------------------------------------
(***************************************************************************)
(* The recorded outcomes are what the committed log defines.                *)
(***************************************************************************)
RefInv ==
  /\ ref[1] = [store |-> EmptyStore, digest |-> GenesisDigest]
  /\ \A i \in 1 .. commitIndex : ref[i + 1] = Outcome(ref[i], i, log[i])

LEMMA OnlyCommitCommits ==
  ASSUME [Next]_vars
  PROVE  Commit \/ commitIndex' = commitIndex
BY Zenon DEF Next, LeaderElected, Propose, applyCommand, advanceChain, Apply, SkipNoop,
       Restart, Tick, ReclaimScan, ReclaimPropose, ReclaimAbandon, vars, raftVars

LEMMA RefInit == Init => RefInv
BY DEF Init, RefInv

LEMMA RefStep == Base /\ RefInv /\ [Next]_vars => RefInv'
<1> SUFFICES ASSUME Base, RefInv, [Next]_vars PROVE RefInv'
  OBVIOUS
<1>0. commitIndex \in Nat /\ ref \in Seq(Result) /\ Len(ref) = commitIndex + 1
  BY DEF Base, TypeOK, Result
<1>1. /\ \A i \in 1 .. commitIndex : log'[i] = log[i]
      /\ \A i \in 1 .. commitIndex + 1 : ref'[i] = ref[i]
  BY HistoryStable, Zenon
<1>2. ref'[1] = [store |-> EmptyStore, digest |-> GenesisDigest]
  BY <1>0, <1>1 DEF RefInv
<1>3. \A i \in 1 .. commitIndex : ref'[i + 1] = Outcome(ref'[i], i, log'[i])
  BY <1>0, <1>1 DEF RefInv
<1>4. CASE commitIndex' = commitIndex
  BY <1>2, <1>3, <1>4 DEF RefInv
<1>5. CASE Commit
  <2>1. commitIndex' = commitIndex + 1 /\ log' = log
    BY <1>5 DEF Commit
  <2> DEFINE o == Outcome(ref[commitIndex + 1], commitIndex + 1,
                          log[commitIndex + 1])
  <2>2. ref' = Append(ref, o)
    BY <1>5 DEF Commit, Prefix
  <2>3. ref'[commitIndex + 2] = o
    <3> HIDE DEF o
    <3> QED BY <1>0, <2>2
  <2>4. ref'[(commitIndex + 1) + 1]
          = Outcome(ref'[commitIndex + 1], commitIndex + 1, log'[commitIndex + 1])
    BY <1>0, <1>1, <2>1, <2>3
  <2>5. \A i \in 1 .. commitIndex' : i \in 1 .. commitIndex \/ i = commitIndex + 1
    BY <1>0, <2>1
  <2> QED BY <1>2, <1>3, <2>4, <2>5 DEF RefInv
<1> QED BY <1>4, <1>5, OnlyCommitCommits

(***************************************************************************)
(* The chain.  Its strengthening says what the digest of a prefix is when   *)
(* the prefix ends in entries raft keeps for itself, which are not folded.  *)
(***************************************************************************)
Quiet(i, j) == \A m \in i + 1 .. j : log[m].cmd = Noop

NoopsKeepDigest ==
  \A j \in 0 .. commitIndex : \A i \in 0 .. j :
    Quiet(i, j) => Prefix(j).digest = Prefix(i).digest

\* Every command handed to the FSM since it started is folded.
FoldedApplied ==
  \A n \in Node : \A i \in 1 .. applied[n] :
    log[i].cmd # Noop => i <= chain[n].index

ChainInv == Base /\ RefInv /\ NoopsKeepDigest /\ ChainAgreement /\ FoldedApplied

LEMMA ChainInit == Init => ChainInv
<1> SUFFICES ASSUME Init PROVE ChainInv
  OBVIOUS
<1>1. NoopsKeepDigest
  BY DEF Init, NoopsKeepDigest
<1>2. ChainAgreement
  BY DEF Init, ChainAgreement, Prefix, Genesis
<1>3. FoldedApplied
  BY DEF Init, FoldedApplied
<1> QED BY <1>1, <1>2, <1>3, BaseInit, RefInit DEF ChainInv

LEMMA NoopsStep == Base /\ RefInv /\ NoopsKeepDigest /\ [Next]_vars => NoopsKeepDigest'
<1> SUFFICES ASSUME Base, RefInv, NoopsKeepDigest, [Next]_vars,
                    NEW j \in 0 .. commitIndex', NEW i \in 0 .. j, Quiet(i, j)'
             PROVE  ref'[j + 1].digest = ref'[i + 1].digest
  BY DEF NoopsKeepDigest, Prefix
<1>0. commitIndex \in Nat /\ ref \in Seq(Result) /\ Len(ref) = commitIndex + 1
  BY DEF Base, TypeOK, Result
<1>1. /\ \A m \in 1 .. commitIndex : log'[m] = log[m]
      /\ \A m \in 1 .. commitIndex + 1 : ref'[m] = ref[m]
      /\ commitIndex' \in Nat
  BY HistoryStable, Zenon
<1>2. ASSUME NEW h \in 0 .. commitIndex, i <= h, h <= j
      PROVE  ref'[h + 1].digest = ref'[i + 1].digest
  <2>1. Quiet(i, h)
    BY <1>0, <1>1, <1>2 DEF Quiet
  <2>2. ref[h + 1].digest = ref[i + 1].digest
    BY <1>0, <1>1, <1>2, <2>1 DEF NoopsKeepDigest, Prefix
  <2> QED BY <1>0, <1>1, <1>2, <2>2
<1>3. CASE j <= commitIndex
  BY <1>0, <1>1, <1>2, <1>3
<1>4. CASE ~(j <= commitIndex)
  <2>1. Commit
    BY <1>0, <1>1, <1>4, OnlyCommitCommits
  <2>2. j = commitIndex + 1 /\ log' = log
    BY <1>0, <1>4, <2>1 DEF Commit
  <2>3. CASE i = j
    BY <2>3
  <2>4. CASE i # j
    <3>1. i <= commitIndex /\ j \in i + 1 .. j
      BY <1>0, <1>1, <2>2, <2>4
    <3>2. log[j].cmd = Noop
      BY <2>2, <3>1, SMTT(60) DEF Quiet
    <3>3. ref'[j + 1] = Outcome(ref'[j], j, log'[j])
      BY <1>0, <1>1, <2>1, <2>2, RefStep, SMTT(60) DEF RefInv, Commit
    <3>4. ref'[j + 1] = ref'[j]
      BY <2>2, <3>2, <3>3 DEF Outcome
    <3>5. ref'[commitIndex + 1].digest = ref'[i + 1].digest
      BY <1>0, <1>2, <2>2, <3>1, SMTT(60)
    <3> QED BY <2>2, <3>4, <3>5, Zenon
  <2> QED BY <2>3, <2>4, Zenon
<1> QED BY <1>3, <1>4, Zenon

\* A chain that is right and has folded what was applied is right after the next entry.
LEMMA ChainAdvances ==
  ASSUME Base, RefInv, NoopsKeepDigest, NEW n \in Node,
         applied[n] < commitIndex, NextEntry(n).cmd # Noop,
         chain[n].index <= commitIndex, chain[n].digest = Prefix(chain[n].index).digest,
         \A i \in 1 .. applied[n] : log[i].cmd # Noop => i <= chain[n].index
  PROVE  LET c == Advance(chain[n], applied[n] + 1, NextEntry(n).term, NextEntry(n).cmd)
         IN  c.index <= commitIndex /\ c.digest = Prefix(c.index).digest
<1> DEFINE e == NextEntry(n)
           c == Advance(chain[n], applied[n] + 1, e.term, e.cmd)
<1>1. /\ e.cmd \in Command /\ e.term \in Nat /\ e.cmd # Noop
      /\ applied[n] + 1 \in 1 .. commitIndex
  BY NextEntryType, SMTT(60)
<1>2. /\ commitIndex \in Nat /\ applied[n] \in 0 .. commitIndex
      /\ chain[n].index \in Nat
  <2>1. /\ commitIndex \in Nat /\ applied[n] \in 0 .. commitIndex
        /\ chain[n] \in HashChain
    BY BaseTypes, ZenonT(60)
  <2> QED BY <2>1 DEF HashChain
<1>3. CASE applied[n] + 1 <= chain[n].index
  BY <1>3, SMTT(60) DEF Advance
<1>4. CASE ~(applied[n] + 1 <= chain[n].index)
  <2>1. Quiet(chain[n].index, applied[n])
    <3> SUFFICES ASSUME NEW m \in chain[n].index + 1 .. applied[n], log[m].cmd # Noop
                 PROVE  FALSE
      BY DEF Quiet
    <3>1. m \in 1 .. applied[n] /\ ~(m <= chain[n].index)
      BY <1>2, SMTT(60)
    <3> QED BY <3>1, Zenon
  <2>2. Prefix(applied[n]).digest = chain[n].digest
    <3>1. chain[n].index \in 0 .. applied[n]
      BY <1>2, <1>4, SMTT(60)
    <3> QED BY <1>2, <2>1, <3>1 DEF NoopsKeepDigest
  <2>3. ref[(applied[n] + 1) + 1] = Outcome(ref[applied[n] + 1], applied[n] + 1, e)
    BY <1>1, SMTT(60) DEF RefInv, NextEntry
  <2>4. Prefix(applied[n] + 1).digest
          = NextDigest(chain[n].digest, applied[n] + 1, e.term, e.cmd)
    <3> HIDE DEF e
    <3> QED BY <1>1, <2>2, <2>3, SMTT(60) DEF Prefix, Outcome
  <2>5. c = [index  |-> applied[n] + 1,
             digest |-> NextDigest(chain[n].digest, applied[n] + 1, e.term, e.cmd)]
    BY <1>4, Zenon DEF Advance
  <2> HIDE DEF c, e
  <2>6. c.index <= commitIndex /\ c.digest = Prefix(c.index).digest
    BY <1>1, <1>2, <2>4, <2>5
  <2> QED BY <2>6, Zenon DEF c, e
<1> QED BY <1>3, <1>4, Zenon

LEMMA ChainStep == ChainInv /\ [Next]_vars => ChainInv'
<1> SUFFICES ASSUME ChainInv, [Next]_vars PROVE ChainInv'
  OBVIOUS
<1> USE DEF ChainInv
<1>0. Base' /\ RefInv' /\ NoopsKeepDigest'
  BY BaseStep, RefStep, NoopsStep
<1>1. /\ commitIndex \in Nat /\ commitIndex' \in Nat
      /\ commitIndex <= commitIndex'
      /\ \A i \in 1 .. commitIndex : log'[i] = log[i]
      /\ \A i \in 1 .. commitIndex + 1 : ref'[i] = ref[i]
  <2>1. commitIndex \in Nat /\ commitIndex' \in Nat
    BY <1>0 DEF Base, TypeOK
  <2> QED BY <2>1, HistoryStable, Zenon
<1>t. /\ applied \in [Node -> 0 .. commitIndex]
      /\ chain \in [Node -> HashChain] /\ head \in [Node -> HashChain]
  BY Zenon DEF Base, TypeOK
\* A head that was right stays right, because outcomes do not change.
<1>2. ASSUME NEW c \in HashChain, c.index <= commitIndex,
             c.digest = Prefix(c.index).digest
      PROVE  c.index <= commitIndex' /\ c.digest = Prefix(c.index)'.digest
  <2>1. c.index \in Nat
    BY DEF HashChain
  <2>2. c.index + 1 \in 1 .. commitIndex + 1
    BY <1>1, <1>2, <2>1
  <2> QED BY <1>1, <1>2, <2>1, <2>2 DEF Prefix
<1>3. CASE UNCHANGED <<applied, chain, head>>
  <2>1. ChainAgreement'
    BY <1>2, <1>3, <1>t DEF ChainAgreement
  <2>2. FoldedApplied'
    <3> SUFFICES ASSUME NEW n \in Node, NEW i \in 1 .. applied[n],
                        log'[i].cmd # Noop
                 PROVE  i <= chain[n].index
      BY <1>3 DEF FoldedApplied
    <3>1. i \in 1 .. commitIndex
      BY <1>1, <1>t
    <3> QED BY <1>1, <3>1 DEF FoldedApplied
  <2> QED BY <1>0, <2>1, <2>2, SMTT(60)
<1>4. ASSUME NEW n \in Node, advanceChain(n) PROVE ChainInv'
  <2> DEFINE e == NextEntry(n)
             c == Advance(chain[n], applied[n] + 1, e.term, e.cmd)
  <2>1. /\ e.cmd \in Command /\ e.term \in Nat /\ e.cmd # Noop
        /\ applied[n] + 1 \in 1 .. commitIndex
    BY <1>4, NextEntryType DEF advanceChain, FsmReady
  <2>2. /\ chain[n] \in HashChain /\ chain[n].index \in Nat
        /\ applied[n] \in Nat
    BY <1>t, <1>1 DEF HashChain
  <2>3. /\ c \in HashChain
        /\ applied[n] + 1 <= c.index /\ chain[n].index <= c.index
    <3> HIDE DEF e
    <3>1. applied[n] + 1 \in Nat
      BY <2>2
    <3> QED BY <2>1, <2>2, <3>1, AdvanceFacts, Zenon
  <2>4. c.index <= commitIndex /\ c.digest = Prefix(c.index).digest
    <3>1. applied[n] < commitIndex /\ NextEntry(n).cmd # Noop
      BY <1>4, Zenon DEF advanceChain, FsmReady
    <3>2. /\ chain[n].index <= commitIndex
          /\ chain[n].digest = Prefix(chain[n].index).digest
          /\ \A i \in 1 .. applied[n] : log[i].cmd # Noop => i <= chain[n].index
      BY Zenon DEF ChainAgreement, FoldedApplied
    <3> QED BY <3>1, <3>2, ChainAdvances, Zenon
  <2>5. /\ chain' = [chain EXCEPT ![n] = c]
        /\ head' = head \/ head' = [head EXCEPT ![n] = c]
        /\ UNCHANGED <<log, commitIndex, applied, ref>>
    BY <1>4 DEF advanceChain, raftVars
  <2> HIDE DEF c, e
  <2>6. ChainAgreement'
    <3> SUFFICES ASSUME NEW m \in Node, NEW d \in {chain'[m], head'[m]}
                 PROVE  d.index <= commitIndex /\ d.digest = Prefix(d.index).digest
      BY <2>5 DEF ChainAgreement, Prefix
    <3>1. d \in {c, chain[m], head[m]}
      BY <1>t, <2>5
    <3> QED BY <2>4, <3>1 DEF ChainAgreement
  <2>7. FoldedApplied'
    <3> SUFFICES ASSUME NEW m \in Node, NEW i \in 1 .. applied[m], log[i].cmd # Noop
                 PROVE  i <= chain'[m].index
      BY <2>5 DEF FoldedApplied
    <3>1. i <= chain[m].index
      BY SMTT(60) DEF FoldedApplied
    <3>2. chain[m].index <= chain'[m].index /\ chain[m].index \in Nat
          /\ chain'[m].index \in Nat
      <4>1. chain'[m] = chain[m] \/ (m = n /\ chain'[m] = c)
        BY <1>t, <2>5, Zenon
      <4>2. chain[m] \in HashChain
        BY <1>t, SMTT(60)
      <4> HIDE DEF c
      <4>3. chain[m].index \in Nat
        BY <4>2 DEF HashChain
      <4>4. c.index \in Nat
        BY <2>3 DEF HashChain
      <4> QED BY <2>3, <4>1, <4>3, <4>4
    <3>3. i \in Nat
      BY <1>1, <1>t, SMTT(60)
    <3> QED BY <3>1, <3>2, <3>3
  <2> QED BY <1>0, <2>6, <2>7, SMTT(60)
<1>5. ASSUME NEW n \in Node, Apply(n) \/ SkipNoop(n) PROVE ChainInv'
  <2>1. /\ applied' = [applied EXCEPT ![n] = @ + 1]
        /\ UNCHANGED <<log, commitIndex, chain, head, ref>>
    BY <1>5, Zenon DEF Apply, SkipNoop, FsmReady, raftVars
  <2>2. log[applied[n] + 1].cmd = Noop \/ applied[n] < chain[n].index
    BY <1>5, ZenonT(60) DEF Apply, SkipNoop, FsmReady, NextEntry, Base, Chained
  <2>3. ChainAgreement'
    BY <2>1 DEF ChainAgreement, Prefix
  <2>4. FoldedApplied'
    <3> SUFFICES ASSUME NEW m \in Node, NEW i \in 1 .. applied'[m], log[i].cmd # Noop
                 PROVE  i <= chain[m].index
      BY <2>1 DEF FoldedApplied
    <3>1. /\ applied[m] \in Nat /\ chain[m].index \in Nat
          /\ applied'[m] = applied[m] \/ (m = n /\ applied'[m] = applied[m] + 1)
      <4>1. applied[m] \in 0 .. commitIndex /\ chain[m] \in HashChain
        BY <1>t, Zenon
      <4>2. applied[m] \in Nat /\ chain[m].index \in Nat
        BY <4>1 DEF HashChain
      <4>3. applied'[m] = applied[m] \/ (m = n /\ applied'[m] = applied[m] + 1)
        BY <1>t, <2>1, Zenon
      <4> QED BY <4>2, <4>3, Zenon
    <3>2. CASE i \in 1 .. applied[m]
      BY <3>2, SMTT(60) DEF FoldedApplied
    <3>3. CASE i \notin 1 .. applied[m]
      BY <2>2, <3>1, <3>3, SMTT(60)
    <3> QED BY <3>2, <3>3, Zenon
  <2> QED BY <1>0, <2>3, <2>4, Zenon
<1>6. ASSUME NEW n \in Node, Restart(n) PROVE ChainInv'
  <2>1. /\ applied' = [applied EXCEPT ![n] = 0]
        /\ chain' = [chain EXCEPT ![n] = head[n]]
        /\ UNCHANGED <<log, commitIndex, head, ref>>
    BY <1>6, SMTT(60) DEF Restart
  <2>2. ChainAgreement'
    BY <1>t, <2>1 DEF ChainAgreement, Prefix
  <2>3. FoldedApplied'
    BY <1>t, <2>1 DEF FoldedApplied
  <2> QED BY <1>0, <2>2, <2>3, Zenon
<1> HIDE DEF ChainInv
<1>7. ASSUME NEW n \in Node,
             \/ LeaderElected(n) \/ Tick(n) \/ ReclaimScan(n)
             \/ ReclaimPropose(n) \/ ReclaimAbandon(n)
      PROVE  ChainInv'
  BY <1>3, <1>7, Zenon DEF LeaderElected, Tick, ReclaimScan, ReclaimPropose,
                    ReclaimAbandon, fsmVars
<1>8. ASSUME NEW n \in Node, NEW r \in Requests, Propose(n, r) PROVE ChainInv'
  BY <1>3, <1>8 DEF Propose, fsmVars
<1>9. CASE Commit \/ UNCHANGED vars
  BY <1>3, <1>9 DEF Commit, vars, fsmVars
<1> QED BY <1>4, <1>5, <1>6, <1>7, <1>8, <1>9 DEF Next

\* The hash chain of FSM.advanceChain is exact on every node at all times:
\* neither a crash at any point, nor the replay after it, nor a lost head write
\* makes a node's chain disagree with the committed log, and so with another's.
THEOREM ChainAgreementHolds == Spec => []ChainAgreement
<1>1. ChainInv => ChainAgreement
  BY DEF ChainInv
<1> QED BY ChainInit, ChainStep, <1>1, PTL DEF Spec

-----------------------------------------------------------------------------
(***************************************************************************)
(* Replicas agree on the store their applied prefix defines.               *)
(***************************************************************************)

(***************************************************************************)
(* Where log entries come from, and that none of them reads a clock when it *)
(* is executed.                                                             *)
(***************************************************************************)
LEMMA NewEntries ==
  ASSUME Base, [Next]_vars, NEW i \in 1 .. Len(log')
  PROVE  \/ i \in 1 .. Len(log) /\ log'[i] = log[i]
         \/ log'[i].cmd = Noop
         \/ \E n \in Node, r \in Requests : log'[i].cmd = Stamp(r, clock[n])
         \/ \E n \in Node : log'[i].cmd = [op |-> "reclaim", entries |-> sweep[n]]
<1>0. log \in Seq(Entry) /\ term \in Nat /\ clock \in [Node -> Nat]
      /\ sweep \in [Node -> SUBSET ReclaimEntry] /\ commitIndex \in Nat
  BY BaseTypes, ZenonT(60)
<1>1. CASE log' = log
  BY <1>1, ZenonT(60)
<1>2. ASSUME NEW cmd \in Command, NEW n \in Node, applyCommand(n, cmd)
      PROVE  \/ i \in 1 .. Len(log) /\ log'[i] = log[i]
             \/ log'[i].cmd = cmd
  <2> DEFINE e == [term |-> term, cmd |-> cmd]
  <2>1. e \in Entry /\ e.cmd = cmd
    BY <1>0 DEF Entry
  <2>2. log' = Append(log, e)
    BY <1>2 DEF applyCommand
  <2> HIDE DEF e
  <2>3. /\ Len(log') = Len(log) + 1
        /\ \A j \in 1 .. Len(log) : log'[j] = log[j]
        /\ log'[Len(log) + 1] = e
    BY <1>0, <2>1, <2>2, AppendFacts
  <2>4. i \in 1 .. Len(log) \/ i = Len(log) + 1
    BY <1>0, <2>3
  <2> QED BY <2>1, <2>3, <2>4, Zenon
<1>3. ASSUME NEW n \in Node, LeaderElected(n)
      PROVE  \/ i \in 1 .. Len(log) /\ log'[i] = log[i]
             \/ log'[i].cmd = Noop
  <2> DEFINE e == [term |-> term + 1, cmd |-> Noop]
  <2>1. PICK keep \in commitIndex .. Len(log) :
          log' = Append(SubSeq(log, 1, keep), e)
    BY <1>3 DEF LeaderElected
  <2>2. e \in Entry /\ e.cmd = Noop
    BY <1>0 DEF Entry
  <2> HIDE DEF e
  <2>3. /\ SubSeq(log, 1, keep) \in Seq(Entry)
        /\ Len(SubSeq(log, 1, keep)) = keep
        /\ \A j \in 1 .. keep : SubSeq(log, 1, keep)[j] = log[j]
    BY <1>0, TruncateFacts, SMTT(60)
  <2>4. /\ Len(log') = keep + 1
        /\ \A j \in 1 .. keep : log'[j] = log[j]
        /\ log'[keep + 1] = e
    BY <2>1, <2>2, <2>3, AppendFacts, SMTT(60)
  <2>5. keep \in Nat /\ (i \in 1 .. keep \/ i = keep + 1)
    BY <1>0, <2>4
  <2>6. i \in 1 .. keep => i \in 1 .. Len(log)
    BY <1>0, <2>5, SMTT(60)
  <2> QED BY <2>2, <2>4, <2>5, <2>6, SMTT(60)
<1>4. ASSUME NEW n \in Node, NEW r \in Requests, Propose(n, r)
      PROVE  \/ i \in 1 .. Len(log) /\ log'[i] = log[i]
             \/ log'[i].cmd = Stamp(r, clock[n])
  <2>1. Stamp(r, clock[n]) \in Command
    BY <1>0, StampFacts, ReplicationAssumption, Zenon DEF Command
  <2> QED BY <1>2, <1>4, <2>1 DEF Propose
<1>5. ASSUME NEW n \in Node, ReclaimPropose(n)
      PROVE  \/ i \in 1 .. Len(log) /\ log'[i] = log[i]
             \/ log'[i].cmd = [op |-> "reclaim", entries |-> sweep[n]]
  <2>1. [op |-> "reclaim", entries |-> sweep[n]] \in Command
    BY <1>0 DEF Command, ReclaimRequest
  <2> QED BY <1>2, <1>5, <2>1, Zenon DEF ReclaimPropose
<1>6. ASSUME NEW n \in Node,
             \/ advanceChain(n) \/ Apply(n) \/ SkipNoop(n) \/ Restart(n)
             \/ Tick(n) \/ ReclaimScan(n) \/ ReclaimAbandon(n)
      PROVE  log' = log
  BY <1>6, ZenonT(60) DEF advanceChain, Apply, SkipNoop, Restart, Tick, ReclaimScan,
              ReclaimAbandon, raftVars
<1>7. CASE Commit \/ UNCHANGED vars
  BY <1>1, <1>7, Zenon DEF Commit, vars, raftVars
<1> QED BY <1>1, <1>3, <1>4, <1>5, <1>6, <1>7, Zenon DEF Next

LogStamped ==
  \A i \in 1 .. Len(log) : log[i].cmd # Noop => Stamped(log[i].cmd)

LEMMA LogStampedStep == Base /\ LogStamped /\ [Next]_vars => LogStamped'
<1> SUFFICES ASSUME Base, LogStamped, [Next]_vars,
                    NEW i \in 1 .. Len(log'), log'[i].cmd # Noop
             PROVE  Stamped(log'[i].cmd)
  BY SMTT(60) DEF LogStamped
<1>1. CASE i \in 1 .. Len(log) /\ log'[i] = log[i]
  BY <1>1 DEF LogStamped
<1>2. CASE \E n \in Node, r \in Requests : log'[i].cmd = Stamp(r, clock[n])
  <2>1. PICK n \in Node, r \in Requests : log'[i].cmd = Stamp(r, clock[n])
    BY <1>2
  <2>2. clock[n] \in Nat
    BY BaseTypes
  <2> QED BY <2>1, <2>2, StampFacts, ReplicationAssumption, Zenon
<1>3. CASE \E n \in Node : log'[i].cmd = [op |-> "reclaim", entries |-> sweep[n]]
  BY <1>3 DEF Stamped
<1> QED BY <1>1, <1>2, <1>3, NewEntries

(***************************************************************************)
(* Replicas agree.                                                          *)
(***************************************************************************)
AgreeInv == Base /\ RefInv /\ LogStamped /\ ReplicaAgreement

LEMMA AgreeInit == Init => AgreeInv
<1> SUFFICES ASSUME Init PROVE AgreeInv
  OBVIOUS
<1>1. LogStamped
  BY DEF Init, LogStamped
<1>2. ReplicaAgreement
  BY DEF Init, ReplicaAgreement, Prefix
<1> QED BY <1>1, <1>2, BaseInit, RefInit, Zenon DEF AgreeInv

\* Executing the next entry on its prefix's store, on any node, gives the next
\* prefix's store.
LEMMA ExecNext ==
  ASSUME Base, RefInv, LogStamped, NEW i \in 1 .. commitIndex,
         log[i].cmd # Noop, NEW t \in Nat
  PROVE  /\ Prefix(i - 1).store \in Store
         /\ log[i].cmd \in Command /\ Stamped(log[i].cmd)
         /\ i \in Nat \ {0}
         /\ Exec(Prefix(i - 1).store, log[i].cmd, i, t) = Prefix(i).store
<1>1. /\ i \in Nat \ {0} /\ i \in 1 .. Len(log) /\ i \in DOMAIN log
      /\ i \in DOMAIN ref /\ (i - 1) + 1 = i
  <2>1. log \in Seq(Entry) /\ Len(log) \in Nat /\ commitIndex \in 0 .. Len(log)
        /\ ref \in Seq(Result) /\ Len(ref) = commitIndex + 1
    BY BaseTypes, Zenon
  <2> QED BY <2>1
<1>2. log[i] \in Entry /\ ref[i] \in Result
  BY <1>1, SeqElement, Zenon DEF Base, TypeOK, Result
<1>3. log[i].cmd \in Command /\ Stamped(log[i].cmd) /\ ref[i].store \in Store
  BY <1>1, <1>2 DEF Entry, Result, LogStamped
<1>4. ref[i + 1].store = Exec(ref[i].store, log[i].cmd, i, 0)
  <2>1. ref[i + 1] = Outcome(ref[i], i, log[i])
    BY SMTT(60) DEF RefInv
  <2>2. Outcome(ref[i], i, log[i]).store = Exec(ref[i].store, log[i].cmd, i, 0)
    BY DEF Outcome
  <2> QED BY <2>1, <2>2, SMTT(60)
<1>5. Exec(ref[i].store, log[i].cmd, i, 0) = Exec(ref[i].store, log[i].cmd, i, t)
  BY <1>1, <1>3, StampedExecClockFree
<1> QED BY <1>1, <1>3, <1>4, <1>5 DEF Prefix

LEMMA AgreeStep == AgreeInv /\ [Next]_vars => AgreeInv'
<1> SUFFICES ASSUME AgreeInv, [Next]_vars PROVE ReplicaAgreement'
  BY BaseStep, RefStep, LogStampedStep, Zenon DEF AgreeInv
<1>i. Base /\ RefInv /\ LogStamped /\ ReplicaAgreement
  BY DEF AgreeInv
<1>t. /\ commitIndex \in Nat /\ applied \in [Node -> 0 .. commitIndex]
      /\ clock \in [Node -> Nat] /\ store \in [Node -> Store]
      /\ crashes \in [Node -> Nat] /\ faults \in [Node -> Nat]
  BY <1>i, BaseTypes, Zenon
<1>1. \A i \in 1 .. commitIndex + 1 : ref'[i] = ref[i]
  BY <1>i, HistoryStable, Zenon
<1>2. CASE UNCHANGED <<applied, store, crashes, faults>>
  <2>1. ASSUME NEW m \in Node PROVE Prefix(applied[m])' = Prefix(applied[m])
    BY <1>1, <1>2, <1>t DEF Prefix
  <2> QED BY <1>2, <1>i, <2>1, Zenon DEF ReplicaAgreement
<1>3. ASSUME NEW n \in Node, advanceChain(n) PROVE ReplicaAgreement'
  <2>1. /\ UNCHANGED <<applied, store, crashes, ref>>
        /\ faults' = faults \/ faults' = [faults EXCEPT ![n] = @ + 1]
    BY <1>3 DEF advanceChain
  <2>2. \A m \in Node : faults'[m] = 0 => faults[m] = 0
    BY <1>t, <2>1
  <2> QED BY <1>i, <2>1, <2>2, ZenonT(60) DEF ReplicaAgreement, Prefix
<1>4. ASSUME NEW n \in Node, Apply(n) PROVE ReplicaAgreement'
  <2>1. /\ applied[n] + 1 \in 1 .. commitIndex
        /\ log[applied[n] + 1].cmd # Noop
    <3>1. pc[n] = "chained"
      BY <1>4, Zenon DEF Apply
    <3>2. applied[n] < commitIndex /\ NextEntry(n).cmd # Noop
      BY <1>i, <3>1 DEF Base, Chained
    <3>3. applied[n] \in 0 .. commitIndex
      BY <1>t, SMTT(60)
    <3> QED BY <1>t, <3>2, <3>3, SMTT(60) DEF NextEntry
  <2>2. /\ applied' = [applied EXCEPT ![n] = @ + 1]
        /\ UNCHANGED <<crashes, ref>>
    BY <1>4 DEF Apply
  <2>3. \/ /\ store' = [store EXCEPT ![n] = Exec(@, log[applied[n] + 1].cmd,
                                              applied[n] + 1, clock[n])]
           /\ faults' = faults
        \/ store' = store /\ faults' = [faults EXCEPT ![n] = @ + 1]
    BY <1>4 DEF Apply, NextEntry
  <2>4. Exec(Prefix(applied[n]).store, log[applied[n] + 1].cmd, applied[n] + 1,
             clock[n]) = Prefix(applied[n] + 1).store
    <3>1. (applied[n] + 1) - 1 = applied[n] /\ clock[n] \in Nat
      BY <1>t
    <3>2. Exec(Prefix((applied[n] + 1) - 1).store, log[applied[n] + 1].cmd,
               applied[n] + 1, clock[n]) = Prefix(applied[n] + 1).store
      BY <1>i, <2>1, <3>1, ExecNext, Zenon
    <3> QED BY <3>1, <3>2, Zenon
  <2>5. ASSUME NEW m \in Node, crashes'[m] = 0, faults'[m] = 0
        PROVE  store'[m] = Prefix(applied'[m]).store
    <3>1. CASE m # n
      BY <1>i, <1>t, <2>2, <2>3, <2>5, <3>1 DEF ReplicaAgreement
    <3>2. CASE m = n
      <4>1. /\ faults' = faults /\ faults[n] = 0 /\ crashes[n] = 0
            /\ applied'[n] = applied[n] + 1
            /\ store'[n] = Exec(store[n], log[applied[n] + 1].cmd,
                                 applied[n] + 1, clock[n])
        BY <1>t, <2>2, <2>3, <2>5, <3>2, SMTT(60)
      <4>2. store[n] = Prefix(applied[n]).store
        BY <1>i, <4>1 DEF ReplicaAgreement
      <4> QED BY <2>4, <3>2, <4>1, <4>2, Zenon
    <3> QED BY <3>1, <3>2, Zenon
  <2> QED BY <2>2, <2>5, Zenon DEF ReplicaAgreement, Prefix
<1>5. ASSUME NEW n \in Node, SkipNoop(n) PROVE ReplicaAgreement'
  <2>1. /\ applied[n] + 1 \in 1 .. commitIndex
        /\ log[applied[n] + 1].cmd = Noop
        /\ applied' = [applied EXCEPT ![n] = @ + 1]
        /\ UNCHANGED <<store, crashes, faults, ref>>
    BY <1>5, <1>t DEF SkipNoop, FsmReady, NextEntry, envVars
  <2>2. ref[(applied[n] + 1) + 1] = ref[applied[n] + 1]
    BY <1>i, <2>1, Zenon DEF RefInv, Outcome
  <2>3. \A m \in Node : Prefix(applied'[m]) = Prefix(applied[m])
    BY <1>t, <2>1, <2>2, SMTT(60) DEF Prefix
  <2> QED BY <1>i, <2>1, <2>3, Zenon DEF ReplicaAgreement, Prefix
<1>6. ASSUME NEW n \in Node, Restart(n) PROVE ReplicaAgreement'
  <2>1. /\ applied' = [applied EXCEPT ![n] = 0]
        /\ crashes' = [crashes EXCEPT ![n] = @ + 1]
        /\ UNCHANGED <<store, faults, ref>>
    BY <1>6 DEF Restart
  <2>2. ASSUME NEW m \in Node, crashes'[m] = 0
        PROVE  crashes[m] = 0 /\ applied'[m] = applied[m]
    BY <1>t, <2>1, <2>2
  <2> QED BY <1>i, <2>1, <2>2, SMTT(60) DEF ReplicaAgreement, Prefix
<1>7. ASSUME NEW n \in Node,
             \/ LeaderElected(n) \/ Tick(n) \/ ReclaimScan(n)
             \/ ReclaimPropose(n) \/ ReclaimAbandon(n)
      PROVE  ReplicaAgreement'
  BY <1>2, <1>7, Zenon DEF LeaderElected, Tick, ReclaimScan, ReclaimPropose,
                    ReclaimAbandon, fsmVars, envVars
<1>8. ASSUME NEW n \in Node, NEW r \in Requests, Propose(n, r)
      PROVE  ReplicaAgreement'
  BY <1>2, <1>8 DEF Propose, fsmVars, envVars
<1>9. CASE Commit \/ UNCHANGED vars
  BY <1>2, <1>9 DEF Commit, vars, fsmVars, envVars
<1> QED BY <1>3, <1>4, <1>5, <1>6, <1>7, <1>8, <1>9 DEF Next

\* Nodes apply entries at different times, with clocks that disagree, and still
\* hold the store the log defines, for as long as they do not restart.
THEOREM ReplicaAgreementHolds == Spec => []ReplicaAgreement
<1>1. AgreeInv => ReplicaAgreement
  BY DEF AgreeInv
<1> QED BY AgreeInit, AgreeStep, <1>1, PTL DEF Spec

-----------------------------------------------------------------------------
(***************************************************************************)
(* Replay.  A restarted node re-executes the log over the store it kept.    *)
(* The requests for which that is harmless: a touch or an increment that is *)
(* executed twice counts twice, and a compare-and-set on a version that is  *)
(* not 0 may find that version the second time only.                        *)
(***************************************************************************)
ReplayableRequest(r) ==
  /\ r.op \in {"put", "batch", "remove"}
  /\ r.op = "put" /\ r.cas => r.version = 0

Replayable == \A r \in Requests : ReplayableRequest(r)

\* No client sends put-if-absent.
Unconditional == \A r \in Requests : r.op = "put" => ~r.cas

\* The command leaves key k in a state that does not depend on the one before.
Overwrites(cmd, k) ==
  \/ cmd.op = "put" /\ ~cmd.cas /\ cmd.key = k
  \/ cmd.op = "remove" /\ cmd.key = k
  \/ /\ cmd.op = "batch"
     /\ BatchAccepted(cmd.records)
     /\ \E i \in DOMAIN cmd.records : IsLastWrite(cmd.records, k, i)

\* The command is a sweep that names version v of key k.
Sweeps(cmd, k, v) ==
  cmd.op = "reclaim" /\ [key |-> k, version |-> v] \in cmd.entries

\* What a replayable command or a sweep does to one key depends on that key
\* only, and not even on that when it overwrites the key.
LEMMA ExecLocal ==
  ASSUME NEW db \in Store, NEW other \in Store, NEW cmd \in Command,
         cmd.op = "reclaim" \/ ReplayableRequest(cmd),
         NEW cv \in Nat \ {0}, NEW t \in Nat, NEW k \in Key,
         db[k] = other[k] \/ Overwrites(cmd, k)
  PROVE  Exec(db, cmd, cv, t)[k] = Exec(other, cmd, cv, t)[k]
<1>k. k # NilKey
  BY StorageAssumption
<1>1. CASE cmd \in PutRequest /\ cmd.op = "put"
  <2>1. /\ Exec(db, cmd, cv, t) = Put(db, cmd, cv, t)
        /\ Exec(other, cmd, cv, t) = Put(other, cmd, cv, t)
    BY <1>1, ExecCases
  <2>2. CASE cmd.key # k
    <3>1. ASSUME NEW d \in Store PROVE Put(d, cmd, cv, t)[k] = d[k]
      BY <2>2 DEF Put, Store
    <3>2. ~Overwrites(cmd, k)
      BY <1>1, <2>2 DEF Overwrites
    <3> QED BY <2>1, <3>1, <3>2, Zenon
  <2>3. CASE cmd.key = k
    <3>1. PutAccepted(db, cmd) <=> PutAccepted(other, cmd)
      BY <1>1, <1>k, <2>3 DEF PutAccepted, CasHolds, Overwrites
    <3>2. CASE ~PutAccepted(db, cmd)
      <4>1. ~Overwrites(cmd, k)
        BY <1>1, <1>k, <2>3, <3>2 DEF PutAccepted, CasHolds, Overwrites
      <4> QED BY <2>1, <3>1, <3>2, <4>1 DEF Put
    <3>3. CASE PutAccepted(db, cmd)
      BY <2>1, <2>3, <3>1, <3>3 DEF Put, NextVersion, Store
    <3> QED BY <3>2, <3>3, Zenon
  <2> QED BY <2>2, <2>3, Zenon
<1>2. CASE cmd \in RemoveRequest /\ cmd.op = "remove"
  <2>1. /\ Exec(db, cmd, cv, t) = Remove(db, cmd)
        /\ Exec(other, cmd, cv, t) = Remove(other, cmd)
    BY <1>2, ExecCases
  <2>2. Overwrites(cmd, k) => cmd.key = k
    BY <1>2 DEF Overwrites
  <2> QED BY <1>k, <2>1, <2>2 DEF Remove, Store
<1>3. CASE cmd \in BatchRequest /\ cmd.op = "batch"
  <2>1. /\ Exec(db, cmd, cv, t) = SetBatch(db, cmd, cv, t)
        /\ Exec(other, cmd, cv, t) = SetBatch(other, cmd, cv, t)
    BY <1>3, ExecCases
  <2>2. Overwrites(cmd, k) <=>
          /\ BatchAccepted(cmd.records)
          /\ \E i \in DOMAIN cmd.records : IsLastWrite(cmd.records, k, i)
    BY <1>3 DEF Overwrites
  <2>3. CASE Overwrites(cmd, k)
    <3> DEFINE last == cmd.records[CHOOSE i \in DOMAIN cmd.records :
                                     IsLastWrite(cmd.records, k, i)]
    <3>1. ASSUME NEW d \in Store
          PROVE  SetBatch(d, cmd, cv, t)[k] =
                   [version   |-> cv,
                    expiresAt |-> resolveExpiry(last.ttl, last.expiresAt, t),
                    value     |-> last.value]
      BY <2>2, <2>3 DEF SetBatch
    <3> HIDE DEF last
    <3> QED BY <2>1, <3>1, Zenon
  <2>4. CASE ~Overwrites(cmd, k)
    <3>1. ASSUME NEW d \in Store PROVE SetBatch(d, cmd, cv, t)[k] = d[k]
      BY <2>2, <2>4, Zenon DEF SetBatch
    <3> QED BY <2>1, <2>4, <3>1, Zenon
  <2> QED BY <2>3, <2>4, Zenon
<1>4. CASE cmd \in ReclaimRequest /\ cmd.op = "reclaim"
  <2>1. /\ Exec(db, cmd, cv, t) = Reclaim(db, cmd)
        /\ Exec(other, cmd, cv, t) = Reclaim(other, cmd)
    BY <1>4, ExecCases
  <2>2. ~Overwrites(cmd, k)
    BY <1>4 DEF Overwrites
  <2> QED BY <2>1, <2>2 DEF Reclaim, Reclaims
<1> QED BY <1>1, <1>2, <1>3, <1>4, CommandCases DEF ReplayableRequest

\* The effect of a sweep, at one key.
SweptAt(db, cmd, cv, t, k) ==
  /\ db[k] = Absent => Exec(db, cmd, cv, t)[k] = Absent
  /\ db[k] # Absent /\ Sweeps(cmd, k, db[k].version) => Exec(db, cmd, cv, t)[k] = Absent
  /\ ~Sweeps(cmd, k, db[k].version) => Exec(db, cmd, cv, t)[k] = db[k]

\* A sweep removes the version it names and nothing else.
LEMMA SweepsKey ==
  ASSUME NEW db \in Store, NEW cmd, cmd.op = "reclaim", NEW cv, NEW t, NEW k \in Key
  PROVE  SweptAt(db, cmd, cv, t, k)
<1>1. Exec(db, cmd, cv, t)[k] = Reclaim(db, cmd)[k]
  BY ExecCases
<1>2. Reclaims(db, cmd, k) <=> db[k] # Absent /\ Sweeps(cmd, k, db[k].version)
  BY Zenon DEF Reclaims, Sweeps, StoredVersion
<1> QED BY <1>1, <1>2, Zenon DEF Reclaim, SweptAt

\* A replayable request that does not overwrite a key leaves a record there
\* alone, and leaves the key absent unless it is a put-if-absent.
LEMMA IdleEffect ==
  ASSUME NEW db \in Store, NEW cmd \in Command, ReplayableRequest(cmd),
         NEW cv \in Nat \ {0}, NEW t \in Nat, NEW k \in Key,
         ~Overwrites(cmd, k),
         \/ db[k] # Absent /\ db[k].version # 0
         \/ ~(cmd.op = "put" /\ cmd.cas)
  PROVE  Exec(db, cmd, cv, t)[k] = db[k]
<1>1. CASE cmd \in PutRequest /\ cmd.op = "put"
  <2>1. Exec(db, cmd, cv, t) = Put(db, cmd, cv, t)
    BY <1>1, ExecCases
  <2>2. CASE cmd.key # k
    BY <2>1, <2>2 DEF Put, Store
  <2>3. CASE cmd.key = k
    <3>1. cmd.cas /\ cmd.version = 0
      BY <1>1, <2>3 DEF Overwrites, ReplayableRequest
    <3>2. ~PutAccepted(db, cmd)
      BY <1>1, <2>3, <3>1 DEF PutAccepted, CasHolds, StoredVersion
    <3> QED BY <2>1, <3>2 DEF Put
  <2> QED BY <2>2, <2>3, Zenon
<1>2. CASE cmd \in RemoveRequest /\ cmd.op = "remove"
  <2>1. Exec(db, cmd, cv, t) = Remove(db, cmd)
    BY <1>2, ExecCases
  <2>2. cmd.key # k
    BY <1>2 DEF Overwrites
  <2> QED BY <2>1, <2>2 DEF Remove, Store
<1>3. CASE cmd \in BatchRequest /\ cmd.op = "batch"
  <2>1. Exec(db, cmd, cv, t) = SetBatch(db, cmd, cv, t)
    BY <1>3, ExecCases
  <2>2. ~(/\ BatchAccepted(cmd.records)
          /\ \E i \in DOMAIN cmd.records : IsLastWrite(cmd.records, k, i))
    BY <1>3 DEF Overwrites
  <2> QED BY <2>1, <2>2, Zenon DEF SetBatch
<1> QED BY <1>1, <1>2, <1>3, CommandCases DEF ReplayableRequest

(***************************************************************************)
(* What the log holds when clients send replayable requests: those, stamped, *)
(* and sweeps, which name versions that were committed before them.         *)
(***************************************************************************)
ReplayableEntry(cmd, i) ==
  \/ /\ ReplayableRequest(cmd)
     /\ Unconditional => ~(cmd.op = "put" /\ cmd.cas)
  \/ cmd.op = "reclaim" /\ \A e \in cmd.entries : e.version < i

LogReplayable ==
  \A i \in 1 .. Len(log) : log[i].cmd # Noop => ReplayableEntry(log[i].cmd, i)

\* The same three facts in the form in which they are cited.
LeftAlone(db, cmd, cv, t, k) == Exec(db, cmd, cv, t)[k] = db[k]

Alike(db, other, cmd, cv, t, k) == Exec(db, cmd, cv, t)[k] = Exec(other, cmd, cv, t)[k]

Stays(envelope, cmd) ==
  \/ envelope # Absent /\ envelope.version # 0
  \/ ~(cmd.op = "put" /\ cmd.cas)

\* A request that does not overwrite a key, at that key.
LEMMA LeavesKey ==
  ASSUME NEW db \in Store, NEW cmd \in Command, ReplayableRequest(cmd),
         NEW cv \in Nat \ {0}, NEW t \in Nat, NEW k \in Key,
         ~Overwrites(cmd, k), Stays(db[k], cmd)
  PROVE  LeftAlone(db, cmd, cv, t, k)
BY IdleEffect DEF LeftAlone, Stays

\* Stores that agree at a key, or a request that overwrites it.
LEMMA AlikeAtKey ==
  ASSUME NEW db \in Store, NEW other \in Store, NEW cmd \in Command,
         cmd.op = "reclaim" \/ ReplayableRequest(cmd),
         NEW cv \in Nat \ {0}, NEW t \in Nat, NEW k \in Key,
         db[k] = other[k] \/ Overwrites(cmd, k)
  PROVE  Alike(db, other, cmd, cv, t, k)
BY ExecLocal DEF Alike

\* No store and no pending sweep has a version that is not committed.
VersionsCommitted ==
  \A n \in Node :
    /\ \A k \in Key : store[n][k] # Absent => store[n][k].version <= commitIndex
    /\ \A e \in sweep[n] : e.version <= commitIndex

LEMMA StampReplayable ==
  ASSUME NEW r \in ClientRequest, ReplayableRequest(r), NEW now \in Nat
  PROVE  /\ ReplayableRequest(Stamp(r, now))
         /\ Stamp(r, now).op = "put" => r.op = "put" /\ Stamp(r, now).cas = r.cas
<1>1. CASE r \in PutRequest
  <2>1. r.op = "put" /\ Stamp(r, now) = StampExpiry(r, now)
    BY <1>1 DEF Stamp, PutRequest
  <2>2. /\ StampExpiry(r, now).op = r.op /\ StampExpiry(r, now).cas = r.cas
        /\ StampExpiry(r, now).version = r.version
    BY <1>1 DEF StampExpiry, PutRequest
  <2> QED BY <2>1, <2>2 DEF ReplayableRequest
<1>2. CASE r \in RemoveRequest
  BY <1>2 DEF Stamp, RemoveRequest, ReplayableRequest
<1>3. CASE r \in BatchRequest
  <2>1. r.op = "batch"
    BY <1>3 DEF BatchRequest
  <2>2. Stamp(r, now).op = "batch"
    BY <1>3, <2>1 DEF Stamp, BatchRequest
  <2> QED BY <2>2 DEF ReplayableRequest
<1>4. r \in PutRequest \cup RemoveRequest \cup BatchRequest
  BY DEF ReplayableRequest, ClientRequest, TouchRequest, IncrementRequest
<1> QED BY <1>1, <1>2, <1>3, <1>4, Zenon

LEMMA LogReplayableStep ==
  ASSUME Replayable, Base, LogReplayable, VersionsCommitted, [Next]_vars
  PROVE  LogReplayable'
<1> SUFFICES ASSUME NEW i \in 1 .. Len(log'), log'[i].cmd # Noop
             PROVE  ReplayableEntry(log'[i].cmd, i)
  BY Zenon DEF LogReplayable, ReplayableEntry
<1>0. /\ commitIndex \in Nat /\ Len(log) \in Nat /\ commitIndex <= Len(log)
      /\ log' \in Seq(Entry) /\ i \in Nat \ {0}
      /\ clock \in [Node -> Nat] /\ sweep \in [Node -> SUBSET ReclaimEntry]
  <2>1. /\ commitIndex \in 0 .. Len(log) /\ Len(log) \in Nat /\ log' \in Seq(Entry)
        /\ clock \in [Node -> Nat] /\ sweep \in [Node -> SUBSET ReclaimEntry]
    BY BaseTypes, HistoryStable, Zenon
  <2>2. commitIndex \in Nat /\ commitIndex <= Len(log) /\ i \in Nat \ {0}
    BY <2>1
  <2> QED BY <2>1, <2>2, Zenon
<1>1. CASE i \in 1 .. Len(log) /\ log'[i] = log[i]
  BY <1>1, Zenon DEF LogReplayable
<1>2. CASE \E n \in Node, r \in Requests : log'[i].cmd = Stamp(r, clock[n])
  <2>1. PICK n \in Node, r \in Requests : log'[i].cmd = Stamp(r, clock[n])
    BY <1>2
  <2>2. clock[n] \in Nat /\ r \in ClientRequest /\ ReplayableRequest(r)
    BY <1>0, ReplicationAssumption, Zenon DEF Replayable
  <2>3. /\ ReplayableRequest(Stamp(r, clock[n]))
        /\ Stamp(r, clock[n]).op = "put" =>
             r.op = "put" /\ Stamp(r, clock[n]).cas = r.cas
    BY <2>2, StampReplayable, Zenon
  <2> QED BY <2>1, <2>3, Zenon DEF ReplayableEntry, Unconditional
<1>3. CASE \E n \in Node : log'[i].cmd = [op |-> "reclaim", entries |-> sweep[n]]
  <2>1. PICK n \in Node : log'[i].cmd = [op |-> "reclaim", entries |-> sweep[n]]
    BY <1>3
  <2>2. CASE i <= commitIndex
    <3>1. i \in 1 .. commitIndex /\ i \in 1 .. Len(log)
      BY <1>0, <2>2
    <3>2. log'[i] = log[i]
      BY <3>1, HistoryStable, Zenon
    <3> QED BY <1>1, <3>1, <3>2, Zenon
  <2>3. CASE ~(i <= commitIndex)
    <3>1. ASSUME NEW e \in sweep[n] PROVE e.version < i
      <4>1. e.version <= commitIndex
        BY Zenon DEF VersionsCommitted
      <4>2. e \in ReclaimEntry
        BY <1>0, Zenon
      <4>3. e.version \in Nat
        BY <4>2 DEF ReclaimEntry
      <4> QED BY <1>0, <2>3, <4>1, <4>3
    <3>2. log'[i].cmd.op = "reclaim" /\ log'[i].cmd.entries = sweep[n]
      BY <2>1
    <3> QED BY <3>1, <3>2, Zenon DEF ReplayableEntry
  <2> QED BY <2>2, <2>3, Zenon
<1> QED BY <1>1, <1>2, <1>3, NewEntries, Zenon

LEMMA VersionsCommittedStep ==
  ASSUME Base, LogStamped, VersionsCommitted, [Next]_vars
  PROVE  VersionsCommitted'
<1>t. /\ commitIndex \in Nat /\ commitIndex' \in Nat /\ commitIndex <= commitIndex'
      /\ store \in [Node -> Store] /\ sweep \in [Node -> SUBSET ReclaimEntry]
      /\ clock \in [Node -> Nat] /\ applied \in [Node -> 0 .. commitIndex]
  BY BaseTypes, HistoryStable, Zenon
<1>1. ASSUME NEW v \in Nat, v <= commitIndex PROVE v <= commitIndex'
  BY <1>1, <1>t
<1>2. ASSUME NEW n \in Node, NEW k \in Key, store[n][k] # Absent
      PROVE  store[n][k].version \in Nat /\ store[n][k].version <= commitIndex
  <2>1. store[n] \in Store
    BY <1>t, Zenon
  <2>2. store[n][k] \in Envelope
    BY <1>2, <2>1 DEF Store
  <2>3. store[n][k].version <= commitIndex
    BY <1>2, Zenon DEF VersionsCommitted
  <2> QED BY <2>2, <2>3 DEF Envelope
<1>3. ASSUME NEW n \in Node, NEW e \in sweep[n]
      PROVE  e.version \in Nat /\ e.version <= commitIndex
  <2>1. e \in ReclaimEntry
    BY <1>t, Zenon
  <2>2. e.version \in Nat
    BY <2>1 DEF ReclaimEntry
  <2> QED BY <2>2, Zenon DEF VersionsCommitted
<1>4. CASE /\ store' = store
           /\ sweep' = sweep \/ \E n \in Node : sweep' = [sweep EXCEPT ![n] = {}]
  <2>1. ASSUME NEW n \in Node, NEW e \in sweep'[n] PROVE e \in sweep[n]
    BY <1>4, <1>t, <2>1
  <2> QED BY <1>1, <1>2, <1>3, <1>4, <2>1, Zenon DEF VersionsCommitted
<1>5. ASSUME NEW n \in Node, ReclaimScan(n) PROVE VersionsCommitted'
  <2>1. PICK found \in ScanExpired(store[n], clock[n], Limit) :
          sweep' = [sweep EXCEPT ![n] = found]
    BY <1>5, Zenon DEF ReclaimScan
  <2>2. store' = store /\ store[n] \in Store
    BY <1>5, <1>t, Zenon DEF ReclaimScan, fsmVars
  <2>3. \A e \in found : /\ e \in ReclaimEntry
                         /\ store[n][e.key] # Absent
                         /\ e.version = store[n][e.key].version
    BY <2>2, ScanExpiredType
  <2>4. \A e \in found : e.key \in Key /\ e.version \in Nat
    BY <2>3 DEF ReclaimEntry
  <2>5. \A e \in found : e.version \in Nat /\ e.version <= commitIndex
    BY <1>2, <2>3, <2>4, Zenon
  <2>6. ASSUME NEW m \in Node, NEW e \in sweep'[m]
        PROVE  e.version \in Nat /\ e.version <= commitIndex
    <3>1. e \in sweep[m] \/ e \in found
      BY <1>t, <2>1, <2>6
    <3> QED BY <1>3, <2>5, <3>1, Zenon
  <2> QED BY <1>1, <1>2, <2>2, <2>6, Zenon DEF VersionsCommitted
<1>6. ASSUME NEW n \in Node, Apply(n) PROVE VersionsCommitted'
  <2> DEFINE new == Exec(store[n], NextEntry(n).cmd, applied[n] + 1, clock[n])
  <2>1. /\ sweep' = sweep
        /\ store' = store \/ store' = [store EXCEPT ![n] = new]
        /\ pc[n] = "chained"
    BY <1>6 DEF Apply
  <2>2. applied[n] < commitIndex /\ NextEntry(n).cmd # Noop
    BY <2>1, Zenon DEF Base, Chained
  <2>3. NextEntry(n).cmd \in Command /\ applied[n] + 1 \in 1 .. commitIndex
    BY <2>2, NextEntryType, Zenon
  <2>4. applied[n] + 1 \in Nat \ {0} /\ applied[n] + 1 <= commitIndex
        /\ applied[n] + 1 \in 1 .. Len(log)
    <3>1. commitIndex \in 0 .. Len(log) /\ Len(log) \in Nat
      BY BaseTypes, Zenon
    <3> QED BY <2>3, <3>1
  <2>5. Stamped(NextEntry(n).cmd)
    BY <2>2, <2>4, Zenon DEF LogStamped, NextEntry
  <2>6. store[n] \in Store /\ clock[n] \in Nat
    BY <1>t, Zenon
  <2>7. ASSUME NEW k \in Key, new[k] # Absent
        PROVE  new[k].version \in Nat /\ new[k].version <= commitIndex
    <3>1. \/ new[k] = store[n][k] \/ new[k] = Absent
          \/ WrittenBy(new[k], NextEntry(n).cmd, k, applied[n] + 1)
      BY <2>3, <2>4, <2>5, <2>6, ExecEffect, Zenon
    <3> HIDE DEF new
    <3> QED BY <1>2, <2>4, <2>7, <3>1 DEF WrittenBy
  <2> HIDE DEF new
  <2>8. ASSUME NEW m \in Node, NEW k \in Key, store'[m][k] # Absent
        PROVE  store'[m][k].version \in Nat /\ store'[m][k].version <= commitIndex
    <3>1. store'[m] = store[m] \/ store'[m] = new
      BY <1>t, <2>1, Zenon
    <3> QED BY <1>2, <2>7, <2>8, <3>1, Zenon
  <2> QED BY <1>1, <1>3, <2>1, <2>8, Zenon DEF VersionsCommitted
<1>7. ASSUME NEW n \in Node,
             \/ LeaderElected(n) \/ Tick(n) \/ advanceChain(n) \/ SkipNoop(n)
             \/ Restart(n) \/ ReclaimPropose(n) \/ ReclaimAbandon(n)
      PROVE  VersionsCommitted'
  BY <1>4, <1>7, Zenon DEF LeaderElected, Tick, advanceChain, SkipNoop, Restart,
                    ReclaimPropose, ReclaimAbandon, fsmVars
<1>8. ASSUME NEW n \in Node, NEW r \in Requests, Propose(n, r)
      PROVE  VersionsCommitted'
  BY <1>4, <1>8, Zenon DEF Propose, fsmVars
<1>9. CASE Commit \/ UNCHANGED vars
  BY <1>4, <1>9, Zenon DEF Commit, vars, fsmVars
<1> QED BY <1>5, <1>6, <1>7, <1>8, <1>9, Zenon DEF Next

(***************************************************************************)
(* What the outcomes of two prefixes have to do with each other, key by     *)
(* key.  A record carries the index of the entry that wrote it and has been *)
(* there since; and a record that is gone was overwritten, removed or swept *)
(* by an entry in between.                                                  *)
(***************************************************************************)
Pending(k, a, top) == \E j \in a + 1 .. top : Overwrites(log[j].cmd, k)

Swept(k, a, top) ==
  \E j \in a + 1 .. top : Sweeps(log[j].cmd, k, Prefix(a).store[k].version)

Since(k, i, v) ==
  /\ v \in 1 .. i /\ log[v].cmd # Noop
  /\ \A j \in v .. i : Prefix(j).store[k] = Prefix(i).store[k]

RefSettled ==
  \A i \in 0 .. commitIndex : \A k \in Key :
    Prefix(i).store[k] # Absent => Since(k, i, Prefix(i).store[k].version)

RefLasting ==
  \A j \in 0 .. commitIndex : \A i \in 0 .. j : \A k \in Key :
    Prefix(i).store[k] # Absent =>
      \/ Prefix(j).store[k] = Prefix(i).store[k]
      \/ Pending(k, i, j)
      \/ Swept(k, i, j)

\* What a commit adds to the outcomes.
LEMMA CommitOutcome ==
  ASSUME Base, LogStamped, Commit
  PROVE  LET c == commitIndex + 1
             cmd == log[c].cmd
         IN /\ commitIndex' = c /\ log' = log /\ c \in 1 .. Len(log)
            /\ c \in Nat \ {0}
            /\ ref[c].store \in Store /\ ref'[c + 1].store \in Store
            /\ cmd = Noop => ref'[c + 1].store = ref[c].store
            /\ cmd # Noop =>
                 /\ cmd \in Command /\ Stamped(cmd)
                 /\ ref'[c + 1].store = Exec(ref[c].store, cmd, c, 0)
<1> DEFINE c == commitIndex + 1
           o == Outcome(ref[c], c, log[c])
<1>0. /\ log \in Seq(Entry) /\ Len(log) \in Nat /\ commitIndex \in Nat
      /\ ref \in Seq(Result) /\ Len(ref) = c
  BY BaseTypes, Zenon
<1>1. commitIndex' = c /\ log' = log /\ commitIndex < Len(log) /\ ref' = Append(ref, o)
  BY Zenon DEF Commit, Prefix
<1>2. c \in 1 .. Len(log) /\ c \in DOMAIN log /\ c \in DOMAIN ref /\ c \in Nat \ {0}
  BY <1>0, <1>1
<1>3. log[c] \in Entry /\ ref[c] \in Result
  BY <1>0, <1>2, SeqElement, Zenon
<1>4. o \in Result
  BY <1>2, <1>3, OutcomeType, Zenon
<1>5. ref'[c + 1] = o
  <2> HIDE DEF o
  <2> QED BY <1>0, <1>1, <1>4, AppendFacts
<1>6. ref[c].store \in Store /\ o.store \in Store
  BY <1>3, <1>4, Zenon DEF Result
<1>7. log[c].cmd # Noop => log[c].cmd \in Command /\ Stamped(log[c].cmd)
  BY <1>2, <1>3 DEF Entry, LogStamped
<1>8. log[c].cmd # Noop => o.store = Exec(ref[c].store, log[c].cmd, c, 0)
  BY DEF Outcome
<1>9. log[c].cmd = Noop => o.store = ref[c].store
  BY DEF Outcome
<1> HIDE DEF o
<1> QED BY <1>1, <1>2, <1>5, <1>6, <1>7, <1>8, <1>9, Zenon

LEMMA SettledStep ==
  ASSUME Base, LogStamped, RefSettled, [Next]_vars
  PROVE  RefSettled'
<1> SUFFICES ASSUME NEW i \in 0 .. commitIndex', NEW k \in Key,
                    ref'[i + 1].store[k] # Absent
             PROVE  LET v == ref'[i + 1].store[k].version IN
                    /\ v \in 1 .. i /\ log'[v].cmd # Noop
                    /\ \A j \in v .. i : ref'[j + 1].store[k] = ref'[i + 1].store[k]
  BY Zenon DEF RefSettled, Since, Prefix
<1>0. /\ commitIndex \in Nat /\ commitIndex' \in Nat
      /\ \A j \in 1 .. commitIndex + 1 : ref'[j] = ref[j]
      /\ \A j \in 1 .. commitIndex : log'[j] = log[j]
  BY BaseTypes, HistoryStable, Zenon
<1>1. ASSUME NEW h \in 0 .. commitIndex, ref[h + 1].store[k] # Absent
      PROVE  LET v == ref[h + 1].store[k].version IN
             /\ v \in 1 .. h /\ log'[v].cmd # Noop
             /\ \A j \in v .. h : ref'[j + 1].store[k] = ref'[h + 1].store[k]
  <2> DEFINE v == ref[h + 1].store[k].version
  <2>1. /\ v \in 1 .. h /\ log[v].cmd # Noop
        /\ \A j \in v .. h : ref[j + 1].store[k] = ref[h + 1].store[k]
    BY <1>1, Zenon DEF RefSettled, Since, Prefix
  <2>2. v \in 1 .. commitIndex /\ \A j \in v .. h : j + 1 \in 1 .. commitIndex + 1
    <3> HIDE DEF v
    <3>1. v \in 1 .. h /\ commitIndex \in Nat
      BY <1>0, <2>1, Zenon
    <3> QED BY <3>1
  <2>3. h + 1 \in 1 .. commitIndex + 1
    BY <1>0
  <2> HIDE DEF v
  <2>4. \A j \in v .. h : ref'[j + 1].store[k] = ref'[h + 1].store[k]
    BY <1>0, <2>1, <2>2, <2>3, Zenon
  <2> QED BY <1>0, <2>1, <2>2, <2>4, Zenon DEF v
<1>2. CASE i \in 0 .. commitIndex
  <2>1. ref'[i + 1] = ref[i + 1]
    <3>1. i + 1 \in 1 .. commitIndex + 1
      BY <1>0, <1>2
    <3> QED BY <1>0, <3>1, Zenon
  <2> QED BY <1>1, <1>2, <2>1, Zenon
<1>3. CASE i \notin 0 .. commitIndex
  <2> DEFINE c == commitIndex + 1
             new == ref'[c + 1].store[k]
             old == ref[c].store[k]
  <2>1. Commit
    BY <1>0, <1>3, OnlyCommitCommits
  <2>2. /\ commitIndex' = c /\ log' = log /\ c \in Nat \ {0}
        /\ ref[c].store \in Store
        /\ log[c].cmd = Noop => ref'[c + 1].store = ref[c].store
        /\ log[c].cmd # Noop =>
             /\ log[c].cmd \in Command /\ Stamped(log[c].cmd)
             /\ ref'[c + 1].store = Exec(ref[c].store, log[c].cmd, c, 0)
    BY <2>1, CommitOutcome, Zenon
  <2>3. i = c
    <3>1. i \in 0 .. c /\ commitIndex \in Nat
      BY <1>0, <2>2, Zenon
    <3> QED BY <1>3, <3>1
  <2>4. new = old \/ (new.version = c /\ log[c].cmd # Noop)
    <3>1. CASE log[c].cmd = Noop
      BY <2>2, <3>1, Zenon
    <3>2. CASE log[c].cmd # Noop
      <4>1. 0 \in Nat
        OBVIOUS
      <4>2. \/ new = old \/ new = Absent \/ WrittenBy(new, log[c].cmd, k, c)
        <5> HIDE DEF c
        <5>1. LET n == Exec(ref[c].store, log[c].cmd, c, 0)[k]
              IN  \/ n = ref[c].store[k] \/ n = Absent
                  \/ WrittenBy(n, log[c].cmd, k, c)
          BY <2>2, <3>2, <4>1, ExecEffect, Zenon
        <5> QED BY <2>2, <3>2, <5>1, Zenon
      <4> QED BY <2>3, <3>2, <4>2, Zenon DEF WrittenBy
    <3> QED BY <3>1, <3>2, Zenon
  <2>5. CASE new = old
    <3> DEFINE v == old.version
    <3>1. /\ v \in 1 .. commitIndex /\ log'[v].cmd # Noop
          /\ \A j \in v .. commitIndex : ref'[j + 1].store[k] = ref'[c].store[k]
      <4>1. commitIndex \in 0 .. commitIndex
        BY <1>0
      <4> QED BY <1>1, <2>3, <2>5, <4>1, Zenon
    <3>2. ref'[c] = ref[c]
      <4>1. c \in 1 .. commitIndex + 1
        BY <1>0
      <4> QED BY <1>0, <4>1, Zenon
    <3>3. \A j \in v .. c : j \in v .. commitIndex \/ j = c
      BY <1>0, <3>1
    <3>4. v \in 1 .. c
      BY <1>0, <3>1
    <3>5. \A j \in v .. c : ref'[j + 1].store[k] = new
      BY <2>5, <3>1, <3>2, <3>3, Zenon
    <3> QED BY <2>3, <2>5, <3>1, <3>4, <3>5, Zenon
  <2>6. CASE new.version = c /\ log[c].cmd # Noop
    <3>1. c \in 1 .. c /\ \A j \in c .. c : j = c
      BY <2>2
    <3> QED BY <2>2, <2>3, <2>6, <3>1, Zenon
  <2> QED BY <2>4, <2>5, <2>6, Zenon
<1> QED BY <1>2, <1>3, Zenon

LEMMA LastingStep ==
  ASSUME Base, LogStamped, LogReplayable, RefSettled, RefLasting, [Next]_vars
  PROVE  RefLasting'
<1> SUFFICES ASSUME NEW j \in 0 .. commitIndex', NEW i \in 0 .. j, NEW k \in Key,
                    ref'[i + 1].store[k] # Absent
             PROVE  \/ ref'[j + 1].store[k] = ref'[i + 1].store[k]
                    \/ \E m \in i + 1 .. j : Overwrites(log'[m].cmd, k)
                    \/ \E m \in i + 1 .. j :
                         Sweeps(log'[m].cmd, k, ref'[i + 1].store[k].version)
  BY Zenon DEF RefLasting, Pending, Swept, Prefix, Overwrites, Sweeps
<1>0. /\ commitIndex \in Nat /\ commitIndex' \in Nat
      /\ \A m \in 1 .. commitIndex + 1 : ref'[m] = ref[m]
      /\ \A m \in 1 .. commitIndex : log'[m] = log[m]
  BY BaseTypes, HistoryStable, Zenon
<1>1. ASSUME NEW h \in 0 .. commitIndex, i <= h
      PROVE  /\ ref'[i + 1] = ref[i + 1] /\ ref'[h + 1] = ref[h + 1]
             /\ \/ ref[h + 1].store[k] = ref[i + 1].store[k]
                \/ \E m \in i + 1 .. h : Overwrites(log'[m].cmd, k)
                \/ \E m \in i + 1 .. h :
                     Sweeps(log'[m].cmd, k, ref[i + 1].store[k].version)
  <2>1. /\ i \in 0 .. h /\ i + 1 \in 1 .. commitIndex + 1
        /\ h + 1 \in 1 .. commitIndex + 1
        /\ \A m \in i + 1 .. h : m \in 1 .. commitIndex
    BY <1>0, <1>1
  <2>2. ref'[i + 1] = ref[i + 1] /\ ref'[h + 1] = ref[h + 1]
    BY <1>0, <2>1, Zenon
  <2>3. \/ ref[h + 1].store[k] = ref[i + 1].store[k]
        \/ \E m \in i + 1 .. h : Overwrites(log[m].cmd, k)
        \/ \E m \in i + 1 .. h :
             Sweeps(log[m].cmd, k, ref[i + 1].store[k].version)
    BY <2>1, <2>2, Zenon DEF RefLasting, Pending, Swept, Prefix
  <2> QED BY <1>0, <2>1, <2>2, <2>3, Zenon
<1>2. CASE j \in 0 .. commitIndex
  <2>1. i <= j
    BY <1>0
  <2> QED BY <1>1, <1>2, <2>1, Zenon
<1>3. CASE j \notin 0 .. commitIndex
  <2> DEFINE c == commitIndex + 1
             cmd == log[c].cmd
             old == ref[c].store[k]
             new == ref'[c + 1].store[k]
  <2>1. Commit
    BY <1>0, <1>3, OnlyCommitCommits
  <2>2. /\ commitIndex' = c /\ log' = log /\ c \in 1 .. Len(log) /\ c \in Nat \ {0}
        /\ ref[c].store \in Store
        /\ cmd = Noop => ref'[c + 1].store = ref[c].store
        /\ cmd # Noop =>
             /\ cmd \in Command
             /\ ref'[c + 1].store = Exec(ref[c].store, cmd, c, 0)
    BY <2>1, CommitOutcome, Zenon
  <2>3. j = c
    <3>1. j \in 0 .. commitIndex + 1
      BY <2>2, Zenon
    <3> QED BY <1>0, <1>3, <3>1, NextIndex, Zenon
  <2>4. CASE i = c
    BY <2>3, <2>4, Zenon
  <2>5. CASE i # c
    <3>1. /\ commitIndex \in 0 .. commitIndex /\ i <= commitIndex
          /\ c \in i + 1 .. c /\ \A m \in i + 1 .. commitIndex : m \in i + 1 .. c
      BY <1>0, <2>3, <2>5
    <3>2. /\ ref'[i + 1] = ref[i + 1]
          /\ \/ old = ref[i + 1].store[k]
             \/ \E m \in i + 1 .. commitIndex : Overwrites(log'[m].cmd, k)
             \/ \E m \in i + 1 .. commitIndex :
                  Sweeps(log'[m].cmd, k, ref[i + 1].store[k].version)
      BY <1>1, <3>1, Zenon
    <3>3. CASE old # ref[i + 1].store[k]
      BY <2>3, <3>1, <3>2, <3>3, Zenon
    <3>4. CASE old = ref[i + 1].store[k] /\ (new = old \/ Overwrites(cmd, k))
      BY <2>2, <2>3, <3>1, <3>2, <3>4, Zenon
    <3>5. CASE old = ref[i + 1].store[k] /\ Sweeps(cmd, k, old.version)
      BY <2>2, <2>3, <3>1, <3>2, <3>5, Zenon
    <3>6. new = old \/ Overwrites(cmd, k) \/ Sweeps(cmd, k, old.version)
          \/ old = Absent
      <4>1. CASE cmd = Noop
        BY <2>2, <4>1, Zenon
      <4>2. CASE cmd # Noop /\ cmd.op = "reclaim"
        <5> HIDE DEF c, cmd
        <5>0. ref[c].store \in Store /\ cmd.op = "reclaim"
          BY <2>2, <4>2
        <5> DEFINE db == ref[c].store
        <5>1. ~Sweeps(cmd, k, db[k].version) => Exec(db, cmd, c, 0)[k] = db[k]
          <6>1. SweptAt(db, cmd, c, 0, k)
            BY <5>0, SweepsKey, Zenon
          <6> QED BY <6>1, Zenon DEF SweptAt
        <5> QED BY <2>2, <4>2, <5>1, Zenon
      <4>3. CASE /\ cmd # Noop /\ ReplayableRequest(cmd)
                 /\ ~Overwrites(cmd, k) /\ old # Absent
        <5>1. old.version # 0
          <6>1. old.version \in 1 .. commitIndex
            BY <3>1, <4>3, Zenon DEF RefSettled, Since, Prefix
          <6> QED BY <1>0, <6>1
        <5>2. 0 \in Nat
          OBVIOUS
        <5> HIDE DEF c, cmd
        <5>0. /\ ref[c].store \in Store /\ cmd \in Command /\ c \in Nat \ {0}
              /\ ref[c].store[k] # Absent /\ ref[c].store[k].version # 0
          BY <2>2, <4>3, <5>1, Zenon
        <5>3. Exec(ref[c].store, cmd, c, 0)[k] = ref[c].store[k]
          <6>1. Stays(ref[c].store[k], cmd)
            BY <5>0, Zenon DEF Stays
          <6>2. LeftAlone(ref[c].store, cmd, c, 0, k)
            BY <4>3, <5>0, <5>2, <6>1, LeavesKey, Zenon
          <6> QED BY <6>2, Zenon DEF LeftAlone
        <5> QED BY <2>2, <4>3, <5>3, Zenon
      <4>4. cmd # Noop => cmd.op = "reclaim" \/ ReplayableRequest(cmd)
        BY <2>2, Zenon DEF LogReplayable, ReplayableEntry
      <4> QED BY <4>1, <4>2, <4>3, <4>4, Zenon
    <3> QED BY <3>2, <3>3, <3>4, <3>5, <3>6, Zenon
  <2> QED BY <2>4, <2>5, Zenon
<1> QED BY <1>2, <1>3, Zenon

(***************************************************************************)
(* The history: everything about the log and its outcomes that the argument *)
(* about replay rests on.                                                   *)
(***************************************************************************)
LogHistory == Base /\ RefInv /\ LogStamped /\ LogReplayable /\ RefSettled /\ RefLasting

LEMMA HistoryInit == Init => LogHistory /\ VersionsCommitted
<1> SUFFICES ASSUME Init PROVE LogHistory /\ VersionsCommitted
  OBVIOUS
<1>1. LogStamped /\ LogReplayable
  <2>1. log = <<>>
    BY Zenon DEF Init
  <2>2. 1 .. Len(<<>>) = {}
    OBVIOUS
  <2> QED BY <2>1, <2>2, Zenon DEF LogStamped, LogReplayable
<1>2. \A i \in 0 .. commitIndex : \A k \in Key : Prefix(i).store[k] = Absent
  BY DEF Init, Prefix, EmptyStore
<1>3. commitIndex = 0
  BY DEF Init
<1>4. RefSettled
  BY <1>2, Zenon DEF RefSettled
<1>5. RefLasting
  <2>1. \A j \in 0 .. commitIndex : \A i \in 0 .. j : i \in 0 .. commitIndex
    BY <1>3
  <2> QED BY <1>2, <2>1, Zenon DEF RefLasting
<1>6. VersionsCommitted
  BY DEF Init, VersionsCommitted, EmptyStore
<1> QED BY <1>1, <1>4, <1>5, <1>6, BaseInit, RefInit, Zenon DEF LogHistory

LEMMA HistoryStep ==
  ASSUME Replayable, LogHistory, VersionsCommitted, [Next]_vars
  PROVE  LogHistory' /\ VersionsCommitted'
BY BaseStep, RefStep, LogStampedStep, LogReplayableStep, VersionsCommittedStep,
   SettledStep, LastingStep, Zenon DEF LogHistory

(***************************************************************************)
(* How a key of a store that is being replayed may differ from the outcome  *)
(* of the a entries replayed so far, if entries up to top were in it before: *)
(* it does not; or it holds the record of an entry that is still to come;   *)
(* or whatever it holds, an entry still to come overwrites it; or it was    *)
(* swept by an entry still to come, and nothing can slip in before that.    *)
(***************************************************************************)
FollowsIn(lg, rf, e, k, a, top) ==
  \/ e = rf[a + 1].store[k]
  \/ e # Absent /\ e.version \in a + 1 .. top /\ e = rf[e.version + 1].store[k]
  \/ \E j \in a + 1 .. top : Overwrites(lg[j].cmd, k)
  \/ /\ Unconditional /\ e = Absent
     /\ \E j \in a + 1 .. top : Sweeps(lg[j].cmd, k, rf[a + 1].store[k].version)

Follows(e, k, a, top) == FollowsIn(log, ref, e, k, a, top)

\* The relation only looks at the committed history, which does not change.
LEMMA FollowsStable ==
  ASSUME NEW lg, NEW lg2, NEW rf, NEW rf2, NEW c \in Nat,
         \A i \in 1 .. c : lg2[i] = lg[i], \A i \in 1 .. c + 1 : rf2[i] = rf[i],
         NEW e, NEW k, NEW a \in 0 .. c, NEW top \in 0 .. c, NEW top2 \in 0 .. c,
         top <= top2, FollowsIn(lg, rf, e, k, a, top)
  PROVE  FollowsIn(lg2, rf2, e, k, a, top2)
<1>1. /\ a + 1 \in 1 .. c + 1
      /\ \A j \in a + 1 .. top : j \in a + 1 .. top2 /\ j \in 1 .. c
                                 /\ j + 1 \in 1 .. c + 1
  OBVIOUS
<1>2. rf2[a + 1] = rf[a + 1]
  BY <1>1
<1>3. CASE e = rf[a + 1].store[k]
  BY <1>2, <1>3, Zenon DEF FollowsIn
<1>4. CASE e # Absent /\ e.version \in a + 1 .. top /\ e = rf[e.version + 1].store[k]
  BY <1>1, <1>4, Zenon DEF FollowsIn
<1>5. CASE \E j \in a + 1 .. top : Overwrites(lg[j].cmd, k)
  BY <1>1, <1>5, Zenon DEF FollowsIn
<1>6. CASE /\ Unconditional /\ e = Absent
           /\ \E j \in a + 1 .. top : Sweeps(lg[j].cmd, k, rf[a + 1].store[k].version)
  BY <1>1, <1>2, <1>6, Zenon DEF FollowsIn
<1> QED BY <1>3, <1>4, <1>5, <1>6, Zenon DEF FollowsIn

\* Facts about the entry that is executed next and the outcomes around it.
LEMMA ReplayEntry ==
  ASSUME LogHistory, NEW i \in 1 .. commitIndex, log[i].cmd # Noop, NEW k \in Key
  PROVE  /\ log[i].cmd \in Command /\ ReplayableEntry(log[i].cmd, i)
         /\ ref[i].store \in Store /\ i \in Nat \ {0}
         /\ \A t \in Nat : Exec(ref[i].store, log[i].cmd, i, t) = ref[i + 1].store
         /\ ref[i].store[k] # Absent => ref[i].store[k].version # 0
<1>h. Base /\ RefInv /\ LogStamped /\ LogReplayable /\ RefSettled
  BY DEF LogHistory
<1>0. commitIndex \in 0 .. Len(log) /\ Len(log) \in Nat /\ commitIndex \in Nat
  BY <1>h, BaseTypes, Zenon
<1>1. /\ i \in 1 .. Len(log) /\ i - 1 \in 0 .. commitIndex /\ (i - 1) + 1 = i
      /\ 0 \notin 1 .. i - 1
  BY <1>0
<1>2. ASSUME NEW t \in Nat
      PROVE  /\ Prefix(i - 1).store \in Store
             /\ log[i].cmd \in Command
             /\ i \in Nat \ {0}
             /\ Exec(Prefix(i - 1).store, log[i].cmd, i, t) = Prefix(i).store
  BY <1>h, ExecNext, Zenon
<1>3. Prefix(i - 1) = ref[i] /\ Prefix(i) = ref[i + 1]
  BY <1>1, Zenon DEF Prefix
<1>4. ReplayableEntry(log[i].cmd, i)
  BY <1>h, <1>1, Zenon DEF LogReplayable
<1>5. ref[i].store[k] # Absent => ref[i].store[k].version # 0
  BY <1>h, <1>1, <1>3, Zenon DEF RefSettled, Since
<1>6. 0 \in Nat
  OBVIOUS
<1> QED BY <1>2, <1>3, <1>4, <1>5, <1>6, Zenon

\* Executing the next entry keeps a key in step with the history.
LEMMA FollowsStep ==
  ASSUME LogHistory, NEW i \in 1 .. commitIndex, log[i].cmd # Noop,
         NEW top \in 0 .. commitIndex, NEW db \in Store, NEW t \in Nat,
         NEW k \in Key, Follows(db[k], k, i - 1, top)
  PROVE  Follows(Exec(db, log[i].cmd, i, t)[k], k, i, top)
<1> DEFINE cmd == log[i].cmd
           new == Exec(db, cmd, i, t)[k]
           old == ref[i].store[k]
           next == ref[i + 1].store[k]
<1>1. /\ cmd \in Command /\ ReplayableEntry(cmd, i)
      /\ ref[i].store \in Store /\ i \in Nat \ {0}
      /\ Exec(ref[i].store, cmd, i, t)[k] = next
      /\ old # Absent => old.version # 0
  BY ReplayEntry, Zenon
<1>0. /\ (i - 1) + 1 = i /\ commitIndex \in Nat /\ top \in Nat
      /\ \A j \in i .. top : j = i \/ j \in i + 1 .. top
  <2>1. commitIndex \in Nat
    BY BaseTypes, Zenon DEF LogHistory
  <2> QED BY <2>1
<1>2. cmd.op = "reclaim" \/ ReplayableRequest(cmd)
  BY <1>1, Zenon DEF ReplayableEntry
<1> HIDE DEF cmd
<1>a. ASSUME NEW d \in Store, cmd.op = "reclaim"
      PROVE  /\ d[k] = Absent => Exec(d, cmd, i, t)[k] = Absent
             /\ d[k] # Absent /\ Sweeps(cmd, k, d[k].version) => Exec(d, cmd, i, t)[k] = Absent
             /\ ~Sweeps(cmd, k, d[k].version) => Exec(d, cmd, i, t)[k] = d[k]
  <2>1. SweptAt(d, cmd, i, t, k)
    BY <1>a, SweepsKey, Zenon
  <2> QED BY <2>1, Zenon DEF SweptAt
<1>b. ASSUME NEW d \in Store, ReplayableRequest(cmd), ~Overwrites(cmd, k),
             \/ d[k] # Absent /\ d[k].version # 0
             \/ ~(cmd.op = "put" /\ cmd.cas)
      PROVE  Exec(d, cmd, i, t)[k] = d[k]
  <2>1. Stays(d[k], cmd)
    BY <1>b, Zenon DEF Stays
  <2>2. LeftAlone(d, cmd, i, t, k)
    BY <1>1, <1>b, <2>1, LeavesKey, Zenon
  <2> QED BY <2>2, Zenon DEF LeftAlone
<1>c. ASSUME NEW d \in Store, NEW b \in Store, d[k] = b[k] \/ Overwrites(cmd, k)
      PROVE  Exec(d, cmd, i, t)[k] = Exec(b, cmd, i, t)[k]
  <2>1. Alike(d, b, cmd, i, t, k)
    BY <1>1, <1>2, <1>c, AlikeAtKey, Zenon
  <2> QED BY <2>1, Zenon DEF Alike
<1>3. CASE db[k] = old \/ Overwrites(cmd, k)
  <2>1. new = next
    BY <1>1, <1>3, <1>c, Zenon
  <2> QED BY <2>1, Zenon DEF Follows, FollowsIn, cmd
<1>4. ASSUME ~Overwrites(cmd, k), NEW d \in Store, d[k] # Absent, d[k].version # 0,
             ~Sweeps(cmd, k, d[k].version)
      PROVE  Exec(d, cmd, i, t)[k] = d[k]
  <2>1. CASE cmd.op = "reclaim"
    BY <1>4, <1>a, <2>1, Zenon
  <2>2. CASE ReplayableRequest(cmd)
    BY <1>4, <1>b, <2>2, Zenon
  <2> QED BY <1>2, <2>1, <2>2, Zenon
<1>5. CASE /\ ~Overwrites(cmd, k)
           /\ \E j \in i .. top : Overwrites(log[j].cmd, k)
  BY <1>0, <1>5, Zenon DEF Follows, FollowsIn, cmd
<1>6. CASE /\ ~Overwrites(cmd, k)
           /\ db[k] # Absent /\ db[k].version \in i .. top
           /\ db[k] = ref[db[k].version + 1].store[k]
  <2>1. db[k].version \in Nat /\ db[k].version # 0 /\ ~(db[k].version < i)
    <3> DEFINE v == db[k].version
    <3> HIDE DEF v
    <3>1. v \in i .. top /\ i \in Nat \ {0} /\ top \in Nat
      BY <1>0, <1>1, <1>6, Zenon DEF v
    <3>2. v \in Nat /\ v # 0 /\ ~(v < i)
      BY <3>1
    <3> QED BY <3>2, Zenon DEF v
  <2>2. ~Sweeps(cmd, k, db[k].version)
    <3>1. CASE cmd.op = "reclaim" /\ \A e \in cmd.entries : e.version < i
      BY <2>1, <3>1 DEF Sweeps
    <3>2. CASE ReplayableRequest(cmd)
      BY <3>2 DEF Sweeps, ReplayableRequest
    <3> QED BY <1>1, <3>1, <3>2, Zenon DEF ReplayableEntry
  <2>3. new = db[k]
    BY <1>4, <1>6, <2>1, <2>2, Zenon
  <2>4. db[k].version = i \/ db[k].version \in i + 1 .. top
    BY <1>0, <1>6, Zenon
  <2> QED BY <1>6, <2>3, <2>4, Zenon DEF Follows, FollowsIn, cmd
<1>7. CASE /\ ~Overwrites(cmd, k) /\ db[k] # old
           /\ Unconditional /\ db[k] = Absent
           /\ \E j \in i .. top : Sweeps(log[j].cmd, k, old.version)
  <2>1. new = Absent
    <3>1. CASE cmd.op = "reclaim"
      BY <1>7, <1>a, <3>1, Zenon
    <3>2. CASE ReplayableRequest(cmd)
      <4>1. ~(cmd.op = "put" /\ cmd.cas)
        BY <1>1, <1>7, <3>2, Zenon DEF ReplayableEntry, ReplayableRequest
      <4> QED BY <1>7, <1>b, <3>2, <4>1, Zenon
    <3> QED BY <1>2, <3>1, <3>2, Zenon
  <2>2. CASE Sweeps(cmd, k, old.version)
    <3>0. old # Absent /\ cmd.op = "reclaim"
      BY <1>7, <2>2, Zenon DEF Sweeps
    <3>1. next = Absent
      BY <1>1, <1>a, <2>2, <3>0, Zenon
    <3> QED BY <2>1, <3>1, Zenon DEF Follows, FollowsIn, cmd
  <2>3. CASE ~Sweeps(cmd, k, old.version)
    <3>1. next = old
      BY <1>1, <1>4, <1>7, <2>3, Zenon
    <3>2. PICK j \in i .. top : Sweeps(log[j].cmd, k, old.version)
      BY <1>7
    <3>3. j \in i + 1 .. top
      BY <1>0, <2>3, <3>2, Zenon DEF cmd
    <3> QED BY <1>7, <2>1, <3>1, <3>2, <3>3, Zenon DEF Follows, FollowsIn, cmd
  <2> QED BY <2>2, <2>3, Zenon
<1> HIDE DEF new
<1>8. FollowsIn(log, ref, db[k], k, i - 1, top)
  BY DEF Follows
<1>9. \/ db[k] = old \/ Overwrites(cmd, k)
      \/ /\ db[k] # Absent /\ db[k].version \in i .. top
         /\ db[k] = ref[db[k].version + 1].store[k]
      \/ \E j \in i .. top : Overwrites(log[j].cmd, k)
      \/ /\ Unconditional /\ db[k] = Absent
         /\ \E j \in i .. top : Sweeps(log[j].cmd, k, old.version)
  BY <1>0, <1>8, Zenon DEF FollowsIn
<1> QED BY <1>3, <1>5, <1>6, <1>7, <1>9, Zenon DEF new, cmd

\* An entry of raft's own changes nothing, and nothing was waiting for it.
LEMMA FollowsNoop ==
  ASSUME LogHistory, NEW i \in 1 .. commitIndex, log[i].cmd = Noop,
         NEW top \in 0 .. commitIndex, NEW e, NEW k \in Key,
         Follows(e, k, i - 1, top)
  PROVE  Follows(e, k, i, top)
<1>0. /\ (i - 1) + 1 = i /\ commitIndex \in Nat
      /\ \A j \in i .. top : j = i \/ j \in i + 1 .. top
  <2>1. commitIndex \in Nat
    BY BaseTypes, Zenon DEF LogHistory
  <2> QED BY <2>1
<1>1. ref[i + 1] = ref[i]
  BY Zenon DEF LogHistory, RefInv, Outcome
<1>2. ~Overwrites(log[i].cmd, k) /\ \A v : ~Sweeps(log[i].cmd, k, v)
  <2>1. Noop.op \notin {"put", "remove", "batch", "reclaim"}
    BY DEF Noop
  <2>2. /\ Noop.op # "put" /\ Noop.op # "remove" /\ Noop.op # "batch"
        /\ Noop.op # "reclaim" /\ log[i].cmd = Noop
    BY <2>1, Zenon
  <2> QED BY <2>2, Zenon DEF Overwrites, Sweeps
<1>3. \/ e = ref[i].store[k]
      \/ e # Absent /\ e.version \in i .. top /\ e = ref[e.version + 1].store[k]
      \/ \E j \in i .. top : Overwrites(log[j].cmd, k)
      \/ /\ Unconditional /\ e = Absent
         /\ \E j \in i .. top : Sweeps(log[j].cmd, k, ref[i].store[k].version)
  BY <1>0, Zenon DEF Follows, FollowsIn
<1>4. CASE e # Absent /\ e.version \in i .. top /\ e = ref[e.version + 1].store[k]
  BY <1>0, <1>4, Zenon DEF Follows, FollowsIn
<1>5. CASE e = ref[i].store[k] \/ \E j \in i .. top : Overwrites(log[j].cmd, k)
  BY <1>0, <1>1, <1>2, <1>5, Zenon DEF Follows, FollowsIn
<1>6. CASE /\ Unconditional /\ e = Absent
           /\ \E j \in i .. top : Sweeps(log[j].cmd, k, ref[i].store[k].version)
  BY <1>0, <1>1, <1>2, <1>6, Zenon DEF Follows, FollowsIn
<1> QED BY <1>3, <1>4, <1>5, <1>6, Zenon

\* A store that is in step with the history is so from the start of the log too,
\* provided that every command it was given counts as seen before.
LEMMA FollowsReset ==
  ASSUME LogHistory, NEW a \in 0 .. commitIndex, NEW top \in 0 .. commitIndex,
         \A j \in 1 .. a : log[j].cmd # Noop => j <= top,
         NEW e, NEW k \in Key, Follows(e, k, a, top)
  PROVE  Follows(e, k, 0, top)
<1>0. /\ commitIndex \in Nat /\ 0 + 1 = 1 /\ a \in Nat /\ top \in Nat
      /\ \A j \in a + 1 .. top : j \in 1 .. top
  <2>1. commitIndex \in Nat
    BY BaseTypes, Zenon DEF LogHistory
  <2> QED BY <2>1
<1>1. ref[1].store[k] = Absent
  <2>1. ref[1] = [store |-> EmptyStore, digest |-> GenesisDigest]
    BY Zenon DEF LogHistory, RefInv
  <2>2. ref[1].store = EmptyStore
    BY <2>1
  <2> QED BY <2>2, Zenon DEF EmptyStore
<1>2. CASE e = Absent
  BY <1>0, <1>1, <1>2, Zenon DEF Follows, FollowsIn
<1>3. CASE e # Absent /\ e = ref[a + 1].store[k]
  <2> DEFINE v == e.version
  <2>1. Since(k, a, v)
    BY <1>3, Zenon DEF LogHistory, RefSettled, Prefix
  <2>2. /\ v \in 1 .. a /\ log[v].cmd # Noop
        /\ \A j \in v .. a : ref[j + 1].store[k] = e
    BY <1>3, <2>1, Zenon DEF Since, Prefix
  <2>3. v <= top
    BY <2>2
  <2> HIDE DEF v
  <2>4. v \in 1 .. top /\ v \in v .. a
    BY <1>0, <2>2, <2>3
  <2> QED BY <1>0, <1>3, <2>2, <2>4, Zenon DEF Follows, FollowsIn, v
<1>4. CASE e # Absent /\ e.version \in a + 1 .. top /\ e = ref[e.version + 1].store[k]
  BY <1>0, <1>4, Zenon DEF Follows, FollowsIn
<1>5. CASE \E j \in a + 1 .. top : Overwrites(log[j].cmd, k)
  BY <1>0, <1>5, Zenon DEF Follows, FollowsIn
<1> QED BY <1>2, <1>3, <1>4, <1>5, Zenon DEF Follows, FollowsIn

(***************************************************************************)
(* Replay converges.                                                        *)
(***************************************************************************)
HeadKept == \A n \in Node : faults[n] = 0 => head[n] = chain[n]

Tracks ==
  \A n \in Node : faults[n] = 0 => \A k \in Key :
    Follows(store[n][k], k, applied[n], chain[n].index)

ReplayInv == LogHistory /\ VersionsCommitted /\ ChainInv /\ HeadKept /\ Tracks

LEMMA ReplayInit == Init => ReplayInv
<1> SUFFICES ASSUME Init PROVE ReplayInv
  OBVIOUS
<1>1. HeadKept
  BY DEF Init, HeadKept
<1>2. Tracks
  <2>1. \A n \in Node, k \in Key : store[n][k] = ref[applied[n] + 1].store[k]
    BY DEF Init
  <2> QED BY <2>1, Zenon DEF Tracks, Follows, FollowsIn
<1> QED BY <1>1, <1>2, HistoryInit, ChainInit, Zenon DEF ReplayInv

LEMMA HeadKeptStep ==
  ASSUME Base, HeadKept, [Next]_vars
  PROVE  HeadKept'
<1>t. /\ head \in [Node -> HashChain] /\ chain \in [Node -> HashChain]
      /\ faults \in [Node -> Nat]
  BY BaseTypes, Zenon
<1>1. CASE UNCHANGED <<head, chain, faults>>
  BY <1>1, Zenon DEF HeadKept
<1>2. ASSUME NEW n \in Node, advanceChain(n) PROVE HeadKept'
  <2> DEFINE c == Advance(chain[n], applied[n] + 1,
                          NextEntry(n).term, NextEntry(n).cmd)
  <2>1. /\ chain' = [chain EXCEPT ![n] = c]
        /\ \/ head' = [head EXCEPT ![n] = c] /\ faults' = faults
           \/ head' = head /\ faults' = [faults EXCEPT ![n] = @ + 1]
    BY <1>2, Zenon DEF advanceChain
  <2> HIDE DEF c
  <2> QED BY <1>t, <2>1 DEF HeadKept
<1>3. ASSUME NEW n \in Node, Apply(n) PROVE HeadKept'
  <2>1. /\ UNCHANGED <<head, chain>>
        /\ faults' = faults \/ faults' = [faults EXCEPT ![n] = @ + 1]
    BY <1>3, Zenon DEF Apply
  <2> QED BY <1>t, <2>1 DEF HeadKept
<1>4. ASSUME NEW n \in Node, Restart(n) PROVE HeadKept'
  <2>1. chain' = [chain EXCEPT ![n] = head[n]] /\ UNCHANGED <<head, faults>>
    BY <1>4, Zenon DEF Restart
  <2> QED BY <1>t, <2>1 DEF HeadKept
<1>5. ASSUME NEW n \in Node,
             \/ LeaderElected(n) \/ Tick(n) \/ SkipNoop(n) \/ ReclaimScan(n)
             \/ ReclaimPropose(n) \/ ReclaimAbandon(n)
      PROVE  HeadKept'
  BY <1>1, <1>5, Zenon DEF LeaderElected, Tick, SkipNoop, ReclaimScan,
                    ReclaimPropose, ReclaimAbandon, fsmVars, envVars
<1>6. ASSUME NEW n \in Node, NEW r \in Requests, Propose(n, r) PROVE HeadKept'
  BY <1>1, <1>6, Zenon DEF Propose, fsmVars, envVars
<1>7. CASE Commit \/ UNCHANGED vars
  BY <1>1, <1>7, Zenon DEF Commit, vars, fsmVars, envVars
<1> QED BY <1>2, <1>3, <1>4, <1>5, <1>6, <1>7, Zenon DEF Next

LEMMA TracksStep ==
  ASSUME ReplayInv, [Next]_vars
  PROVE  Tracks'
<1>i. /\ LogHistory /\ ChainInv /\ HeadKept /\ Tracks /\ Base
      /\ ChainAgreement /\ FoldedApplied
  BY Zenon DEF ReplayInv, ChainInv
<1>t. /\ commitIndex \in Nat /\ applied \in [Node -> 0 .. commitIndex]
      /\ clock \in [Node -> Nat] /\ store \in [Node -> Store]
      /\ chain \in [Node -> HashChain] /\ head \in [Node -> HashChain]
      /\ faults \in [Node -> Nat]
  BY <1>i, BaseTypes, Zenon
<1>h. /\ \A i \in 1 .. commitIndex : log'[i] = log[i]
      /\ \A i \in 1 .. commitIndex + 1 : ref'[i] = ref[i]
  BY <1>i, HistoryStable, Zenon
<1>c. ASSUME NEW n \in Node PROVE chain[n].index \in 0 .. commitIndex
  <2>1. chain[n] \in HashChain /\ chain[n].index <= commitIndex
    BY <1>i, <1>t, Zenon DEF ChainAgreement
  <2>2. chain[n].index \in Nat
    BY <2>1 DEF HashChain
  <2> QED BY <1>t, <2>1, <2>2
<1>0. ASSUME NEW n \in Node, faults[n] = 0, NEW k \in Key
      PROVE  FollowsIn(log, ref, store[n][k], k, applied[n], chain[n].index)
  BY <1>0, <1>i, Zenon DEF Tracks, Follows
<1>s. ASSUME NEW e, NEW k, NEW a \in 0 .. commitIndex, NEW top \in 0 .. commitIndex,
             NEW top2 \in 0 .. commitIndex, top <= top2,
             FollowsIn(log, ref, e, k, a, top)
      PROVE  FollowsIn(log', ref', e, k, a, top2)
  BY <1>h, <1>s, <1>t, FollowsStable, Zenon
\* A node whose store, position and chain stay.
<1>1. ASSUME NEW n \in Node, faults'[n] = 0 => faults[n] = 0,
             store'[n] = store[n], applied'[n] = applied[n],
             chain'[n].index = chain[n].index, faults'[n] = 0, NEW k \in Key
      PROVE  FollowsIn(log', ref', store'[n][k], k, applied'[n], chain'[n].index)
  <2>1. applied[n] \in 0 .. commitIndex /\ chain[n].index \in 0 .. commitIndex
    BY <1>c, <1>t, Zenon
  <2>2. chain[n].index <= chain[n].index
    BY <1>t, <2>1
  <2>3. FollowsIn(log', ref', store[n][k], k, applied[n], chain[n].index)
    BY <1>0, <1>1, <1>s, <2>1, <2>2, Zenon
  <2> QED BY <1>1, <2>3, Zenon
<1>2. CASE UNCHANGED <<store, applied, chain, faults>>
  BY <1>1, <1>2, Zenon DEF Tracks, Follows
<1>3. ASSUME NEW n \in Node, advanceChain(n) PROVE Tracks'
  <2> DEFINE c == Advance(chain[n], applied[n] + 1,
                          NextEntry(n).term, NextEntry(n).cmd)
  <2>1. /\ chain' = [chain EXCEPT ![n] = c] /\ UNCHANGED <<store, applied>>
        /\ faults' = faults \/ faults' = [faults EXCEPT ![n] = @ + 1]
    BY <1>3, Zenon DEF advanceChain
  <2>2. c.index \in 0 .. commitIndex /\ chain[n].index <= c.index
    <3>1. applied[n] < commitIndex /\ NextEntry(n).cmd # Noop
      BY <1>3, Zenon DEF advanceChain, FsmReady
    <3>2. /\ NextEntry(n).cmd \in Command /\ NextEntry(n).term \in Nat
          /\ applied[n] + 1 \in 1 .. commitIndex
      BY <1>i, <3>1, NextEntryType, Zenon
    <3>3. applied[n] + 1 \in Nat /\ chain[n] \in HashChain
      BY <1>t, <3>2
    <3>4. c \in HashChain /\ chain[n].index <= c.index
      BY <3>2, <3>3, AdvanceFacts, Zenon
    <3>5. c.index <= commitIndex
      BY <1>i, <3>1, ChainAdvances, Zenon DEF ChainInv, ChainAgreement, FoldedApplied
    <3> HIDE DEF c
    <3>6. c.index \in Nat
      BY <3>4 DEF HashChain
    <3> QED BY <1>t, <3>4, <3>5, <3>6
  <2> HIDE DEF c
  <2>3. \A m \in Node : /\ faults'[m] = 0 => faults[m] = 0
                        /\ chain'[m] = IF m = n THEN c ELSE chain[m]
    BY <1>t, <2>1
  <2>4. ASSUME NEW m \in Node, faults'[m] = 0, NEW k \in Key
        PROVE  FollowsIn(log', ref', store'[m][k], k, applied'[m], chain'[m].index)
    <3>1. CASE m # n
      BY <1>1, <2>1, <2>3, <2>4, <3>1, Zenon
    <3>2. CASE m = n
      <4>1. applied[n] \in 0 .. commitIndex /\ chain[n].index \in 0 .. commitIndex
        BY <1>c, <1>t, Zenon
      <4>2. FollowsIn(log, ref, store[n][k], k, applied[n], chain[n].index)
        BY <1>0, <2>3, <2>4, <3>2, Zenon
      <4>3. FollowsIn(log', ref', store[n][k], k, applied[n], c.index)
        BY <1>s, <2>2, <4>1, <4>2, Zenon
      <4> QED BY <2>1, <2>3, <3>2, <4>3, Zenon
    <3> QED BY <3>1, <3>2, Zenon
  <2> QED BY <2>4, Zenon DEF Tracks, Follows
\* A node that goes from position a to position b over the same history.
<1>4. ASSUME NEW n \in Node, NEW b \in 0 .. commitIndex,
             log' = log, ref' = ref,
             chain' = chain \/ chain' = [chain EXCEPT ![n] = head[n]],
             applied' = [applied EXCEPT ![n] = b],
             \A m \in Node \ {n} : store'[m] = store[m],
             \A m \in Node : faults'[m] = 0 => faults[m] = 0,
             faults'[n] = 0 => \A k \in Key :
               FollowsIn(log, ref, store'[n][k], k, b, chain[n].index)
      PROVE  Tracks'
  <2>1. ASSUME NEW m \in Node, faults'[m] = 0, NEW k \in Key
        PROVE  FollowsIn(log', ref', store'[m][k], k, applied'[m], chain'[m].index)
    <3>1. CASE m # n
      <4>1. applied'[m] = applied[m] /\ chain'[m] = chain[m] /\ store'[m] = store[m]
        BY <1>4, <1>t, <3>1
      <4> QED BY <1>1, <1>4, <2>1, <4>1, Zenon
    <3>2. CASE m = n
      <4>1. head[n] = chain[n]
        BY <1>4, <1>i, <2>1, <3>2, Zenon DEF HeadKept
      <4>2. applied'[n] = b /\ chain'[n] = chain[n] /\ log' = log /\ ref' = ref
        BY <1>4, <1>t, <4>1
      <4> QED BY <1>4, <2>1, <3>2, <4>2, Zenon
    <3> QED BY <3>1, <3>2, Zenon
  <2> QED BY <2>1, Zenon DEF Tracks, Follows
<1>5. ASSUME NEW n \in Node, Apply(n) PROVE Tracks'
  <2> DEFINE i == applied[n] + 1
             new == Exec(store[n], log[i].cmd, i, clock[n])
  <2>1. /\ applied' = [applied EXCEPT ![n] = i] /\ UNCHANGED <<log, ref, chain>>
        /\ \/ store' = [store EXCEPT ![n] = new] /\ faults' = faults
           \/ store' = store /\ faults' = [faults EXCEPT ![n] = @ + 1]
        /\ pc[n] = "chained"
    BY <1>5 DEF Apply, NextEntry, raftVars
  <2>2. applied[n] < commitIndex /\ log[i].cmd # Noop
    BY <1>i, <2>1, Zenon DEF Base, Chained, NextEntry
  <2>3. applied[n] \in 0 .. commitIndex /\ store[n] \in Store /\ clock[n] \in Nat
    BY <1>t, Zenon
  <2>4. i \in 1 .. commitIndex /\ i \in 0 .. commitIndex /\ i - 1 = applied[n]
    BY <1>t, <2>2, <2>3
  <2> HIDE DEF i
  <2>5. ASSUME faults[n] = 0, NEW k \in Key
        PROVE  FollowsIn(log, ref, new[k], k, i, chain[n].index)
    <3>1. Follows(store[n][k], k, i - 1, chain[n].index)
      BY <1>0, <2>4, <2>5, Zenon DEF Follows
    <3>2. Follows(Exec(store[n], log[i].cmd, i, clock[n])[k], k, i, chain[n].index)
      BY <1>c, <1>i, <2>2, <2>3, <2>4, <3>1, FollowsStep, Zenon
    <3> QED BY <3>2, Zenon DEF Follows
  <2> HIDE DEF new
  <2>6. /\ \A m \in Node \ {n} : store'[m] = store[m]
        /\ \A m \in Node : faults'[m] = 0 => faults[m] = 0
        /\ faults'[n] = 0 => store'[n] = new
    BY <1>t, <2>1
  <2>7. faults'[n] = 0 => \A k \in Key :
          FollowsIn(log, ref, store'[n][k], k, i, chain[n].index)
    BY <2>5, <2>6, Zenon
  <2>8. log' = log /\ ref' = ref /\ chain' = chain
    BY <2>1
  <2> QED BY <1>4, <2>1, <2>4, <2>6, <2>7, <2>8, Zenon
<1>6. ASSUME NEW n \in Node, SkipNoop(n) PROVE Tracks'
  <2> DEFINE i == applied[n] + 1
  <2>1. /\ applied' = [applied EXCEPT ![n] = i]
        /\ UNCHANGED <<log, ref, chain, store, faults>>
        /\ applied[n] < commitIndex /\ log[i].cmd = Noop
    BY <1>6 DEF SkipNoop, FsmReady, NextEntry, raftVars, envVars
  <2>2. applied[n] \in 0 .. commitIndex
    BY <1>t, Zenon
  <2>3. i \in 1 .. commitIndex /\ i \in 0 .. commitIndex /\ i - 1 = applied[n]
    BY <1>t, <2>1, <2>2
  <2> HIDE DEF i
  <2>4. ASSUME faults[n] = 0, NEW k \in Key
        PROVE  FollowsIn(log, ref, store[n][k], k, i, chain[n].index)
    <3>1. Follows(store[n][k], k, i - 1, chain[n].index)
      BY <1>0, <2>3, <2>4, Zenon DEF Follows
    <3>2. Follows(store[n][k], k, i, chain[n].index)
      BY <1>c, <1>i, <2>1, <2>3, <3>1, FollowsNoop, Zenon
    <3> QED BY <3>2, Zenon DEF Follows
  <2>5. /\ log' = log /\ ref' = ref /\ chain' = chain
        /\ \A m \in Node \ {n} : store'[m] = store[m]
        /\ \A m \in Node : faults'[m] = 0 => faults[m] = 0
        /\ faults'[n] = 0 => \A k \in Key :
             FollowsIn(log, ref, store'[n][k], k, i, chain[n].index)
    BY <2>1, <2>4, Zenon
  <2> QED BY <1>4, <2>1, <2>3, <2>5, Zenon
<1>7. ASSUME NEW n \in Node, Restart(n) PROVE Tracks'
  <2>1. /\ applied' = [applied EXCEPT ![n] = 0]
        /\ chain' = [chain EXCEPT ![n] = head[n]]
        /\ UNCHANGED <<log, ref, head, store, faults>>
    BY <1>7, Zenon DEF Restart
  <2>2. 0 \in 0 .. commitIndex /\ applied[n] \in 0 .. commitIndex
    BY <1>t
  <2>3. ASSUME faults[n] = 0, NEW k \in Key
        PROVE  FollowsIn(log, ref, store[n][k], k, 0, chain[n].index)
    <3>1. Follows(store[n][k], k, applied[n], chain[n].index)
      BY <1>0, <2>3, Zenon DEF Follows
    <3>2. \A j \in 1 .. applied[n] : log[j].cmd # Noop => j <= chain[n].index
      BY <1>i, Zenon DEF FoldedApplied
    <3>3. Follows(store[n][k], k, 0, chain[n].index)
      BY <1>c, <1>i, <2>2, <3>1, <3>2, FollowsReset, Zenon
    <3> QED BY <3>3, Zenon DEF Follows
  <2> QED BY <1>4, <2>1, <2>2, <2>3, Zenon
<1>8. ASSUME NEW n \in Node,
             \/ LeaderElected(n) \/ Tick(n) \/ ReclaimScan(n)
             \/ ReclaimPropose(n) \/ ReclaimAbandon(n)
      PROVE  Tracks'
  BY <1>2, <1>8, Zenon DEF LeaderElected, Tick, ReclaimScan, ReclaimPropose,
                    ReclaimAbandon, fsmVars, envVars
<1>9. ASSUME NEW n \in Node, NEW r \in Requests, Propose(n, r) PROVE Tracks'
  BY <1>2, <1>9, Zenon DEF Propose, fsmVars, envVars
<1>10. CASE Commit \/ UNCHANGED vars
  BY <1>2, <1>10, Zenon DEF Commit, vars, fsmVars, envVars
<1> QED BY <1>3, <1>5, <1>6, <1>7, <1>8, <1>9, <1>10, Zenon DEF Next

LEMMA ReplayStep ==
  ASSUME Replayable
  PROVE  ReplayInv /\ [Next]_vars => ReplayInv'
<1> SUFFICES ASSUME ReplayInv, [Next]_vars PROVE ReplayInv'
  OBVIOUS
<1>1. LogHistory' /\ VersionsCommitted' /\ ChainInv'
  BY HistoryStep, ChainStep, Zenon DEF ReplayInv
<1>2. HeadKept'
  BY HeadKeptStep, Zenon DEF ReplayInv, LogHistory
<1> QED BY <1>1, <1>2, TracksStep, Zenon DEF ReplayInv

\* FSM.PostConstruct and the replay that follows a restart: when clients put
\* (unconditionally or if absent), write batches and remove, a node that has
\* re-applied everything its chain had folded before it died holds exactly the
\* store the log defines, however often it died in between, at whatever point,
\* and whatever the leader's sweeps removed meanwhile.
THEOREM ReplayConvergesHolds ==
  ASSUME Replayable
  PROVE  Spec => []ReplayConverges
<1>1. ReplayInv => ReplayConverges
  <2> SUFFICES ASSUME ReplayInv, NEW n \in Node, faults[n] = 0,
                      applied[n] >= chain[n].index
               PROVE  store[n] = ref[applied[n] + 1].store
    BY Zenon DEF ReplayConverges, Prefix
  <2>1. Base /\ Tracks
    BY Zenon DEF ReplayInv, LogHistory
  <2>2. /\ commitIndex \in Nat /\ applied[n] \in 0 .. commitIndex
        /\ store[n] \in Store /\ chain[n] \in HashChain
        /\ ref \in Seq(Result) /\ Len(ref) = commitIndex + 1
    BY <2>1, BaseTypes, Zenon
  <2>3. /\ applied[n] + 1 \in DOMAIN ref
        /\ \A j : j \notin applied[n] + 1 .. chain[n].index
    <3>1. chain[n].index \in Nat
      BY <2>2 DEF HashChain
    <3> QED BY <2>2, <3>1
  <2>4. ref[applied[n] + 1].store \in Store
    <3>1. ref[applied[n] + 1] \in Result
      BY <2>2, <2>3, SeqElement, Zenon
    <3> QED BY <3>1 DEF Result
  <2>5. ASSUME NEW k \in Key
        PROVE  store[n][k] = ref[applied[n] + 1].store[k]
    <3>1. FollowsIn(log, ref, store[n][k], k, applied[n], chain[n].index)
      BY <2>1, Zenon DEF Tracks, Follows
    <3> QED BY <2>3, <3>1, Zenon DEF FollowsIn
  <2> DEFINE a == store[n]  b == ref[applied[n] + 1].store
  <2> HIDE DEF a, b
  <2>6. a \in Store /\ b \in Store /\ \A k \in Key : a[k] = b[k]
    BY <2>2, <2>4, <2>5, Zenon DEF a, b
  <2>7. a = b
    BY <2>6 DEF Store
  <2> QED BY <2>7, Zenon DEF a, b
<1>2. Init => ReplayInv
  BY ReplayInit
<1>3. ReplayInv /\ [Next]_vars => ReplayInv'
  BY ReplayStep
<1> QED BY <1>1, <1>2, <1>3, PTL DEF Spec

=============================================================================
