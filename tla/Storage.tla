------------------------------ MODULE Storage ------------------------------
(***************************************************************************)
(* The record operations of pkg/server/storage.go as functions from a      *)
(* store to a store.  A store maps each physical key to the envelope badger *)
(* holds for it, or to Absent.  Every operation is one badger transaction,  *)
(* so it is one function application here; how transactions of different    *)
(* callers interleave is the business of the modules that use this one.     *)
(*                                                                         *)
(* The payload is abstracted to what counterFromEnvelope tells apart: a     *)
(* payload shorter than eight bytes (a member of Bytes) or the 64-bit       *)
(* counter its first eight bytes spell (a member of Counter, whose width    *)
(* is the constant CounterMax).  Metadata and DiskSize are left out.        *)
(***************************************************************************)
EXTENDS Integers, Sequences, FiniteSets

CONSTANTS
  Key,         \* physical entry keys, what EncodeKey returns
  NilKey,      \* a request whose Key field is nil
  Bytes,       \* payloads too short to be read as a counter
  CounterMax,  \* largest counter value, 2^63 - 1 in the code
  Absent       \* badger.ErrKeyNotFound

Counter == -(CounterMax + 1) .. CounterMax
Value == Bytes \cup Counter

\* store.EncodeEnvelope(version, expiresAt, value)
Envelope == [version : Nat, expiresAt : Nat, value : Value]
Store == [Key -> Envelope \cup {Absent}]
EmptyStore == [k \in Key |-> Absent]

ASSUME StorageAssumption ==
  /\ CounterMax \in Nat
  /\ NilKey \notin Key
  /\ Absent \notin Envelope
  /\ Bytes \cap Counter = {}

(***************************************************************************)
(* Requests, as they reach the storage layer.  expiresAt = 0 means none.    *)
(***************************************************************************)
KeyArg == Key \cup {NilKey}
BatchRecord == [key : KeyArg, value : Value, ttl : Nat, expiresAt : Nat]
ReclaimEntry == [key : Key, version : Nat]

PutRequest == [op : {"put"}, key : KeyArg, value : Value, ttl : Nat,
               expiresAt : Nat, cas : BOOLEAN, version : Nat]
TouchRequest == [op : {"touch"}, key : KeyArg, ttl : Nat, expiresAt : Nat]
RemoveRequest == [op : {"remove"}, key : KeyArg]
IncrementRequest == [op : {"increment"}, key : KeyArg, initial : Counter,
                     delta : Counter, ttl : Nat, expiresAt : Nat]
BatchRequest == [op : {"batch"}, records : Seq(BatchRecord)]
ReclaimRequest == [op : {"reclaim"}, entries : SUBSET ReclaimEntry]

ClientRequest == PutRequest \cup TouchRequest \cup RemoveRequest
                   \cup IncrementRequest \cup BatchRequest
Command == ClientRequest \cup ReclaimRequest

-----------------------------------------------------------------------------
(***************************************************************************)
(* Expiry.  The clock a caller passes is the one of the node it runs on.    *)
(***************************************************************************)
IsExpired(expiresAt, now) == expiresAt # 0 /\ expiresAt <= now

ExpiryFromTtl(ttl, now) == now + ttl

resolveExpiryTtlFirst(ttl, expiresAt, now) ==
  IF ttl > 0 THEN ExpiryFromTtl(ttl, now) ELSE expiresAt

resolveExpiry(ttl, expiresAt, now) ==
  IF expiresAt # 0 THEN expiresAt
  ELSE IF ttl > 0 THEN ExpiryFromTtl(ttl, now) ELSE 0

\* What Get answers: an expired envelope is hidden, not deleted.
FetchRecord(envelope, now) ==
  IF envelope = Absent THEN Absent
  ELSE IF IsExpired(envelope.expiresAt, now) THEN Absent ELSE envelope

Get(db, key, now) == FetchRecord(db[key], now)

-----------------------------------------------------------------------------
(***************************************************************************)
(* The writes.  commitVersion is the raft index, or 0 with replication off, *)
(* in which case the version is a counter of the key's own.                 *)
(***************************************************************************)
StoredVersion(envelope) == IF envelope = Absent THEN 0 ELSE envelope.version

NextVersionPerKey(envelope, commitVersion) == StoredVersion(envelope) + 1

NextVersion(envelope, commitVersion) ==
  IF commitVersion # 0 THEN commitVersion ELSE StoredVersion(envelope) + 1

\* An absent key has version 0, so one comparison covers put-if-absent too.
\* The clock is not consulted: an expired envelope still counts as present.
CasHoldsIfAbsent(db, r) ==
  r.cas /\ db[r.key] # Absent => r.version = StoredVersion(db[r.key])

CasHolds(db, r) == r.cas => r.version = StoredVersion(db[r.key])

PutAccepted(db, r) == r.key # NilKey /\ CasHolds(db, r)

Put(db, r, commitVersion, now) ==
  IF PutAccepted(db, r)
  THEN [db EXCEPT ![r.key] =
          [version   |-> NextVersion(@, commitVersion),
           expiresAt |-> resolveExpiry(r.ttl, r.expiresAt, now),
           value     |-> r.value]]
  ELSE db

TouchAccepted(db, r) == r.key # NilKey /\ db[r.key] # Absent

Touch(db, r, commitVersion, now) ==
  IF TouchAccepted(db, r)
  THEN [db EXCEPT ![r.key] =
          [version   |-> NextVersion(@, commitVersion),
           expiresAt |-> resolveExpiry(r.ttl, r.expiresAt, now),
           value     |-> @.value]]
  ELSE db

Remove(db, r) ==
  IF r.key = NilKey THEN db ELSE [db EXCEPT ![r.key] = Absent]

\* Two's-complement addition of two counters.
CounterAdd(a, b) ==
  LET sum == a + b IN
  IF sum > CounterMax THEN sum - 2 * (CounterMax + 1)
  ELSE IF sum < -(CounterMax + 1) THEN sum + 2 * (CounterMax + 1)
  ELSE sum

counterFromEnvelope(envelope, fallback) ==
  IF envelope = Absent THEN fallback
  ELSE IF envelope.value \in Counter THEN envelope.value ELSE fallback

Increment(db, r, commitVersion, now) ==
  IF r.key = NilKey THEN db
  ELSE [db EXCEPT ![r.key] =
          [version   |-> NextVersion(@, commitVersion),
           expiresAt |-> resolveExpiry(r.ttl, r.expiresAt, now),
           value     |-> CounterAdd(counterFromEnvelope(@, r.initial),
                                    r.delta)]]

\* One transaction for the whole batch: a nil key anywhere aborts all of it,
\* and of several records for one key the last one stays.  Each of them takes
\* a version when the key counts for itself.
WritesTo(records, k) == {i \in DOMAIN records : records[i].key = k}
IsLastWrite(records, k, i) ==
  i \in WritesTo(records, k) /\ \A j \in WritesTo(records, k) : j <= i

BatchAccepted(records) == WritesTo(records, NilKey) = {}

SetBatch(db, r, commitVersion, now) ==
  IF ~BatchAccepted(r.records) THEN db
  ELSE [k \in Key |->
          IF \E i \in DOMAIN r.records : IsLastWrite(r.records, k, i)
          THEN LET last == r.records[CHOOSE i \in DOMAIN r.records :
                                       IsLastWrite(r.records, k, i)]
               IN [version   |-> IF commitVersion # 0 THEN commitVersion
                                 ELSE StoredVersion(db[k])
                                        + Cardinality(WritesTo(r.records, k)),
                   expiresAt |-> resolveExpiry(last.ttl, last.expiresAt, now),
                   value     |-> last.value]
          ELSE db[k]]

\* The sweep's delete is conditioned on the version, never on the clock.
ReclaimsAnyVersion(db, r, k) ==
  db[k] # Absent /\ \E e \in r.entries : e.key = k

Reclaims(db, r, k) ==
  db[k] # Absent /\ [key |-> k, version |-> StoredVersion(db[k])] \in r.entries

Reclaim(db, r) == [k \in Key |-> IF Reclaims(db, r, k) THEN Absent ELSE db[k]]

\* What a sweep may return: all expired ones, or some `limit' of them
\* (which ones is the key order, which is not modelled).
Expired(db, now) == {k \in Key : db[k] # Absent
                                 /\ IsExpired(db[k].expiresAt, now)}

BatchesBelow(S, limit) == {T \in SUBSET S : Cardinality(T) = limit - 1}

Batches(S, limit) ==
  IF limit > 0 /\ Cardinality(S) > limit
  THEN {T \in SUBSET S : Cardinality(T) = limit}
  ELSE {S}

ScanExpired(db, now, limit) ==
  {{[key |-> k, version |-> db[k].version] : k \in T} :
     T \in Batches(Expired(db, now), limit)}

\* The dispatch of a decoded command.
Exec(db, cmd, commitVersion, now) ==
  CASE cmd.op = "put"       -> Put(db, cmd, commitVersion, now)
    [] cmd.op = "touch"     -> Touch(db, cmd, commitVersion, now)
    [] cmd.op = "remove"    -> Remove(db, cmd)
    [] cmd.op = "increment" -> Increment(db, cmd, commitVersion, now)
    [] cmd.op = "batch"     -> SetBatch(db, cmd, commitVersion, now)
    [] cmd.op = "reclaim"   -> Reclaim(db, cmd)
    [] OTHER                -> db

-----------------------------------------------------------------------------
(***************************************************************************)
(* Vocabulary for properties: the keys a command may write, and the expiry  *)
(* it gives them.                                                           *)
(***************************************************************************)
WritesKey(cmd, k) ==
  CASE cmd.op \in {"put", "touch", "increment"} -> cmd.key = k
    [] cmd.op = "batch" -> WritesTo(cmd.records, k) # {}
    [] OTHER -> FALSE

CommandedExpiry(cmd, k) ==
  IF cmd.op = "batch"
  THEN cmd.records[CHOOSE i \in DOMAIN cmd.records :
                     IsLastWrite(cmd.records, k, i)].expiresAt
  ELSE cmd.expiresAt
=============================================================================
