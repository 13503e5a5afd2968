------------------------------ MODULE DataPlane ------------------------------
(***************************************************************************)
(* What the handlers of the value-rpc data plane (pkg/server/vrpc_data.go)  *)
(* do once a request is authorized: writes and their notifications, and the *)
(* goroutines behind the two streams, enumerate and watch, at most one of   *)
(* each per handler.  A stream remembers whose it is and the policy         *)
(* revision that let it through.                                            *)
(*                                                                         *)
(* The watch hub is external: it keeps a bounded buffer per watcher and     *)
(* drops what does not fit.                                                 *)
(***************************************************************************)
EXTENDS Keys

CONSTANTS
  Handler,    \* requests in progress at the same time
  BlockSize,  \* defBlockSize
  Slots,      \* a watcher's buffer in the hub
  Earlier,    \* log entries before the behaviour begins
  MaxTime     \* bound on the clock

ASSUME DataPlaneAssumption ==
  /\ BlockSize \in Nat \ {0} /\ Slots \in Nat \ {0}
  /\ Earlier \in Nat

VARIABLES
  db,       \* badger
  now,      \* the node's clock
  stream,   \* per handler: the goroutine of enumerate
  watcher,  \* per handler: the goroutine of watch
  owed,     \* per handler: changes committed and not yet passed to the hub
  events    \* auxiliary: every change, in commit order

dvars == <<db, now, stream, watcher, owed, events>>

NoStream == [phase |-> "none"]
NoWatcher == [phase |-> "none"]

DataInit(initial) ==
  /\ db = initial
  /\ now = 0
  /\ stream = [h \in Handler |-> NoStream]
  /\ watcher = [h \in Handler |-> NoWatcher]
  /\ owed = [h \in Handler |-> <<>>]
  /\ events = <<>>

Tick ==
  /\ now < MaxTime
  /\ now' = now + 1
  /\ UNCHANGED <<db, stream, watcher, owed, events>>

-----------------------------------------------------------------------------
(***************************************************************************)
(* Writes.  The storage layer commits one transaction and then notifies the *)
(* hub of one key after the other.                                          *)
(***************************************************************************)
\* The command with physical keys, as the storage layer executes it.
Physical(c) ==
  IF c.op = "batch"
  THEN [op |-> "batch",
        records |-> [i \in DOMAIN c.records |->
                       [c.records[i] EXCEPT !.key = EncodeKey(@)]]]
  ELSE [c EXCEPT !.key = EncodeKey(@)]

Change(key, type) == [key |-> key, type |-> type]

Changes(c) ==
  CASE c.op = "put" /\ PutAccepted(db, c) -> <<Change(c.key, "set")>>
    [] c.op = "touch" /\ TouchAccepted(db, c) -> <<Change(c.key, "set")>>
    [] c.op = "increment" -> <<Change(c.key, "set")>>
    [] c.op = "remove" -> <<Change(c.key, "delete")>>
    [] c.op = "batch" -> [i \in DOMAIN c.records |-> Change(c.records[i].key, "set")]
    [] OTHER -> <<>>

\* With replication on, the one goroutine that applies the log also notifies.
MayApply(replicated) == replicated => \A h \in Handler : owed[h] = <<>>

Apply(h, c, replicated) ==
  LET changes == Changes(c)
      numbered == [i \in DOMAIN changes |->
                     [at |-> Len(events) + i, key |-> changes[i].key, type |-> changes[i].type]]
  IN /\ MayApply(replicated)
     /\ db' = Exec(db, c, IF replicated THEN Earlier + Len(events) + 1 ELSE 0, now)
     /\ events' = events \o numbered
     /\ owed' = [owed EXCEPT ![h] = numbered]
     /\ UNCHANGED <<now, stream, watcher>>

\* hub.Notify for the next changed key.
Offered(w, e) ==
  IF w.phase # "on" \/ ~HasPrefix(e.key, w.prefix) THEN w
  ELSE IF Len(w.buffer) = Slots THEN [w EXCEPT !.dropped = TRUE]
  ELSE [w EXCEPT !.buffer = Append(@, e)]

notifyHub(h) ==
  /\ owed[h] # <<>>
  /\ watcher' = [g \in Handler |-> Offered(watcher[g], Head(owed[h]))]
  /\ owed' = [owed EXCEPT ![h] = Tail(@)]
  /\ UNCHANGED <<db, now, stream, events>>

-----------------------------------------------------------------------------
(***************************************************************************)
(* enumerate.                                                              *)
(***************************************************************************)
\* How deep the prefix goes; 0 stands for no prefix, the whole store.
areaFieldTopDown(k) ==
  IF k.major # <<>> THEN MajorKeyField
  ELSE IF k.region # <<>> THEN RegionNameField
  ELSE IF k.minor # <<>> THEN MinorKeyField ELSE 0

areaField(k) ==
  IF k.minor # <<>> THEN MinorKeyField
  ELSE IF k.region # <<>> THEN RegionNameField
  ELSE IF k.major # <<>> THEN MajorKeyField ELSE 0

\* Storage.Scan and Storage.GetArea differ in what they iterate over.
ScanKeys == Iterate(db, <<>>)

GetAreaKeys(k, lastField) == Iterate(db, EncodeKeyPrefix(k, lastField))

scan(k) == IF areaField(k) = 0 THEN ScanKeys ELSE GetAreaKeys(k, areaField(k))

enumerate(h, c, rev) ==
  /\ stream' = [stream EXCEPT ![h] =
       [phase |-> "opened", who |-> c.who, rev |-> rev, ordered |-> c.ordered, reverse |-> c.reverse, prefix |-> c.key,
        txn |-> EmptyStore, begun |-> 0, rest |-> <<>>, block |-> <<>>, out |-> <<>>,
        skipped |-> {}, canceled |-> FALSE]]
  /\ UNCHANGED <<db, now, watcher, owed, events>>

\* The transaction and its iterator are opened by the goroutine.
BeginScan(h) ==
  /\ stream[h].phase = "opened"
  /\ stream' = [stream EXCEPT ![h].phase = "reading", ![h].txn = db, ![h].begun = now,
                              ![h].rest = scan(stream[h].prefix)]
  /\ UNCHANGED <<db, now, watcher, owed, events>>

\* A record whose value cannot be fetched, which may happen to the ones in unreadable,
\* is logged and left out.
ReadNext(h, unreadable) ==
  LET s == stream[h]
      e == Head(s.rest)
  IN /\ s.phase = "reading" /\ s.rest # <<>>
     /\ \E skipped \in {{}, {e} \cap unreadable} :
          LET block == IF skipped # {} \/ Hidden(s.txn, e, now) THEN s.block
                       ELSE Append(s.block, Record(s.txn, e))
          IN stream' = [stream EXCEPT
               ![h].rest = Tail(@),
               ![h].block = block,
               ![h].skipped = @ \cup skipped,
               ![h].phase = IF ~s.ordered /\ Len(block) = BlockSize THEN "sending"
                            ELSE "reading"]
     /\ UNCHANGED <<db, now, watcher, owed, events>>

InOrder(s, a, b) ==
  IF s.reverse THEN Below(b.key.minor, a.key.minor) ELSE Below(a.key.minor, b.key.minor)

\* sort.Slice by the minor key alone: equal ones may come out in any order.
Sortings(s) ==
  LET n == Len(s.block) IN
  {t \in {[i \in 1 .. n |-> s.block[p[i]]] : p \in {q \in [1 .. n -> 1 .. n] :
            \A i, j \in 1 .. n : q[i] = q[j] => i = j}} :
     \A i, j \in 1 .. n : i < j => ~InOrder(s, t[j], t[i])}

\* The records that remain at the end make a last, shorter block.
LastBlockLost(s) == IF s.ordered THEN Sortings(s) ELSE {<<>>}

LastBlock(s) == IF s.ordered THEN Sortings(s) ELSE {s.block}

ScanEnds(h) ==
  /\ stream[h].phase = "reading" /\ stream[h].rest = <<>>
  /\ \E block \in LastBlock(stream[h]) :
       stream' = [stream EXCEPT ![h].block = block,
                                ![h].phase = IF block = <<>> THEN "closed" ELSE "sending"]
  /\ UNCHANGED <<db, now, watcher, owed, events>>

\* out <- rec, when the connection takes it.
Send(h) ==
  LET s == stream[h] IN
  /\ s.phase = "sending"
  /\ stream' = [stream EXCEPT
       ![h].out = Append(@, Head(s.block)),
       ![h].block = Tail(@),
       ![h].phase = IF Tail(s.block) # <<>> THEN "sending"
                    ELSE IF s.rest # <<>> THEN "reading" ELSE "closed"]
  /\ UNCHANGED <<db, now, watcher, owed, events>>

\* The client goes away and the request's context is canceled ...
Cancel(h) ==
  /\ stream[h].phase \in {"opened", "reading", "sending"}
  /\ ~stream[h].canceled
  /\ stream' = [stream EXCEPT ![h].canceled = TRUE]
  /\ UNCHANGED <<db, now, watcher, owed, events>>

\* ... which only a send notices.
NeverNoticed(s) == FALSE

NoticesDone(s) == s.phase = "sending" /\ s.canceled

Abort(h) ==
  /\ NoticesDone(stream[h])
  /\ stream' = [stream EXCEPT ![h].phase = "aborted"]
  /\ UNCHANGED <<db, now, watcher, owed, events>>

CloseStream(h) ==
  /\ stream[h].phase \in {"closed", "aborted"}
  /\ stream' = [stream EXCEPT ![h] = NoStream]
  /\ UNCHANGED <<db, now, watcher, owed, events>>

-----------------------------------------------------------------------------
(***************************************************************************)
(* watch.                                                                  *)
(***************************************************************************)
watchPrefixShallow(k) == IF k.major = <<>> THEN <<>> ELSE EncodeKeyPrefix(k, MajorKeyField)

watchPrefix(k) ==
  IF k.minor # <<>> THEN EncodeKeyPrefix(k, MinorKeyField)
  ELSE IF k.region # <<>> THEN EncodeKeyPrefix(k, RegionNameField)
  ELSE IF k.major # <<>> THEN EncodeKeyPrefix(k, MajorKeyField) ELSE <<>>

watch(h, c, rev) ==
  /\ watcher' = [watcher EXCEPT ![h] =
       [phase |-> "starting", who |-> c.who, rev |-> rev, asked |-> c.key, prefix |-> watchPrefix(c.key), since |-> 0,
        buffer |-> <<>>, seen |-> <<>>, dropped |-> FALSE]]
  /\ UNCHANGED <<db, now, stream, owed, events>>

\* The goroutine registers with the hub after watch has answered.
Register(h) ==
  /\ watcher[h].phase = "starting"
  /\ watcher' = [watcher EXCEPT ![h].phase = "on", ![h].since = Len(events)]
  /\ UNCHANGED <<db, now, stream, owed, events>>

Deliver(h) ==
  /\ watcher[h].phase = "on" /\ watcher[h].buffer # <<>>
  /\ watcher' = [watcher EXCEPT ![h].buffer = Tail(@),
                                ![h].seen = Append(@, Head(watcher[h].buffer))]
  /\ UNCHANGED <<db, now, stream, owed, events>>

StopWatch(h) ==
  /\ watcher[h].phase # "none"
  /\ watcher' = [watcher EXCEPT ![h] = NoWatcher]
  /\ UNCHANGED <<db, now, stream, owed, events>>

-----------------------------------------------------------------------------
(***************************************************************************)
(* Properties.                                                             *)
(***************************************************************************)
\* What queries for k may answer with, among the keys in Asked.
Stands(k) == EncodeKey(k) \in Key /\ db[EncodeKey(k)] # Absent
Candidates(k, Asked) == {l \in Asked : SameRow(l, k) /\ NotLater(l, k) /\ Stands(l)}
LiveOnes(S) == {l \in S : ~IsExpired(db[EncodeKey(l)].expiresAt, now)}
Answer(l) == [key |-> [l EXCEPT !.major = Sanitized(@), !.region = Sanitized(@),
                                !.minor = Sanitized(@)],
              version |-> db[EncodeKey(l)].version]

\* GetRecent finds, by one reverse seek over bytes, the record of the row with
\* the latest timestamp not after the one asked for; when exactly that record
\* has expired the answer is "not found", not an older record.
AnswersRecent(k, Asked) ==
  LET a == GetRecent(db, k, now)
      candidates == Candidates(k, Asked)
      live == LiveOnes(candidates)
  IN \/ \E l \in live : a = Answer(l) /\ \A other \in candidates : NotLater(other, l)
     \/ a = Absent /\ \A l \in live : \E other \in candidates : ~NotLater(other, l)

\* GetRange answers with the latest live records of the row, newest first, and
\* with all of them unless there are more than asked for: expired records take
\* no slot.
AnswersRange(k, size, Asked) ==
  LET a == GetRange(db, k, size, now)
      due == {Answer(l) : l \in LiveOnes(Candidates(k, Asked))}
  IN /\ {a[i] : i \in DOMAIN a} \subseteq due
     /\ Len(a) = IF Cardinality(due) < size THEN Cardinality(due) ELSE size
     /\ \A i \in DOMAIN a, other \in due :
          (\A j \in 1 .. i : other # a[j]) => ~NotLater(a[i].key, other.key)

\* enumerate: when the stream closes by itself, the client has received exactly
\* once every record of the prefix that the transaction saw, whose value it could
\* read and that was live throughout, and none that was outside the prefix, expired before the scan or
\* written after it began, whatever was written and expired meanwhile; and what an
\* ordered enumeration has streamed so far is "sorted by the decoded minor key
\* (lexical, reversed on request)".
EnumerationExact ==
  \A h \in Handler : stream[h].phase # "none" =>
    LET s == stream[h]
        sent == {s.out[i] : i \in DOMAIN s.out}
        LiveAt(t) == {Record(s.txn, e) : e \in {d \in Stored(s.txn) :
                        Within(DecodeKey(d), s.prefix) /\ ~IsExpired(s.txn[d].expiresAt, t)}}
    IN /\ s.phase \in {"closed", "aborted"} =>
            /\ \A i, j \in DOMAIN s.out : s.out[i] = s.out[j] => i = j
            /\ sent \subseteq LiveAt(s.begun)
       /\ s.phase = "closed" => LiveAt(now) \ {Record(s.txn, e) : e \in s.skipped} \subseteq sent
       /\ s.ordered => \A i, j \in DOMAIN s.out : i < j =>
            IF s.reverse THEN ~Below(s.out[i].key.minor, s.out[j].key.minor)
            ELSE ~Below(s.out[j].key.minor, s.out[i].key.minor)

\* What watcher h has been told, and what of it is on its way.
Told(h) == watcher[h].seen \o watcher[h].buffer

ToldOfChanges(h) ==
  LET w == watcher[h]
      told == Told(h)
      coming == UNION {{owed[g][i] : i \in DOMAIN owed[g]} : g \in Handler}
  IN /\ \A i, j \in DOMAIN told : told[i].at = told[j].at => i = j
     /\ \A i \in DOMAIN told : /\ told[i] = events[told[i].at]
                               /\ Within(DecodeKey(told[i].key), w.asked)
     /\ ~w.dropped =>
          \A i \in w.since + 1 .. Len(events) :
            Within(DecodeKey(events[i].key), w.asked)
              => events[i] \in coming \cup {told[j] : j \in DOMAIN told}

InCommitOrder(h) ==
  \A i, j \in DOMAIN Told(h) : i < j => Told(h)[i].at < Told(h)[j].at
=============================================================================
