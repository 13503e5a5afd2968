-------------------------------- MODULE Keys --------------------------------
(***************************************************************************)
(* The physical keys of pkg/server/key.go (length-prefixed fields and an    *)
(* optional timestamp) and the queries of storage.go that seek and iterate  *)
(* over a store in the byte order of these keys.                            *)
(*                                                                         *)
(* A client's key is a record of three byte sequences and a timestamp.      *)
(* Storage's Key is the set of physical keys.  A byte has Base values and a *)
(* sortable UUID two bytes, so that the limits are within reach.            *)
(***************************************************************************)
EXTENDS Storage

CONSTANTS
  Base,   \* values of a byte, 256 in the code
  NoTime  \* a key without a timestamp

ASSUME KeysAssumption == Base \in Nat \ {0, 1} /\ NoTime \notin Nat

\* What two bytes of length can say.
MaxKeyLength == Base * Base - 1
SizeOfUUID == 2

Byte == 0 .. Base - 1
ClientKey == [major : Seq(Byte), region : Seq(Byte), minor : Seq(Byte), ts : Nat \cup {NoTime}]

MajorKeyField == 1
RegionNameField == 2
MinorKeyField == 3

-----------------------------------------------------------------------------
SanitizeKeyLen(n) == IF n > MaxKeyLength THEN MaxKeyLength ELSE n

Sanitized(field) == SubSeq(field, 1, SanitizeKeyLen(Len(field)))

Uint16(n) == <<n \div Base, n % Base>>

\* uuid.MarshalSortableBinaryTo: byte order is time order.
MarshalSortable(ts) == Uint16(ts)

EncodeField(field) == Uint16(SanitizeKeyLen(Len(field))) \o Sanitized(field)

EncodeKeyPrefix(k, lastField) ==
  EncodeField(k.major)
  \o (IF lastField >= RegionNameField THEN EncodeField(k.region) ELSE <<>>)
  \o (IF lastField >= MinorKeyField THEN EncodeField(k.minor) ELSE <<>>)

RowKey(k) == EncodeKeyPrefix(k, MinorKeyField)

EncodeKey(k) == RowKey(k) \o IF k.ts = NoTime THEN <<>> ELSE MarshalSortable(k.ts)

\* The field whose length starts after position j, and where the field ends.
FieldAt(b, j) ==
  LET end == j + 2 + b[j + 1] * Base + b[j + 2]
  IN [bytes |-> SubSeq(b, j + 3, end), end |-> end]

DecodeKey(b) ==
  LET major == FieldAt(b, 0)
      region == FieldAt(b, major.end)
      minor == FieldAt(b, region.end)
      j == minor.end
  IN [major |-> major.bytes, region |-> region.bytes, minor |-> minor.bytes,
      ts |-> IF j <= Len(b) - SizeOfUUID THEN b[j + 1] * Base + b[j + 2] ELSE NoTime]

HasPrefix(e, prefix) == Len(prefix) <= Len(e) /\ SubSeq(e, 1, Len(prefix)) = prefix

\* bytes.Compare, also the order of the engine.
Below(a, b) ==
  \/ HasPrefix(b, a) /\ a # b
  \/ \E i \in 1 .. Len(a) : /\ i <= Len(b) /\ a[i] < b[i]
                            /\ \A j \in 1 .. i - 1 : a[j] = b[j]

-----------------------------------------------------------------------------
(***************************************************************************)
(* Queries.  Each reads one transaction's view of the store.                *)
(***************************************************************************)
Stored(db) == {e \in Key : db[e] # Absent}

Ascending(S) ==
  [i \in 1 .. Cardinality(S) |->
     CHOOSE e \in S : Cardinality({d \in S : Below(d, e)}) = i - 1]

Descending(S) ==
  [i \in 1 .. Cardinality(S) |->
     CHOOSE e \in S : Cardinality({d \in S : Below(e, d)}) = i - 1]

\* An iterator with a prefix, from its first key upwards.
Iterate(db, prefix) == Ascending({e \in Stored(db) : HasPrefix(e, prefix)})

\* A reverse iterator over k's row after Seek: from k itself downwards.
AtOrBelow(entryKey, e) == e = entryKey \/ Below(e, entryKey)

SeekReverse(db, k) ==
  LET entryKey == EncodeKey(k)
      rowKey == RowKey(k)
  IN Descending({e \in Stored(db) : HasPrefix(e, rowKey) /\ AtOrBelow(entryKey, e)})

Hidden(db, e, now) == FetchRecord(db[e], now) = Absent

Record(db, e) == [key |-> DecodeKey(e), version |-> db[e].version]

GetRecent(db, k, now) ==
  LET s == SeekReverse(db, k) IN
  IF s = <<>> \/ Hidden(db, Head(s), now) THEN Absent ELSE Record(db, Head(s))

FirstOf(s, size) == SubSeq(s, 1, IF Len(s) < size THEN Len(s) ELSE size)

Live(db, s, now) == SelectSeq(s, LAMBDA e : ~Hidden(db, e, now))

RangeTakesThenSkips(db, k, size, now) == Live(db, FirstOf(SeekReverse(db, k), size), now)

\* An expired record is skipped without consuming a slot.
RangeKeys(db, k, size, now) == FirstOf(Live(db, SeekReverse(db, k), now), size)

GetRange(db, k, size, now) ==
  LET s == RangeKeys(db, k, size, now) IN [i \in DOMAIN s |-> Record(db, s[i])]

-----------------------------------------------------------------------------
(***************************************************************************)
(* The same, said of the keys as clients write them.                        *)
(***************************************************************************)
SameRow(k, l) ==
  /\ Sanitized(k.major) = Sanitized(l.major)
  /\ Sanitized(k.region) = Sanitized(l.region)
  /\ Sanitized(k.minor) = Sanitized(l.minor)

NotLater(k, l) == k.ts = NoTime \/ (l.ts # NoTime /\ k.ts <= l.ts)

\* Which records a prefix stands for: its deepest set field decides, and every
\* field above that one has to be equal too, an empty one included.
Within(k, prefix) ==
  \/ prefix.major = <<>> /\ prefix.region = <<>> /\ prefix.minor = <<>>
  \/ /\ Sanitized(k.major) = Sanitized(prefix.major)
     /\ prefix.region # <<>> \/ prefix.minor # <<>>
          => Sanitized(k.region) = Sanitized(prefix.region)
     /\ prefix.minor # <<>> => Sanitized(k.minor) = Sanitized(prefix.minor)
=============================================================================
