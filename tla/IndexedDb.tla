------------------------------- MODULE IndexedDb -------------------------------
(***************************************************************************)
(* chromium_reader.indexeddb.IndexedDbReader over RawLevelDb: the          *)
(* constructor keeps the names of databases and stores and the raw         *)
(* records, and each records() joins the three and decodes the values.     *)
(*                                                                         *)
(* User keys and values are byte strings here, laid out as the docstring   *)
(* of the module and its comments say.                                     *)
(***************************************************************************)
EXTENDS RawLevelDb, BlinkEnvelope, SequencesExt

CONSTANTS
  UserKey,   (* the bytes of each user key                                 *)
  Origin,    (* the origin that owns the directory, in UTF-16 code units   *)
  DbNames, StoreNames,  (* names, in UTF-16 code units                     *)
  DbIds, StoreIds, (* ids, given out in turn and not again                 *)
  IdbKeys,   (* encoded IndexedDB keys                                     *)
  Payloads   (* what is stored under them: bytes, and the value they mean  *)

\* the length and the code units, the high byte of each first
Units(s) ==
  [i \in 1..2 * Len(s) |-> IF i % 2 = 1 THEN s[(i + 1) \div 2] \div 256
                                        ELSE s[i \div 2] % 256]
EncodeString(s) == EncodeVarint(Len(s)) \o Units(s)

NameKey(n) == <<0, 0, 0, 0, 201>> \o EncodeString(Origin) \o <<0>> \o EncodeString(n)
StoreKey(d, s) == <<0>> \o EncodeVarint(d) \o <<0, 50>> \o EncodeVarint(s) \o <<0>>
RecordKey(d, s, k) == <<0>> \o EncodeVarint(d) \o <<1>> \o EncodeVarint(s) \o <<0>> \o k

\* Other keys of the global section: the version of the schema and the like.
SchemaTag == 0..200
SchemaKey(t) == <<0, 0, 0, 0, t>>

\* The keys that an IndexedDB has.
StoredNames == {NameKey(n) : n \in DbNames}
StoredStores == {StoreKey(d, s) : d \in DbIds, s \in StoreIds}
StoredRecords == {RecordKey(d, s, k) : d \in DbIds, s \in StoreIds, k \in IdbKeys}
SchemaKeys == {SchemaKey(t) : t \in SchemaTag}

CodeUnit == 0..65535

\* A name, in code units: any, surrogates without a partner among them.
Text(s) == s \in Seq(CodeUnit) /\ Len(s) \in TwoByte

\* UTF-16 that Python decodes: surrogates come in pairs, the high one first.
High == 55296..56319
Low == 56320..57343
Paired(s) ==
  \A i \in DOMAIN s : /\ s[i] \in High => i + 1 \in DOMAIN s /\ s[i + 1] \in Low
                      /\ s[i] \in Low => i - 1 \in DOMAIN s /\ s[i - 1] \in High

\* What a browser stores: a version or none, Blink's header and V8's or V8's alone,
\* and what V8 wrote.
Framed(p) ==
  \E version \in {<<>>} \cup {<<n>> : n \in 0..127}, v8 \in 13..16,
     blink \in {<<>>} \cup {<<HEADER_TAG, n>> : n \in 17..20} :
    LET front == version \o blink \o <<HEADER_TAG, v8>>
    IN  /\ IsPrefix(front, p.bytes)
        /\ p.value = "none" \/ ReadValue(Drop(p.bytes, Len(front))) = Outcome("value", p.value)

ASSUME IndexedDbConstants ==
  /\ DbIds \subseteq Byte \ {0} /\ StoreIds \subseteq TwoByte \ {0} /\ IdbKeys \subseteq Seq(Byte)
  /\ Text(Origin) /\ Paired(Origin) /\ \A n \in DbNames \cup StoreNames : Text(n)
  /\ UserKey \in [Keys -> Seq(Byte)]
  /\ \A i, j \in Keys : i < j => UserKey[i] # UserKey[j]
  /\ StoredNames \cup StoredStores \cup StoredRecords \subseteq {UserKey[k] : k \in Keys}
  /\ \A k \in Keys :
       UserKey[k] \in StoredNames \cup StoredStores \cup StoredRecords \cup SchemaKeys
  /\ \A batch \in WriteBatches : \A i \in DOMAIN batch : UserKey[batch[i].key] \in SchemaKeys
  /\ Values \subseteq Seq(Byte) /\ <<>> \in Values
  /\ {<<d>> : d \in DbIds} \cup {EncodeString(n) : n \in StoreNames} \subseteq Values
  /\ \A p \in Payloads : p.bytes \in Values /\ Framed(p)

VARIABLES
  databases,     (* _databases: names by id                                *)
  objectStores,  (* _object_stores: names by database and store id         *)
  rawRecords     (* _raw_records                                           *)

idbVars == <<vars, databases, objectStores, rawRecords>>
reader == <<databases, objectStores, rawRecords>>

IdbInit ==
  /\ Init
  /\ databases = [d \in {} |-> <<>>]
  /\ objectStores = [s \in {} |-> <<>>]
  /\ rawRecords = <<>>

(***************************************************************************)
(* The browser's IndexedDB (external)                                      *)
(***************************************************************************)
KeyNo(bytes) == CHOOSE k \in Keys : UserKey[k] = bytes
NameNo == [n \in DbNames |-> KeyNo(NameKey(n))]
StoreNo == [i \in DbIds \X StoreIds |-> KeyNo(StoreKey(i[1], i[2]))]
RecordNo == [i \in DbIds \X StoreIds \X IdbKeys |-> KeyNo(RecordKey(i[1], i[2], i[3]))]

Put(k, v) == [key |-> k, live |-> TRUE, value |-> v]
Delete(k) == [key |-> k, live |-> FALSE, value |-> <<>>]

\* the entry a look-up in the database finds
Lookup(k) == {e \in NewestOf(Written, k) : e.live}

\* what key k was ever given, and what it has
Given(k) == {e.value : e \in {e \in Written : e.key = k /\ e.live}}
Has(k) == {e.value : e \in Lookup(k)}

\* in the database list, ids are stored as little-endian numbers of one byte
IdOf(n) == {v[1] : v \in Has(NameNo[n])}
NewIds(ids, used) == {d \in ids \ used : \A o \in ids \ used : d <= o}
UsedDbs == UNION {{v[1] : v \in Given(NameNo[n])} : n \in DbNames}
UsedStores(d) == {s \in StoreIds : Given(StoreNo[<<d, s>>]) # {}}

Stores(d) == {s \in StoreIds : Has(StoreNo[<<d, s>>]) # {}}
StoredKeys(d, s) == {k \in IdbKeys : Has(RecordNo[<<d, s, k>>]) # {}}
Cleared(d, s) ==
  {Delete(StoreNo[<<d, s>>])} \cup {Delete(RecordNo[<<d, s, k>>]) : k \in StoredKeys(d, s)}

CreateDatabase(n) ==
  /\ IdOf(n) = {}
  /\ \E d \in NewIds(DbIds, UsedDbs) : Write(<<Put(NameNo[n], <<d>>)>>)

DeleteDatabase(n) ==
  \E d \in IdOf(n) :
    Write(SetToSeq({Delete(NameNo[n])} \cup UNION {Cleared(d, s) : s \in Stores(d)}))

CreateStore(d, n) ==
  \E s \in NewIds(StoreIds, UsedStores(d)) :
    Write(<<Put(StoreNo[<<d, s>>], EncodeString(n))>>)

RenameStore(d, s, n) ==
  /\ EncodeString(n) \notin Has(StoreNo[<<d, s>>])
  /\ Write(<<Put(StoreNo[<<d, s>>], EncodeString(n))>>)

DeleteStore(d, s) == Write(SetToSeq(Cleared(d, s)))

PutRecord(d, s, k, p) == Write(<<Put(RecordNo[<<d, s, k>>], p.bytes)>>)
DeleteRecord(d, s, k) == Write(<<Delete(RecordNo[<<d, s, k>>])>>)

Browse ==
  /\ up /\ seq < MaxSeq
  /\ \E n \in DbNames :
       \/ CreateDatabase(n)
       \/ DeleteDatabase(n)
       \/ \E d \in IdOf(n) :
            \/ \E m \in StoreNames : CreateStore(d, m)
            \/ \E s \in Stores(d) :
                 \/ DeleteStore(d, s)
                 \/ \E m \in StoreNames : RenameStore(d, s, m)
                 \/ \E k \in IdbKeys, p \in Payloads : PutRecord(d, s, k, p)
                 \/ \E k \in StoredKeys(d, s) : DeleteRecord(d, s, k)

(***************************************************************************)
(* IndexedDbReader.__init__: _classify every record                        *)
(***************************************************************************)
\* _read_short_id
HasId(s) == VarintLen(s, 5) > 0
IdAt(s) == VarintValue(s, 5)
AfterId(s) == Drop(s, VarintLen(s, 5))

\* _decode_string_with_length: what follows the string is not looked at.
DecodeString(s) ==
  LET units == AfterId(s)
  IN  [i \in 1..IdAt(s) |-> 256 * units[2 * i - 1] + units[2 * i]]
Decodes(s) ==
  HasId(s) /\ Len(AfterId(s)) >= 2 * IdAt(s) /\ Paired(DecodeString(s))

\* int.from_bytes(value, "little")
FromBytes(v) ==
  LET value[i \in 1..Len(v) + 1] ==
        IF i > Len(v) THEN 0 ELSE v[i] + 256 * value[i + 1]
  IN  value[1]

IsKey(key) == Len(key) >= 4 /\ key[1] = 0
IsGlobal(key) == IsKey(key) /\ SubSeq(key, 2, 4) = <<0, 0, 0>>

\* 0x00 <db_id> <section> <body>
InSection(key, section) ==
  /\ IsKey(key) /\ ~IsGlobal(key) /\ HasId(Tail(key))
  /\ IsPrefix(<<section>>, AfterId(Tail(key)))
DbIdOf(key) == IdAt(Tail(key))
Body(key) == Tail(AfterId(Tail(key)))

\* The origin and the name are what the first zero byte parts.
ZeroesOf(s) == {i \in DOMAIN s : s[i] = 0}
FirstZero(s) == CHOOSE i \in ZeroesOf(s) : \A j \in ZeroesOf(s) : i <= j
OriginPart(s) == SubSeq(s, 1, FirstZero(s) - 1)
NamePart(s) == Drop(s, FirstZero(s))

IsDatabaseName(key) ==
  LET body == Drop(key, 5)
  IN  /\ IsGlobal(key) /\ Len(key) >= 5 /\ key[5] = 201
      /\ ZeroesOf(body) # {}
      /\ Decodes(OriginPart(body)) /\ Decodes(NamePart(body))

IsStoreName(key) ==
  /\ InSection(key, 0)
  /\ IsPrefix(<<50>>, Body(key))
  /\ HasId(Tail(Body(key))) /\ AfterId(Tail(Body(key))) = <<0>>

IsRecord(key) ==
  InSection(key, 1) /\ HasId(Body(key)) /\ IsPrefix(<<0>>, AfterId(Body(key)))

\* the keys of each kind, and what is read of them
NameKeys == {k \in Keys : IsDatabaseName(UserKey[k])}
StoreKeys == {k \in Keys : IsStoreName(UserKey[k])}
RecordKeys == {k \in Keys : IsRecord(UserKey[k])}
NameAt == [k \in NameKeys |-> DecodeString(NamePart(Drop(UserKey[k], 5)))]
StoreAt == [k \in StoreKeys |-> <<DbIdOf(UserKey[k]), IdAt(Tail(Body(UserKey[k])))>>]
RecordAt ==
  [k \in RecordKeys |->
     LET body == Body(UserKey[k])
     IN  [db |-> DbIdOf(UserKey[k]), store |-> IdAt(body), key |-> Tail(AfterId(body))]]

\* dict[key] = value
Assigned(dict, key, value) ==
  [k \in DOMAIN dict \cup {key} |-> IF k = key THEN value ELSE dict[k]]

\* Mutant: the name of a deleted database is kept under its value, id 0.
ClassifyGlobalDead(e) ==
  /\ e.key \in NameKeys
  /\ databases' = Assigned(databases, FromBytes(e.value), NameAt[e.key])
  /\ UNCHANGED <<objectStores, rawRecords>>

\* A later entry for the same id replaces the one before.
ClassifyGlobal(e) ==
  /\ e.key \in NameKeys
  /\ databases' =
       IF e.live THEN Assigned(databases, FromBytes(e.value), NameAt[e.key]) ELSE databases
  /\ UNCHANGED <<objectStores, rawRecords>>

\* Mutant: stores are told apart by their own id alone.
ClassifyDatabaseMetaById(e) ==
  /\ e.key \in StoreKeys
  /\ objectStores' =
       IF e.live /\ Decodes(e.value)
       THEN [s \in DOMAIN objectStores \cup {StoreAt[e.key]} |->
               IF s[2] = StoreAt[e.key][2] THEN DecodeString(e.value) ELSE objectStores[s]]
       ELSE objectStores
  /\ UNCHANGED <<databases, rawRecords>>

\* Mutant: the name that is read first is kept.
ClassifyDatabaseMetaOnce(e) ==
  /\ e.key \in StoreKeys
  /\ objectStores' =
       IF e.live /\ Decodes(e.value) /\ StoreAt[e.key] \notin DOMAIN objectStores
       THEN Assigned(objectStores, StoreAt[e.key], DecodeString(e.value))
       ELSE objectStores
  /\ UNCHANGED <<databases, rawRecords>>

ClassifyDatabaseMeta(e) ==
  /\ e.key \in StoreKeys
  /\ objectStores' =
       IF e.live /\ Decodes(e.value)
       THEN Assigned(objectStores, StoreAt[e.key], DecodeString(e.value))
       ELSE objectStores
  /\ UNCHANGED <<databases, rawRecords>>

ClassifyRecord(e) ==
  /\ e.key \in RecordKeys
  /\ rawRecords' = Append(rawRecords,
       [db |-> RecordAt[e.key].db, store |-> RecordAt[e.key].store,
        key |-> RecordAt[e.key].key, value |-> e.value, seq |-> e.seq, live |-> e.live])
  /\ UNCHANGED <<databases, objectStores>>

SkipEntry(e) == e.key \notin NameKeys \cup StoreKeys \cup RecordKeys /\ UNCHANGED reader

Classify ==
  /\ YieldRecord
  /\ \E e \in rest \ rest' :
       \/ ClassifyGlobal(e)
       \/ ClassifyDatabaseMeta(e)
       \/ ClassifyRecord(e)
       \/ SkipEntry(e)

(***************************************************************************)
(* records(database=n in ns, object_store=m in ms, include_deletions=d,    *)
(* skip_undecodable=skip)                                                  *)
(***************************************************************************)
\* The varint before the payload is passed over if it is below 16; 255 is FF 01,
\* a header that neither Blink nor V8 writes.
DecodeValue(raw) ==
  LET n     == VarintLen(raw, 10)
      first == VarintValue(raw, 10)
  IN  IF n = 0 THEN Raised(IF Len(raw) < 10 THEN "BlinkError" ELSE "ValueError")
      ELSE Deserialize(IF first = 255 \/ first < 16 THEN Drop(raw, n) ELSE raw)

Decoded == [v \in Values |-> DecodeValue(v)]

\* the exceptions of which skip_undecodable speaks; others end the iteration
Caught == {"BlinkError", "V8Error"}

Named(r) == r.db \in DOMAIN databases /\ <<r.db, r.store>> \in DOMAIN objectStores
Selected(r, ns, ms, d) ==
  /\ Named(r) /\ databases[r.db] \in ns /\ objectStores[<<r.db, r.store>>] \in ms
  /\ r.live \/ d

Ends(r) == Decoded[r.value].kind \notin Caught \cup {"value"}

\* The record, with value None unless the outcome is a value.
RecordOf(r) ==
  [database |-> databases[r.db], store |-> objectStores[<<r.db, r.store>>],
   key |-> r.key, value |-> Decoded[r.value], seq |-> r.seq, live |-> r.live]

Records(ns, ms, d, skip) ==
  {RecordOf(rawRecords[i]) :
     i \in {i \in DOMAIN rawRecords :
              /\ Selected(rawRecords[i], ns, ms, d)
              /\ Decoded[rawRecords[i].value].kind \in
                   {"value"} \cup (IF skip THEN {} ELSE Caught)
              /\ \A j \in 1..i - 1 :
                   ~(Selected(rawRecords[j], ns, ms, d) /\ Ends(rawRecords[j]))}}

\* object_stores(database_name=n)
ObjectStores(n) ==
  {s \in DOMAIN objectStores : s[1] \in DOMAIN databases /\ databases[s[1]] = n}

(***************************************************************************)
(* Specification                                                           *)
(***************************************************************************)
IdbNext ==
  \/ Classify
  \/ Browse /\ UNCHANGED reader
  \/ seq = 0 /\ Writes /\ UNCHANGED reader
  \/ Maintain /\ UNCHANGED reader
  \/ Open /\ UNCHANGED reader
  \/ pc = "open" /\ Iterate(FALSE) /\ UNCHANGED reader
  \/ NextFile /\ UNCHANGED reader
  \/ Exhausted /\ UNCHANGED reader
  \/ pc = "done" /\ Close /\ UNCHANGED reader

IdbSpec == IdbInit /\ [][IdbNext]_idbVars

(***************************************************************************)
(* Properties                                                              *)
(***************************************************************************)
RawRecord ==
  [db : Nat, store : Nat, key : Seq(Byte), value : Values, seq : Nat, live : BOOLEAN]

\* Every variable has its type.
IdbTypeOK ==
  /\ TypeOK
  /\ DOMAIN databases \subseteq DbIds
  /\ \A d \in DOMAIN databases : databases[d] \in DbNames
  /\ DOMAIN objectStores \subseteq DbIds \X StoreIds
  /\ \A s \in DOMAIN objectStores : objectStores[s] \in StoreNames
  /\ rawRecords \in Seq(RawRecord)

AllRecords(d) == Records(DbNames, StoreNames, d, TRUE)

\* A record is shown under a name that its own database had and one that its own
\* store had at some time, never under that of another database or store,
\* though names are read before or after it, in the order of files.
NamesRight ==
  \A r \in AllRecords(TRUE) : \E d \in DbIds, s \in StoreIds :
    /\ <<d>> \in Given(NameNo[r.database])
    /\ EncodeString(r.store) \in Given(StoreNo[<<d, s>>])
    /\ \E e \in Written : e.seq = r.seq /\ e.key = RecordNo[<<d, s, r.key>>]

\* the value records() decodes: no version before it, or one below 16
Short(bytes) == Head(bytes) < 16 \/ Head(bytes) = HEADER_TAG

\* An older name is read after the newest: it is in a file of a higher number,
\* or in the same table, where the entries of a key come newest first.
Overtaken(k) ==
  \E f \in opened : \E o \in content[f] :
    /\ o.key = k /\ o.live /\ Decodes(o.value)
    /\ \A e \in NewestOf(Written, k) :
         /\ o.seq < e.seq
         /\ \A g \in opened : e \in content[g] => g < f \/ (g = f /\ f \notin logs)

\* the names a store may go by: the one it has, unless that is overtaken
NamesOf(d, s) ==
  LET k == StoreNo[<<d, s>>]
  IN  {m \in StoreNames :
         EncodeString(m) \in IF Overtaken(k) THEN Given(k) ELSE Has(k)}

\* What a store held when the browser stopped is among the records, under the
\* name of its database, the name the store has and the value that was stored,
\* unless a value read before it raised what records() does not catch.
Shown(n, d, s) ==
  LET shown == AllRecords(FALSE)
  IN  \A k \in IdbKeys : \A e \in Lookup(RecordNo[<<d, s, k>>]) : \A p \in Payloads :
        \/ e.value # p.bytes \/ p.value = "none" \/ ~Short(p.bytes)
        \/ \E i, j \in DOMAIN rawRecords :
             /\ i < j /\ rawRecords[j].seq = e.seq
             /\ Named(rawRecords[i]) /\ Ends(rawRecords[i])
        \/ \E r \in shown :
             /\ r.database = n /\ r.store \in NamesOf(d, s)
             /\ r.key = k /\ r.seq = e.seq /\ r.value = Outcome("value", p.value)

\* Every store there is when the browser stopped is in object_stores() under
\* the name it has, if that decodes; and if the origin has no zero byte and the
\* name of its database decodes, what it holds is shown.
CurrentVisible ==
  pc = "done" /\ ~LiveBrowser =>
    \A n \in DbNames : \A d \in IdOf(n) : \A s \in Stores(d) :
      (\A v \in Has(StoreNo[<<d, s>>]) : Decodes(v)) =>
        /\ <<d, s>> \in DOMAIN objectStores /\ objectStores[<<d, s>>] \in NamesOf(d, s)
        /\ ZeroesOf(EncodeString(Origin)) = {} /\ Paired(n) =>
             <<d, s>> \in ObjectStores(n) /\ Shown(n, d, s)

\* indexeddb.py:128 "Database name entry: 0x00 0x00 0x00 0xC9 <origin_string>
\* 0x00 <db_name>", where strings are length-prefixed UTF-16BE (303): the
\* databases that exist are among reader.databases.
DatabasesListed ==
  pc = "done" => \A n \in DbNames : \A d \in IdOf(n) :
                   d \in DOMAIN databases /\ databases[d] = n
=============================================================================
