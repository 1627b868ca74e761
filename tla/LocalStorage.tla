----------------------------- MODULE LocalStorage -----------------------------
(***************************************************************************)
(* chromium_reader.localstorage.LocalStorageReader over RawLevelDb: the    *)
(* constructor ingests every record of the directory, then cuts what it    *)
(* ingested, in the order of sequence numbers, into the write batches of   *)
(* the browser; the queries read what it built.                            *)
(*                                                                         *)
(* A user key is one of three things to the reader: META:<storage key>,    *)
(* _<storage key>\x00<script key>, or anything else, keys it cannot decode *)
(* among them.  Decoding is abstracted to the storage key and the script   *)
(* key it gives, and a value to whether it decodes.                        *)
(***************************************************************************)
EXTENDS RawLevelDb

CONSTANTS
  Hosts,        (* storage keys                                            *)
  NoHost,       (* no storage key                                          *)
  Scripts,      (* script keys                                             *)
  Meaning,      (* what each user key decodes to                           *)
  Decodable,    (* the values that decode                                  *)
  Overflowing   (* damaged METAs: a time that Python cannot hold           *)

Kinds == {"meta", "record", "other"}

\* the browser has one user key for a storage key and a script key, and a META
\* is never the text of a record, which begins with 0 or 1
ASSUME LocalStorageConstants ==
  /\ NoHost \notin Hosts
  /\ Meaning \in [Keys -> [kind : Kinds, host : Hosts, script : Scripts]]
  /\ \A k, l \in Keys : Meaning[k] = Meaning[l] /\ Meaning[k].kind = "record" => k = l
  /\ Decodable \subseteq Values /\ Overflowing \subseteq Values \ Decodable

\* A write batch of the browser has its META, put or deleted, or an entry of
\* another kind, before the records it puts.  The deletions of a clear() may
\* come before the META.
ASSUME MetaBeforeRecords ==
  \A batch \in WriteBatches : \A i \in DOMAIN batch :
    Meaning[batch[i].key].kind = "record" /\ batch[i].live
      => \E j \in DOMAIN batch : j < i /\ Meaning[batch[j].key].kind # "record"

VARIABLES
  wrote,        (* history: first sequence numbers of the write batches    *)
  phase,        (* where the constructor is                                *)
  metaByKey,    (* _meta_by_key, its items                                 *)
  recByKey,     (* _rec_by_key, its items                                  *)
  flat,         (* _flat, in the order of ingestion                        *)
  rem,          (* positions of flat that _build_batches has yet to visit  *)
  current,      (* META of the batch being built, or NoMeta                *)
  currentEnd,   (* last sequence number of that batch                      *)
  batches       (* _batches: by first sequence number                      *)

reader == <<phase, metaByKey, recByKey, flat, rem, current, currentEnd, batches>>
lsVars == <<vars, wrote, phase, metaByKey, recByKey, flat, rem, current, currentEnd,
            batches>>

NoMeta == [host |-> NoHost, seq |-> 0]

LsInit ==
  /\ Init /\ wrote = {}
  /\ phase = "ingest" /\ metaByKey = {} /\ recByKey = {} /\ flat = <<>>
  /\ rem = {} /\ current = NoMeta /\ currentEnd = 0
  /\ batches = [s \in {} |-> NoMeta]

(***************************************************************************)
(* LocalStorageReader.__init__: _ingest every record                       *)
(***************************************************************************)
MetaItem(e) == [meta |-> TRUE, host |-> Meaning[e.key].host, seq |-> e.seq]

RecordItem(e) ==
  [meta |-> FALSE, host |-> Meaning[e.key].host,
   script |-> Meaning[e.key].script, seq |-> e.seq, live |-> e.live]

\* a META is ingested if its protobuf value decodes, a record if its value
\* does or it has none; chrome_timestamp raises of a time out of range what
\* _ingest_meta does not catch
IsMeta(e) == Meaning[e.key].kind = "meta" /\ e.live /\ e.value \in Decodable

Overflows(e) == Meaning[e.key].kind = "meta" /\ e.live /\ e.value \in Overflowing

IsRecord(e) ==
  Meaning[e.key].kind = "record" /\ (e.live => e.value \in Decodable)

\* a dictionary entry for a (storage key, sequence number) replaces one
IngestMeta(e) ==
  /\ IsMeta(e)
  /\ metaByKey' = {m \in metaByKey : m.host # MetaItem(e).host \/ m.seq # e.seq}
                    \cup {MetaItem(e)}
  /\ flat' = Append(flat, MetaItem(e))
  /\ UNCHANGED recByKey

\* Mutant: the record read last is the only one kept of a script key.
IngestRecordLast(e) ==
  /\ IsRecord(e)
  /\ LET new == RecordItem(e)
     IN  /\ recByKey' = {r \in recByKey : r.host # new.host \/ r.script # new.script}
                          \cup {new}
         /\ flat' = Append(flat, new)
  /\ UNCHANGED metaByKey

IngestRecord(e) ==
  /\ IsRecord(e)
  /\ LET new == RecordItem(e)
     IN  /\ recByKey' = {r \in recByKey : \/ r.host # new.host
                                          \/ r.script # new.script
                                          \/ r.seq # new.seq} \cup {new}
         /\ flat' = Append(flat, new)
  /\ UNCHANGED metaByKey

SkipEntry(e) ==
  /\ ~IsMeta(e) /\ ~IsRecord(e) /\ ~Overflows(e)
  /\ UNCHANGED <<metaByKey, recByKey, flat>>

\* for raw in self._ldb.iterate_records_raw(): self._ingest(raw)
Ingest ==
  /\ phase = "ingest"
  /\ YieldRecord
  /\ \E e \in rest \ rest' : IngestMeta(e) \/ IngestRecord(e) \/ SkipEntry(e)
  /\ UNCHANGED <<phase, rem, current, currentEnd, batches>>

\* the OverflowError leaves the constructor
IngestRaises ==
  /\ phase = "ingest"
  /\ YieldRecord
  /\ \E e \in rest \ rest' : Overflows(e)
  /\ phase' = "failed"
  /\ UNCHANGED <<metaByKey, recByKey, flat, rem, current, currentEnd, batches>>

IngestDone ==
  /\ phase = "ingest"
  /\ Exhausted
  /\ phase' = "batches" /\ rem' = DOMAIN flat
  /\ UNCHANGED <<metaByKey, recByKey, flat, current, currentEnd, batches>>

(***************************************************************************)
(* _flat.sort(key=seq) and _build_batches, one turn of its loop            *)
(***************************************************************************)
\* The sort is stable: the least sequence number, and of equals the first.
Comes(i, j) == flat[i].seq < flat[j].seq \/ (flat[i].seq = flat[j].seq /\ i <= j)

\* Mutant: the end of a batch is exclusive.
BuiltExclusive == [host |-> current.host, start |-> current.seq, end |-> currentEnd + 1]

Built == [host |-> current.host, start |-> current.seq, end |-> currentEnd]

\* batches[current.leveldb_seq_number] = LocalStorageBatch(...)
WithBuilt ==
  [s \in DOMAIN batches \cup {current.seq} |->
     IF s = current.seq THEN Built ELSE batches[s]]

\* Mutant: the batch before is recorded though there is none.
StartBatchUnguarded(item) ==
  /\ item.meta
  /\ batches' = WithBuilt
  /\ current' = [host |-> item.host, seq |-> item.seq]
  /\ currentEnd' = item.seq

StartBatch(item) ==
  /\ item.meta
  /\ batches' = IF current = NoMeta THEN batches ELSE WithBuilt
  /\ current' = [host |-> item.host, seq |-> item.seq]
  /\ currentEnd' = item.seq

Ignore(item) ==
  /\ ~item.meta /\ current = NoMeta
  /\ UNCHANGED <<batches, current, currentEnd>>

\* Mutant: a gap in the sequence numbers does not end the batch.
ContinuesOverGap(item) == item.host = current.host

Continues(item) == item.seq - currentEnd = 1 /\ item.host = current.host

EndBatch(item) ==
  /\ ~item.meta /\ current # NoMeta /\ ~Continues(item)
  /\ batches' = WithBuilt
  /\ current' = NoMeta
  /\ currentEnd' = 0

\* Mutant: the end of the batch stays where it was.
ExtendBatchNot(item) ==
  /\ ~item.meta /\ current # NoMeta /\ Continues(item)
  /\ UNCHANGED <<batches, current, currentEnd>>

ExtendBatch(item) ==
  /\ ~item.meta /\ current # NoMeta /\ Continues(item)
  /\ currentEnd' = item.seq
  /\ UNCHANGED <<batches, current>>

VisitItem ==
  /\ phase = "batches"
  /\ \E i \in rem :
       /\ \A j \in rem : Comes(i, j)
       /\ rem' = rem \ {i}
       /\ \/ StartBatch(flat[i])
          \/ Ignore(flat[i])
          \/ EndBatch(flat[i])
          \/ ExtendBatch(flat[i])
  /\ UNCHANGED <<vars, phase, metaByKey, recByKey, flat>>

\* the last batch, and _batch_starts
BatchesDone ==
  /\ phase = "batches" /\ rem = {}
  /\ phase' = "ready"
  /\ batches' = IF current = NoMeta THEN batches ELSE WithBuilt
  /\ UNCHANGED <<vars, metaByKey, recByKey, flat, rem, current, currentEnd>>

(***************************************************************************)
(* Queries                                                                 *)
(***************************************************************************)
NoBatch == [host |-> NoHost, start |-> 0, end |-> 0]

\* Mutant: the last number of a batch is left out.
FindBatchShort(n) ==
  LET below == {s \in DOMAIN batches : s < n}
  IN  IF below = {} THEN NoBatch
      ELSE LET s == CHOOSE s \in below : \A o \in below : o <= s
           IN  IF batches[s].start <= n /\ n < batches[s].end
               THEN batches[s] ELSE NoBatch

\* bisect_left(self._batch_starts, n) - 1 is the last start below n
FindBatch(n) ==
  LET below == {s \in DOMAIN batches : s < n}
  IN  IF below = {} THEN NoBatch
      ELSE LET s == CHOOSE s \in below : \A o \in below : o <= s
           IN  IF batches[s].start <= n /\ n <= batches[s].end
               THEN batches[s] ELSE NoBatch

\* records(host=h, script_key=k, include_deletions=d)
Records(hs, ss, d) ==
  {r \in recByKey : r.host \in hs /\ r.script \in ss /\ (r.live \/ d)}

(***************************************************************************)
(* Specification                                                           *)
(***************************************************************************)
Build == Ingest \/ IngestRaises \/ IngestDone \/ VisitItem \/ BatchesDone

\* LocalStorageReader iterates once, in its constructor.
Use ==
  \/ Maintain
  \/ Open
  \/ phase = "ingest" /\ pc = "open" /\ Iterate(FALSE)
  \/ phase = "ingest" /\ NextFile
  \/ phase = "ready" /\ Close

LsNext ==
  \/ Build /\ UNCHANGED wrote
  \/ Use /\ UNCHANGED <<wrote, reader>>
  \/ Writes /\ wrote' = wrote \cup {seq + 1} /\ UNCHANGED reader

LsSpec == LsInit /\ [][LsNext]_lsVars

(***************************************************************************)
(* Properties                                                              *)
(***************************************************************************)
Meta == [host : Hosts, seq : Nat]
Item == [meta : {TRUE}, host : Hosts, seq : Nat]
          \cup [meta : {FALSE}, host : Hosts, script : Scripts, seq : Nat,
                live : BOOLEAN]

\* Every variable has its type.
LsTypeOK ==
  /\ TypeOK /\ wrote \subseteq Nat
  /\ phase \in {"ingest", "failed", "batches", "ready"}
  /\ metaByKey \subseteq Item /\ recByKey \subseteq Item
  /\ flat \in Seq(Item) /\ rem \subseteq DOMAIN flat
  /\ current \in Meta \cup {NoMeta} /\ currentEnd \in Nat
  /\ DOMAIN batches \subseteq Nat
  /\ \A s \in DOMAIN batches :
       batches[s] \in [host : Hosts, start : Nat, end : Nat]

Items == {flat[i] : i \in DOMAIN flat}

\* A batch is a META and a record of the same storage key at every sequence
\* number after it up to its end: nothing is attributed to a storage key that
\* was not read under it.
BatchIsRun ==
  \A s \in DOMAIN batches :
    /\ batches[s].start = s /\ s <= batches[s].end
    /\ \E m \in Items : m.meta /\ m.seq = s /\ m.host = batches[s].host
    /\ \A n \in s + 1 .. batches[s].end :
         \E r \in Items : ~r.meta /\ r.seq = n /\ r.host = batches[s].host

\* No two batches share a sequence number, which find_batch relies on when it
\* looks at one batch only.
Disjoint ==
  \A s, t \in DOMAIN batches : s < t => batches[s].end < t

\* localstorage.py:126 "A contiguous run of (META + records) attributable to
\* one write batch": whatever compaction left of the entries, all a batch spans
\* are records, and the browser wrote the live ones in the write of its META.
\* Deletions of a later write may be in it, if that write begins with them as
\* a clear() does.
OneWriteBatch ==
  \A s \in DOMAIN batches : \A e \in Written :
    e.seq \in s + 1 .. batches[s].end =>
      /\ Meaning[e.key].kind = "record"
      /\ e.live => \A w \in wrote : w <= s \/ w > e.seq

\* What a page has in localStorage when the browser stops is among the records,
\* under the highest sequence number of its key.
CurrentVisible ==
  phase = "ready" /\ ~LiveBrowser =>
    \A k \in Keys : \A e \in NewestOf(snap, k) :
      e.live /\ IsRecord(e) =>
        LET mine == Records({Meaning[k].host}, {Meaning[k].script}, TRUE)
        IN  /\ RecordItem(e) \in mine
            /\ \A r \in mine : r.seq <= e.seq

\* find_batch gives every record of a batch that batch, and gives sequence
\* numbers in no batch nothing.
FindsBatchOfRecord ==
  phase = "ready" =>
    /\ \A s \in DOMAIN batches : \A n \in s + 1 .. batches[s].end :
         FindBatch(n) = batches[s]
    /\ \A n \in 0..seq + 1 :
         (\A s \in DOMAIN batches : n < s \/ n > batches[s].end)
           => FindBatch(n) = NoBatch

\* A batch holds every record that follows its META without a gap.
WholeRun ==
  phase = "ready" =>
    \A s \in DOMAIN batches : \A r \in recByKey :
      r.host = batches[s].host => r.seq # batches[s].end + 1

\* Without obsolete files every record is read once, and batches are whole.
WholeRunIfClean == ~LiveBrowser /\ Obsolete = {} => WholeRun

\* localstorage.py:269 "Return the batch (if any) covering the given sequence
\* number."
FindsCovering ==
  phase = "ready" =>
    \A s \in DOMAIN batches : \A n \in s..batches[s].end :
      FindBatch(n) = batches[s]
=============================================================================
