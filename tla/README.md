# Verification of chromium-reader in TLA+

`chromium_reader` is a pure-Python, read-only reader of Chromium's on-disk
stores: LevelDB directories, and on top of them localStorage, SessionStorage and
IndexedDB. The program is single-threaded, but what it reads is written by
another program that may still run, may have crashed, and never says which of
its files are current: most of what can go wrong lies between the two. The
modules here therefore put both into one model, the browser as the environment
(marked external) and the reader translated from the source.

## Inventory

Paths are under `src/chromium_reader/` of the repository.

| Component | Source | State it keeps | Operations | Uses |
|---|---|---|---|---|
| Log reader | `leveldb.py` 264-348 | position of one shared stream; per iterator: block, offset, open record, batch, record number | `LogFile.__iter__`, `_iter_log_blocks`, `close` | - |
| Table reader | `leveldb.py` 100-261 | index loaded at construction, stream | `LdbFile()`, `__iter__`, `close` | Snappy |
| MANIFEST parser | `leveldb.py` 351-499 | last level of each file number | `ManifestFile()`, `__iter__` | log reader |
| Directory reader | `leveldb.py` 502-563 | open files, newest manifest | `RawLevelDb()`, `iterate_records_raw`, `close` | log, table, MANIFEST |
| Snappy | `_snappy.py` | output so far | `decompress` | - |
| LocalStorage reader | `localstorage.py` | metadata and records by key and sequence number, flat list, write batches | constructor, `find_batch`, `records`, `metadata`, `close` | directory reader, filters |
| SessionStorage reader | `sessionstorage.py` | map bindings, pending map entries | constructor, `records`, `close` | directory reader, filters |
| IndexedDB reader | `indexeddb.py` | database and store names, raw records | constructor, `records`, `close` | directory reader, Blink, filters |
| Blink envelope | `_blink_deserializer.py` | stream position | `deserialize` | V8 |
| V8 deserializer | `_v8_deserializer.py` | stream, object table, Python call stack | `read_header`, `read_value` | Blink (host objects) |
| Filters | `common.py` | none | `matches` | - |

How they interact: every storage reader builds a `RawLevelDb`, which opens every
data file of the directory once; the constructor of the storage reader then pulls
all records through one generator chain (storage reader, directory, file, block),
and the queries work on what it kept. The generators suspend in the middle of a
block, several may be alive at once, and those of one log share its stream.

What is hard, and what makes each part correct:

* **Log reader.** Block boundaries, a tail cut or zeroed by a crash, a second
  iterator moving the stream, a writer that goes on. Correct: records in the
  order of writing, every whole batch complete, damage confined, no exception
  over a log LevelDB wrote, offsets that identify records, every `next()` returns.
* **Directory reader.** Files are created, merged and unlinked between the
  listing, the `is_file()` and the opening; obsolete and unfinished files stay
  behind; file order is not the order of writing. Correct: nothing that was
  current at the listing is lost, the newest record of a key is the current one,
  nothing twice unless obsolete files are there.
* **LocalStorage.** A write batch of the browser is recovered from bare sequence
  numbers, after compaction has removed some of them. Correct: a batch is a run of
  one storage key, and no record of it was put by another write of the browser; batches are
  disjoint; `find_batch` agrees with them; the current value is never shadowed.
* **SessionStorage.** Data and the name of its origin are separate entries, read
  in any order, and tabs share maps. Correct: no datum under a wrong origin, all
  current data shown.
* **Table reader.** Keys are built from the key before, and several iterators share
  a stream that each moves only between blocks. Correct: whatever way the file
  was cut into blocks, compressed and given restart points, every iteration is a
  scan of the sorted entries, and an offset identifies an uncompressed record.
* **Snappy.** A copy may overlap the output it is written to; a block may be cut
  anywhere. Correct: the output is the text whatever elements the compressor
  chose, and a block of which the end is lost is never accepted.
* **IndexedDB.** Three kinds of keys, told apart byte by byte, are read in any order
  and joined by identifiers; one value that raises ends an iteration. Correct: a
  record is shown under names of its own database and store, a store under the name it has
  unless an older one is read after it, and what the database holds is shown with the
  value stored.
* **Blink and V8.** Two headers that begin alike; a recursive format whose
  references rely on both sides numbering the same objects, whose padding depends
  on the position, and whose end may be cut. Correct: the graph that was stored is
  returned, or nothing; what raises is known; every loop ends.
* **MANIFEST.** It is written while it is read, its last edit may end anywhere, and the
  one of the highest number need not be the one in use. Correct: edits are what was
  written, levels are those of the database, only a cut edit raises.

## Modules

### `LevelDbLog` - the log reader

State: the browser's side is the draft batch, the batches written, the fragments
LevelDB's log writer cut them into, the length of the file and how many of its
bytes survived (the rest are zero). The reader's side is the one position `fpos`
of `self._f`, and for each iterator the locals of the two nested generators:
`base`/`limit`/`tell` (the chunk in `buf`), `idx`, `inRecord`, `start`, `batch`,
`off` (batch offset), `at` (offset in the batch), `count`, `i`, and `pc`, the
place it is suspended or running at.

| Action | Code |
|---|---|
| `Start`, `Resume` | first and later `next()`; a generator runs alone until its yield (`Idle`) |
| `ReadChunk` | `stream.read(block_size)`, 272 |
| `EndChunk`, `NextChunk` | the loop guard and the short header, 274-277, 306 |
| `ReadFragment` with `AfterFull` ... `AfterLast` | 278-305 |
| `ParseBatch`, `EndBatch`, `YieldRecord`, `YieldGarbage` | 322-345 |
| `Close` | 347 |

Bytes are not spelled out. A byte string is "the first *m* bytes of batch *b*,
then *z* zeros", or garbage of a length; lengths are single bytes. Where the
reader looks at a place that is no header (only possible when chunks are
misaligned), the header is any header, and a record of garbage ends anywhere or
raises: the properties checked there hold for all of it.

### `TableScan` and `LevelDbTable` - the table reader

`TableScan` is the abstract specification: a table that is added to until it is
sealed, and iterations that each give its entries in order. `LevelDbTable` is
`LdbFile` and `_Block` over a file that LevelDB's `TableBuilder` writes entry by
entry, cutting blocks wherever it likes; it implements `TableScan`
(`ImplementsTableScan`) by the mapping that decodes what each iterator yielded:
`Meant` is what LevelDB means by an entry, `Given` what `Record` shows of it.

| Action | Code |
|---|---|
| `Open` | `LdbFile.__init__` 217-231, `_load_index` 244-246 |
| `Start`, `NextBlock`, with `Place` | `LdbFile.__iter__` 249-250, `_read_block` 233-242 |
| `NextEntry`, with `InBlock`, `KeyAfter`, `After` | `_Block.__iter__` 189-207 |
| `UserKey`, `StateOf`, `OffsetOf` | `Record` 142-163, 256 |
| `EndTable`, `Close` | 249-261 |

Keys are sequences of numbers, because their bytes matter; the trailer of an
internal key is two symbols instead of eight bytes. Values are lengths. That an
entry lies at `tell` is part of the model: nothing is decoded there unless an
entry begins there, and an iterator that finds none could not go on, which
`Complete` and `TypeOK` would show.

### `Snappy` - the decompressor

The environment is a compressor with a text: it emits any literal, or a copy
wherever the text repeats itself, and its output may be cut (`LiteralCut`, `CopyCut`,
`End`) or a copy damaged (`CopyDamaged`). `out` is the output of `decompress`, `at` how
much of the text the elements read so far stand for; `pc` is the exception raised,
if one was. `ReadHeader` is 101-103 with 31-42, `Literal` 107-119, `Copied` the
overlapping copy of 125-128, `ReadCopy` 86-128, `Result` and `End` 107-110 and 130-135.

### `RawLevelDb` - the directory reader

The browser appends to a log, rotates it, dumps a full log into a table, merges
tables (keeping the newest entry of a key, and a deletion while something older
is left to hide), installs the result and unlinks what is obsolete, one step at a
time; it may stop between any two. A file is the set of its entries. `snap` and
`skipped` are history: what was current when the directory was listed, and the
names that `is_file()` refused.

| Action | Code |
|---|---|
| `List`, `CheckEntry`, `OpenEntry`, `Constructed` | `RawLevelDb.__init__` 512-538, `LdbFile.__init__` 217-231, `LogFile.__init__` 314-319 |
| `Iterate`, `NextFile`, `Exhausted` | `iterate_records_raw` 544-546 |
| `YieldRecord`, `Before` | one record of a file, in the order of the file, 178-258 |
| `Close` | 548-563 |

A construction that raises (a file unlinked before it is opened, a table without
a footer) ends in `pc = "failed"`: there is no object and nothing to read.

### `LocalStorage` and `SessionStorage` - the storage readers

Both EXTEND `RawLevelDb`: their `Ingest` is its `YieldRecord` together with
`_ingest` of the record, so the files come in the order the directory gives them.
User keys are numbers in byte order and `Meaning` says what the reader's decoding
makes of each; what does not decode is part of the instances.

`LocalStorage`: `IngestMeta`, `IngestRecord` (173-219), then `VisitItem`, one turn
of the loop of `_build_batches` in the order of the stable sort, as `StartBatch`,
`Ignore`, `EndBatch` or `ExtendBatch` (221-249), and `BatchesDone`. `IngestRaises` is a META
whose time overflows (53). `wrote` is history, the first sequence numbers of the browser's
writes, so that `OneWriteBatch` can say which write an entry belongs to. `FindBatch` and
`Records` are the queries.

`SessionStorage`: `IngestNamespace`, `IngestMap` (93-122), and `Materialised`,
`RecordOf`, `Records` for `_materialise` and `records` (124-187). Its environment is
the session storage of the browser: areas are opened, tabs cloned, items set and
removed, a shared map forked when one of its tabs writes, a closed tab's
bindings and unshared maps deleted.

### `Varints`, `BlinkEnvelope` and `IndexedDb` - the IndexedDB reader

Here bytes matter, so keys and values are byte strings: `UserKey` gives the bytes of
each key of the directory (numbered in byte order, as `RawLevelDb` wants them), and the
environment is Chromium's backing store, which creates and deletes databases and
stores, renames stores, and puts and deletes records, one LevelDB batch each.
`Varints` is the number format all readers share (`_read_le_varint` and both
`_read_varint`).

| Definition | Code |
|---|---|
| `Classify` with `ClassifyGlobal`, `ClassifyDatabaseMeta`, `ClassifyRecord`, `SkipEntry` | `_classify` and the three methods it calls, 99-184 |
| `IsDatabaseName`, `IsStoreName`, `IsRecord` and what they use | the byte tests of those methods, 293-314 |
| `Records`, `Selected`, `Ends`, `DecodeValue` | `records` 201-239, `_decode_value` 241-263 |
| `ObjectStores` | 194-199 |
| `Deserialize`, `AfterBlinkHeader`, `V8HeaderBroken` (`BlinkEnvelope`) | `_blink_deserializer.py` 77-120, `read_header` |

What `read_value` makes of the bytes behind the headers is the constant `ReadValue`
of `BlinkEnvelope`: a value, or one of the exceptions `V8Deserializer` shows it can
raise. `Records` is the set of records of one call, with the iteration ending at the
first value that raises what is not caught.

### `V8Deserializer`

The environment is `ValueSerializer`: it writes any graph of values, sharing and
cycles included, byte by byte and with its own numbering of objects, and a crash
may cut what was stored. The reader is `read_value`: `pos` is the stream, `heap` the
Python containers in the order of `_objects`, `stack` the handlers that have not
returned, `val` the value a call returns, `raised` the exception. An action is one
call of `_read_object` or `_dispatch` up to the next call or return, or one turn of
the loop of a handler after the call it made returned.

| Action | Code |
|---|---|
| `SkipPadding`, `ReadAtom`, `ReadReference`, `Malformed` | `_read_object`, `_dispatch`, 209-235, and the handlers of values without members, 239-318 |
| `BeginContainer`, `EndContainer` | first and last part of `_r_object` ... `_r_set`, 322-404 |
| `StoreKey`, `StoreValue`, `StoreSparse`, `StoreElement`, `AddMember` | the loops of the same |
| `BeginWrapped`, `ReturnWrapped` | `_r_regexp`, `_r_string_object` |
| `ReadErrorField` | one turn of the loop of `_r_error`, 406-419 |
| `TooDeep`, `TooLong` | a call when Python's stack is full; `[None] * length`, 345 and 362 |

`Recovered` and `RightOrNothing` compare with the graph itself: `AsPython` and
`HeapAsWritten` say what its values and containers are in Python, a container having
the number of the containers up to it (`Rank`). Python's stack and memory are not
infinite: with fewer than `Depth` handlers in one another the stack is surely not full, and
`Memory` is the length of a list there surely is room for. Beyond them a step may raise
`RecursionError` or `MemoryError` (which also stands for the
`OverflowError` of a length that is no index); `Recovered` is about the values
within them (`CallsFit`, with the history `deepest`, and `ArraysFit`).
`Recovered` and `RightOrNothing` hold of what `Supported` says, and
each conjunct of `Supported` is a shape of value the reader does not recover; the model
contains all of them (they are listed below). `Aligned` names the two after which the
reader is not where V8 was any more, so that what it reads next is anything:
`V8ErrorOnly` says nothing of those, since a byte left behind can be read as the tag of a
string or of a date.

### `Manifest`

LevelDB appends edits (flush, compaction, move), begins a new MANIFEST with a
snapshot when it opens the directory, switches CURRENT to it and unlinks the old one;
the reader may list and open at any point between, and then parses what it got.

| Action | Code |
|---|---|
| `List`, `Open` | the choice of the highest number, 530-538, and `_iter_log_blocks` of its payloads |
| `ReadComparator` ... `ReadNewFile`, `RaiseTruncated` | the handlers of `_ManifestParser`, 441-475, and `_read_length_prefixed` |
| `EndEdit` | the end of `parse`, 419-439, and the loop of `ManifestFile.__init__`, 489-491 |

`MC*.tla` give the constants that a configuration cannot write: batches, key
meanings, symmetry. Operators whose comment begins with "Mutant" are small
variants of the operator after them; a run that replaces the operator by its
variant must report the property the comment's bug breaks, which shows that the
property can see it.

## Runs

| Run | Checks | Shows |
|---|---|---|
| `log` | TypeOK, InOrder, DamageConfined, NothingLost, NoSpuriousError, OffsetsGrow | two iterators, one after the other or interleaved, over every log of two batches of up to two records, cut at every byte, with a zero tail of any length or none; what the layout promises holds where one iterator is at work or the file is one block (`Undisturbed`), offsets grow always |
| `log_returns` | NextReturns | liveness, with a browser that writes meanwhile |
| `table` | TypeOK, NoError, Complete, OffsetsIdentify, ImplementsTableScan | every table of up to three entries, every cut into blocks, compressed or not, two interleaved iterators that may start again, and a close |
| `snappy` | TypeOK, RoundTrip, CutDetected | every text of up to nine bytes, compressed in every way, cut anywhere, copies damaged |
| `db` | TypeOK, SnapshotCovered | the browser goes on, exits or crashes while the directory is listed, opened and read, in both directions and more than once |
| `local_storage` | LsTypeOK, BatchIsRun, Disjoint, OneWriteBatch, CurrentVisible, FindsBatchOfRecord, WholeRunIfClean, NewestIsCurrent, NoRecordTwice | write batches after flushes and merges in any order, deletions before and after a META, undecodable values and a META whose time overflows; the last two are properties of `RawLevelDb`, checked in this instance of it |
| `local_find` | FindsCovering (violated) | `find_batch(batch.start)` finds nothing |
| `session` | SsTypeOK, HostRight, CurrentVisible | two tabs, two origins, shared and forked maps: nothing under a wrong origin, and all current data shown, whatever the order of reading |
| `indexeddb` | IdbTypeOK, NamesRight, CurrentVisible | two databases (ids of one and of two bytes), two stores, renames and deletions, a database name and a store name that Python cannot decode, values behind either header and one that raises, files read in any order |
| `indexeddb_origin` | DatabasesListed (violated) | with an ASCII origin no database is found |
| `v8` | TypeOK, Recovered, RightOrNothing, V8ErrorOnly, Ends | every graph of up to four values, shared, cyclic and nested, some deeper than `Depth` or with arrays longer than `Memory`, cut anywhere |
| `manifest` | TypeOK, EditsRight, LevelsRight | every history of four edits over three levels, opened again between any two steps, and the last edit cut at every byte |

Bounds. Blocks of 8 bytes with headers of 2 let a batch of two records span three
blocks and put a header at every distance from the end of a block, the one with
no room for payload included; the code's 32768 and 7 only shift the numbers. Two
batches are enough to see damage leave a batch. Five file numbers allow two full
logs, a table made of each and a merge of them; four allow a merge of one table
with deletions dropped. Three to six sequence numbers allow a key to be
written, deleted and written again on both sides of a flush. These bounds stand
in the guards: `MaxBatches`, `MaxRecs`, `MaxPasses` of the log, `MaxSeq`, `MaxFile`
of the directory. Tables have up to three entries of the empty key and of keys that
share nothing, a part or all of the key before, with a restart point at every
second entry: a block with a shared prefix followed by another block, and one with
two restart points, are among them. Nine bytes of two kinds leave room for a
literal, a copy of the least length (four) that overlaps itself, and one that
follows it; offsets reach one beyond any output. `MaxEntries`, `MaxText` and
`MaxOffset` bound these. The keys of `indexeddb` belong to two databases, one whose id takes
a byte and one whose id takes two, so that a key of one could pass for a key of the
other; five entries are a name, a store, a record and two more steps on them. Four
values are an object with a member that is an object referring back, or two keys and
their values; arrays have up to three elements, of which two fit `Memory`, and `Depth` is 4,
so that values in two others are read and those in more are not. The run has not every form of
value (no date, no boxed string, and of the errors only one whose message is misread, which
takes every branch of `_r_error`): the others are in the theorems. Five file numbers and four edits of a
MANIFEST allow a flush, a move and a compaction, or any two of them around an
opening; the size of a table takes two bytes, so that numbers are cut in the
middle. `MaxValues`, `MaxLength`, `MaxEdits` and `MaxLevel` bound these. Deadlock is not
checked because a browser may stop and a caller may stop asking.

Fairness. Only two runs assume any: `log_returns`, weak fairness of the steps inside one
`next()`, and `v8`, weak fairness of the steps of one `read_value`. The interpreter
runs a call it has begun; nobody is obliged to make the next one, or to write
anything.

### Findings

* `find_batch` misses the first sequence number of every batch
  (`localstorage.py:272` against its docstring, 269).
* The key of a database name is split at its first zero byte (`indexeddb.py:133`), which
  lies inside the UTF-16BE of any ASCII origin, against the layout given in the comment at
  128 and the strings of 303. Such a database is not listed and none of its records is
  shown. The run `indexeddb` uses an origin in UTF-16 without a zero byte, the only kind
  the reader gets past, so that everything behind this line is checked too.

With no run of their own, all of them seen in the models:

* Log: `leveldb.py:337` and `:342` do not check how much they read, so a record that a
  crash cut is yielded as if whole (`DamageConfined` says it is the last batch's).
  Iterators of one multi-block log spoil each other (272; the reason for
  `Undisturbed`).
* Directory: file numbers are parsed with base 16 (221, 318) and the numbers inside a
  MANIFEST are plain, so `file_no` and the keys of `file_to_level` agree only below 10. A
  MANIFEST whose last edit is cut in a key makes the whole directory unreadable
  (`RaiseTruncated`, 95), as a table without a footer does.
* LocalStorage: an entry read twice, from an obsolete log and from the table made of
  it, splits a write batch (`localstorage.py:239-247`; the reason for the condition in
  `WholeRunIfClean`); the host check at 241 can only fail together with the gap
  check at 240 unless the next write begins with deletions. A commit that carries
  a `clear()` deletes records before it writes its META, and these deletions follow the
  batch before without a gap: where the storage key is the same they become part of it,
  against the "attributable to one write batch" of 126. `OneWriteBatch` allows them and
  nothing else that another write put. A META with a time that Python cannot hold raises
  `OverflowError` (53), which 177 does not catch: the constructor raises, and nothing of
  the directory can be read (`IngestRaises`; only of damaged data).
* SessionStorage: of several bindings of a map the one read last is kept
  (`sessionstorage.py:105`), in a table the one of the greatest namespace id, not the
  "latest live binding" of the comment at 78; `HostRight` says that it
  is one the map had.
* Snappy: a block cut inside the length of a literal or the offset of a copy raises
  `IndexError` or `struct.error` (`_snappy.py:46-63`, `:77`) and not the `SnappyError` of 20.
* IndexedDB: the empty value of a deletion does not decode, so
  `records(include_deletions=True)` shows deletions only with `skip_undecodable=False`
  (214, 229-231). One varint is skipped where the comment at 243 has two, and only if it
  is below 16: behind a greater one the value is refused (251). A name with half a surrogate
  pair does not decode (314), so its database or store is passed over and with it the
  records (`Paired`). In a table the newest name of a store comes first and each assignment
  overwrites the one before (162), so an older name in the same table, or in a file of a
  higher number, is the one a store is shown under; `Overtaken` is that case, and in
  any other `CurrentVisible` asks for the name the store has. A value that raises
  what is not caught (253) hides all records after it; the escape clause of
  `CurrentVisible` is that case.
* V8: references count containers only, so one behind a date, a boxed primitive or an error
  is wrong or out of range (`ReferencesAgree`); padding before a key or a member of a
  set is an unknown tag (`padded`); the end tag of a dense array is not read, so one that is not
  the whole value leaves a byte behind it (`DenseOnlyAtRoot`); keys that are containers
  raise `TypeError` (`KeysHashable`); keys that are equal in Python, `true` and `1` or
  `undefined` and `null`, are merged (`KeysDiffer`); half a surrogate pair and an invalid
  date raise `ValueError` (`Convertible`); an error whose message contains the letter of
  a subtag is misread or, if what it takes for text is not UTF-8, raises `ValueError` (`errorc`),
  and host objects raise `BlinkError` because their first byte is
  taken for a length (`host`). Values nested some hundreds deep raise `RecursionError`
  (`TooDeep`), and `[None] * length` of a sparse array with a great length raises `MemoryError`
  (345, 362; `TooLong`); `IndexedDbReader` catches neither.
* MANIFEST: of the highest number, though CURRENT may name another (533); one that
  has only begun, without its snapshot, gives no level at all, and `LevelsRight` says nothing
  of it.
* The README's raw example uses `record.is_live`, which `Record` does not have.

## Proofs

TLAPS proves, for every value of the constants:

* `LevelDbLogProofs`: `TypeCorrect` (`TypeOK`) and `OffsetsAlwaysGrow`
  (`OffsetsGrow`). The inductive invariant `IInv` adds to the types where every
  iterator can be: the chunk starts and ends inside the file, `tell` is at most the
  chunk, `at` is at most the length of the batch, the offset of the next record is
  beyond the last one yielded, and the position of the next header beyond the
  batch in hand. It needs nothing of the bytes, which is why it holds for
  garbage and for interleaved iterators.
  The second half of the module is about the layout: `ReadInOrder` (`InOrder`),
  `DamageAlwaysConfined` (`DamageConfined`), `NothingEverLost` (`NothingLost`) and
  `NoErrorWithoutClose` (`NoSpuriousError`), for a log nobody writes while it is
  read (`~LiveWriter`, as in the run; a browser that appends meanwhile moves the end of the file under the iterator, and
  these properties do not hold). `LayoutInv` is the format LevelDB writes, for any block size:
  each fragment lies in one block, right behind the one before it or at the start of the
  next block if no header fits, and carries on its batch or begins the next. `ReaderInv`
  says where an iterator is in that layout: in front of fragment *j* holding just the
  bytes of its batch that come before *j* (`InProgress`), or beyond what survived
  (`Sealed`: no batch after the *c*-th is whole and no header is left), with the yielded
  records being batches 1 to *c* and the first records of the next (`History`). The
  central lemma is `FragmentRead`: one step of `_iter_log_blocks` takes one of these
  places to another, whichever fragment type it meets. `StreamInv` says that the shared
  position is behind the chunk of whoever goes on, which needs `Undisturbed`.
* `LevelDbTableProofs`: `TypeCorrect` (`TypeOK`), `NeverFails` (`NoError`),
  `EverythingGiven` (`Complete`), `OffsetsTell` (`OffsetsIdentify`) and `TableScanned`
  (`ImplementsTableScan`, the refinement of `TableScan`). The invariant takes a witness `base`:
  `base[j]` entries of the table come before block *j*. Block *j* encodes the next ones
  (`Encodes`: the bytes shared with the key before and the rest make the internal key),
  an iterator stands before entry *i* of block *j* with the key of the entry before it in
  hand, and what it yielded is the table up to there.
* `SnappyProofs`: `TypeCorrect` (`TypeOK`), `RoundTripHolds` (`RoundTrip`) and `CutNoticed`
  (`CutDetected`). A copy that overlaps its output repeats with period `offset`; where the
  text repeats itself with that period, the slice the code builds is the text
  (`Periodic`, an argument by the least counterexample). The output is the text as far as
  the elements stand for it, unless an element was damaged or cut.
* `RawLevelDbProofs`: `TypeCorrect` (`TypeOK`), `SnapshotNeverLost`
  (`SnapshotCovered`), `NeverTwice` (`NoRecordTwice`) and `NewestRead`. The first strengthening is
  about the browser: file numbers are given out in turn, the files of the version
  stay in the directory, a table is empty until it is installed (`FileInv`); a
  sequence number is used once, and the files of the version share no entry
  (`SeqInv`). `Covered` says where the snapshot is while the reader works: in files
  still to be checked or opened, in open ones, in refused ones, or in what was
  yielded. It survives merging and unlinking because a file number never loses
  its entries: a name that is gone is refused or makes the constructor raise. For
  `NeverTwice`, `Once` says that what was yielded, the rest of the file in hand and
  the files to come are apart, and `Quiet` that nothing moves under the reader of a
  stopped browser.
  `NewestRead` (`NewestIsCurrent`): merging drops an entry only if
  a newer one of its key stays in the same table, or if it is a deletion with nothing
  older left to hide; so the version has an entry of a key as new as any ever
  written, or none at all (`Newest`), and only obsolete files can still know a key
  of which it has none; the reader of a stopped browser has read
  all of the directory when it is done (`AllRead`). The existence of a newest
  entry is an application of the library's well-founded induction to finite sets
  of numbers (`Greatest`).
* `LocalStorageProofs`: `ReadsRawLevelDb` (every behaviour of the LocalStorage reader is
  one of the directory reader), `LsTypeCorrect`, and the write batches:
  `BatchesAreRuns`, `BatchesDisjoint`, `BatchesKeepApart`, `FindBatchRight`. The loop
  invariant `RunInv` says of the open batch what `BatchIsRun` says of the finished
  ones, that a finished batch ends before the open one starts (or started at the
  same number), and that no item left is before the end of any; it needs only that the items are sorted, so
  it covers duplicates and any order of files. `Stems` connects items with what
  the browser wrote, and `MetaBeforeRecords` says that a write that puts a record has an entry
  of another kind before it, which ends the batch; that gives `OneWriteBatch`. `CurrentAlwaysVisible`
  (`CurrentVisible`) follows from `NewestRead`: the newest entry of a user key is among what
  was read, so it is an item, and no item of its storage and script key has a higher
  number. `BatchesWhole` (`WholeRunIfClean`) adds to the loop invariant that without
  duplicates a run is left only at an item that is no record of it.
* `SessionStorageProofs`: `SsTypeCorrect` (`SsTypeOK`), `HostAlwaysRight` (`HostRight`) and
  `SsCurrentAlwaysVisible` (`CurrentVisible`).
  All the bindings ever written of a map are of one storage key (`OneHost`), because every
  batch of the browser binds a map it has just numbered, to one storage key, or one already
  bound to the same (`Safe`, shown of each operation of `Browse`); what `_map_to_host` holds
  of a map is one of them (`FromBindings`). Neither depends on the order of reading, so
  duplicates, merges and deletions make no difference. Batches are sets in an order that
  does not matter (`SetToSeq`), so the proof also shows that only finitely much was written.

* `IndexedDbProofs`: `IdbTypeCorrect` (`IdbTypeOK`), `NamesAlwaysRight` (`NamesRight`),
  `CurrentAlwaysVisible` (`CurrentVisible`) and `OriginHidesAll`. The first half is about
  bytes: numbers and strings are read back whatever follows them (`NumberRead`,
  `StringRead`), a string that is cut is not read (`StringCut`), and from that each kind of
  key is taken for what it is and for nothing else (`StoreKeyRead`, `RecordKeyRead`,
  `NameKeyRead`, `SchemaKeyRead`) and a stored value is decoded (`ValueRead`). The second
  half is the argument of SessionStorage: each operation of `Browse` gives out a new id or
  none (`Safe`, `IdsOnce`), what the reader holds it found in the files (`FromFiles`), and
  it keeps every name and record it was given (`Kept`). `NameKeyRead` has two cases: a name
  is found if no byte of the encoded origin is zero, and passed over if one is. So
  `CurrentAlwaysVisible` says of every origin that each store is in `object_stores` under the
  name it has, unless an older one is read after it, and of an origin in the first case that its
  records are shown; URLs are not such, and the second part says that nothing *but* the split
  at the zero byte, a name that does not decode, or a value that raises loses a record. That the
  name is the current one is the order of reading: of the entries of its key the last one
  read has the greatest number or is the one that overtakes it (`Overtaken`). `OriginHidesAll` is
  the other case: with any character below 256 in the origin no record is ever shown.

* `V8DeserializerProofs`: `Typing` (`TypeOK`), `Recovery` (`Recovered`), `Fidelity`
  (`RightOrNothing`) and `Errors` (`V8ErrorOnly`), for graphs of any size and depth that
  the bounds on numbers allow, with any limits of depth and of memory. The bytes do not say where a value ends or which object a
  byte belongs to, so the proof carries the story of their writing: a sequence of moments
  (`Moments`: bytes written, graph, open objects, root), each one token (`Token`) after the
  one before. Every action of the writer adds a token (`WriteStep`), tokens never undo
  what there is (`Kept`, and `KeyKept` of a key whose member is still to come), and what
  survives is the first bytes of a story that was told to its end (`Written`). The
  invariant `IInv` says that the reader is in a chapter of that story, from a moment *s*
  to the next one *t* (`Within`): in front of the token, behind its padding, inside an
  object that wraps a string or an error, with the value of the token in hand, at the end, or at an
  exception that has its reason (`Right`). Its frames stand for the open objects of *s*
  (`Matches`: kind, number, pending key, elements left) and its containers hold what the
  graph of *s* has (`Holds`). There is a lemma for each kind of token and of
  frame (`PrimitiveGoesOn`, `LeafGoesOn`, `BeginGoesOn`, `ReferenceGoesOn`, `EndGoesOn`,
  `ReturningGoesOn`), and `NextFollows` puts them together. Numbers agree because the
  objects up to one that is referred to are all containers (`ReferencesAgree`), so that
  their count is the number V8 gave it (`RankAll`); members agree because keys that differ
  in JavaScript differ in Python (`KeysDiffer`). A step that raises always finds its
  reason in `cut`, `padded`, the shape of the value, its depth or the length of an array:
  `Reaches` says that no moment of the story has more open objects than `deepest`, so a stack
  that is full means the value is as deep (`DeepIs`), and a length in front of a token is the
  one that was written (`LongIs`). What a step does otherwise is proved where neither limit
  stops it (`Acts`). What the proof needs of the varints
  is that those below 16384 are read back, whatever follows them, and are none when they
  are cut (`NumberRead`).

The lemmas about `RawLevelDb` are stated for a browser that writes any batch (`AnyNext`), so
that they hold under each of the readers above it, whatever its browser writes.

The assumptions are the named ASSUMEs of the modules, which say what a constant
is (numbers, the meanings of the keys, no host that means none) and which the runs
evaluate. `MetaBeforeRecords` says what a write of the browser to localStorage looks like: its META, put or
deleted, or an entry of another kind comes before the records it puts; deletions may come
first, as in a `clear()`. Two say that user keys are an encoding: one user key for each storage key
and script key of `LocalStorage`, one for each map and script key of `SessionStorage`.
`IndexedDbConstants` says that user keys are those the backing store writes (names, stores,
records, and keys of the schema, whose tags are below 201), and that a payload is what V8
wrote behind its header, with a version of one byte and Blink's header or without
(`Framed`), of which `read_value` makes what was stored; an origin has no half surrogate pairs,
names may. It bounds database ids to one
byte, and store ids and the lengths of names to two (`TwoByte`). `V8Constants` bounds
values and lengths of arrays so that every number in the bytes, twice the entries of a map
included, is a varint of one byte or two; the primitives and leaf objects are
a sample of each form V8 has.

Model-checked only: liveness (`NextReturns`, `Ends`), which is beyond the prover, and
`Manifest` (`TypeOK`, `EditsRight`, `LevelsRight`). Its bytes are lists of any length of
fields in a row, flattened, its versions are folds over edits, and its snapshots are sets
sorted: what such operators give is an induction over data, which the provers cannot do.
`IndexedDb` and `V8Deserializer` can do without: their numbers have one or two bytes,
their strings are read position by position, and the bytes of a graph are taken token by
token as the writer appends them, never as a function of the graph.
`NewestIsCurrent` and `NoRecordTwice` for a reader that goes
backwards or iterates again are proved, and checked only as far as the LocalStorage
reader iterates.

## What is not modelled

* CRCs: the reader does not check them. In `LevelDbLog` a length is one byte; a varint
  that does not end is one of the outcomes for garbage (`Varints` has the format).
* In `RawLevelDb` a log is read in one step and its entries are whole. Blocks and
  torn tails are `LevelDbLog`'s; the two are not composed.
* A browser that appends to a log after a crash (`reuse_logs`, off in Chromium).
* Reading on after `close()`, which raises or ends at a block boundary.
* The value of timestamps, sizes and strings; logging; `matches()` of `common.py`, a pure
  predicate that every query takes as a set of accepted names.
* A table block is decompressed by `Snappy` in a model of its own; in `LevelDbTable` it
  is only shorter. Tables that LevelDB did not write whole are in `RawLevelDb`,
  where they are refused. Multi-byte varints of Snappy are read as what they encode.
* `IndexedDb` takes `read_value` as a parameter and `V8Deserializer` starts behind both
  headers; the two are not composed. MANIFEST payloads are whole log fragments; how a
  fragment is cut at a block is `LevelDbLog`'s.
* Of V8: named properties of arrays, typed arrays (their view always raises), holes,
  wasm and shared objects, which V8 writes with tags the reader refuses; the payload of
  host objects; the trailer Blink writes from version 21 on; floating-point numbers
  are kept as their bytes.
* The package exports, the example script and the tests have no behaviour of their own.

## Plan

Done: a module for every component with state, their runs, and the theorems above. To
come, the most important first:

1. The types of `Manifest`, and its edits as a story of fields the way
   `V8DeserializerProofs` has tokens; database ids of `IndexedDb` of more than one byte.
2. Abstract specifications: an append-only record log implemented by `LevelDbLog`
   for one iterator; a multi-version map implemented by `RawLevelDb` for a stopped
   browser.
