----------------------------- MODULE LevelDbTable -----------------------------
(***************************************************************************)
(* A LevelDB table as chromium_reader.leveldb.LdbFile reads it: data       *)
(* blocks of entries whose keys leave out what they share with the key     *)
(* before, an index of the blocks, and a footer that finds the index.      *)
(*                                                                         *)
(* LevelDB's TableBuilder is the environment.  A byte string is a sequence *)
(* of numbers where its bytes matter, the keys, and a length where they do *)
(* not.  The trailer of an internal key, eight bytes in the file, is two   *)
(* symbols here: the type, and the sequence number.  Varints are one byte. *)
(* A compressed block is shorter in the file than in memory; Snappy itself *)
(* is taken to be right.                                                   *)
(***************************************************************************)
EXTENDS Integers, Sequences, FiniteSets

CONSTANTS
  UserKeys,     (* user keys, sequences of numbers                         *)
  Values,       (* values, by their length                                 *)
  Interval,     (* entries from one restart point to the next              *)
  MaxEntries,   (* bound: entries of a table                               *)
  Readers       (* iterators of one LdbFile                                *)

ASSUME TableConstants ==
  /\ UserKeys \subseteq Seq(Nat) /\ Values \subseteq Nat
  /\ Interval \in Nat \ {0} /\ MaxEntries \in Nat

VARIABLES
  table,        (* history: the entries added, as LevelDB means them       *)
  draft,        (* the entries of the block being built                    *)
  file,         (* the blocks written, by their place in the file          *)
  size,         (* length of the file so far                               *)
  index,        (* the handles in the index block                          *)
  footer,       (* the file is complete                                    *)
  handles,      (* LdbFile._index                                          *)
  state,        (* the LdbFile is "new", "open" or "closed"                *)
  fpos,         (* position of its stream self._f                          *)
  it,           (* the locals of each iterator                             *)
  out           (* the records each iterator yielded                       *)

builder == <<table, draft, file, size, index, footer>>
object == <<handles, state>>
vars == <<table, draft, file, size, index, footer, handles, state, fpos, it, out>>

Trailer == 2            \* length of the trailer of an internal key
BlockTrailer == 5
Word == 4               \* length of a restart point, and of their number

DELETED == 0
LIVE == 1
States == {"deleted", "live", "unknown"}

Seqs == 1..MaxEntries
Entry == [key : UserKeys, type : {DELETED, LIVE}, seq : Seqs, value : Values]

(***************************************************************************)
(* TableBuilder (external)                                                 *)
(***************************************************************************)
InternalKey(e) == e.key \o <<e.type, e.seq>>

Precedes(a, b) ==
  \/ \E i \in DOMAIN a \cap DOMAIN b :
       a[i] < b[i] /\ \A j \in 1..i - 1 : a[j] = b[j]
  \/ Len(a) < Len(b) /\ SubSeq(b, 1, Len(a)) = a

\* user keys ascend, and of one user key the newest entry comes first
InOrder(e, o) == Precedes(e.key, o.key) \/ (e.key = o.key /\ e.seq > o.seq)

\* The length of what a and b have in common at the beginning.
Shared(a, b) ==
  LET n == IF Len(a) < Len(b) THEN Len(a) ELSE Len(b)
  IN  CHOOSE k \in 0..n : /\ \A j \in 1..k : a[j] = b[j]
                          /\ k = n \/ a[k + 1] # b[k + 1]

\* three lengths, the rest of the key, the value
EntrySize(x) == 3 + Len(x.rest) + x.value

\* The length of a block of the entries xs so far.
SizeOf(xs) ==
  IF xs = <<>> THEN 0 ELSE xs[Len(xs)].at + EntrySize(xs[Len(xs)])

Restarts(xs) == (Len(xs) + Interval - 1) \div Interval

Init ==
  /\ table = <<>> /\ draft = <<>> /\ file = [o \in {} |-> <<>>] /\ size = 0
  /\ index = <<>> /\ footer = FALSE
  /\ handles = <<>> /\ state = "new" /\ fpos = 0
  /\ it = [r \in Readers |-> [pc |-> "new", next |-> 1, block |-> 0, tell |-> 0,
                              key |-> <<>>]]
  /\ out = [r \in Readers |-> <<>>]

Add(e) ==
  /\ ~footer /\ Len(table) < MaxEntries
  /\ table # <<>> => InOrder(table[Len(table)], e)
  /\ \A i \in DOMAIN table : table[i].seq # e.seq
  /\ table' = Append(table, e)
  /\ LET key == InternalKey(e)
         n == IF Len(draft) % Interval = 0 THEN 0
              ELSE Shared(InternalKey(table[Len(table)]), key)
     IN  draft' = Append(draft, [at |-> SizeOf(draft), shared |-> n,
                                 rest |-> SubSeq(key, n + 1, Len(key)),
                                 value |-> e.value])
  /\ UNCHANGED <<file, size, index, footer, object, fpos, it, out>>

\* A block is written, with its restart points and their number.
Flush(compressed) ==
  /\ ~footer /\ draft # <<>>
  /\ LET end == SizeOf(draft)
         raw == end + (Restarts(draft) + 1) * Word
         len == IF compressed THEN raw - raw \div 8 - 1 ELSE raw
     IN  /\ file' = [o \in DOMAIN file \cup {size} |->
                       IF o = size
                       THEN [entries |-> draft, raw |-> raw,
                             restarts |-> Restarts(draft), first |-> 0,
                             compressed |-> compressed]
                       ELSE file[o]]
         /\ index' = Append(index, [offset |-> size, length |-> len])
         /\ size' = size + len + BlockTrailer
  /\ draft' = <<>>
  /\ UNCHANGED <<table, footer, object, fpos, it, out>>

Finish ==
  /\ ~footer /\ draft = <<>>
  /\ footer' = TRUE
  /\ UNCHANGED <<table, draft, file, size, index, object, fpos, it, out>>

(***************************************************************************)
(* LdbFile                                                                 *)
(***************************************************************************)
\* LdbFile(path): the index, read with the footer; a file without one is
\* refused
Open ==
  /\ state = "new" /\ footer
  /\ state' = "open"
  /\ handles' = index
  /\ fpos' = size
  /\ UNCHANGED <<builder, it, out>>

\* _Block: where the restart points begin, and where the first entry is
RestartOffset(b) == b.raw - (b.restarts + 1) * Word

\* Mutant: what the key shares with the one before is not put back.
KeyAfterBare(key, x) == x.rest

KeyAfter(key, x) == SubSeq(key, 1, x.shared) \o x.rest

SharesTooMuch(key, x) == x.shared > Len(key)

\* Mutant: the value is read twice.
AfterTwice(tell, x) == tell + 3 + Len(x.rest) + 2 * x.value

\* where three lengths, the rest of the key and the value end
After(tell, x) == tell + 3 + Len(x.rest) + x.value

\* Record.ldb_record: the state, when there is a user key before the trailer
StateOf(key) ==
  IF Len(key) > Trailer
  THEN IF key[Len(key) - Trailer + 1] = DELETED THEN "deleted" ELSE "live"
  ELSE "unknown"

\* Record.user_key
UserKey(key) ==
  IF Len(key) >= Trailer THEN SubSeq(key, 1, Len(key) - Trailer) ELSE key

\* Mutant: the offset is counted from the beginning of the block.
OffsetInBlock(o, x) == IF file[o].compressed THEN o ELSE x.at

\* offset of a record: of its block, if that was compressed
OffsetOf(o, x) == IF file[o].compressed THEN o ELSE o + x.at

\* One entry of block o, read at `tell` after a key, is yielded.
YieldEntry(r, o, tell, key, next) ==
  \E x \in {file[o].entries[n] : n \in DOMAIN file[o].entries} :
    /\ x.at = tell
    /\ \/ /\ SharesTooMuch(key, x)
          /\ it' = [it EXCEPT ![r].pc = "error"]
          /\ UNCHANGED out
       \/ /\ ~SharesTooMuch(key, x)
          /\ LET new == KeyAfter(key, x)
             IN  /\ it' = [it EXCEPT ![r] = [pc |-> "at", next |-> next, block |-> o,
                                            tell |-> After(tell, x), key |-> new]]
                 /\ out' = [out EXCEPT ![r] = Append(@,
                      [key |-> UserKey(new), seq |-> new[Len(new)],
                       state |-> StateOf(new), value |-> x.value,
                       offset |-> OffsetOf(o, x),
                       compressed |-> file[o].compressed])]

\* iter(ldb): a new generator
Start(r) ==
  /\ state # "new" /\ it[r].pc \in {"new", "done"}
  /\ it' = [it EXCEPT ![r] = [pc |-> "before", next |-> 1, block |-> 0, tell |-> 0,
                              key |-> <<>>]]
  /\ out' = [out EXCEPT ![r] = <<>>]
  /\ UNCHANGED <<builder, object, fpos>>

\* Mutant: a block is left after its first entry.
InBlockOnce(r) == FALSE

\* The generator has an entry left in its block.
InBlock(r) ==
  it[r].pc = "at" /\ it[r].tell < RestartOffset(file[it[r].block])

\* next(): another entry of the block
NextEntry(r) ==
  /\ InBlock(r)
  /\ YieldEntry(r, it[r].block, it[r].tell, it[r].key, it[r].next)
  /\ UNCHANGED <<builder, object, fpos>>

\* Mutant: the block is read wherever the stream is.
PlaceUnsought(h) == fpos

\* self._f.seek(handle.offset)
Place(h) == h.offset

\* next(): the first entry of the next block, which _read_block gets, unless
\* the file was closed
NextBlock(r) ==
  /\ it[r].pc \in {"before", "at"} /\ ~InBlock(r)
  /\ it[r].next <= Len(handles)
  /\ LET h == handles[it[r].next]
         o == Place(h)
     IN  IF state = "open" /\ o \in DOMAIN file
         THEN /\ YieldEntry(r, o, file[o].first, <<>>, it[r].next + 1)
              /\ fpos' = o + h.length + BlockTrailer
         ELSE /\ it' = [it EXCEPT ![r].pc = "error"]
              /\ UNCHANGED <<fpos, out>>
  /\ UNCHANGED <<builder, object>>

\* next(): StopIteration
EndTable(r) ==
  /\ it[r].pc \in {"before", "at"} /\ ~InBlock(r)
  /\ it[r].next > Len(handles)
  /\ it' = [it EXCEPT ![r].pc = "done"]
  /\ UNCHANGED <<builder, object, fpos, out>>

Close ==
  /\ state = "open"
  /\ state' = "closed"
  /\ UNCHANGED <<builder, handles, fpos, it, out>>

(***************************************************************************)
(* Specification                                                           *)
(***************************************************************************)
Build ==
  \/ \E e \in Entry : Add(e)
  \/ \E compressed \in BOOLEAN : Flush(compressed)
  \/ Finish

Iterate ==
  \E r \in Readers : Start(r) \/ NextEntry(r) \/ NextBlock(r) \/ EndTable(r)

Next == Build \/ Open \/ Iterate \/ Close

Spec == Init /\ [][Next]_vars

(***************************************************************************)
(* Properties                                                              *)
(***************************************************************************)
\* Every variable has its type, and an iterator in a block is not past the
\* entries of it.
TypeOK ==
  /\ table \in Seq(Entry) /\ footer \in BOOLEAN
  /\ state \in {"new", "open", "closed"}
  /\ size \in Nat /\ fpos \in 0..size
  /\ Len(handles) <= Len(index)
  /\ \A r \in Readers :
       /\ it[r].pc \in {"new", "before", "at", "done", "error"}
       /\ it[r].next \in 1..Len(handles) + 1
       /\ it[r].pc = "at" => it[r].tell <= RestartOffset(file[it[r].block])
       /\ \A n \in DOMAIN out[r] : /\ out[r][n].state \in States
                                   /\ out[r][n].key \in UserKeys

\* What LevelDB means by an entry, as Record shows it.  An entry whose user
\* key is empty has a state that Record does not tell.
Meant(e) ==
  [key |-> e.key, seq |-> e.seq, value |-> e.value,
   state |-> IF e.key = <<>> THEN "unknown"
             ELSE IF e.type = DELETED THEN "deleted" ELSE "live"]

Given(r) ==
  [n \in DOMAIN out[r] |->
     [key |-> out[r][n].key, seq |-> out[r][n].seq, value |-> out[r][n].value,
      state |-> out[r][n].state]]

Scan == INSTANCE TableScan WITH
  Entries <- {Meant(e) : e \in Entry},
  table <- [n \in DOMAIN table |-> Meant(table[n])],
  sealed <- footer,
  given <- [r \in Readers |-> Given(r)]

\* However the builder cuts blocks, shares prefixes and sets restart points,
\* every iterator of LdbFile gives the entries of the table in order.
ImplementsTableScan == Scan!Spec

\* No iteration of a table LevelDB wrote ends with an exception, unless the
\* file is closed under it.
NoError == state # "closed" => \A r \in Readers : it[r].pc # "error"

\* An iteration that ends has given every entry.
Complete == \A r \in Readers : it[r].pc = "done" => Len(out[r]) = Len(table)

\* The offset of a record that was not compressed names that record: no other
\* record of the table, of whichever iteration, has it.
OffsetsIdentify ==
  \A r, s \in Readers : \A m \in DOMAIN out[r], n \in DOMAIN out[s] :
    out[r][m].offset = out[s][n].offset /\ ~out[r][m].compressed =>
      out[r][m] = out[s][n]
=============================================================================
