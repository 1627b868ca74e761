------------------------------ MODULE LevelDbLog ------------------------------
(***************************************************************************)
(* The write-ahead log of a Chromium LevelDB as chromium_reader.leveldb    *)
(* reads it: _iter_log_blocks reassembles batches from the fragments of    *)
(* fixed-size blocks, LogFile.__iter__ splits a batch into records.        *)
(*                                                                         *)
(* Bytes are counted, not spelled out.  The file is the sequence `frags`   *)
(* of the fragments LevelDB emitted, each at its byte position, of which   *)
(* the first `valid` bytes survived; bytes from `valid` up to `size` are   *)
(* zero.  Bytes a reader holds are [b, m, z]: the first m bytes of batch   *)
(* b, then z zero bytes; anything else is Garbage(n), n bytes of no batch. *)
(* A length is one byte (the varints of the code, below 128).              *)
(*                                                                         *)
(* An iterator is a Python generator: it runs alone from one next() to the *)
(* yield that answers it, and every iterator of one LogFile moves the one  *)
(* position `fpos` of the stream they share.                               *)
(***************************************************************************)
EXTENDS Integers, Sequences, FiniteSets

CONSTANTS
  Readers,      (* iterators over the one LogFile                          *)
  BlockSize,    (* LogFile.LOG_BLOCK_SIZE, 32768 in the code               *)
  HeaderSize,   (* bytes of a fragment header, 7 in the code               *)
  BatchHeader,  (* bytes of a batch header, 12 in the code                 *)
  MaxBatches,   (* bound: batches the browser writes                       *)
  MaxRecs,      (* bound: records of one batch                             *)
  KeyLens,      (* lengths of keys                                         *)
  ValLens,      (* lengths of values                                       *)
  MaxPasses,    (* bound: iterations started                               *)
  LiveWriter,   (* TRUE: the browser may write while the log is read       *)
  ZeroTails     (* TRUE: a crash may leave a tail of zero bytes            *)

ASSUME LogConstants ==
  /\ BlockSize \in Nat /\ HeaderSize \in Nat \ {0} /\ BlockSize > HeaderSize
  /\ BatchHeader \in Nat \ {0}
  /\ MaxBatches \in Nat /\ MaxRecs \in Nat /\ MaxPasses \in Nat
  /\ KeyLens \subseteq Nat /\ ValLens \subseteq Nat
  /\ LiveWriter \in BOOLEAN /\ ZeroTails \in BOOLEAN

VARIABLES
  draft,    (* the WriteBatch under construction: [recs, size]             *)
  batches,  (* history: the batches handed to the log writer               *)
  sent,     (* bytes of the last batch already emitted                     *)
  frags,    (* the fragments in the file                                   *)
  blk,      (* position of the block the log writer is in                  *)
  size,     (* length of the file                                          *)
  valid,    (* bytes of the file that are as written                       *)
  phase,    (* "up" while the browser may write, then "down"               *)
  fpos,     (* position of the stream LogFile opened                       *)
  passes,   (* iterations started so far                                   *)
  closed,   (* LogFile.close() was called                                  *)
  it,       (* the local state of each iterator                            *)
  out       (* history: what each iterator yielded since it was started    *)

writer == <<draft, batches, sent, frags, blk, size, valid, phase>>
vars == <<draft, batches, sent, frags, blk, size, valid, phase,
          fpos, passes, closed, it, out>>

Smaller(a, b) == IF a <= b THEN a ELSE b
Larger(a, b) == IF a >= b THEN a ELSE b

(***************************************************************************)
(* Values                                                                  *)
(***************************************************************************)
DELETED == 0
LIVE == 1

ZERO == 0
FULL == 1
FIRST == 2
MIDDLE == 3
LAST == 4
UNKNOWN == 5   \* any type byte _iter_log_blocks does not know

NoDraft == [recs |-> <<>>, size |-> BatchHeader]

\* state byte, key length, key and, unless deleted, value length and value
RecordSize(state, klen, vlen) ==
  IF state = DELETED THEN 2 + klen ELSE 3 + klen + vlen

ZeroHeader == [start |-> 0, type |-> ZERO, len |-> 0, b |-> -1, from |-> 0]

NoBytes == [b |-> 0, m |-> 0, z |-> 0]
Garbage(n) == [b |-> -1, m |-> n, z |-> 0]

Fresh == [pc |-> "new", base |-> 0, limit |-> 0, tell |-> 0, idx |-> 0,
          inRecord |-> FALSE, start |-> 0, batch |-> NoBytes,
          off |-> 0, at |-> 0, count |-> 0, i |-> 0]

(***************************************************************************)
(* The browser: LevelDB's WriteBatch and log writer (external).            *)
(***************************************************************************)
Init ==
  /\ draft = NoDraft /\ batches = <<>> /\ sent = 0
  /\ frags = <<>> /\ blk = 0 /\ size = 0 /\ valid = 0 /\ phase = "up"
  /\ fpos = 0 /\ passes = 0 /\ closed = FALSE
  /\ it = [r \in Readers |-> Fresh]
  /\ out = [r \in Readers |-> <<>>]

LastBatch == batches[Len(batches)]
Emitted == sent = IF batches = <<>> THEN 0 ELSE LastBatch.size

Put(state, klen, vlen) ==
  /\ phase = "up" /\ Emitted
  /\ Len(batches) < MaxBatches /\ Len(draft.recs) < MaxRecs
  /\ draft' = [recs |-> Append(draft.recs, [state |-> state, klen |-> klen,
                                            vlen |-> vlen, pos |-> draft.size]),
               size |-> draft.size + RecordSize(state, klen, vlen)]
  /\ UNCHANGED <<batches, sent, frags, blk, size, valid, phase,
                 fpos, passes, closed, it, out>>

NextSeq == IF batches = <<>> THEN 1 ELSE LastBatch.seq + Len(LastBatch.recs)

Commit ==
  /\ phase = "up" /\ Emitted /\ draft.recs # <<>>
  /\ batches' = Append(batches, [seq |-> NextSeq, recs |-> draft.recs,
                                 size |-> draft.size])
  /\ draft' = NoDraft
  /\ sent' = 0
  /\ UNCHANGED <<frags, blk, size, valid, phase, fpos, passes, closed, it, out>>

FragmentType(begin, end) ==
  CASE begin /\ end -> FULL
    [] begin /\ ~end -> FIRST
    [] ~begin /\ end -> LAST
    [] OTHER -> MIDDLE

\* A block whose rest cannot hold a header is padded with zero bytes.
EmitFragment ==
  /\ phase = "up" /\ ~Emitted
  /\ LET pad   == blk + BlockSize - size < HeaderSize
         block == IF pad THEN blk + BlockSize ELSE blk
         start == IF pad THEN block ELSE size
         len   == Smaller(block + BlockSize - start - HeaderSize,
                          LastBatch.size - sent)
         begin == frags = <<>> \/ frags[Len(frags)].b # Len(batches)
         type  == FragmentType(begin, sent + len = LastBatch.size)
     IN  /\ frags' = Append(frags, [start |-> start, type |-> type, len |-> len,
                                    b |-> Len(batches), from |-> sent])
         /\ blk' = block
         /\ size' = start + HeaderSize + len
         /\ valid' = start + HeaderSize + len
         /\ sent' = sent + len
  /\ UNCHANGED <<draft, batches, phase, fpos, passes, closed, it, out>>

\* The browser exits or crashes: v bytes reached the disk, s is the length
\* of the file that is left.  LevelDB never appends to this log again.
Stop(v, s) ==
  /\ phase = "up"
  /\ s = v \/ ZeroTails
  /\ phase' = "down" /\ valid' = v /\ size' = s
  /\ UNCHANGED <<draft, batches, sent, frags, blk, fpos, passes, closed, it, out>>

(***************************************************************************)
(* _iter_log_blocks                                                        *)
(***************************************************************************)
Busy == {"chunk", "frag", "batch", "rec"}
Idle == \A r \in Readers : it[r].pc \notin Busy

\* for record in log_file: a new generator, whose first next() seeks to 0
Start(r) ==
  /\ phase = "down" \/ LiveWriter
  /\ Idle /\ passes < MaxPasses
  /\ it' = [it EXCEPT ![r] = [Fresh EXCEPT !.pc = IF closed THEN "raised"
                                                          ELSE "chunk"]]
  /\ fpos' = IF closed THEN fpos ELSE 0
  /\ passes' = passes + 1
  /\ out' = [out EXCEPT ![r] = <<>>]
  /\ UNCHANGED <<writer, closed>>

\* next() on a generator suspended at its yield
Resume(r) ==
  /\ Idle /\ it[r].pc = "yield"
  /\ it' = [it EXCEPT ![r].pc = "rec"]
  /\ UNCHANGED <<writer, fpos, passes, closed, out>>

Close ==
  /\ Idle
  /\ closed' = TRUE
  /\ UNCHANGED <<writer, fpos, passes, it, out>>

ReadChunk(r) ==
  /\ it[r].pc = "chunk"
  /\ IF closed \/ fpos >= size
     THEN /\ it' = [it EXCEPT ![r].pc = IF closed THEN "raised" ELSE "done"]
          /\ UNCHANGED fpos
     ELSE LET n == Smaller(BlockSize, size - fpos)
          IN  /\ it' = [it EXCEPT ![r] = [@ EXCEPT !.base = fpos, !.limit = n,
                                                   !.tell = 0, !.pc = "frag"]]
              /\ fpos' = fpos + n
  /\ UNCHANGED <<writer, passes, closed, out>>

\* Mutant: block_size - 7 for block_size - 6.
ChunkExhaustedEarly(s) ==
  \/ s.tell >= BlockSize - HeaderSize
  \/ s.limit - s.tell < HeaderSize

\* The loop guard of a block, and the short header that also leaves it.
ChunkExhausted(s) ==
  \/ s.tell >= BlockSize - (HeaderSize - 1)
  \/ s.limit - s.tell < HeaderSize

\* Mutants: the first block that ends, or is padded, ends the iteration; the
\* loop goes on with the block; idx is not counted on.
NextChunkReturns(s) == [s EXCEPT !.pc = "done"]
NextChunkContinues(s) == s
NextChunkUncounted(s) == [s EXCEPT !.pc = "chunk"]

NextChunk(s) == [s EXCEPT !.idx = @ + 1, !.pc = "chunk"]

EndChunk(r) ==
  /\ it[r].pc = "frag" /\ ChunkExhausted(it[r])
  /\ it' = [it EXCEPT ![r] = NextChunk(@)]
  /\ UNCHANGED <<writer, fpos, passes, closed, out>>

\* What unpacking the HeaderSize bytes at position p can give: zeros where
\* the type byte did not survive, the header written there, or, when p is in
\* the middle of other bytes, whatever those bytes happen to spell.
Headers(p) ==
  LET here == {j \in DOMAIN frags : frags[j].start = p}
  IN  IF p + HeaderSize > valid THEN {ZeroHeader}
      ELSE IF here # {} THEN {frags[j] : j \in here}
      ELSE {[start |-> p, type |-> t, len |-> n, b |-> -1, from |-> 0] :
              t \in ZERO..UNKNOWN, n \in 0..BlockSize}

\* data = buf.read(length): never more than the chunk holds
DataLen(s, h) == Smaller(h.len, s.limit - s.tell - HeaderSize)

Data(s, h) ==
  LET n    == DataLen(s, h)
      real == Larger(0, Smaller(n, valid - (s.base + s.tell + HeaderSize)))
  IN  IF h.b = -1 THEN Garbage(n) ELSE [b |-> h.b, m |-> real, z |-> n - real]

\* Mutant: the header is taken off a position that is in front of it.
PosInLogTwiceBack(s) == s.idx * BlockSize + s.tell - HeaderSize

PosInLog(s) == s.idx * BlockSize + s.tell + HeaderSize

\* the iterator once header and data of h are read from its chunk
Past(s, h) == [s EXCEPT !.tell = s.tell + HeaderSize + DataLen(s, h)]

Length(bytes) == bytes.m + bytes.z

\* batch += data
Joined(batch, h, data) ==
  IF h.b = batch.b /\ h.from = batch.m /\ batch.z = 0 /\ h.b # -1
  THEN [b |-> h.b, m |-> batch.m + data.m, z |-> data.z]
  ELSE Garbage(Length(batch) + Length(data))

Raise(s) == [s EXCEPT !.pc = "raised"]

\* yield (batch_offset, batch) to LogFile.__iter__
Deliver(s, batch, off) ==
  [s EXCEPT !.pc = "batch", !.batch = batch, !.off = off]

AfterFull(s, h) ==
  IF s.inRecord THEN Raise(s) ELSE Deliver(Past(s, h), Data(s, h), PosInLog(s))

AfterFirst(s, h) ==
  IF s.inRecord THEN Raise(s)
  ELSE [Past(s, h) EXCEPT !.start = PosInLog(s), !.batch = Data(s, h),
                          !.inRecord = TRUE]

\* Mutant: a MIDDLE fragment is not appended.
AfterMiddleDropped(s, h) == IF ~s.inRecord THEN Raise(s) ELSE Past(s, h)

AfterMiddle(s, h) ==
  IF ~s.inRecord THEN Raise(s)
  ELSE [Past(s, h) EXCEPT !.batch = Joined(@, h, Data(s, h))]

\* Mutant: the batch is yielded before its last fragment is appended.
AfterLastTooSoon(s, h) ==
  IF ~s.inRecord THEN Raise(s)
  ELSE [Deliver(Past(s, h), s.batch, s.start) EXCEPT !.inRecord = FALSE]

AfterLast(s, h) ==
  IF ~s.inRecord THEN Raise(s)
  ELSE [Deliver(Past(s, h), Joined(s.batch, h, Data(s, h)), s.start)
          EXCEPT !.inRecord = FALSE]

\* ZERO is padding: the rest of the block is skipped.
ReadFragment(r) ==
  /\ it[r].pc = "frag" /\ ~ChunkExhausted(it[r])
  /\ \E h \in Headers(it[r].base + it[r].tell) :
       \/ h.type = FULL    /\ it' = [it EXCEPT ![r] = AfterFull(@, h)]
       \/ h.type = FIRST   /\ it' = [it EXCEPT ![r] = AfterFirst(@, h)]
       \/ h.type = MIDDLE  /\ it' = [it EXCEPT ![r] = AfterMiddle(@, h)]
       \/ h.type = LAST    /\ it' = [it EXCEPT ![r] = AfterLast(@, h)]
       \/ h.type = ZERO    /\ it' = [it EXCEPT ![r] = NextChunk(@)]
       \/ h.type = UNKNOWN /\ it' = [it EXCEPT ![r] = Raise(@)]
  /\ UNCHANGED <<writer, fpos, passes, closed, out>>

(***************************************************************************)
(* LogFile.__iter__: a batch is split into records                         *)
(***************************************************************************)
BatchLen(s) == Length(s.batch)

\* The count a batch header gives.  Zeros cut its high bytes, or all of it;
\* Garbage spells any count.
Counts(batch) ==
  IF batch.b = -1 THEN 0..MaxRecs
  ELSE LET n == Len(batches[batch.b].recs)
       IN  IF batch.m >= BatchHeader THEN {n}
           ELSE IF batch.m = 0 THEN {0} ELSE 0..n

ParseBatch(r) ==
  /\ it[r].pc = "batch"
  /\ IF BatchLen(it[r]) < BatchHeader
     THEN it' = [it EXCEPT ![r].pc = "frag"]
     ELSE \E n \in Counts(it[r].batch) :
            it' = [it EXCEPT ![r] = [@ EXCEPT !.pc = "rec", !.at = BatchHeader,
                                              !.count = n, !.i = 0]]
  /\ UNCHANGED <<writer, fpos, passes, closed, out>>

\* The fields of the record at offset s.at of an honest batch.  Past the
\* written bytes a zero byte is read: DELETED as a state, 0 as a length.
\* buf.read(n) never checks that it got n bytes.
StateAt(s) ==
  IF s.at < s.batch.m THEN batches[s.batch.b].recs[s.i + 1].state ELSE DELETED

KeyLenAt(s) ==
  IF s.at + 1 < s.batch.m THEN batches[s.batch.b].recs[s.i + 1].klen ELSE 0

KeyRead(s) == Smaller(KeyLenAt(s), BatchLen(s) - (s.at + 2))

ValLenAt(s) ==
  IF s.at + 2 + KeyRead(s) < s.batch.m
  THEN batches[s.batch.b].recs[s.i + 1].vlen ELSE 0

ValRead(s) ==
  IF StateAt(s) = DELETED THEN 0
  ELSE Smaller(ValLenAt(s), BatchLen(s) - (s.at + 3 + KeyRead(s)))

RecordEnd(s) ==
  s.at + KeyRead(s) + ValRead(s) + (IF StateAt(s) = DELETED THEN 2 ELSE 3)

\* A state byte or a length that is not there ends the batch.
OutOfBatch(s) ==
  \/ s.at + 1 >= BatchLen(s)
  \/ IF s.batch.b = -1 THEN FALSE
     ELSE StateAt(s) # DELETED /\ s.at + 2 + KeyRead(s) >= BatchLen(s)

\* intact: the record is the one the browser wrote, every byte of it
Yielded(s) ==
  LET rec == batches[s.batch.b].recs[s.i + 1]
  IN  [b |-> s.batch.b, i |-> s.i, seq |-> batches[s.batch.b].seq + s.i,
       off |-> s.off + s.at,
       intact |-> /\ s.at = rec.pos
                  /\ s.at + RecordSize(rec.state, rec.klen, rec.vlen)
                       <= s.batch.m]

GarbageRecord(s) ==
  [b |-> -1, i |-> s.i, seq |-> 0, off |-> s.off + s.at, intact |-> FALSE]

EndBatch(r) ==
  /\ it[r].pc = "rec"
  /\ IF it[r].i = it[r].count THEN TRUE ELSE OutOfBatch(it[r])
  /\ it' = [it EXCEPT ![r].pc = "frag"]
  /\ UNCHANGED <<writer, fpos, passes, closed, out>>

\* suspended after a record that ends at offset `end` of the batch
AfterYield(s, end) == [s EXCEPT !.pc = "yield", !.at = end, !.i = @ + 1]

\* yield Record.log_record(...)
YieldRecord(r) ==
  /\ it[r].pc = "rec" /\ it[r].batch.b # -1 /\ it[r].i < it[r].count
  /\ ~OutOfBatch(it[r])
  /\ out' = [out EXCEPT ![r] = Append(@, Yielded(it[r]))]
  /\ it' = [it EXCEPT ![r] = AfterYield(@, RecordEnd(@))]
  /\ UNCHANGED <<writer, fpos, passes, closed>>

\* Bytes that are no batch: a record of them, as long as its bytes say, no
\* record because a length is missing, or an exception: KeyState() refuses
\* the state byte, or a varint does not end.
YieldGarbage(r) ==
  /\ it[r].pc = "rec" /\ it[r].batch.b = -1 /\ it[r].i < it[r].count
  /\ ~OutOfBatch(it[r])
  /\ \/ \E end \in it[r].at + 2 .. BatchLen(it[r]) :
          /\ out' = [out EXCEPT ![r] = Append(@, GarbageRecord(it[r]))]
          /\ it' = [it EXCEPT ![r] = AfterYield(@, end)]
     \/ /\ it' = [it EXCEPT ![r].pc = "frag"]
        /\ UNCHANGED out
     \/ /\ it' = [it EXCEPT ![r].pc = "raised"]
        /\ UNCHANGED out
  /\ UNCHANGED <<writer, fpos, passes, closed>>

(***************************************************************************)
(* Specification                                                           *)
(***************************************************************************)
Write ==
  \/ \E k \in KeyLens, v \in ValLens : Put(LIVE, k, v)
  \/ \E k \in KeyLens : Put(DELETED, k, 0)
  \/ Commit
  \/ EmitFragment
  \/ \E v \in 0..size : \E s \in v..size : Stop(v, s)

\* The steps between a next() and its answer.
Step(r) ==
  \/ ReadChunk(r)
  \/ EndChunk(r)
  \/ ReadFragment(r)
  \/ ParseBatch(r)
  \/ EndBatch(r)
  \/ YieldRecord(r)
  \/ YieldGarbage(r)

Next ==
  \/ Write
  \/ Close
  \/ \E r \in Readers : Start(r) \/ Resume(r) \/ Step(r)

Spec == Init /\ [][Next]_vars

\* The interpreter keeps running a next() it has begun; nobody has to call
\* next(), close the file or write.
FairSpec == Spec /\ \A r \in Readers : WF_vars(Step(r))

(***************************************************************************)
(* Properties                                                              *)
(***************************************************************************)
WrittenRecord == [state : {DELETED, LIVE}, klen : Nat, vlen : Nat, pos : Nat]
Batch == [seq : Nat, size : Nat, recs : Seq(WrittenRecord)]
Fragment == [start : Nat, type : FULL..LAST, len : Nat, b : Nat, from : Nat]
Bytes == [b : Nat \cup {-1}, m : Nat, z : Nat]
Iterator ==
  [pc : {"new", "yield", "done", "raised"} \cup Busy, base : Nat, limit : Nat,
   tell : Nat, idx : Nat, inRecord : BOOLEAN, start : Nat, batch : Bytes,
   off : Nat, at : Nat, count : Nat, i : Nat]
YieldedRecord ==
  [b : Nat \cup {-1}, i : Nat, seq : Nat, off : Nat, intact : BOOLEAN]

\* Every variable has its type.
TypeOK ==
  /\ draft \in [recs : Seq(WrittenRecord), size : Nat]
  /\ batches \in Seq(Batch) /\ sent \in Nat
  /\ frags \in Seq(Fragment) /\ blk \in Nat /\ size \in Nat /\ valid \in Nat
  /\ phase \in {"up", "down"}
  /\ fpos \in Nat /\ passes \in Nat /\ closed \in BOOLEAN
  /\ it \in [Readers -> Iterator]
  /\ out \in [Readers -> Seq(YieldedRecord)]

\* y comes right after x in what the browser wrote.
Follows(x, y) ==
  \/ y.b = x.b /\ y.i = x.i + 1
  \/ y.b = x.b + 1 /\ y.i = 0 /\ x.i + 1 = Len(batches[x.b].recs)

\* One iterator is at work, or the file is one block: each iterator copies all
\* of it before it yields.
Undisturbed ==
  \/ size <= BlockSize
  \/ \A r, q \in Readers : it[r].pc # "new" /\ it[q].pc # "new" => r = q

\* A pass over the log yields the records in the order they were written,
\* from the first one on, none left out and none twice, wherever the batches
\* fall on the blocks, and whoever else iterates a file of one block
\* (_iter_log_blocks, LogFile.__iter__).
InOrder ==
  Undisturbed => \A r \in Readers :
    /\ out[r] # <<>> => out[r][1].b = 1 /\ out[r][1].i = 0
    /\ \A j \in 1..Len(out[r]) - 1 : Follows(out[r][j], out[r][j + 1])

\* A crash damages records of the last batch only: once a record is not the
\* one the browser wrote, nothing of a later batch is yielded.
DamageConfined ==
  Undisturbed => \A r \in Readers : \A j, k \in DOMAIN out[r] :
    j < k /\ ~out[r][j].intact => out[r][k].b = out[r][j].b

\* The batch is in the file, with its last byte.
Durable(b) ==
  \E j \in DOMAIN frags :
    /\ frags[j].b = b /\ frags[j].type \in {FULL, LAST}
    /\ frags[j].start + HeaderSize + frags[j].len <= valid

\* When the iterator ends, every record of every batch that is whole in the
\* file has been yielded as it was written.
NothingLost ==
  Undisturbed => \A r \in Readers : it[r].pc = "done" =>
    \A b \in DOMAIN batches : Durable(b) =>
      \A i \in 0..Len(batches[b].recs) - 1 :
        \E j \in DOMAIN out[r] :
          out[r][j].b = b /\ out[r][j].i = i /\ out[r][j].intact

\* A log LevelDB wrote, cut anywhere by a crash, never makes the reader raise:
\* only a closed file does.
NoSpuriousError ==
  Undisturbed => \A r \in Readers : it[r].pc = "raised" => closed

\* Record.offset tells the records of a file apart: offsets grow along a
\* pass, whatever the bytes are and whoever else moves the stream.
OffsetsGrow ==
  \A r \in Readers : \A j, k \in DOMAIN out[r] :
    j < k => out[r][j].off < out[r][k].off

\* Every next() returns: no byte sequence keeps the generator looping.
NextReturns ==
  \A r \in Readers : it[r].pc \in Busy ~> it[r].pc \notin Busy
=============================================================================
