--------------------------- MODULE LevelDbLogProofs ---------------------------
(***************************************************************************)
(* Proofs about LevelDbLog, for every block size, every number of          *)
(* iterators and whatever the browser writes meanwhile: the variables keep *)
(* their types, and the offsets an iterator yields grow.  A log that is    *)
(* read when nobody writes it any more gives the records in order, and,    *)
(* wherever a crash cut it, every record of every batch that is whole.     *)
(*                                                                         *)
(* TypeOK alone is not inductive: a record is looked up in the batch its   *)
(* iterator holds, which must exist, and a number of bytes is a difference *)
(* of positions, which must be in order.  WriterInv and IteratorInv say    *)
(* both.  Ahead says how far an iterator's position is past what it        *)
(* yielded.                                                                *)
(*                                                                         *)
(* LayoutInv says how LevelDB lays batches and records out, for every      *)
(* block size: a fragment lies in one block and follows the one before it, *)
(* or the padding after it, and carries on its batch or begins the next.   *)
(* ReaderInv says where an iterator is in that layout: in front of a       *)
(* fragment with exactly the bytes of its batch that come before it, or    *)
(* past everything that survived.                                          *)
(***************************************************************************)
EXTENDS LevelDbLog, SequenceTheorems, TLAPS

(***************************************************************************)
(* The inductive invariant                                                 *)
(***************************************************************************)
WriterInv ==
  /\ phase = "up" => blk <= size /\ size <= blk + BlockSize
  /\ batches = <<>> => sent = 0
  /\ batches # <<>> => sent <= LastBatch.size
  /\ \A j \in DOMAIN frags : frags[j].b \in 1..Len(batches)

\* s is the state of an iterator.
IteratorInv(s) ==
  /\ s.tell <= s.limit /\ s.limit <= BlockSize
  /\ s.batch.b <= Len(batches)
  /\ s.pc \in {"batch", "rec", "yield"} => s.batch.b # 0
  /\ s.pc \in {"rec", "yield"} /\ s.batch.b # -1
       => s.count <= Len(batches[s.batch.b].recs)

\* How far into the log the fragments that s has read go.
Reached(s) == s.idx * BlockSize + IF s.pc = "chunk" THEN 0 ELSE s.tell

\* A batch, or what s has of it, lies behind that.
Ahead(s) ==
  /\ s.pc \in {"chunk", "frag"} /\ s.inRecord
       => s.start + Length(s.batch) <= Reached(s)
  /\ s.pc \in {"batch", "rec", "yield"}
       => ~s.inRecord /\ s.off + BatchLen(s) <= Reached(s)
  /\ s.pc \in {"rec", "yield"} => s.at <= BatchLen(s)

\* The least offset that s may still yield.
Floor(s) ==
  IF s.pc = "batch" THEN s.off
  ELSE IF s.pc \in {"rec", "yield"} THEN s.off + s.at
  ELSE IF s.inRecord THEN s.start ELSE Reached(s)

TypeInv ==
  /\ TypeOK
  /\ WriterInv
  /\ \A r \in Readers : IteratorInv(it[r])

Running == Busy \cup {"yield"}

\* o is what s yielded.
OffsetInv(s, o) ==
  /\ Ahead(s)
  /\ s.pc \in Running => \A k \in DOMAIN o : o[k].off < Floor(s)
  /\ \A j, k \in DOMAIN o : j < k => o[j].off < o[k].off

(***************************************************************************)
(* The helpers of _iter_log_blocks                                         *)
(***************************************************************************)
Header == [start : Nat, type : ZERO..UNKNOWN, len : Nat, b : Nat \cup {-1},
           from : Nat]

\* A header comes from the file, or belongs to no batch.
LEMMA HeaderType ==
  ASSUME TypeInv, NEW p \in Nat, NEW h \in Headers(p)
  PROVE  h \in Header /\ h.b # 0 /\ h.b <= Len(batches)
<1> USE LogConstants DEF Header, ZERO, UNKNOWN, FULL, LAST, DELETED, LIVE
<1>1. Len(batches) \in Nat
  BY DEF TypeInv, TypeOK
<1>2. CASE h = ZeroHeader
  BY <1>1, <1>2 DEF ZeroHeader
<1>3. CASE \E j \in DOMAIN frags : h = frags[j]
  <2>1. PICK j \in DOMAIN frags : h = frags[j]
    BY <1>3
  <2>2. frags[j] \in Fragment /\ frags[j].b \in 1..Len(batches)
    BY DEF TypeInv, TypeOK, WriterInv
  <2> QED
    BY <1>1, <2>1, <2>2 DEF Fragment
<1>4. CASE \E t \in ZERO..UNKNOWN, n \in 0..BlockSize :
             h = [start |-> p, type |-> t, len |-> n, b |-> -1, from |-> 0]
  BY <1>1, <1>4
<1> QED
  BY <1>2, <1>3, <1>4 DEF Headers

\* What buf.read(length) returns fits in the chunk.
LEMMA DataType ==
  ASSUME TypeInv, NEW s \in Iterator, s.tell + HeaderSize <= s.limit,
         NEW h \in Header
  PROVE  /\ DataLen(s, h) \in Nat
         /\ s.tell + HeaderSize + DataLen(s, h) <= s.limit
         /\ Data(s, h) \in Bytes
         /\ Data(s, h).b = h.b
         /\ Length(Data(s, h)) = DataLen(s, h)
<1> USE LogConstants DEF Iterator, Header, Bytes
<1>1. /\ DataLen(s, h) \in Nat
      /\ s.tell + HeaderSize + DataLen(s, h) <= s.limit
  BY DEF DataLen, Smaller
<1>2. valid \in Nat
  BY DEF TypeInv, TypeOK
<1>3. CASE h.b = -1
  BY <1>1, <1>3 DEF Data, Garbage, Length
<1>4. CASE h.b # -1
  <2> DEFINE real == Larger(0, Smaller(DataLen(s, h),
                               valid - (s.base + s.tell + HeaderSize)))
  <2>1. real \in Nat /\ real <= DataLen(s, h)
    BY <1>1, <1>2 DEF Larger, Smaller
  <2>2. Data(s, h) = [b |-> h.b, m |-> real, z |-> DataLen(s, h) - real]
    BY <1>4 DEF Data
  <2> HIDE DEF real
  <2> QED
    BY <1>1, <2>1, <2>2 DEF Length
<1> QED
  BY <1>1, <1>3, <1>4

\* batch += data keeps every byte, and the batch if it is still one.
LEMMA JoinedType ==
  ASSUME NEW batch \in Bytes, NEW data \in Bytes, NEW h \in Header
  PROVE  /\ Joined(batch, h, data) \in Bytes
         /\ Joined(batch, h, data).b \in {-1, h.b}
         /\ Length(Joined(batch, h, data)) = Length(batch) + Length(data)
<1>1. CASE h.b = batch.b /\ h.from = batch.m /\ batch.z = 0 /\ h.b # -1
  BY <1>1 DEF Joined, Bytes, Header, Length
<1>2. CASE ~(h.b = batch.b /\ h.from = batch.m /\ batch.z = 0 /\ h.b # -1)
  BY <1>2 DEF Joined, Garbage, Bytes, Length
<1> QED
  BY <1>1, <1>2
(***************************************************************************)
(* One step of an iterator, from s to t                                    *)
(***************************************************************************)
Sound(s) == s \in Iterator /\ IteratorInv(s) /\ Ahead(s)

\* t is as sound as s, and yields nothing below what s would.
Advance(s, t) ==
  /\ Sound(t)
  /\ t.pc \in Running => Floor(s) <= Floor(t)

LEMMA BlockStarts ==
  ASSUME NEW i \in Nat
  PROVE  i * BlockSize \in Nat /\ (i + 1) * BlockSize = i * BlockSize + BlockSize
<1>1. BlockSize \in Nat
  BY LogConstants
<1>2. i * BlockSize \in Nat
  BY <1>1
<1>3. \A b \in Nat : (i + 1) * b = i * b + b
  OBVIOUS
<1> QED
  BY <1>1, <1>2, <1>3

\* The numbers the invariants compare.
LEMMA Positions ==
  ASSUME NEW s \in Iterator
  PROVE  /\ Reached(s) \in Nat /\ Floor(s) \in Nat /\ BatchLen(s) \in Nat
         /\ s.off \in Nat /\ s.at \in Nat /\ s.start \in Nat /\ s.i \in Nat
<1>1. /\ s.off \in Nat /\ s.at \in Nat /\ s.start \in Nat /\ s.i \in Nat
      /\ s.tell \in Nat /\ s.idx \in Nat
  BY DEF Iterator
<1>2. BatchLen(s) \in Nat
  BY DEF Iterator, Bytes, BatchLen, Length
<1>3. Reached(s) \in Nat
  BY <1>1, BlockStarts DEF Reached
<1> QED
  BY <1>1, <1>2, <1>3 DEF Floor

LEMMA RaiseAdvances ==
  ASSUME NEW s \in Iterator, Sound(s)
  PROVE  Advance(s, Raise(s))
BY DEF Advance, Sound, Raise, Iterator, IteratorInv, Ahead, Running, Busy

\* A next chunk, or the end of one: Reached moves to the next block.
LEMMA NextChunkAdvances ==
  ASSUME NEW s \in Iterator, Sound(s), s.pc = "frag"
  PROVE  Advance(s, NextChunk(s))
<1> DEFINE t == NextChunk(s)
<1>1. t \in Iterator /\ t.pc = "chunk" /\ IteratorInv(t)
  <2>1. s.idx + 1 \in Nat
    BY DEF Iterator
  <2>2. t \in Iterator
    BY <2>1, Zenon DEF NextChunk, Iterator, Busy
  <2>3. t.pc = "chunk" /\ t.tell = s.tell /\ t.limit = s.limit /\ t.batch = s.batch
    BY DEF NextChunk, Iterator
  <2> QED
    BY <2>2, <2>3 DEF Sound, IteratorInv
<1>2. Reached(s) <= Reached(t)
  <2>1. Reached(s) = s.idx * BlockSize + s.tell
    BY DEF Reached
  <2>2. Reached(t) = (s.idx + 1) * BlockSize
    BY LogConstants DEF NextChunk, Reached, Iterator
  <2>3. s.tell \in Nat /\ s.tell <= BlockSize /\ s.idx \in Nat
    BY LogConstants DEF Sound, Iterator, IteratorInv
  <2> QED
    BY <2>1, <2>2, <2>3, BlockStarts, LogConstants
<1>3. t.inRecord = s.inRecord /\ t.start = s.start /\ t.batch = s.batch
  BY DEF NextChunk, Iterator
<1> QED
  <2>1. Reached(s) \in Nat /\ Reached(t) \in Nat
    BY <1>1, BlockStarts DEF Reached, Iterator
  <2>2. s.start \in Nat /\ Length(s.batch) \in Nat
    BY DEF Iterator, Bytes, Length
  <2> HIDE DEF t
  <2>3. Advance(s, t)
    BY <1>1, <1>2, <1>3, <2>1, <2>2 DEF Advance, Sound, Ahead, Floor
  <2> QED
    BY <2>3 DEF t
\* What the four data fragments have in common.
LEMMA FragmentFacts ==
  ASSUME TypeInv, NEW s \in Iterator, Sound(s), s.pc = "frag",
         ~ChunkExhausted(s), NEW h \in Header, h.b # 0, h.b <= Len(batches)
  PROVE  /\ Past(s, h) \in Iterator
         /\ Past(s, h) = [s EXCEPT !.tell = Past(s, h).tell]
         /\ Past(s, h).tell = s.tell + HeaderSize + DataLen(s, h)
         /\ Past(s, h).tell <= s.limit
         /\ PosInLog(s) \in Nat /\ Reached(s) \in Nat
         /\ PosInLog(s) = Reached(s) + HeaderSize
         /\ s.idx * BlockSize + Past(s, h).tell = PosInLog(s) + DataLen(s, h)
         /\ Data(s, h) \in Bytes /\ Data(s, h).b = h.b
         /\ Length(Data(s, h)) = DataLen(s, h)
         /\ DataLen(s, h) \in Nat
<1>1. s.tell + HeaderSize <= s.limit
  BY LogConstants DEF ChunkExhausted, Iterator
<1>2. /\ DataLen(s, h) \in Nat
      /\ s.tell + HeaderSize + DataLen(s, h) <= s.limit
      /\ Data(s, h) \in Bytes /\ Data(s, h).b = h.b
      /\ Length(Data(s, h)) = DataLen(s, h)
  BY <1>1, DataType
<1>3. s.tell + HeaderSize + DataLen(s, h) \in Nat
  BY <1>2, LogConstants DEF Iterator
<1>4. Past(s, h) \in Iterator
  BY <1>3, Zenon DEF Past, Iterator
<1>5. Past(s, h).tell = s.tell + HeaderSize + DataLen(s, h)
  BY DEF Past, Iterator
<1>6. Past(s, h) = [s EXCEPT !.tell = Past(s, h).tell]
  BY <1>5 DEF Past
<1>7. s.idx * BlockSize \in Nat /\ s.tell \in Nat /\ HeaderSize \in Nat
  BY BlockStarts, LogConstants DEF Iterator
<1>8. /\ Reached(s) = s.idx * BlockSize + s.tell
      /\ PosInLog(s) = s.idx * BlockSize + s.tell + HeaderSize
  BY DEF Reached, PosInLog
<1> QED
  BY <1>2, <1>4, <1>5, <1>6, <1>7, <1>8

LEMMA FullAdvances ==
  ASSUME TypeInv, NEW s \in Iterator, Sound(s), s.pc = "frag",
         ~ChunkExhausted(s), NEW h \in Header, h.b # 0, h.b <= Len(batches)
  PROVE  Advance(s, AfterFull(s, h))
<1>1. CASE s.inRecord
  BY <1>1, RaiseAdvances DEF AfterFull
<1>2. CASE ~s.inRecord
  <2> DEFINE t == AfterFull(s, h)
  <2>1. t = [s EXCEPT !.tell = Past(s, h).tell, !.pc = "batch",
                      !.batch = Data(s, h), !.off = PosInLog(s)]
    BY <1>2, FragmentFacts DEF AfterFull, Deliver
  <2>2. t \in Iterator
    <3>1. Past(s, h).tell \in Nat /\ PosInLog(s) \in Nat /\ Data(s, h) \in Bytes
      BY FragmentFacts DEF Iterator
    <3>2. [s EXCEPT !.tell = Past(s, h).tell, !.pc = "batch",
                    !.batch = Data(s, h), !.off = PosInLog(s)] \in Iterator
      BY <3>1, Zenon DEF Iterator, Busy
    <3> QED
      BY <2>1, <3>2
  <2>3. /\ t.tell = Past(s, h).tell /\ t.pc = "batch" /\ t.limit = s.limit
        /\ t.batch = Data(s, h) /\ t.off = PosInLog(s)
        /\ t.idx = s.idx /\ t.inRecord = s.inRecord
    BY <2>1 DEF Iterator
  <2> HIDE DEF t
  <2>4. IteratorInv(t)
    BY <2>3, FragmentFacts DEF IteratorInv, Sound
  <2>5. Ahead(t)
    BY <1>2, <2>3, FragmentFacts DEF Ahead, Reached, BatchLen
  <2>6. Floor(s) <= Floor(t)
    BY <1>2, <2>3, FragmentFacts, LogConstants DEF Floor
  <2> QED
    BY <2>2, <2>4, <2>5, <2>6 DEF Advance, Sound, t
<1> QED
  BY <1>1, <1>2 DEF Iterator
LEMMA FirstAdvances ==
  ASSUME TypeInv, NEW s \in Iterator, Sound(s), s.pc = "frag",
         ~ChunkExhausted(s), NEW h \in Header, h.b # 0, h.b <= Len(batches)
  PROVE  Advance(s, AfterFirst(s, h))
<1>1. CASE s.inRecord
  BY <1>1, RaiseAdvances DEF AfterFirst
<1>2. CASE ~s.inRecord
  <2> DEFINE t == AfterFirst(s, h)
  <2>1. t = [s EXCEPT !.tell = Past(s, h).tell, !.start = PosInLog(s),
                      !.batch = Data(s, h), !.inRecord = TRUE]
    BY <1>2, FragmentFacts DEF AfterFirst
  <2>2. t \in Iterator
    <3>1. Past(s, h).tell \in Nat /\ PosInLog(s) \in Nat /\ Data(s, h) \in Bytes
      BY FragmentFacts DEF Iterator
    <3>2. [s EXCEPT !.tell = Past(s, h).tell, !.start = PosInLog(s),
                    !.batch = Data(s, h), !.inRecord = TRUE] \in Iterator
      BY <3>1, Zenon DEF Iterator
    <3> QED
      BY <2>1, <3>2
  <2>3. /\ t.tell = Past(s, h).tell /\ t.pc = "frag" /\ t.limit = s.limit
        /\ t.batch = Data(s, h) /\ t.start = PosInLog(s)
        /\ t.idx = s.idx /\ t.inRecord
    BY <2>1 DEF Iterator
  <2> HIDE DEF t
  <2>4. IteratorInv(t)
    BY <2>3, FragmentFacts DEF IteratorInv, Sound
  <2>5. Ahead(t)
    BY <2>3, FragmentFacts DEF Ahead, Reached
  <2>6. Floor(s) <= Floor(t)
    BY <1>2, <2>3, FragmentFacts, LogConstants DEF Floor
  <2> QED
    BY <2>2, <2>4, <2>5, <2>6 DEF Advance, Sound, t
<1> QED
  BY <1>1, <1>2 DEF Iterator

LEMMA MiddleAdvances ==
  ASSUME TypeInv, NEW s \in Iterator, Sound(s), s.pc = "frag",
         ~ChunkExhausted(s), NEW h \in Header, h.b # 0, h.b <= Len(batches)
  PROVE  Advance(s, AfterMiddle(s, h))
<1>1. CASE ~s.inRecord
  BY <1>1, RaiseAdvances DEF AfterMiddle
<1>2. CASE s.inRecord
  <2> DEFINE t == AfterMiddle(s, h)
             joined == Joined(s.batch, h, Data(s, h))
  <2>1. t = [s EXCEPT !.tell = Past(s, h).tell, !.batch = joined]
    BY <1>2, FragmentFacts DEF AfterMiddle, Past, Iterator
  <2>2. /\ joined \in Bytes /\ joined.b \in {-1, h.b}
        /\ Length(joined) = Length(s.batch) + DataLen(s, h)
    BY FragmentFacts, JoinedType DEF Iterator
  <2> HIDE DEF joined
  <2>3. t \in Iterator
    <3>1. Past(s, h).tell \in Nat
      BY FragmentFacts DEF Iterator
    <3>2. [s EXCEPT !.tell = Past(s, h).tell, !.batch = joined] \in Iterator
      BY <2>2, <3>1, Zenon DEF Iterator
    <3> QED
      BY <2>1, <3>2
  <2>4. /\ t.tell = Past(s, h).tell /\ t.pc = "frag" /\ t.limit = s.limit
        /\ t.batch = joined /\ t.start = s.start /\ t.idx = s.idx /\ t.inRecord
    BY <1>2, <2>1 DEF Iterator
  <2> HIDE DEF t
  <2>5. IteratorInv(t)
    <3>1. Len(batches) \in Nat
      BY DEF TypeInv, TypeOK
    <3>2. t.batch.b # 0 /\ t.batch.b <= Len(batches)
      BY <2>2, <2>4, <3>1
    <3>3. t.tell <= t.limit /\ t.limit <= BlockSize
      BY <2>4, FragmentFacts DEF IteratorInv, Sound
    <3> QED
      BY <2>4, <3>2, <3>3 DEF IteratorInv
  <2>6. s.start \in Nat /\ Length(s.batch) \in Nat
    BY DEF Iterator, Bytes, Length
  <2>7. Ahead(t)
    BY <1>2, <2>2, <2>4, <2>6, FragmentFacts, LogConstants DEF Ahead, Reached, Sound
  <2>8. Floor(s) <= Floor(t)
    BY <1>2, <2>4, <2>6 DEF Floor
  <2> QED
    BY <2>3, <2>5, <2>7, <2>8 DEF Advance, Sound, t
<1> QED
  BY <1>1, <1>2 DEF Iterator

LEMMA LastAdvances ==
  ASSUME TypeInv, NEW s \in Iterator, Sound(s), s.pc = "frag",
         ~ChunkExhausted(s), NEW h \in Header, h.b # 0, h.b <= Len(batches)
  PROVE  Advance(s, AfterLast(s, h))
<1>1. CASE ~s.inRecord
  BY <1>1, RaiseAdvances DEF AfterLast
<1>2. CASE s.inRecord
  <2> DEFINE t == AfterLast(s, h)
             joined == Joined(s.batch, h, Data(s, h))
  <2>1. t = [s EXCEPT !.tell = Past(s, h).tell, !.pc = "batch",
                      !.batch = joined, !.off = s.start, !.inRecord = FALSE]
    BY <1>2, FragmentFacts DEF AfterLast, Deliver
  <2>2. /\ joined \in Bytes /\ joined.b \in {-1, h.b}
        /\ Length(joined) = Length(s.batch) + DataLen(s, h)
    BY FragmentFacts, JoinedType DEF Iterator
  <2> HIDE DEF joined
  <2>3. t \in Iterator
    <3>1. Past(s, h).tell \in Nat /\ s.start \in Nat
      BY FragmentFacts DEF Iterator
    <3>2. [s EXCEPT !.tell = Past(s, h).tell, !.pc = "batch",
                    !.batch = joined, !.off = s.start, !.inRecord = FALSE]
            \in Iterator
      BY <2>2, <3>1, Zenon DEF Iterator, Busy
    <3> QED
      BY <2>1, <3>2
  <2>4. /\ t.tell = Past(s, h).tell /\ t.pc = "batch" /\ t.limit = s.limit
        /\ t.batch = joined /\ t.off = s.start /\ t.idx = s.idx /\ ~t.inRecord
    BY <2>1 DEF Iterator
  <2> HIDE DEF t
  <2>5. IteratorInv(t)
    <3>1. Len(batches) \in Nat
      BY DEF TypeInv, TypeOK
    <3>2. t.batch.b # 0 /\ t.batch.b <= Len(batches)
      BY <2>2, <2>4, <3>1
    <3>3. t.tell <= t.limit /\ t.limit <= BlockSize
      BY <2>4, FragmentFacts DEF IteratorInv, Sound
    <3> QED
      BY <2>4, <3>2, <3>3 DEF IteratorInv
  <2>6. s.start \in Nat /\ Length(s.batch) \in Nat
    BY DEF Iterator, Bytes, Length
  <2>7. Ahead(t)
    BY <1>2, <2>2, <2>4, <2>6, FragmentFacts, LogConstants
       DEF Ahead, Reached, BatchLen, Sound
  <2>8. Floor(s) <= Floor(t)
    BY <1>2, <2>4, <2>6 DEF Floor
  <2> QED
    BY <2>3, <2>5, <2>7, <2>8 DEF Advance, Sound, t
<1> QED
  BY <1>1, <1>2 DEF Iterator
\* ReadChunk: a new chunk starts where the last one ended.
LEMMA ChunkAdvances ==
  ASSUME TypeInv, NEW s \in Iterator, Sound(s), s.pc = "chunk",
         NEW n \in 0..BlockSize
  PROVE  Advance(s, [s EXCEPT !.base = fpos, !.limit = n, !.tell = 0,
                              !.pc = "frag"])
<1> DEFINE t == [s EXCEPT !.base = fpos, !.limit = n, !.tell = 0, !.pc = "frag"]
<1>1. fpos \in Nat /\ n \in Nat /\ 0 \in Nat /\ n <= BlockSize
  BY LogConstants DEF TypeInv, TypeOK
<1>2. t \in Iterator
  BY <1>1, Zenon DEF Iterator, Busy
<1>3. /\ t.tell = 0 /\ t.limit = n /\ t.pc = "frag" /\ t.batch = s.batch
      /\ t.idx = s.idx /\ t.inRecord = s.inRecord /\ t.start = s.start
  BY DEF Iterator
<1> HIDE DEF t
<1>4. IteratorInv(t)
  BY <1>1, <1>3 DEF IteratorInv, Sound
<1>5. Reached(s) = Reached(t)
  BY <1>3, BlockStarts DEF Reached, Iterator
<1>6. Ahead(t) /\ Floor(s) <= Floor(t)
  <2>1. Reached(s) \in Nat /\ s.start \in Nat
    BY BlockStarts DEF Reached, Iterator
  <2> QED
    BY <1>3, <1>5, <2>1 DEF Ahead, Floor, Sound
<1> QED
  BY <1>2, <1>4, <1>6 DEF Advance, Sound, t

\* Back to the fragments, from a batch or from its records.
LEMMA LeaveAdvances ==
  ASSUME NEW s \in Iterator, Sound(s), s.pc \in {"batch", "rec"}
  PROVE  Advance(s, [s EXCEPT !.pc = "frag"])
<1> DEFINE t == [s EXCEPT !.pc = "frag"]
<1>1. t \in Iterator
  BY DEF Iterator, Busy
<1>2. /\ t.pc = "frag" /\ t.tell = s.tell /\ t.limit = s.limit
      /\ t.batch = s.batch /\ t.idx = s.idx /\ t.inRecord = s.inRecord
  BY DEF Iterator
<1> HIDE DEF t
<1>3. IteratorInv(t)
  BY <1>2 DEF IteratorInv, Sound
<1>4. ~t.inRecord
  BY <1>2 DEF Ahead, Sound
<1>5. Ahead(t)
  BY <1>2, <1>4 DEF Ahead
<1>6. Floor(s) <= Floor(t)
  <2>1. Reached(t) = Reached(s) /\ Reached(s) \in Nat
    BY <1>2, BlockStarts DEF Reached, Iterator
  <2>2. BatchLen(s) \in Nat /\ s.off \in Nat /\ s.at \in Nat
    BY DEF BatchLen, Length, Iterator, Bytes
  <2>3. /\ s.off + BatchLen(s) <= Reached(s)
        /\ s.pc = "rec" => s.at <= BatchLen(s)
    BY DEF Sound, Ahead
  <2> QED
    BY <1>2, <1>4, <2>1, <2>2, <2>3 DEF Floor
<1> QED
  BY <1>1, <1>3, <1>5, <1>6 DEF Advance, Sound, t

\* The batch an iterator looks records up in exists.
LEMMA HeldBatch ==
  ASSUME TypeInv, NEW s \in Iterator, IteratorInv(s),
         s.pc \in {"batch", "rec"}, s.batch.b # -1
  PROVE  /\ s.batch.b \in 1..Len(batches)
         /\ batches[s.batch.b] \in Batch
<1>1. s.batch.b \in Nat
  BY DEF Iterator, Bytes
<1>2. batches \in Seq(Batch)
  BY DEF TypeInv, TypeOK
<1> QED
  BY <1>1, <1>2 DEF IteratorInv

LEMMA CountAdvances ==
  ASSUME TypeInv, NEW s \in Iterator, Sound(s), s.pc = "batch",
         BatchLen(s) >= BatchHeader, NEW n \in Counts(s.batch)
  PROVE  Advance(s, [s EXCEPT !.pc = "rec", !.at = BatchHeader, !.count = n,
                              !.i = 0])
<1> DEFINE t == [s EXCEPT !.pc = "rec", !.at = BatchHeader, !.count = n, !.i = 0]
<1>1. /\ n \in Nat
      /\ s.batch.b # -1 => n <= Len(batches[s.batch.b].recs)
  <2>1. CASE s.batch.b = -1
    BY <2>1, LogConstants DEF Counts
  <2>2. CASE s.batch.b # -1
    <3>1. batches[s.batch.b] \in Batch
      BY <2>2, HeldBatch DEF Sound
    <3>2. Len(batches[s.batch.b].recs) \in Nat
      BY <3>1 DEF Batch
    <3> QED
      BY <2>2, <3>2 DEF Counts
  <2> QED
    BY <2>1, <2>2
<1>2. BatchHeader \in Nat /\ 0 \in Nat
  BY LogConstants
<1>3. t \in Iterator
  BY <1>1, <1>2, Zenon DEF Iterator, Busy
<1>4. /\ t.tell = s.tell /\ t.limit = s.limit /\ t.pc = "rec" /\ t.count = n
      /\ t.batch = s.batch /\ t.idx = s.idx /\ t.inRecord = s.inRecord
      /\ t.off = s.off /\ t.at = BatchHeader
  BY DEF Iterator
<1> HIDE DEF t
<1>5. IteratorInv(t)
  BY <1>1, <1>4 DEF IteratorInv, Sound
<1>6. Reached(t) = Reached(s) /\ BatchLen(t) = BatchLen(s) /\ BatchLen(s) \in Nat
  BY <1>4 DEF Reached, BatchLen, Length, Iterator, Bytes
<1>7. Ahead(t) /\ Floor(s) <= Floor(t)
  BY <1>2, <1>4, <1>6 DEF Ahead, Floor, Sound, Iterator
<1> QED
  BY <1>3, <1>5, <1>7 DEF Advance, Sound, t

\* What a record takes lies between its offset and the end of the batch.
LEMMA RecordFits ==
  ASSUME TypeInv, NEW s \in Iterator, Sound(s), s.pc = "rec", s.batch.b # -1,
         s.i < s.count, ~OutOfBatch(s)
  PROVE  /\ RecordEnd(s) \in s.at + 1 .. BatchLen(s)
         /\ Yielded(s) \in YieldedRecord
         /\ Yielded(s).off = s.off + s.at
<1> DEFINE rec == batches[s.batch.b].recs[s.i + 1]
<1>1. /\ batches[s.batch.b] \in Batch
      /\ s.count <= Len(batches[s.batch.b].recs)
  BY HeldBatch DEF Sound, IteratorInv
<1>2. rec \in WrittenRecord
  BY <1>1 DEF Batch, Iterator
<1>3. /\ s.at \in Nat /\ s.off \in Nat /\ s.i \in Nat /\ BatchLen(s) \in Nat
      /\ s.batch.b \in Nat
  BY DEF Iterator, Bytes, BatchLen, Length
<1>4. s.at + 2 <= BatchLen(s)
  BY <1>3 DEF OutOfBatch
<1>5. StateAt(s) \in {DELETED, LIVE} /\ KeyLenAt(s) \in Nat /\ ValLenAt(s) \in Nat
  BY <1>2 DEF StateAt, KeyLenAt, ValLenAt, WrittenRecord
<1>6. KeyRead(s) \in Nat /\ s.at + 2 + KeyRead(s) <= BatchLen(s)
  BY <1>3, <1>4, <1>5 DEF KeyRead, Smaller
<1>7. RecordEnd(s) \in s.at + 1 .. BatchLen(s)
  <2>1. CASE StateAt(s) = DELETED
    BY <1>3, <1>6, <2>1 DEF RecordEnd, ValRead
  <2>2. CASE StateAt(s) # DELETED
    <3>1. s.at + 3 + KeyRead(s) <= BatchLen(s)
      BY <1>3, <1>6, <2>2 DEF OutOfBatch
    <3> QED
      BY <1>3, <1>5, <1>6, <2>2, <3>1 DEF RecordEnd, ValRead, Smaller
  <2> QED
    BY <2>1, <2>2
<1>8. Yielded(s).off = s.off + s.at
  BY DEF Yielded
<1>9. Yielded(s) \in YieldedRecord
  <2>1. batches[s.batch.b].seq \in Nat
    BY <1>1 DEF Batch
  <2>2. batches[s.batch.b].seq + s.i \in Nat /\ s.off + s.at \in Nat
    BY <1>3, <2>1
  <2> QED
    BY <1>3, <2>2 DEF Yielded, YieldedRecord
<1> QED
  BY <1>7, <1>8, <1>9
(***************************************************************************)
(* One step of the system                                                  *)
(***************************************************************************)
IInv ==
  /\ TypeInv
  /\ \A r \in Readers : OffsetInv(it[r], out[r])

\* Iterator r goes on without a yield.
LEMMA MovePreserves ==
  ASSUME IInv, NEW r \in Readers, NEW t, it[r].pc \in Running,
         Advance(it[r], t), it' = [it EXCEPT ![r] = t], fpos' \in Nat,
         UNCHANGED <<writer, passes, closed, out>>
  PROVE  IInv'
<1>1. t \in Iterator /\ IteratorInv(t) /\ Ahead(t)
  BY DEF Advance, Sound
<1>2. TypeOK'
  BY <1>1 DEF IInv, TypeInv, TypeOK, writer
<1>3. WriterInv'
  BY DEF IInv, TypeInv, WriterInv, LastBatch, writer
<1>4. \A q \in Readers : it'[q] = IF q = r THEN t ELSE it[q]
  BY DEF IInv, TypeInv, TypeOK
<1>5. \A q \in Readers : IteratorInv(it[q])'
  BY <1>1, <1>4 DEF IInv, TypeInv, IteratorInv, writer
<1>6. ASSUME NEW q \in Readers PROVE OffsetInv(it[q], out[q])'
  <2>1. CASE q # r
    BY <1>4, <2>1 DEF IInv, OffsetInv, Ahead, Floor, Reached, BatchLen, Length
  <2>2. CASE q = r
    <3>1. it'[q] = t /\ out'[q] = out[r]
      BY <1>4, <2>2
    <3>2. OffsetInv(it[r], out[r])
      BY DEF IInv
    <3>3. t.pc \in Running => \A k \in DOMAIN out[r] : out[r][k].off < Floor(t)
      <4> SUFFICES ASSUME t.pc \in Running, NEW k \in DOMAIN out[r]
                   PROVE  out[r][k].off < Floor(t)
        OBVIOUS
      <4>1. out[r][k].off < Floor(it[r]) /\ Floor(it[r]) <= Floor(t)
        BY <3>2 DEF OffsetInv, Advance
      <4>2. out[r][k].off \in Nat
        <5>1. out[r] \in Seq(YieldedRecord)
          BY DEF IInv, TypeInv, TypeOK
        <5>2. out[r][k] \in YieldedRecord
          BY <5>1
        <5> QED
          BY <5>2 DEF YieldedRecord
      <4>3. Floor(it[r]) \in Nat /\ Floor(t) \in Nat
        BY <1>1, Positions DEF IInv, TypeInv, TypeOK
      <4> QED
        BY <4>1, <4>2, <4>3
    <3> QED
      BY <1>1, <3>1, <3>2, <3>3
         DEF OffsetInv, Ahead, Floor, Reached, BatchLen, Length
  <2> QED
    BY <2>1, <2>2
<1> QED
  BY <1>2, <1>3, <1>5, <1>6 DEF IInv, TypeInv

\* Iterator r yields x, its least offset, and stops behind it.
LEMMA YieldPreserves ==
  ASSUME IInv, NEW r \in Readers, it[r].pc = "rec",
         NEW end \in it[r].at + 1 .. BatchLen(it[r]),
         NEW x \in YieldedRecord, x.off = it[r].off + it[r].at,
         it' = [it EXCEPT ![r] = AfterYield(@, end)],
         out' = [out EXCEPT ![r] = Append(@, x)],
         UNCHANGED <<writer, fpos, passes, closed>>
  PROVE  IInv'
<1> DEFINE s == it[r]
           t == AfterYield(s, end)
<1>1. s \in Iterator /\ IteratorInv(s) /\ OffsetInv(s, out[r])
  BY DEF IInv, TypeInv, TypeOK
<1>2. s.i + 1 \in Nat /\ end \in Nat
  BY <1>1, Positions
<1>3. t \in Iterator
  BY <1>1, <1>2, Zenon DEF AfterYield, Iterator, Busy
<1>4. /\ t.pc = "yield" /\ t.at = end /\ t.batch = s.batch /\ t.count = s.count
      /\ t.tell = s.tell /\ t.limit = s.limit /\ t.idx = s.idx
      /\ t.inRecord = s.inRecord /\ t.off = s.off
  BY <1>1 DEF AfterYield, Iterator
<1>5. \A q \in Readers : /\ it'[q] = IF q = r THEN t ELSE it[q]
                         /\ out'[q] = IF q = r THEN Append(out[r], x) ELSE out[q]
  BY DEF IInv, TypeInv, TypeOK
<1> HIDE DEF t
<1>6. TypeOK'
  <2>1. it' \in [Readers -> Iterator]
    BY <1>3 DEF t, IInv, TypeInv, TypeOK
  <2>2. out' \in [Readers -> Seq(YieldedRecord)]
    BY DEF IInv, TypeInv, TypeOK
  <2> QED
    BY <2>1, <2>2 DEF IInv, TypeInv, TypeOK, writer
<1>7. WriterInv'
  BY DEF IInv, TypeInv, WriterInv, LastBatch, writer
<1>8. \A q \in Readers : IteratorInv(it[q])'
  BY <1>1, <1>4, <1>5 DEF IInv, TypeInv, IteratorInv, writer
<1>9. ASSUME NEW q \in Readers PROVE OffsetInv(it[q], out[q])'
  <2>1. CASE q # r
    BY <1>5, <2>1 DEF IInv, OffsetInv, Ahead, Floor, Reached, BatchLen, Length
  <2>2. CASE q = r
    <3> DEFINE o == Append(out[r], x)
    <3>1. it'[q] = t /\ out'[q] = o
      BY <1>5, <2>2
    <3>2. /\ out[r] \in Seq(YieldedRecord)
          /\ DOMAIN o = 1..Len(out[r]) + 1 /\ DOMAIN out[r] = 1..Len(out[r])
          /\ Len(out[r]) \in Nat
          /\ o[Len(out[r]) + 1] = x
          /\ \A k \in 1..Len(out[r]) : o[k] = out[r][k]
      BY DEF IInv, TypeInv, TypeOK
    <3>3. \A k \in DOMAIN out[r] : out[r][k].off \in Nat /\ out[r][k].off < x.off
      <4>1. \A k \in DOMAIN out[r] : out[r][k].off < s.off + s.at
        BY <1>1 DEF OffsetInv, Floor, Running, Busy
      <4>2. \A k \in DOMAIN out[r] : out[r][k] \in YieldedRecord
        BY <3>2
      <4> QED
        BY <4>1, <4>2 DEF YieldedRecord
    <3>4. x.off \in Nat /\ Floor(t) = s.off + end /\ x.off < s.off + end
      BY <1>1, <1>2, <1>4 DEF Floor, Iterator
    <3> HIDE DEF o
    <3>5. \A k \in DOMAIN o : o[k].off < Floor(t)
      <4>1. s.off + end \in Nat
        BY <1>1, <1>2, Positions
      <4>2. SUFFICES ASSUME NEW k \in DOMAIN o PROVE o[k].off < Floor(t)
        OBVIOUS
      <4>3. CASE k = Len(out[r]) + 1
        BY <3>2, <3>4, <4>3
      <4>4. CASE k \in DOMAIN out[r]
        BY <3>2, <3>3, <3>4, <4>1, <4>4
      <4> QED
        BY <3>2, <4>3, <4>4
    <3>6. \A j, k \in DOMAIN o : j < k => o[j].off < o[k].off
      <4>1. \A j, k \in DOMAIN out[r] : j < k => out[r][j].off < out[r][k].off
        BY <1>1 DEF OffsetInv
      <4> QED
        BY <3>2, <3>3, <4>1
    <3>7. Ahead(t)
      BY <1>1, <1>2, <1>4 DEF OffsetInv, Ahead, Reached, BatchLen, Iterator
    <3> QED
      BY <3>1, <3>5, <3>6, <3>7
         DEF OffsetInv, Ahead, Floor, Reached, BatchLen, Length
  <2> QED
    BY <2>1, <2>2
<1> QED
  BY <1>6, <1>7, <1>8, <1>9 DEF IInv, TypeInv
\* The browser touches no iterator; the batches it handed over stay.
LEMMA WriterPreserves ==
  ASSUME IInv, Write
  PROVE  IInv'
<1> USE LogConstants DEF DELETED, LIVE
<1>1. UNCHANGED <<fpos, passes, closed, it, out>>
  BY DEF Write, Put, Commit, EmitFragment, Stop
<1>2. \A q \in Readers : OffsetInv(it[q], out[q])'
  BY <1>1 DEF IInv, OffsetInv, Ahead, Floor, Reached, BatchLen, Length
<1>3. TypeOK /\ WriterInv /\ \A q \in Readers : it[q] \in Iterator /\ IteratorInv(it[q])
  BY DEF IInv, TypeInv, TypeOK
<1>4. ASSUME batches' = batches PROVE \A q \in Readers : IteratorInv(it[q])'
  BY <1>1, <1>3, <1>4 DEF IteratorInv
<1>5. ASSUME NEW state \in {DELETED, LIVE}, NEW k \in KeyLens, NEW v \in ValLens \cup {0},
             Put(state, k, v)
      PROVE  IInv'
  <2>1. k \in Nat /\ v \in Nat
    OBVIOUS
  <2>2. RecordSize(state, k, v) \in Nat
    BY <2>1 DEF RecordSize
  <2>3. draft' \in [recs : Seq(WrittenRecord), size : Nat]
    BY <1>3, <1>5, <2>1, <2>2 DEF Put, TypeOK, WrittenRecord
  <2>4. TypeOK'
    BY <1>1, <1>3, <1>5, <2>3 DEF Put, TypeOK
  <2>5. WriterInv'
    BY <1>3, <1>5 DEF Put, WriterInv, LastBatch
  <2> QED
    BY <1>2, <1>4, <1>5, <2>4, <2>5 DEF Put, IInv, TypeInv
<1>6. ASSUME Commit PROVE IInv'
  <2> DEFINE b == [seq |-> NextSeq, recs |-> draft.recs, size |-> draft.size]
  <2>1. NextSeq \in Nat
    <3>1. CASE batches = <<>>
      BY <3>1 DEF NextSeq
    <3>2. CASE batches # <<>>
      <4>1. LastBatch \in Batch
        BY <1>3, <3>2 DEF TypeOK, LastBatch
      <4>2. LastBatch.seq \in Nat /\ Len(LastBatch.recs) \in Nat
        BY <4>1 DEF Batch
      <4> QED
        BY <3>2, <4>2 DEF NextSeq
    <3> QED
      BY <3>1, <3>2
  <2>2. b \in Batch
    BY <1>3, <2>1 DEF TypeOK, Batch
  <2>3. batches' = Append(batches, b)
    BY <1>6 DEF Commit
  <2> HIDE DEF b
  <2>4. /\ batches' \in Seq(Batch) /\ batches' # <<>>
        /\ Len(batches') = Len(batches) + 1 /\ batches'[Len(batches) + 1] = b
        /\ \A j \in 1..Len(batches) : batches'[j] = batches[j]
        /\ Len(batches) \in Nat
    BY <1>3, <2>2, <2>3 DEF TypeOK
  <2>5. TypeOK'
    BY <1>1, <1>3, <1>6, <2>4 DEF Commit, TypeOK, NoDraft
  <2>6. WriterInv'
    <3>1. \A j \in DOMAIN frags' : frags'[j].b \in 1..Len(batches')
      BY <1>3, <1>6, <2>4 DEF Commit, WriterInv
    <3>2. sent' <= LastBatch'.size
      BY <1>6, <2>2, <2>4 DEF Commit, LastBatch, Batch
    <3> QED
      BY <1>3, <1>6, <2>4, <3>1, <3>2 DEF Commit, WriterInv
  <2>7. \A q \in Readers : IteratorInv(it[q])'
    <3> SUFFICES ASSUME NEW q \in Readers PROVE IteratorInv(it[q])'
      OBVIOUS
    <3>1. it[q].batch.b \in Nat \cup {-1}
      BY <1>3 DEF Iterator, Bytes
    <3>2. it[q].batch.b <= Len(batches')
      BY <1>3, <2>4, <3>1 DEF IteratorInv
    <3>3. /\ it[q].pc \in {"rec", "yield"} /\ it[q].batch.b # -1
             => it[q].count <= Len(batches'[it[q].batch.b].recs)
      BY <1>3, <2>4, <3>1 DEF IteratorInv
    <3> QED
      BY <1>1, <1>3, <3>2, <3>3 DEF IteratorInv
  <2> QED
    BY <1>2, <2>5, <2>6, <2>7 DEF IInv, TypeInv
<1>7. ASSUME EmitFragment PROVE IInv'
  <2> DEFINE pad   == blk + BlockSize - size < HeaderSize
             block == IF pad THEN blk + BlockSize ELSE blk
             start == IF pad THEN block ELSE size
             len   == Smaller(block + BlockSize - start - HeaderSize,
                              LastBatch.size - sent)
             begin == frags = <<>> \/ frags[Len(frags)].b # Len(batches)
             type  == FragmentType(begin, sent + len = LastBatch.size)
             frag  == [start |-> start, type |-> type, len |-> len,
                       b |-> Len(batches), from |-> sent]
  <2>1. batches # <<>>
    BY <1>3, <1>7 DEF EmitFragment, Emitted, WriterInv
  <2>2. LastBatch \in Batch
    BY <1>3, <2>1 DEF TypeOK, LastBatch
  <2>3. LastBatch.size \in Nat /\ sent \in Nat /\ sent <= LastBatch.size
    BY <1>3, <2>1, <2>2 DEF Batch, WriterInv, TypeOK
  <2>4. blk \in Nat /\ size \in Nat /\ blk <= size /\ size <= blk + BlockSize
    BY <1>3, <1>7 DEF EmitFragment, WriterInv, TypeOK
  <2>5. /\ block \in Nat /\ start \in Nat /\ block <= start
        /\ start + HeaderSize <= block + BlockSize
    BY <2>4
  <2>6. /\ frags' = Append(frags, frag) /\ blk' = block
        /\ size' = start + HeaderSize + len /\ valid' = start + HeaderSize + len
        /\ sent' = sent + len
        /\ UNCHANGED <<draft, batches, phase>>
    BY <1>7 DEF EmitFragment
  <2>7. type \in FULL..LAST
    BY DEF FragmentType, FULL, FIRST, MIDDLE, LAST
  <2> HIDE DEF block, start, type
  <2>8. /\ len \in Nat /\ sent + len <= LastBatch.size
        /\ start + HeaderSize + len <= block + BlockSize
    BY <2>3, <2>5 DEF Smaller
  <2> HIDE DEF len
  <2>9. Len(batches) \in 1..Len(batches)
    BY <1>3, <2>1 DEF TypeOK
  <2>10. frag \in Fragment
    BY <2>3, <2>5, <2>7, <2>8, <2>9 DEF Fragment
  <2>11. frags' \in Seq(Fragment)
    BY <1>3, <2>6, <2>10 DEF TypeOK
  <2>12. TypeOK'
    BY <1>1, <1>3, <2>3, <2>5, <2>6, <2>8, <2>11 DEF TypeOK
  <2>13. \A j \in DOMAIN frags' : frags'[j].b \in 1..Len(batches')
    <3>1. frags \in Seq(Fragment)
      BY <1>3 DEF TypeOK
    <3>2. frag.b = Len(batches)
      OBVIOUS
    <3> HIDE DEF frag
    <3>3. /\ DOMAIN frags' = 1..Len(frags) + 1 /\ DOMAIN frags = 1..Len(frags)
          /\ frags'[Len(frags) + 1] = frag /\ Len(frags) \in Nat
          /\ \A j \in 1..Len(frags) : frags'[j] = frags[j]
      BY <2>6, <2>10, <3>1
    <3> QED
      BY <1>3, <2>6, <2>9, <3>2, <3>3 DEF WriterInv
  <2>14. WriterInv'
    BY <2>1, <2>5, <2>6, <2>8, <2>13 DEF WriterInv, LastBatch
  <2> QED
    BY <1>2, <1>4, <2>6, <2>12, <2>14 DEF IInv, TypeInv
<1>8. ASSUME NEW v \in 0..size, NEW s \in v..size, Stop(v, s) PROVE IInv'
  <2>1. TypeOK'
    BY <1>1, <1>3, <1>8 DEF Stop, TypeOK
  <2>2. WriterInv'
    BY <1>3, <1>8 DEF Stop, WriterInv, LastBatch
  <2> QED
    BY <1>2, <1>4, <1>8, <2>1, <2>2 DEF Stop, IInv, TypeInv
<1> QED
  BY <1>5, <1>6, <1>7, <1>8 DEF Write
LEMMA StartPreserves ==
  ASSUME IInv, NEW r \in Readers, Start(r)
  PROVE  IInv'
<1> DEFINE t == [Fresh EXCEPT !.pc = IF closed THEN "raised" ELSE "chunk"]
<1>1. /\ t \in Iterator /\ t.pc \in {"raised", "chunk"} /\ t.tell = 0
      /\ t.limit = 0 /\ t.batch.b = 0 /\ ~t.inRecord
  BY DEF Fresh, NoBytes, Bytes, Iterator, Busy
<1>2. it' = [it EXCEPT ![r] = t] /\ out' = [out EXCEPT ![r] = <<>>]
  BY DEF Start
<1> HIDE DEF t
<1>3. \A q \in Readers : /\ it'[q] = IF q = r THEN t ELSE it[q]
                         /\ out'[q] = IF q = r THEN <<>> ELSE out[q]
  BY <1>2 DEF IInv, TypeInv, TypeOK
<1>4. TypeOK'
  <2>1. /\ it' \in [Readers -> Iterator]
        /\ out' \in [Readers -> Seq(YieldedRecord)]
    BY <1>1, <1>2 DEF IInv, TypeInv, TypeOK
  <2>2. fpos' \in Nat /\ passes' \in Nat
    BY DEF IInv, TypeInv, TypeOK, Start
  <2> QED
    BY <2>1, <2>2 DEF IInv, TypeInv, TypeOK, Start, writer
<1>5. WriterInv'
  BY DEF IInv, TypeInv, WriterInv, LastBatch, writer, Start
<1>6. \A q \in Readers : IteratorInv(it[q])'
  <2>1. BlockSize \in Nat /\ Len(batches) \in Nat /\ batches' = batches
    BY LogConstants DEF IInv, TypeInv, TypeOK, Start, writer
  <2> QED
    BY <1>1, <1>3, <2>1 DEF IInv, TypeInv, IteratorInv
<1>7. \A q \in Readers : OffsetInv(it[q], out[q])'
  BY <1>1, <1>3 DEF IInv, OffsetInv, Ahead, Floor, Reached, BatchLen, Length
<1> QED
  BY <1>4, <1>5, <1>6, <1>7 DEF IInv, TypeInv

LEMMA ResumePreserves ==
  ASSUME IInv, NEW r \in Readers, Resume(r)
  PROVE  IInv'
<1> DEFINE s == it[r]
           t == [s EXCEPT !.pc = "rec"]
<1>1. s \in Iterator /\ Sound(s) /\ s.pc = "yield"
  BY DEF IInv, TypeInv, TypeOK, OffsetInv, Sound, Resume
<1>2. t \in Iterator
  BY <1>1 DEF Iterator, Busy
<1>3. /\ t.pc = "rec" /\ t.tell = s.tell /\ t.limit = s.limit /\ t.off = s.off
      /\ t.batch = s.batch /\ t.idx = s.idx /\ t.inRecord = s.inRecord
      /\ t.at = s.at /\ t.count = s.count
  BY <1>1 DEF Iterator
<1>4. it' = [it EXCEPT ![r] = t]
  BY DEF Resume
<1>5. UNCHANGED <<writer, fpos, passes, closed, out>> /\ fpos' \in Nat
  BY DEF Resume, IInv, TypeInv, TypeOK
<1> HIDE DEF t
<1>6. IteratorInv(t)
  BY <1>1, <1>3 DEF IteratorInv, Sound
<1>7. Ahead(t)
  BY <1>1, <1>3 DEF Ahead, Reached, BatchLen, Length, Sound
<1>8. Floor(s) <= Floor(t)
  BY <1>1, <1>3, Positions DEF Floor
<1>9. Advance(s, t)
  BY <1>2, <1>6, <1>7, <1>8 DEF Advance, Sound
<1> QED
  BY <1>1, <1>4, <1>5, <1>9, MovePreserves DEF Running

\* An iterator at work that moves on soundly keeps the invariant.
LEMMA StepPreserves ==
  ASSUME IInv, NEW r \in Readers, Step(r)
  PROVE  IInv'
<1> DEFINE s == it[r]
<1>1. TypeInv /\ s \in Iterator /\ Sound(s)
  BY DEF IInv, TypeInv, TypeOK, OffsetInv, Sound
<1>2. fpos \in Nat /\ size \in Nat
  BY DEF IInv, TypeInv, TypeOK
<1>3. Advance(s, Raise(s))
  BY <1>1, RaiseAdvances
<1>4. ASSUME ReadChunk(r) PROVE IInv'
  <2>1. s.pc = "chunk" /\ s.pc \in Running
    BY <1>4 DEF ReadChunk, Running, Busy
  <2>2. UNCHANGED <<writer, passes, closed, out>>
    BY <1>4 DEF ReadChunk
  <2>3. CASE closed \/ fpos >= size
    <3> DEFINE t == [s EXCEPT !.pc = IF closed THEN "raised" ELSE "done"]
    <3>1. /\ t \in Iterator /\ t.pc \in {"raised", "done"} /\ t.batch = s.batch
          /\ t.tell = s.tell /\ t.limit = s.limit
      BY <1>1 DEF Iterator
    <3>2. it' = [it EXCEPT ![r] = t] /\ fpos' = fpos
      BY <1>4, <2>3 DEF ReadChunk
    <3> HIDE DEF t
    <3>3. Advance(s, t)
      BY <1>1, <3>1 DEF Advance, Sound, IteratorInv, Ahead, Running, Busy
    <3> QED
      BY <1>2, <2>1, <2>2, <3>2, <3>3, MovePreserves
  <2>4. CASE ~(closed \/ fpos >= size)
    <3> DEFINE n == Smaller(BlockSize, size - fpos)
    <3>1. n \in 0..BlockSize
      BY <1>2, <2>4, LogConstants DEF Smaller
    <3>2. /\ it' = [it EXCEPT ![r] = [s EXCEPT !.base = fpos, !.limit = n,
                                             !.tell = 0, !.pc = "frag"]]
          /\ fpos' = fpos + n
      BY <1>4, <2>4 DEF ReadChunk
    <3>3. fpos' \in Nat
      BY <1>2, <3>1, <3>2, LogConstants
    <3> HIDE DEF n
    <3> QED
      BY <1>1, <2>1, <2>2, <3>1, <3>2, <3>3, ChunkAdvances, MovePreserves
  <2> QED
    BY <2>3, <2>4
<1>5. ASSUME EndChunk(r) PROVE IInv'
  <2>1. /\ s.pc = "frag" /\ s.pc \in Running /\ it' = [it EXCEPT ![r] = NextChunk(s)]
        /\ UNCHANGED <<writer, fpos, passes, closed, out>>
    BY <1>5 DEF EndChunk, Running, Busy
  <2> QED
    BY <1>1, <1>2, <2>1, NextChunkAdvances, MovePreserves
<1>6. ASSUME ReadFragment(r) PROVE IInv'
  <2>1. /\ s.pc = "frag" /\ s.pc \in Running /\ ~ChunkExhausted(s)
        /\ UNCHANGED <<writer, fpos, passes, closed, out>>
    BY <1>6 DEF ReadFragment, Running, Busy
  <2>2. PICK h \in Headers(s.base + s.tell) :
          \E t \in {AfterFull(s, h), AfterFirst(s, h), AfterMiddle(s, h),
                    AfterLast(s, h), NextChunk(s), Raise(s)} :
            it' = [it EXCEPT ![r] = t]
    BY <1>6 DEF ReadFragment
  <2>3. h \in Header /\ h.b # 0 /\ h.b <= Len(batches)
    <3>1. s.base + s.tell \in Nat
      BY <1>1 DEF Iterator
    <3> QED
      BY <1>1, <3>1, HeaderType
  <2>4. /\ Advance(s, AfterFull(s, h)) /\ Advance(s, AfterFirst(s, h))
        /\ Advance(s, AfterMiddle(s, h)) /\ Advance(s, AfterLast(s, h))
        /\ Advance(s, NextChunk(s))
    BY <1>1, <2>1, <2>3, FullAdvances, FirstAdvances, MiddleAdvances,
       LastAdvances, NextChunkAdvances
  <2>5. PICK t : Advance(s, t) /\ it' = [it EXCEPT ![r] = t]
    BY <1>3, <2>2, <2>4
  <2> QED
    BY <1>2, <2>1, <2>5, MovePreserves
<1>7. ASSUME s.pc \in {"batch", "rec"}, it' = [it EXCEPT ![r].pc = "frag"],
             UNCHANGED <<writer, fpos, passes, closed, out>>
      PROVE  IInv'
  <2>1. s.pc \in Running
    BY <1>7 DEF Running, Busy
  <2>2. it' = [it EXCEPT ![r] = [s EXCEPT !.pc = "frag"]]
    BY <1>7
  <2> QED
    BY <1>1, <1>2, <1>7, <2>1, <2>2, LeaveAdvances, MovePreserves
<1>8. ASSUME ParseBatch(r) PROVE IInv'
  <2>1. /\ s.pc = "batch" /\ s.pc \in Running
        /\ UNCHANGED <<writer, fpos, passes, closed, out>>
    BY <1>8 DEF ParseBatch, Running, Busy
  <2>2. CASE BatchLen(s) < BatchHeader
    BY <1>7, <1>8, <2>1, <2>2 DEF ParseBatch
  <2>3. CASE ~(BatchLen(s) < BatchHeader)
    <3>1. PICK n \in Counts(s.batch) :
            it' = [it EXCEPT ![r] = [s EXCEPT !.pc = "rec", !.at = BatchHeader,
                                              !.count = n, !.i = 0]]
      BY <1>8, <2>3 DEF ParseBatch
    <3>2. BatchLen(s) >= BatchHeader
      BY <1>1, <2>3, Positions, LogConstants
    <3> QED
      BY <1>1, <1>2, <2>1, <3>1, <3>2, CountAdvances, MovePreserves
  <2> QED
    BY <2>2, <2>3
<1>9. ASSUME EndBatch(r) PROVE IInv'
  BY <1>7, <1>9 DEF EndBatch
<1>10. ASSUME YieldRecord(r) PROVE IInv'
  <2>1. /\ s.pc = "rec" /\ s.batch.b # -1 /\ s.i < s.count /\ ~OutOfBatch(s)
        /\ it' = [it EXCEPT ![r] = AfterYield(@, RecordEnd(s))]
        /\ out' = [out EXCEPT ![r] = Append(@, Yielded(s))]
        /\ UNCHANGED <<writer, fpos, passes, closed>>
    BY <1>10 DEF YieldRecord
  <2> QED
    BY <1>1, <2>1, RecordFits, YieldPreserves
<1>11. ASSUME YieldGarbage(r) PROVE IInv'
  <2>1. s.pc = "rec" /\ s.pc \in Running /\ UNCHANGED <<writer, fpos, passes, closed>>
    BY <1>11 DEF YieldGarbage, Running, Busy
  <2>2. ASSUME NEW end \in s.at + 2 .. BatchLen(s),
               out' = [out EXCEPT ![r] = Append(@, GarbageRecord(s))],
               it' = [it EXCEPT ![r] = AfterYield(@, end)]
        PROVE  IInv'
    <3>1. end \in s.at + 1 .. BatchLen(s)
      BY <1>1, Positions
    <3>2. GarbageRecord(s) \in YieldedRecord /\ GarbageRecord(s).off = s.off + s.at
      BY <1>1, Positions DEF GarbageRecord, YieldedRecord
    <3> QED
      BY <2>1, <2>2, <3>1, <3>2, YieldPreserves
  <2>3. CASE it' = [it EXCEPT ![r].pc = "frag"] /\ out' = out
    BY <1>7, <2>1, <2>3
  <2>4. CASE it' = [it EXCEPT ![r].pc = "raised"] /\ out' = out
    <3>1. it' = [it EXCEPT ![r] = Raise(s)]
      BY <2>4 DEF Raise
    <3> QED
      BY <1>2, <1>3, <2>1, <2>4, <3>1, MovePreserves
  <2> QED
    BY <1>11, <2>2, <2>3, <2>4 DEF YieldGarbage
<1> QED
  BY <1>4, <1>5, <1>6, <1>8, <1>9, <1>10, <1>11 DEF Step

LEMMA InitIInv == Init => IInv
<1> SUFFICES ASSUME Init PROVE IInv
  OBVIOUS
<1>1. Fresh \in Iterator /\ NoDraft \in [recs : Seq(WrittenRecord), size : Nat]
  <2>1. Fresh \in Iterator
    BY DEF Fresh, NoBytes, Bytes, Iterator
  <2>2. NoDraft \in [recs : Seq(WrittenRecord), size : Nat]
    BY LogConstants DEF NoDraft
  <2> QED
    BY <2>1, <2>2
<1>2. TypeOK
  <2>1. /\ it \in [Readers -> Iterator]
        /\ out \in [Readers -> Seq(YieldedRecord)]
    BY <1>1 DEF Init
  <2>2. /\ batches \in Seq(Batch) /\ frags \in Seq(Fragment)
        /\ draft \in [recs : Seq(WrittenRecord), size : Nat]
    BY <1>1 DEF Init
  <2>3. /\ sent \in Nat /\ blk \in Nat /\ size \in Nat /\ valid \in Nat
        /\ phase \in {"up", "down"} /\ fpos \in Nat /\ passes \in Nat
        /\ closed \in BOOLEAN
    BY DEF Init
  <2> QED
    BY <2>1, <2>2, <2>3 DEF TypeOK
<1>3. WriterInv
  BY LogConstants DEF Init, WriterInv
<1>4. \A r \in Readers : IteratorInv(it[r])
  BY LogConstants DEF Init, IteratorInv, Fresh, NoBytes
<1>5. \A r \in Readers : OffsetInv(it[r], out[r])
  BY DEF Init, OffsetInv, Ahead, Fresh, Running, Busy
<1> QED
  BY <1>2, <1>3, <1>4, <1>5 DEF IInv, TypeInv

LEMMA NextIInv == IInv /\ [Next]_vars => IInv'
<1> SUFFICES ASSUME IInv, [Next]_vars PROVE IInv'
  OBVIOUS
<1>1. CASE Write
  BY <1>1, WriterPreserves
<1>2. CASE Close
  BY <1>2 DEF Close, writer, IInv, TypeInv, TypeOK, WriterInv, LastBatch, IteratorInv,
     OffsetInv, Ahead, Floor, Reached, BatchLen, Length
<1>3. CASE \E r \in Readers : Start(r) \/ Resume(r) \/ Step(r)
  BY <1>3, StartPreserves, ResumePreserves, StepPreserves
<1>4. CASE UNCHANGED vars
  BY <1>4 DEF vars, IInv, TypeInv, TypeOK, WriterInv, LastBatch, IteratorInv,
     OffsetInv, Ahead, Floor, Reached, BatchLen, Length
<1> QED
  BY <1>1, <1>2, <1>3, <1>4 DEF Next

(***************************************************************************)
(* Theorems                                                                *)
(***************************************************************************)

\* The inductive invariant holds of every behaviour.
THEOREM Invariance == Spec => []IInv
BY InitIInv, NextIInv, PTL DEF Spec

\* The state of the file, of the writer and of every iterator is well typed:
\* no iterator looks up a record its batch does not have, and no chunk,
\* fragment or batch has a negative length (_iter_log_blocks, LogFile).
THEOREM TypeCorrect == Spec => []TypeOK
<1>1. IInv => TypeOK
  BY DEF IInv, TypeInv
<1> QED
  BY <1>1, Invariance, PTL

\* The offsets of the records of one pass grow strictly (rec_offset in
\* LogFile.__iter__), for every block size, crash and live writer, even when
\* other iterators move the shared stream and the bytes read are garbage.
THEOREM OffsetsAlwaysGrow == Spec => []OffsetsGrow
<1>1. IInv => OffsetsGrow
  BY DEF IInv, OffsetInv, OffsetsGrow
<1> QED
  BY <1>1, Invariance, PTL

(***************************************************************************)
(* The layout of the file                                                  *)
(***************************************************************************)
BlockStart(k) == k * BlockSize
FragmentEnd(f) == f.start + HeaderSize + f.len
Begins(f) == f.type \in {FULL, FIRST}
Ends(f) == f.type \in {FULL, LAST}

InBlock(f, k) ==
  BlockStart(k) <= f.start /\ FragmentEnd(f) <= BlockStart(k) + BlockSize

\* Where the fragment after f starts: a rest too small for a header is padded.
StartAfter(f, k) ==
  IF FragmentEnd(f) + HeaderSize <= BlockStart(k) + BlockSize
  THEN FragmentEnd(f) ELSE BlockStart(k) + BlockSize

\* g comes right after f, which carries on or begins a batch.
Succeeds(f, g) ==
  /\ \E k \in Nat : InBlock(f, k) /\ g.start = StartAfter(f, k)
  /\ Ends(f) <=> Begins(g)
  /\ Begins(g) => g.b = f.b + 1
  /\ ~Begins(g) => g.b = f.b /\ g.from = f.from + f.len

\* f is a piece of a batch of n bytes, in one block.
Piece(f, n) ==
  /\ f.from + f.len <= n
  /\ Ends(f) <=> f.from + f.len = n
  /\ Begins(f) => f.from = 0
  /\ \E k \in Nat : InBlock(f, k)

\* f lies before g, and is of an earlier batch if it ends its own.
Precedes(f, g) ==
  /\ FragmentEnd(f) <= g.start
  /\ f.b <= g.b
  /\ Ends(f) => f.b < g.b

\* Where the first i records of a batch end.
RecordsEnd(recs, i) ==
  IF i = 0 THEN BatchHeader
  ELSE recs[i].pos + RecordSize(recs[i].state, recs[i].klen, recs[i].vlen)

\* The records lie one after the other and fill the n bytes.
Laid(recs, n) ==
  /\ \A i \in 1..Len(recs) :
       recs[i].pos = RecordsEnd(recs, i - 1) /\ RecordsEnd(recs, i) <= n
  /\ n = RecordsEnd(recs, Len(recs))

\* What readers see of the writer.
disk == [frags |-> frags, batches |-> batches, valid |-> valid, size |-> size]

DiskType(d) ==
  /\ d.frags \in Seq(Fragment) /\ d.batches \in Seq(Batch)
  /\ d.valid \in Nat /\ d.size \in Nat
  /\ \A j \in DOMAIN d.frags : d.frags[j].b \in 1..Len(d.batches)

Written(fs) == IF fs = <<>> THEN 0 ELSE FragmentEnd(fs[Len(fs)])

FragsLaid(d) ==
  /\ \A j \in DOMAIN d.frags : Piece(d.frags[j], d.batches[d.frags[j].b].size)
  /\ d.frags # <<>> =>
       d.frags[1].start = 0 /\ Begins(d.frags[1]) /\ d.frags[1].b = 1
  /\ \A j \in 1..Len(d.frags) - 1 : Succeeds(d.frags[j], d.frags[j + 1])
  /\ \A j, l \in DOMAIN d.frags : j < l => Precedes(d.frags[j], d.frags[l])

BatchesLaid(bs) ==
  \A b \in DOMAIN bs : bs[b].recs # <<>> /\ Laid(bs[b].recs, bs[b].size)

Layout(d) ==
  /\ DiskType(d) /\ FragsLaid(d) /\ BatchesLaid(d.batches)
  /\ d.valid <= d.size /\ d.size <= Written(d.frags)

\* Where the log writer is: behind the fragment f it emitted last.
WriterAt(f) ==
  /\ \E k \in Nat : blk = BlockStart(k) /\ InBlock(f, k)
  /\ \/ f.b = Len(batches) /\ sent = f.from + f.len
     \/ f.b = Len(batches) - 1 /\ sent = 0 /\ Ends(f)

Appending ==
  /\ size = Written(frags) /\ valid = size
  /\ frags = <<>> => blk = 0 /\ sent = 0 /\ Len(batches) <= 1
  /\ frags # <<>> => WriterAt(frags[Len(frags)])

LayoutInv ==
  /\ Layout(disk)
  /\ Laid(draft.recs, draft.size)
  /\ phase = "up" => Appending

(***************************************************************************)
(* Where an iterator is in it                                              *)
(***************************************************************************)

\* Position p is where fragment f starts, or in the padding before it.
At(f, p) ==
  \/ f.start = p
  \/ \E k \in Nat : /\ f.start = BlockStart(k + 1)
                    /\ p < BlockStart(k + 1) /\ BlockStart(k + 1) < p + HeaderSize

\* No batch after the c-th is whole, and no header is left at p.
Kept(d, c) ==
  \A j \in DOMAIN d.frags :
    Ends(d.frags[j]) /\ FragmentEnd(d.frags[j]) <= d.valid => d.frags[j].b <= c
Sealed(d, p, c) == p + HeaderSize > d.valid /\ Kept(d, c)

\* s has just those bytes of the batch of f that come before f.
InProgress(s, f) ==
  /\ s.inRecord <=> ~Begins(f)
  /\ s.inRecord => s.batch = [b |-> f.b, m |-> f.from, z |-> 0]

\* Position p is in front of batch c + 1, or of nothing.
Before(d, p, c) ==
  \/ Sealed(d, p, c)
  \/ \E j \in DOMAIN d.frags :
       At(d.frags[j], p) /\ Begins(d.frags[j]) /\ d.frags[j].b = c + 1

\* The record n of batch b is in o as it was written.
Has(o, b, n) ==
  \E k \in DOMAIN o : o[k].b = b /\ o[k].i = n /\ o[k].intact

RightAfter(bs, x, y) ==
  \/ y.b = x.b /\ y.i = x.i + 1
  \/ y.b = x.b + 1 /\ y.i = 0 /\ x.i + 1 = Len(bs[x.b].recs)

\* The records y of o: intact, unless of the batch after the c-th.
Harmed(o, c, i) ==
  /\ \A k \in DOMAIN o :
       /\ o[k].b \in 1..c + 1
       /\ o[k].b = c + 1 => o[k].i < i
       /\ o[k].b <= c => o[k].intact
  /\ \A k, l \in DOMAIN o : k < l => o[k].b <= o[l].b

InTurn(bs, o) ==
  /\ o # <<>> => o[1].b = 1 /\ o[1].i = 0
  /\ \A k \in 1..Len(o) - 1 : RightAfter(bs, o[k], o[k + 1])

Stands(bs, o, c, i) ==
  /\ o = <<>> => c = 0 /\ i = 0
  /\ o # <<>> /\ i = 0 => o[Len(o)].b = c /\ o[Len(o)].i + 1 = Len(bs[c].recs)
  /\ o # <<>> /\ i # 0 => o[Len(o)].b = c + 1 /\ o[Len(o)].i + 1 = i

HasAll(bs, o, c) ==
  \A b \in 1..c : \A n \in 0..Len(bs[b].recs) - 1 : Has(o, b, n)

\* o gives the batches 1 to c, intact, and i records of the next.
History(bs, o, c, i) ==
  Harmed(o, c, i) /\ InTurn(bs, o) /\ Stands(bs, o, c, i) /\ HasAll(bs, o, c)

Reading(d, s, o) ==
  \/ \E j \in DOMAIN d.frags :
       /\ At(d.frags[j], Reached(s)) /\ InProgress(s, d.frags[j])
       /\ History(d.batches, o, d.frags[j].b - 1, 0)
  \/ \E c, i \in Nat : Sealed(d, Reached(s), c) /\ History(d.batches, o, c, i)

\* The records of the batch in hand that s has yielded.
Taken(s) == IF s.pc = "batch" THEN 0 ELSE s.i

\* o has the first n records of batch b, and no other of it.
Given(o, b, n) ==
  /\ \A k \in DOMAIN o : o[k].b = b => o[k].intact
  /\ \A l \in 0..n - 1 : Has(o, b, l)

\* The batch in hand has all its bytes, and s is between two of its records.
HasWhole(d, s, o) ==
  /\ s.batch.m = d.batches[s.batch.b].size /\ s.batch.z = 0
  /\ Before(d, Reached(s), s.batch.b)
  /\ s.pc # "batch" => /\ s.count = Len(d.batches[s.batch.b].recs)
                       /\ s.i <= s.count
                       /\ s.at = RecordsEnd(d.batches[s.batch.b].recs, s.i)
  /\ Given(o, s.batch.b, Taken(s))

Splitting(d, s, o) ==
  /\ s.batch.b \in DOMAIN d.batches
  /\ History(d.batches, o, s.batch.b - 1, Taken(s))
  /\ HasWhole(d, s, o) \/ Sealed(d, Reached(s), s.batch.b - 1)

\* c: the file is closed.
ReaderInv(d, cl, s, o) ==
  /\ s.pc = "new" => o = <<>>
  /\ s.pc \in {"chunk", "frag"} => Reading(d, s, o)
  /\ s.pc \in {"batch", "rec", "yield"} => Splitting(d, s, o)
  /\ s.pc = "done" => \E c, i \in Nat : History(d.batches, o, c, i) /\ Kept(d, c)
  /\ s.pc = "raised" => cl /\ \E c, i \in Nat : History(d.batches, o, c, i)

\* The chunk of s is a block of the file.
ChunkInv(d, s) ==
  s.pc \in Running \ {"chunk"} =>
    /\ s.base = BlockStart(s.idx) /\ s.base < d.size
    /\ s.limit = Smaller(BlockSize, d.size - s.base)

\* The stream stands behind the chunk of s whenever s may go on.
Expected(d, s) ==
  Smaller(BlockStart(IF s.pc = "chunk" THEN s.idx ELSE s.idx + 1), d.size)

StreamInv ==
  \A r \in Readers :
    ~closed /\ it[r].pc \in Running /\ (it[r].pc = "yield" => Idle)
      => fpos = Expected(disk, it[r])

Solo ==
  /\ phase = "up" => \A r \in Readers : it[r].pc = "new"
  /\ \A r, q \in Readers : it[r].pc \in Busy /\ it[q].pc \in Busy => r = q

ReadersInv ==
  /\ StreamInv
  /\ \A r \in Readers : ChunkInv(disk, it[r])
  /\ \A r \in Readers : ReaderInv(disk, closed, it[r], out[r])

OrderInv ==
  /\ LayoutInv /\ Solo
  /\ Undisturbed => ReadersInv

(***************************************************************************)
(* Blocks                                                                  *)
(***************************************************************************)
\* The sizes the constants give.
LEMMA Sizes ==
  BlockSize \in Nat /\ HeaderSize \in Nat /\ HeaderSize > 0 /\ BlockSize > HeaderSize
  /\ BatchHeader \in Nat /\ BatchHeader > 0
BY LogConstants

\* Blocks follow each other, from position 0 on.
LEMMA Blocks ==
  /\ BlockStart(0) = 0
  /\ \A k \in Nat : BlockStart(k) \in Nat /\ BlockStart(k + 1) = BlockStart(k) + BlockSize
<1>1. 0 * BlockSize = 0 BY Sizes
<1> QED BY <1>1, BlockStarts DEF BlockStart

\* A block ends where a later one starts, or before.
LEMMA BlocksApart ==
  ASSUME NEW k \in Nat, NEW l \in Nat, k < l
  PROVE  BlockStart(k) + BlockSize <= BlockStart(l)
<1> DEFINE n == l - (k + 1)
<1>1. n \in Nat /\ l = (k + 1) + n OBVIOUS
<1> HIDE DEF n
<1>2. n * BlockSize \in Nat BY <1>1, Sizes
<1>3. \A b \in Nat : ((k + 1) + n) * b = (k + 1) * b + n * b BY <1>1
<1>4. BlockStart(l) = BlockStart(k + 1) + n * BlockSize
  BY <1>1, <1>3, Sizes DEF BlockStart
<1> QED BY <1>2, <1>4, Blocks, Sizes

\* A position of a block other than its end lies in no other block.
LEMMA OneBlock ==
  ASSUME NEW k \in Nat, NEW l \in Nat, NEW p \in Nat,
         BlockStart(k) <= p, p < BlockStart(k) + BlockSize,
         BlockStart(l) <= p, p < BlockStart(l) + BlockSize
  PROVE  k = l
<1>1. BlockStart(k) \in Nat /\ BlockStart(l) \in Nat BY Blocks
<1>2. ~(k < l) BY <1>1, BlocksApart, Sizes
<1>3. ~(l < k) BY <1>1, BlocksApart, Sizes
<1> QED BY <1>2, <1>3

(***************************************************************************)
(* Fragments                                                               *)
(***************************************************************************)
\* The fields of a fragment, and where it ends.
LEMMA FragmentFields ==
  ASSUME NEW f \in Fragment
  PROVE  /\ f.start \in Nat /\ f.len \in Nat /\ f.b \in Nat /\ f.from \in Nat
         /\ FragmentEnd(f) \in Nat /\ FragmentEnd(f) = f.start + HeaderSize + f.len
         /\ f.start + HeaderSize <= FragmentEnd(f)
BY Sizes DEF Fragment, FragmentEnd

\* Fragment j is a piece of a batch that was handed to the log writer.
LEMMA DiskFrag ==
  ASSUME NEW d, Layout(d), NEW j \in DOMAIN d.frags
  PROVE  /\ d.frags[j] \in Fragment /\ d.frags[j].b \in 1..Len(d.batches)
         /\ d.batches[d.frags[j].b] \in Batch
         /\ Piece(d.frags[j], d.batches[d.frags[j].b].size)
         /\ d.frags[j].b - 1 \in Nat /\ j \in Nat /\ j >= 1 /\ j <= Len(d.frags)
<1>1. d.frags[j] \in Fragment /\ d.frags[j].b \in 1..Len(d.batches) /\ d.batches \in Seq(Batch)
  BY DEF Layout, DiskType
<1>2. j \in Nat /\ j >= 1 /\ j <= Len(d.frags) BY DEF Layout, DiskType
<1>3. d.batches[d.frags[j].b] \in Batch BY <1>1
<1>4. Piece(d.frags[j], d.batches[d.frags[j].b].size) BY DEF Layout, FragsLaid
<1> QED BY <1>1, <1>2, <1>3, <1>4

\* If fragment j did not survive whole, only batches before its own did.
LEMMA KeptBefore ==
  ASSUME NEW d, Layout(d), NEW j \in DOMAIN d.frags, FragmentEnd(d.frags[j]) > d.valid
  PROVE  Kept(d, d.frags[j].b - 1)
<1> SUFFICES ASSUME NEW l \in DOMAIN d.frags, Ends(d.frags[l]),
                    FragmentEnd(d.frags[l]) <= d.valid
             PROVE  d.frags[l].b <= d.frags[j].b - 1
  BY DEF Kept
<1>1. d.frags[j] \in Fragment /\ d.frags[l] \in Fragment /\ j \in Nat /\ l \in Nat BY DiskFrag
<1>2. d.valid \in Nat BY DEF Layout, DiskType
<1>3. l # j BY <1>1, <1>2, FragmentFields
<1>4. ~(j < l)
  <2> SUFFICES ASSUME j < l PROVE FALSE OBVIOUS
  <2>1. FragmentEnd(d.frags[j]) <= d.frags[l].start BY DEF Layout, FragsLaid, Precedes
  <2>2. /\ FragmentEnd(d.frags[j]) \in Nat /\ FragmentEnd(d.frags[l]) \in Nat
        /\ d.frags[l].start \in Nat
        /\ d.frags[l].start + HeaderSize <= FragmentEnd(d.frags[l])
    BY <1>1, FragmentFields
  <2> QED BY <1>2, <2>1, <2>2, Sizes
<1>5. l < j BY <1>1, <1>3, <1>4
<1>6. d.frags[l].b < d.frags[j].b BY <1>5 DEF Layout, FragsLaid, Precedes
<1> QED BY <1>1, <1>6, FragmentFields

\* Where fragment j, read whole, leaves an iterator.
LEMMA BehindFragment ==
  ASSUME NEW d, Layout(d), NEW j \in DOMAIN d.frags
  PROVE  LET f == d.frags[j] p == FragmentEnd(f)
         IN  \/ /\ j + 1 \in DOMAIN d.frags /\ At(d.frags[j + 1], p)
                /\ Ends(f) <=> Begins(d.frags[j + 1])
                /\ Begins(d.frags[j + 1]) => d.frags[j + 1].b = f.b + 1
                /\ ~Begins(d.frags[j + 1]) => /\ d.frags[j + 1].b = f.b
                                              /\ d.frags[j + 1].from = f.from + f.len
             \/ Sealed(d, p, IF Ends(f) THEN f.b ELSE f.b - 1)
<1> DEFINE f == d.frags[j]
           p == FragmentEnd(f)
<1>1. f \in Fragment /\ j \in Nat /\ j >= 1 /\ j <= Len(d.frags) BY DiskFrag
<1>2. /\ d.frags \in Seq(Fragment) /\ Len(d.frags) \in Nat /\ DOMAIN d.frags = 1..Len(d.frags)
      /\ d.valid \in Nat /\ d.size \in Nat
  BY DEF Layout, DiskType
<1>3. CASE j < Len(d.frags)
  <2> DEFINE g == d.frags[j + 1]
  <2>1. j \in 1..Len(d.frags) - 1 /\ j + 1 \in DOMAIN d.frags BY <1>1, <1>2, <1>3
  <2>2. g \in Fragment BY <2>1, DiskFrag
  <2>3. Succeeds(f, g) BY <2>1 DEF Layout, FragsLaid
  <2>4. PICK k \in Nat : InBlock(f, k) /\ g.start = StartAfter(f, k) BY <2>3 DEF Succeeds
  <2>5. At(g, p)
    <3>1. BlockStart(k) \in Nat /\ BlockStart(k + 1) = BlockStart(k) + BlockSize BY Blocks
    <3>2. p \in Nat /\ p <= BlockStart(k) + BlockSize BY <1>1, <2>4, FragmentFields DEF InBlock
    <3> HIDE DEF f, g
    <3>3. CASE p + HeaderSize <= BlockStart(k) + BlockSize
      BY <2>4, <3>3 DEF At, StartAfter
    <3>4. CASE ~(p + HeaderSize <= BlockStart(k) + BlockSize)
      <4>1. g.start = BlockStart(k + 1) BY <2>4, <3>1, <3>4 DEF StartAfter
      <4>2. p = BlockStart(k + 1) \/ p < BlockStart(k + 1) BY <3>1, <3>2, Sizes
      <4>3. BlockStart(k + 1) < p + HeaderSize BY <3>1, <3>2, <3>4, Sizes
      <4> QED BY <4>1, <4>2, <4>3 DEF At
    <3> QED BY <3>3, <3>4
  <2> QED BY <2>1, <2>3, <2>5 DEF Succeeds
<1>4. CASE j = Len(d.frags)
  <2>1. d.size <= p
    <3>1. d.frags # <<>> BY <1>1, <1>2
    <3> QED BY <1>4, <3>1 DEF Layout, Written
  <2>2. p + HeaderSize > d.valid
    <3>1. d.valid <= d.size BY DEF Layout
    <3>2. p \in Nat BY <1>1, FragmentFields
    <3> HIDE DEF p
    <3> QED BY <1>2, <2>1, <3>1, <3>2, Sizes
  <2>3. ASSUME NEW l \in DOMAIN d.frags, Ends(d.frags[l])
        PROVE  d.frags[l].b <= IF Ends(f) THEN f.b ELSE f.b - 1
    <3>1. d.frags[l] \in Fragment /\ l \in Nat /\ l <= Len(d.frags) BY DiskFrag
    <3>2. CASE l = j BY <1>1, <2>3, <3>2, FragmentFields
    <3>3. CASE l < j
      <4>1. d.frags[l].b < f.b BY <2>3, <3>3 DEF Layout, FragsLaid, Precedes
      <4> QED BY <1>1, <3>1, <4>1, FragmentFields
    <3> QED BY <1>1, <1>4, <3>1, <3>2, <3>3
  <2> QED BY <2>2, <2>3 DEF Sealed, Kept
<1> QED BY <1>1, <1>2, <1>3, <1>4

\* What is sealed stays so further on.
LEMMA SealedFurther ==
  ASSUME NEW d, Layout(d), NEW c, NEW p \in Nat, NEW q \in Nat, Sealed(d, p, c), p <= q
  PROVE  Sealed(d, q, c)
BY Sizes DEF Sealed, Layout, DiskType

\* No fragment is waiting in a padding that has room for a header.
LEMMA NoPadding ==
  ASSUME NEW d, Layout(d), NEW j \in DOMAIN d.frags, NEW p \in Nat, NEW k \in Nat,
         At(d.frags[j], p), BlockStart(k) <= p, p + HeaderSize <= BlockStart(k) + BlockSize
  PROVE  d.frags[j].start = p
<1> SUFFICES ASSUME NEW m \in Nat, p < BlockStart(m + 1), BlockStart(m + 1) < p + HeaderSize
             PROVE  FALSE
  BY DEF At
<1>1. BlockStart(k) \in Nat /\ BlockStart(m + 1) \in Nat BY Blocks
<1>2. BlockStart(k) < BlockStart(m + 1) /\ BlockStart(m + 1) < BlockStart(k) + BlockSize
  BY <1>1, Sizes
<1>3. k # m + 1 /\ ~(k < m + 1) BY <1>1, <1>2, BlocksApart, Sizes
<1>4. m + 1 < k BY <1>3
<1>5. BlockStart(m + 1) + BlockSize <= BlockStart(k) BY <1>4, BlocksApart
<1> QED BY <1>1, <1>2, <1>5, Sizes

\* Where a chunk has no header any more, the next block begins with fragment j,
\* or nothing survived from there on.
LEMMA BlockEnds ==
  ASSUME NEW d, Layout(d), NEW j \in DOMAIN d.frags, NEW p \in Nat, NEW k \in Nat,
         NEW n \in Nat, At(d.frags[j], p), BlockStart(k) <= p, p <= BlockStart(k) + n,
         BlockStart(k) < d.size, n = Smaller(BlockSize, d.size - BlockStart(k)),
         p + HeaderSize > BlockStart(k) + n
  PROVE  \/ At(d.frags[j], BlockStart(k + 1))
         \/ Sealed(d, BlockStart(k + 1), d.frags[j].b - 1)
<1> DEFINE f == d.frags[j]
<1>1. /\ f \in Fragment /\ FragmentEnd(f) \in Nat /\ f.start + HeaderSize <= FragmentEnd(f)
      /\ f.start \in Nat
  BY DiskFrag, FragmentFields
<1>2. /\ BlockStart(k) \in Nat /\ BlockStart(k + 1) \in Nat
      /\ BlockStart(k + 1) = BlockStart(k) + BlockSize
  BY Blocks
<1>3. d.valid \in Nat /\ d.size \in Nat /\ d.valid <= d.size BY DEF Layout, DiskType
<1>4. PICK m \in Nat : InBlock(f, m) BY DiskFrag DEF Piece
<1>5. CASE f.start = p
  <2>1. CASE n = BlockSize
    <3>1. CASE p = BlockStart(k + 1) BY <1>5, <3>1 DEF At
    <3>2. CASE p # BlockStart(k + 1)
      <4>1. p < BlockStart(k) + BlockSize BY <1>2, <2>1, <3>2
      <4>2. BlockStart(m) \in Nat BY Blocks
      <4>3. BlockStart(m) <= p /\ p + HeaderSize <= BlockStart(m) + BlockSize
        BY <1>1, <1>4, <1>5, <4>2, Sizes DEF InBlock
      <4>4. p < BlockStart(m) + BlockSize BY <4>2, <4>3, Sizes
      <4>5. k = m BY <4>1, <4>3, <4>4, OneBlock
      <4> QED BY <2>1, <4>3, <4>5, <1>2, Sizes
    <3> QED BY <3>1, <3>2
  <2>2. CASE n # BlockSize
    <3>1. BlockStart(k) + n = d.size /\ n <= BlockSize BY <1>2, <1>3, <2>2, Sizes DEF Smaller
    <3>2. FragmentEnd(f) > d.valid BY <1>1, <1>3, <1>5, <3>1, Sizes
    <3>3. BlockStart(k + 1) + HeaderSize > d.valid BY <1>2, <1>3, <3>1, Sizes
    <3> QED BY <3>2, <3>3, KeptBefore DEF Sealed
  <2> QED BY <2>1, <2>2
<1>6. CASE f.start # p
  <2>1. PICK l \in Nat : /\ f.start = BlockStart(l + 1)
                         /\ p < BlockStart(l + 1) /\ BlockStart(l + 1) < p + HeaderSize
    BY <1>6 DEF At
  <2>2. n <= BlockSize BY <1>2, <1>3, Sizes DEF Smaller
  <2>3. BlockStart(l + 1) \in Nat /\ BlockStart(l) \in Nat
        /\ BlockStart(l + 1) = BlockStart(l) + BlockSize
    BY Blocks
  <2>4. ~(l < k)
    <3> SUFFICES ASSUME l < k PROVE FALSE OBVIOUS
    <3>1. BlockStart(l) + BlockSize <= BlockStart(k) BY BlocksApart
    <3> QED BY <1>2, <2>1, <2>3, <3>1
  <2>5. ~(k < l)
    <3> SUFFICES ASSUME k < l PROVE FALSE OBVIOUS
    <3>1. BlockStart(k) + BlockSize <= BlockStart(l) BY BlocksApart
    <3> QED BY <1>2, <2>1, <2>2, <2>3, <3>1, Sizes
  <2>6. l = k BY <2>4, <2>5
  <2> QED BY <2>1, <2>6 DEF At
<1> QED BY <1>5, <1>6

\* Where no header survived, nothing after it did.
LEMMA ZeroRest ==
  ASSUME NEW d, Layout(d), NEW j \in DOMAIN d.frags, NEW p \in Nat, NEW k \in Nat,
         At(d.frags[j], p), BlockStart(k) <= p, p + HeaderSize <= BlockStart(k) + BlockSize,
         p + HeaderSize > d.valid
  PROVE  Sealed(d, BlockStart(k + 1), d.frags[j].b - 1)
<1>1. d.frags[j].start = p BY NoPadding
<1>2. FragmentEnd(d.frags[j]) \in Nat /\ p + HeaderSize <= FragmentEnd(d.frags[j])
  BY <1>1, DiskFrag, FragmentFields
<1>3. d.valid \in Nat BY DEF Layout, DiskType
<1>4. FragmentEnd(d.frags[j]) > d.valid BY <1>2, <1>3, Sizes
<1>5. BlockStart(k) \in Nat /\ BlockStart(k + 1) = BlockStart(k) + BlockSize BY Blocks
<1>6. BlockStart(k + 1) + HeaderSize > d.valid BY <1>3, <1>5, Sizes
<1> QED BY <1>4, <1>6, KeptBefore DEF Sealed

\* Fragments start at different positions.
LEMMA StartsDiffer ==
  ASSUME NEW d, Layout(d), NEW j \in DOMAIN d.frags, NEW l \in DOMAIN d.frags,
         d.frags[j].start = d.frags[l].start
  PROVE  j = l
<1>1. ASSUME NEW a \in DOMAIN d.frags, NEW b \in DOMAIN d.frags, a < b
      PROVE  d.frags[a].start < d.frags[b].start
  <2>1. FragmentEnd(d.frags[a]) <= d.frags[b].start
    BY <1>1 DEF Layout, FragsLaid, Precedes
  <2>2. /\ d.frags[a].start + HeaderSize <= FragmentEnd(d.frags[a])
        /\ d.frags[a].start \in Nat /\ d.frags[b].start \in Nat
        /\ FragmentEnd(d.frags[a]) \in Nat
    BY DiskFrag, FragmentFields
  <2> QED BY <2>1, <2>2, Sizes
<1>2. j \in Nat /\ l \in Nat BY DiskFrag
<1>3. d.frags[j].start \in Nat BY DiskFrag, FragmentFields
<1>4. ~(j < l) /\ ~(l < j) BY <1>1, <1>3
<1> QED BY <1>2, <1>4

(***************************************************************************)
(* Histories                                                               *)
(***************************************************************************)
\* A new iterator has yielded nothing.
LEMMA HistoryStart ==
  ASSUME NEW bs PROVE History(bs, <<>>, 0, 0)
BY DEF History, Harmed, InTurn, Stands, HasAll

\* A record y that comes next is yielded.
LEMMA HistoryYield ==
  ASSUME NEW bs, NEW o \in Seq(YieldedRecord), NEW c \in Nat, NEW i \in Nat,
         NEW y \in YieldedRecord, History(bs, o, c, i), y.b = c + 1, y.i = i
  PROVE  /\ History(bs, Append(o, y), c, i + 1)
         /\ \A b, n : Has(o, b, n) => Has(Append(o, y), b, n)
         /\ y.intact => Has(Append(o, y), c + 1, i)
<1> DEFINE q == Append(o, y)
           n == Len(o)
<1>1. /\ q \in Seq(YieldedRecord) /\ n \in Nat /\ Len(q) = n + 1 /\ q # <<>>
      /\ DOMAIN q = 1..n + 1 /\ DOMAIN o = 1..n
      /\ q[n + 1] = y /\ \A k \in 1..n : q[k] = o[k]
      /\ o = <<>> <=> n = 0
  OBVIOUS
<1> HIDE DEF q, n
<1>2. \A k \in 1..n : o[k] \in YieldedRecord BY <1>1
<1>3. \A k \in 1..n : o[k].b \in Int /\ o[k].i \in Nat BY <1>2 DEF YieldedRecord
<1>4. Harmed(q, c, i + 1)
  <2>1. \A k \in 1..n : /\ o[k].b \in 1..c + 1
                        /\ o[k].b = c + 1 => o[k].i < i
                        /\ o[k].b <= c => o[k].intact
    BY <1>1 DEF History, Harmed
  <2>2. ASSUME NEW k \in 1..n + 1
        PROVE  /\ q[k].b \in 1..c + 1
               /\ q[k].b = c + 1 => q[k].i < i + 1
               /\ q[k].b <= c => q[k].intact
    <3>1. CASE k = n + 1 BY <1>1, <3>1
    <3>2. CASE k # n + 1
      <4>1. k \in 1..n /\ q[k] = o[k] BY <1>1, <3>2
      <4> QED BY <1>3, <2>1, <4>1
    <3> QED BY <3>1, <3>2
  <2>3. ASSUME NEW k \in 1..n + 1, NEW l \in 1..n + 1, k < l PROVE q[k].b <= q[l].b
    <3>1. k \in 1..n /\ q[k] = o[k] BY <1>1, <2>3
    <3>2. CASE l = n + 1 BY <1>1, <2>1, <3>1, <3>2
    <3>3. CASE l # n + 1
      <4>1. l \in 1..n /\ q[l] = o[l] BY <1>1, <3>3
      <4> QED BY <1>1, <2>3, <3>1, <4>1 DEF History, Harmed
    <3> QED BY <3>2, <3>3
  <2> QED BY <1>1, <2>2, <2>3 DEF Harmed
<1>5. n # 0 => RightAfter(bs, o[n], y)
  <2> SUFFICES ASSUME n # 0 PROVE RightAfter(bs, o[n], y) OBVIOUS
  <2>1. o # <<>> /\ o[Len(o)] = o[n] /\ n \in 1..n BY <1>1 DEF n
  <2>2. CASE i = 0
    <3>1. o[n].b = c /\ o[n].i + 1 = Len(bs[c].recs)
      BY <2>1, <2>2 DEF History, Stands
    <3> QED BY <2>2, <3>1 DEF RightAfter
  <2>3. CASE i # 0
    <3>1. o[n].b = c + 1 /\ o[n].i + 1 = i BY <2>1, <2>3 DEF History, Stands
    <3> QED BY <3>1 DEF RightAfter
  <2> QED BY <2>2, <2>3
<1>6. InTurn(bs, q)
  <2>1. q[1].b = 1 /\ q[1].i = 0
    <3>1. CASE n = 0
      <4>1. c = 0 /\ i = 0 /\ q[1] = y BY <1>1, <3>1 DEF History, Stands
      <4> QED BY <4>1
    <3>2. CASE n # 0
      <4>1. o # <<>> /\ q[1] = o[1] BY <1>1, <3>2
      <4> QED BY <4>1 DEF History, InTurn
    <3> QED BY <3>1, <3>2
  <2>2. ASSUME NEW k \in 1..n PROVE RightAfter(bs, q[k], q[k + 1])
    <3>1. CASE k = n BY <1>1, <1>5, <3>1
    <3>2. CASE k # n
      <4>1. k \in 1..n - 1 /\ k + 1 \in 1..n /\ q[k] = o[k] /\ q[k + 1] = o[k + 1]
        BY <1>1, <3>2
      <4> QED BY <4>1 DEF History, InTurn, n
    <3> QED BY <3>1, <3>2
  <2>3. Len(q) - 1 = n BY <1>1
  <2> QED BY <2>1, <2>2, <2>3 DEF InTurn
<1>7. Stands(bs, q, c, i + 1) BY <1>1 DEF Stands
<1>8. ASSUME NEW b, NEW m, Has(o, b, m) PROVE Has(q, b, m)
  <2>1. PICK k \in DOMAIN o : o[k].b = b /\ o[k].i = m /\ o[k].intact BY <1>8 DEF Has
  <2>2. k \in DOMAIN q /\ q[k] = o[k] BY <1>1
  <2> QED BY <2>1, <2>2 DEF Has
<1>9. HasAll(bs, q, c) BY <1>8 DEF History, HasAll
<1>10. y.intact => Has(q, c + 1, i)
  <2>1. n + 1 \in DOMAIN q BY <1>1
  <2> QED BY <1>1, <2>1 DEF Has
<1> QED BY <1>4, <1>6, <1>7, <1>8, <1>9, <1>10 DEF History, q

\* A whole batch has been yielded.
LEMMA HistoryNext ==
  ASSUME NEW bs, NEW o \in Seq(YieldedRecord), NEW c \in Nat,
         Len(bs[c + 1].recs) \in Nat \ {0},
         History(bs, o, c, Len(bs[c + 1].recs)),
         Given(o, c + 1, Len(bs[c + 1].recs))
  PROVE  History(bs, o, c + 1, 0)
<1> DEFINE n == Len(bs[c + 1].recs)
<1>1. \A k \in DOMAIN o : o[k] \in YieldedRecord OBVIOUS
<1>2. \A k \in DOMAIN o : o[k].b \in Int BY <1>1 DEF YieldedRecord
<1>3. Harmed(o, c + 1, 0)
  <2>1. ASSUME NEW k \in DOMAIN o
        PROVE  o[k].b \in 1..c + 1 /\ o[k].intact
    <3>1. o[k].b \in 1..c + 1 /\ (o[k].b <= c => o[k].intact) BY DEF History, Harmed
    <3>2. o[k].b = c + 1 => o[k].intact BY DEF Given
    <3> QED BY <3>1, <3>2
  <2>2. \A k, l \in DOMAIN o : k < l => o[k].b <= o[l].b BY DEF History, Harmed
  <2>3. \A k \in DOMAIN o : /\ o[k].b \in 1..(c + 1) + 1
                            /\ o[k].b # (c + 1) + 1
    BY <2>1
  <2> QED BY <2>1, <2>2, <2>3 DEF Harmed
<1>4. Stands(bs, o, c + 1, 0)
  <2>1. o # <<>> BY DEF History, Stands
  <2>2. o[Len(o)].b = c + 1 /\ o[Len(o)].i + 1 = n BY <2>1 DEF History, Stands
  <2> QED BY <2>1, <2>2 DEF Stands
<1>5. HasAll(bs, o, c + 1)
  <2> SUFFICES ASSUME NEW b \in 1..c + 1, NEW m \in 0..Len(bs[b].recs) - 1
               PROVE  Has(o, b, m)
    BY DEF HasAll
  <2>1. CASE b = c + 1 BY <2>1 DEF Given
  <2>2. CASE b # c + 1
    <3>1. b \in 1..c BY <2>2
    <3> QED BY <3>1 DEF History, HasAll
  <2> QED BY <2>1, <2>2
<1> QED BY <1>3, <1>4, <1>5 DEF History

(***************************************************************************)
(* One step of _iter_log_blocks, from s to t, with o yielded               *)
(***************************************************************************)
\* The fields of disk.
LEMMA Disk ==
  /\ disk.frags = frags /\ disk.batches = batches
  /\ disk.valid = valid /\ disk.size = size
BY DEF disk

\* How far an iterator is, in front of a chunk and inside it.
LEMMA ReachedIs ==
  ASSUME NEW s \in Iterator
  PROVE  /\ s.pc = "chunk" => Reached(s) = BlockStart(s.idx)
         /\ s.pc # "chunk" => Reached(s) = BlockStart(s.idx) + s.tell
         /\ s.idx \in Nat /\ s.tell \in Nat /\ BlockStart(s.idx) \in Nat
         /\ Reached(s) \in Nat
<1>1. s.idx \in Nat /\ s.tell \in Nat BY DEF Iterator
<1>2. BlockStart(s.idx) \in Nat BY <1>1, Blocks
<1> QED BY <1>1, <1>2 DEF Reached, BlockStart

\* Reading tells iterators apart by where they are and what they hold.
LEMMA ReadingSame ==
  ASSUME NEW d, NEW s, NEW t, NEW o, Reading(d, s, o), Reached(t) = Reached(s),
         t.inRecord = s.inRecord, t.batch = s.batch
  PROVE  Reading(d, t, o)
BY DEF Reading, InProgress

\* An iterator past everything that survived keeps its history.
LEMMA ReadingSealed ==
  ASSUME NEW d, NEW t, NEW o, NEW c \in Nat, NEW i \in Nat,
         Sealed(d, Reached(t), c), History(d.batches, o, c, i)
  PROVE  Reading(d, t, o)
BY DEF Reading

\* The stream is at its end: what survived has been read.
LEMMA AtEnd ==
  ASSUME NEW d, Layout(d), NEW s \in Iterator, NEW o, s.pc = "chunk", Reading(d, s, o),
         Expected(d, s) >= d.size
  PROVE  \E c, i \in Nat : History(d.batches, o, c, i) /\ Kept(d, c)
<1>1. d.valid \in Nat /\ d.size \in Nat /\ d.valid <= d.size BY DEF Layout, DiskType
<1>2. Reached(s) = BlockStart(s.idx) /\ Reached(s) \in Nat BY ReachedIs
<1>3. Expected(d, s) = Smaller(Reached(s), d.size) BY <1>2 DEF Expected
<1>4. Reached(s) >= d.size BY <1>1, <1>2, <1>3 DEF Smaller
<1>5. CASE \E c, i \in Nat : Sealed(d, Reached(s), c) /\ History(d.batches, o, c, i)
  BY <1>5 DEF Sealed
<1>6. ASSUME NEW j \in DOMAIN d.frags, At(d.frags[j], Reached(s)),
             History(d.batches, o, d.frags[j].b - 1, 0)
      PROVE  \E c, i \in Nat : History(d.batches, o, c, i) /\ Kept(d, c)
  <2>1. /\ d.frags[j].start \in Nat /\ FragmentEnd(d.frags[j]) \in Nat
        /\ d.frags[j].start + HeaderSize <= FragmentEnd(d.frags[j])
        /\ d.frags[j].b - 1 \in Nat
    BY DiskFrag, FragmentFields
  <2>2. d.frags[j].start >= Reached(s)
    <3>1. \A k \in Nat : BlockStart(k + 1) \in Nat BY Blocks
    <3> QED BY <1>2, <1>6, <3>1 DEF At
  <2>3. FragmentEnd(d.frags[j]) > d.valid BY <1>1, <1>2, <1>4, <2>1, <2>2, Sizes
  <2>4. Kept(d, d.frags[j].b - 1) BY <2>3, KeptBefore
  <2> QED BY <1>6, <2>1, <2>4
<1> QED BY <1>5, <1>6 DEF Reading

\* The next chunk is a block of the file.
LEMMA ChunkRead ==
  ASSUME NEW d, Layout(d), NEW s \in Iterator, NEW o, s.pc = "chunk", Reading(d, s, o),
         Expected(d, s) < d.size, NEW t \in Iterator,
         t.pc = "frag", t.base = Expected(d, s), t.tell = 0,
         t.limit = Smaller(BlockSize, d.size - t.base),
         t.idx = s.idx, t.inRecord = s.inRecord, t.batch = s.batch
  PROVE  ChunkInv(d, t) /\ Reading(d, t, o) /\ t.base + t.limit = Expected(d, t)
<1>1. d.size \in Nat BY DEF Layout, DiskType
<1>3. /\ Reached(s) = BlockStart(s.idx) /\ Reached(t) = BlockStart(s.idx) + 0
      /\ BlockStart(s.idx) \in Nat /\ s.idx \in Nat
  BY ReachedIs
<1>4. t.base = BlockStart(s.idx) BY <1>1, <1>3 DEF Expected, Smaller
<1>5. ChunkInv(d, t) BY <1>4 DEF ChunkInv
<1>6. Reached(t) = Reached(s) BY <1>3
<1>7. Reading(d, t, o) BY <1>6, ReadingSame
<1>8. t.base + t.limit = Expected(d, t)
  <2>1. BlockStart(s.idx + 1) = BlockStart(s.idx) + BlockSize BY <1>3, Blocks
  <2>2. Expected(d, t) = Smaller(BlockStart(s.idx) + BlockSize, d.size)
    BY <2>1 DEF Expected
  <2> QED BY <1>1, <1>3, <1>4, <2>2, Sizes DEF Smaller
<1> QED BY <1>5, <1>7, <1>8

\* What the rest of the step does not touch.
LEMMA SameChunk ==
  ASSUME NEW d, NEW s \in Iterator, NEW t \in Iterator, ChunkInv(d, s),
         s.pc \in Running \ {"chunk"}, t.pc \in Running \ {"chunk"},
         t.idx = s.idx, t.base = s.base, t.limit = s.limit
  PROVE  ChunkInv(d, t) /\ Expected(d, t) = Expected(d, s)
BY DEF ChunkInv, Expected

\* An iterator that leaves its block is in front of the next one.
LEMMA NextChunkIs ==
  ASSUME NEW d, NEW s \in Iterator, s.pc = "frag"
  PROVE  /\ NextChunk(s).pc = "chunk" /\ ChunkInv(d, NextChunk(s))
         /\ Expected(d, NextChunk(s)) = Expected(d, s)
         /\ Reached(NextChunk(s)) = BlockStart(s.idx + 1)
         /\ NextChunk(s).inRecord = s.inRecord /\ NextChunk(s).batch = s.batch
<1>1. /\ NextChunk(s).pc = "chunk" /\ NextChunk(s).idx = s.idx + 1
      /\ NextChunk(s).inRecord = s.inRecord /\ NextChunk(s).batch = s.batch
  BY DEF NextChunk, Iterator
<1>2. Reached(NextChunk(s)) = (s.idx + 1) * BlockSize + 0 BY <1>1 DEF Reached
<1>3. (s.idx + 1) * BlockSize \in Nat
  <2>1. s.idx + 1 \in Nat BY DEF Iterator
  <2> QED BY <2>1, BlockStarts
<1> QED BY <1>1, <1>2, <1>3 DEF ChunkInv, Expected, BlockStart

\* How far the chunk of an iterator goes.
LEMMA ChunkIs ==
  ASSUME NEW d, Layout(d), NEW s \in Iterator, Sound(s), ChunkInv(d, s), s.pc = "frag"
  PROVE  /\ s.base = BlockStart(s.idx) /\ Reached(s) = s.base + s.tell
         /\ Reached(s) \in Nat /\ s.base \in Nat /\ s.limit \in Nat /\ s.idx \in Nat
         /\ BlockStart(s.idx) <= Reached(s) /\ Reached(s) <= s.base + s.limit
         /\ s.base < d.size /\ s.limit = Smaller(BlockSize, d.size - s.base)
         /\ s.limit <= BlockSize /\ s.base + s.limit <= d.size
         /\ s.limit = BlockSize \/ s.base + s.limit = d.size
         /\ ChunkExhausted(s) <=> Reached(s) + HeaderSize > s.base + s.limit
         /\ BlockStart(s.idx + 1) = s.base + BlockSize
<1>1. s.tell <= s.limit /\ s.limit <= BlockSize BY DEF Sound, IteratorInv
<1>2. s.limit \in Nat /\ s.tell \in Nat /\ s.idx \in Nat /\ s.base \in Nat BY DEF Iterator
<1>3. /\ s.base = BlockStart(s.idx) /\ s.base < d.size
      /\ s.limit = Smaller(BlockSize, d.size - s.base)
  BY DEF ChunkInv, Running, Busy
<1>4. d.size \in Nat BY DEF Layout, DiskType
<1>5. Reached(s) = s.base + s.tell BY <1>3, ReachedIs
<1>6. ChunkExhausted(s) <=> Reached(s) + HeaderSize > s.base + s.limit
  BY <1>1, <1>2, <1>5, Sizes DEF ChunkExhausted
<1>7. BlockStart(s.idx + 1) = s.base + BlockSize BY <1>2, <1>3, Blocks
<1>8. s.base + s.limit <= d.size /\ (s.limit = BlockSize \/ s.base + s.limit = d.size)
  BY <1>2, <1>3, <1>4, Sizes DEF Smaller
<1> QED BY <1>1, <1>2, <1>3, <1>4, <1>5, <1>6, <1>7, <1>8

\* EndChunk: the loop leaves an exhausted block.
LEMMA ChunkLeft ==
  ASSUME NEW d, Layout(d), NEW s \in Iterator, Sound(s), ChunkInv(d, s), s.pc = "frag",
         NEW o, Reading(d, s, o), ChunkExhausted(s)
  PROVE  Reading(d, NextChunk(s), o)
<1> DEFINE t == NextChunk(s)
           p == Reached(s)
<1>1. /\ s.base = BlockStart(s.idx) /\ p \in Nat /\ s.limit \in Nat /\ s.idx \in Nat
      /\ BlockStart(s.idx) <= p /\ p <= BlockStart(s.idx) + s.limit
      /\ BlockStart(s.idx) < d.size /\ s.limit = Smaller(BlockSize, d.size - BlockStart(s.idx))
      /\ p + HeaderSize > BlockStart(s.idx) + s.limit
      /\ s.limit <= BlockSize /\ BlockStart(s.idx + 1) = s.base + BlockSize
      /\ BlockStart(s.idx) \in Nat
  BY ChunkIs
<1>2. Reached(t) = BlockStart(s.idx + 1) /\ t.inRecord = s.inRecord /\ t.batch = s.batch
  BY NextChunkIs
<1> HIDE DEF t, p
<1>3. ASSUME NEW c \in Nat, NEW i \in Nat, Sealed(d, p, c), History(d.batches, o, c, i)
      PROVE  Reading(d, t, o)
  <2>1. p <= BlockStart(s.idx + 1) /\ BlockStart(s.idx + 1) \in Nat BY <1>1, Sizes
  <2>2. Sealed(d, Reached(t), c) BY <1>1, <1>2, <1>3, <2>1, SealedFurther
  <2> QED BY <1>3, <2>2, ReadingSealed
<1>4. ASSUME NEW j \in DOMAIN d.frags, At(d.frags[j], p), InProgress(s, d.frags[j]),
             History(d.batches, o, d.frags[j].b - 1, 0)
      PROVE  Reading(d, t, o)
  <2>1. \/ At(d.frags[j], Reached(t))
        \/ Sealed(d, Reached(t), d.frags[j].b - 1)
    BY <1>1, <1>2, <1>4, BlockEnds
  <2>2. InProgress(t, d.frags[j]) BY <1>2, <1>4 DEF InProgress
  <2>3. d.frags[j].b - 1 \in Nat BY DiskFrag
  <2> QED BY <1>4, <2>1, <2>2, <2>3 DEF Reading
<1> QED BY <1>3, <1>4 DEF Reading, t, p

\* Where a header survived, it is that of the fragment that starts there.
LEMMA HeaderAt ==
  ASSUME Layout(disk), NEW j \in DOMAIN frags, NEW p \in Nat, frags[j].start = p,
         p + HeaderSize <= valid, NEW h \in Headers(p)
  PROVE  h = frags[j]
<1>1. ~(p + HeaderSize > valid)
  <2>1. valid \in Nat BY Disk DEF Layout, DiskType
  <2> QED BY <2>1, Sizes
<1>2. PICK l \in DOMAIN frags : frags[l].start = p /\ h = frags[l] BY <1>1 DEF Headers
<1>3. l = j BY <1>2, StartsDiffer, Disk
<1> QED BY <1>2, <1>3

\* No header survived behind `valid`: zeros are read.
LEMMA ZeroAt ==
  ASSUME NEW p, p + HeaderSize > valid, NEW h \in Headers(p)
  PROVE  h = ZeroHeader
BY DEF Headers

\* The bytes of fragment f, read where it starts: all of them, or fewer, and
\* then nothing survived behind them.
LEMMA DataAt ==
  ASSUME Layout(disk), NEW s \in Iterator, Sound(s), ChunkInv(disk, s), s.pc = "frag",
         NEW j \in DOMAIN frags, frags[j].start = Reached(s), ~ChunkExhausted(s),
         Reached(s) + HeaderSize <= valid
  PROVE  /\ FragmentEnd(frags[j]) <= valid =>
              /\ DataLen(s, frags[j]) = frags[j].len
              /\ Data(s, frags[j]) = [b |-> frags[j].b, m |-> frags[j].len, z |-> 0]
         /\ FragmentEnd(frags[j]) > valid =>
              Sealed(disk, Reached(s) + HeaderSize + DataLen(s, frags[j]), frags[j].b - 1)
<1> DEFINE f == frags[j]
           p == Reached(s)
           n == DataLen(s, f)
<1>1. /\ f \in Fragment /\ f.b \in Nat /\ f.len \in Nat /\ f.start = p /\ f.b # -1
      /\ FragmentEnd(f) = p + HeaderSize + f.len
      /\ \E k \in Nat : InBlock(f, k)
  BY DiskFrag, FragmentFields, Disk DEF Piece
<1>2. /\ s.base = BlockStart(s.idx) /\ p = s.base + s.tell
      /\ p \in Nat /\ s.base \in Nat /\ s.limit \in Nat /\ s.idx \in Nat
      /\ BlockStart(s.idx) <= p /\ p + HeaderSize <= s.base + s.limit
      /\ s.limit <= BlockSize /\ s.base + s.limit <= size
      /\ s.limit = BlockSize \/ s.base + s.limit = size
  <2>1. ~(p + HeaderSize > s.base + s.limit) BY ChunkIs
  <2>2. p \in Nat /\ s.base \in Nat /\ s.limit \in Nat BY ChunkIs
  <2>3. p + HeaderSize <= s.base + s.limit BY <2>1, <2>2, Sizes
  <2> QED BY <2>3, ChunkIs, Disk
<1>3. valid \in Nat /\ size \in Nat /\ valid <= size BY Disk DEF Layout, DiskType
<1>4. s.tell \in Nat BY DEF Iterator
<1>5. n = Smaller(f.len, s.base + s.limit - p - HeaderSize)
  BY <1>1, <1>2, <1>4, Sizes DEF DataLen, Smaller
<1>6. n \in Nat /\ n <= f.len BY <1>1, <1>2, <1>5, Sizes DEF Smaller
<1>7. Data(s, f) = [b |-> f.b, m |-> Larger(0, Smaller(n, valid - (p + HeaderSize))),
                    z |-> n - Larger(0, Smaller(n, valid - (p + HeaderSize)))]
  <2>1. s.base + s.tell + HeaderSize = p + HeaderSize BY <1>2
  <2> HIDE DEF p
  <2> QED BY <1>1, <2>1 DEF Data
\* the block of f is the chunk
<1>8. FragmentEnd(f) <= s.base + BlockSize
  <2>1. PICK k \in Nat : InBlock(f, k) BY <1>1
  <2>2. BlockStart(k) \in Nat BY Blocks
  <2>3. BlockStart(k) <= p /\ p < BlockStart(k) + BlockSize
    BY <1>1, <1>2, <2>1, <2>2, Sizes DEF InBlock
  <2>4. p < BlockStart(s.idx) + BlockSize BY <1>2, Sizes
  <2>5. k = s.idx BY <1>2, <2>3, <2>4, OneBlock
  <2> QED BY <1>2, <2>1, <2>5 DEF InBlock
<1> HIDE DEF f, p, n
<1>9. CASE FragmentEnd(f) <= valid
  <2>1. p + HeaderSize + f.len <= s.base + s.limit
    BY <1>1, <1>2, <1>3, <1>8, <1>9, Sizes
  <2>2. n = f.len BY <1>1, <1>2, <1>5, <2>1, Sizes DEF Smaller
  <2>3. Larger(0, Smaller(n, valid - (p + HeaderSize))) = f.len
    BY <1>1, <1>2, <1>3, <1>9, <2>2, Sizes DEF Smaller, Larger
  <2>4. Data(s, f) = [b |-> f.b, m |-> f.len, z |-> 0]
    BY <1>1, <1>7, <2>2, <2>3
  <2>5. ~(FragmentEnd(f) > valid) BY <1>1, <1>2, <1>3, <1>9, Sizes
  <2> QED BY <2>2, <2>4, <2>5 DEF f, n
<1>10. CASE FragmentEnd(f) > valid
  <2>1. p + HeaderSize + n > valid \/ p + HeaderSize + n = s.base + s.limit
    BY <1>1, <1>2, <1>3, <1>5, <1>10, Sizes DEF Smaller
  <2>2. p + HeaderSize + n + HeaderSize > valid
    <3>1. CASE p + HeaderSize + n > valid BY <1>2, <1>3, <1>6, <3>1, Sizes
    <3>2. CASE p + HeaderSize + n = s.base + s.limit
      <4>1. CASE s.base + s.limit = size BY <1>2, <1>3, <3>2, <4>1, Sizes
      <4>2. CASE s.limit = BlockSize
        <5>1. p + HeaderSize + f.len <= p + HeaderSize + n BY <1>1, <1>8, <3>2, <4>2
        <5> QED BY <1>1, <1>2, <1>3, <1>6, <1>10, <5>1, Sizes
      <4> QED BY <1>2, <4>1, <4>2
    <3> QED BY <2>1, <3>1, <3>2
  <2>3. Kept(disk, f.b - 1) BY <1>10, KeptBefore, Disk DEF f
  <2>4. ~(FragmentEnd(f) <= valid) BY <1>1, <1>2, <1>3, <1>10, Sizes
  <2> QED BY <2>2, <2>3, <2>4, Disk DEF Sealed, f, p, n
<1> QED BY <1>1, <1>2, <1>3, <1>9, <1>10, Sizes

\* An iterator t that has the bytes of a batch up to the end of fragment f.
LEMMA Carried ==
  ASSUME NEW d, Layout(d), NEW j \in DOMAIN d.frags, NEW t \in Iterator,
         NEW o \in Seq(YieldedRecord),
         History(d.batches, o, d.frags[j].b - 1, 0),
         Reached(t) = FragmentEnd(d.frags[j]),
         t.batch = [b |-> d.frags[j].b, m |-> d.frags[j].from + d.frags[j].len, z |-> 0]
  PROVE  /\ ~Ends(d.frags[j]) /\ t.inRecord => Reading(d, t, o)
         /\ Ends(d.frags[j]) /\ t.pc = "batch" => Splitting(d, t, o)
<1> DEFINE f == d.frags[j]
<1>1. /\ f \in Fragment /\ f.b \in 1..Len(d.batches) /\ Piece(f, d.batches[f.b].size)
      /\ f.b - 1 \in Nat /\ f.b \in Nat /\ (f.b - 1) + 1 = f.b
  BY DiskFrag, FragmentFields
<1>2. \/ /\ j + 1 \in DOMAIN d.frags /\ At(d.frags[j + 1], Reached(t))
         /\ Ends(f) <=> Begins(d.frags[j + 1])
         /\ Begins(d.frags[j + 1]) => d.frags[j + 1].b = f.b + 1
         /\ ~Begins(d.frags[j + 1]) => /\ d.frags[j + 1].b = f.b
                                       /\ d.frags[j + 1].from = f.from + f.len
      \/ Sealed(d, Reached(t), IF Ends(f) THEN f.b ELSE f.b - 1)
  BY BehindFragment
<1>3. t.batch.b = f.b /\ t.batch.m = f.from + f.len /\ t.batch.z = 0 OBVIOUS
<1> HIDE DEF f
<1>4. ASSUME ~Ends(f), t.inRecord PROVE Reading(d, t, o)
  <2>1. CASE Sealed(d, Reached(t), IF Ends(f) THEN f.b ELSE f.b - 1)
    <3>1. Sealed(d, Reached(t), f.b - 1) BY <1>4, <2>1
    <3> QED BY <1>1, <3>1, ReadingSealed DEF f
  <2>2. CASE ~Sealed(d, Reached(t), IF Ends(f) THEN f.b ELSE f.b - 1)
    <3> DEFINE g == d.frags[j + 1]
    <3>1. /\ j + 1 \in DOMAIN d.frags /\ At(g, Reached(t)) /\ ~Begins(g)
          /\ g.b = f.b /\ g.from = f.from + f.len
      BY <1>2, <1>4, <2>2
    <3>2. InProgress(t, g) BY <1>4, <3>1 DEF InProgress, f
    <3>3. History(d.batches, o, g.b - 1, 0) BY <3>1 DEF f
    <3> QED BY <3>1, <3>2, <3>3 DEF Reading
  <2> QED BY <2>1, <2>2
<1>5. ASSUME Ends(f), t.pc = "batch" PROVE Splitting(d, t, o)
  <2>1. Before(d, Reached(t), f.b) BY <1>2, <1>5 DEF Before
  <2>2. f.from + f.len = d.batches[f.b].size BY <1>1, <1>5 DEF Piece
  <2>3. Given(o, f.b, 0)
    <3>1. \A k \in DOMAIN o : o[k].b = f.b => o[k].i < 0
      BY <1>1 DEF History, Harmed, f
    <3>2. \A k \in DOMAIN o : o[k].i \in Nat
      <4>1. \A k \in DOMAIN o : o[k] \in YieldedRecord OBVIOUS
      <4> QED BY <4>1 DEF YieldedRecord
    <3>3. \A k \in DOMAIN o : ~(o[k].b = f.b) BY <3>1, <3>2
    <3> QED BY <3>3 DEF Given
  <2>4. Taken(t) = 0 BY <1>5 DEF Taken
  <2>5. HasWhole(d, t, o) BY <1>3, <1>5, <2>1, <2>2, <2>3, <2>4 DEF HasWhole
  <2>6. f.b \in DOMAIN d.batches BY <1>1 DEF Layout, DiskType
  <2> QED BY <1>3, <2>4, <2>5, <2>6 DEF Splitting, f
<1> QED BY <1>4, <1>5 DEF f

\* An iterator t that got only some bytes of fragment f.
LEMMA Torn ==
  ASSUME NEW d, Layout(d), NEW j \in DOMAIN d.frags, NEW t \in Iterator, NEW o,
         History(d.batches, o, d.frags[j].b - 1, 0),
         Sealed(d, Reached(t), d.frags[j].b - 1), t.batch.b = d.frags[j].b
  PROVE  /\ Reading(d, t, o)
         /\ t.pc = "batch" => Splitting(d, t, o)
<1>1. d.frags[j].b \in DOMAIN d.batches /\ d.frags[j].b - 1 \in Nat
  BY DiskFrag DEF Layout, DiskType
<1>2. Reading(d, t, o) BY <1>1, ReadingSealed
<1>3. t.pc = "batch" => Splitting(d, t, o) BY <1>1 DEF Splitting, Taken
<1> QED BY <1>2, <1>3
\* AfterFull and its like: behind the fragment, with a batch of these bytes.
Behind(s, t, h, batch) ==
  /\ t.idx = s.idx /\ t.base = s.base /\ t.limit = s.limit /\ t.batch = batch
  /\ Reached(t) = Reached(s) + HeaderSize + DataLen(s, h)

\* What a FULL fragment leaves in the iterator.
LEMMA FullFields ==
  ASSUME NEW s \in Iterator, NEW h, s.pc = "frag", ~s.inRecord, DataLen(s, h) \in Nat
  PROVE  /\ AfterFull(s, h).pc = "batch" /\ ~AfterFull(s, h).inRecord
         /\ Behind(s, AfterFull(s, h), h, Data(s, h))
<1> DEFINE t == AfterFull(s, h)
<1>1. /\ t.pc = "batch" /\ ~t.inRecord /\ t.idx = s.idx /\ t.base = s.base
      /\ t.limit = s.limit /\ t.batch = Data(s, h)
      /\ t.tell = s.tell + HeaderSize + DataLen(s, h)
  BY DEF AfterFull, Deliver, Past, Iterator
<1> HIDE DEF t
<1>2. /\ Reached(t) = s.idx * BlockSize + t.tell /\ Reached(s) = s.idx * BlockSize + s.tell
  BY <1>1 DEF Reached
<1>3. s.idx * BlockSize \in Nat /\ s.tell \in Nat BY BlockStarts DEF Iterator
<1>4. Reached(t) = Reached(s) + HeaderSize + DataLen(s, h) BY <1>1, <1>2, <1>3, Sizes
<1> QED BY <1>1, <1>4 DEF Behind, t

\* What a FIRST fragment leaves.
LEMMA FirstFields ==
  ASSUME NEW s \in Iterator, NEW h, s.pc = "frag", ~s.inRecord, DataLen(s, h) \in Nat
  PROVE  /\ AfterFirst(s, h).pc = "frag" /\ AfterFirst(s, h).inRecord
         /\ Behind(s, AfterFirst(s, h), h, Data(s, h))
<1> DEFINE t == AfterFirst(s, h)
<1>1. /\ t.pc = "frag" /\ t.inRecord /\ t.idx = s.idx /\ t.base = s.base
      /\ t.limit = s.limit /\ t.batch = Data(s, h)
      /\ t.tell = s.tell + HeaderSize + DataLen(s, h)
  BY DEF AfterFirst, Deliver, Past, Iterator
<1> HIDE DEF t
<1>2. /\ Reached(t) = s.idx * BlockSize + t.tell /\ Reached(s) = s.idx * BlockSize + s.tell
  BY <1>1 DEF Reached
<1>3. s.idx * BlockSize \in Nat /\ s.tell \in Nat BY BlockStarts DEF Iterator
<1>4. Reached(t) = Reached(s) + HeaderSize + DataLen(s, h) BY <1>1, <1>2, <1>3, Sizes
<1> QED BY <1>1, <1>4 DEF Behind, t

\* What a MIDDLE fragment leaves.
LEMMA MiddleFields ==
  ASSUME NEW s \in Iterator, NEW h, s.pc = "frag", s.inRecord, DataLen(s, h) \in Nat
  PROVE  /\ AfterMiddle(s, h).pc = "frag" /\ AfterMiddle(s, h).inRecord
         /\ Behind(s, AfterMiddle(s, h), h, Joined(s.batch, h, Data(s, h)))
<1> DEFINE t == AfterMiddle(s, h)
<1>1. /\ t.pc = "frag" /\ t.inRecord /\ t.idx = s.idx /\ t.base = s.base
      /\ t.limit = s.limit /\ t.batch = Joined(s.batch, h, Data(s, h))
      /\ t.tell = s.tell + HeaderSize + DataLen(s, h)
  BY DEF AfterMiddle, Deliver, Past, Iterator
<1> HIDE DEF t
<1>2. /\ Reached(t) = s.idx * BlockSize + t.tell /\ Reached(s) = s.idx * BlockSize + s.tell
  BY <1>1 DEF Reached
<1>3. s.idx * BlockSize \in Nat /\ s.tell \in Nat BY BlockStarts DEF Iterator
<1>4. Reached(t) = Reached(s) + HeaderSize + DataLen(s, h) BY <1>1, <1>2, <1>3, Sizes
<1> QED BY <1>1, <1>4 DEF Behind, t

\* What a LAST fragment leaves.
LEMMA LastFields ==
  ASSUME NEW s \in Iterator, NEW h, s.pc = "frag", s.inRecord, DataLen(s, h) \in Nat
  PROVE  /\ AfterLast(s, h).pc = "batch" /\ ~AfterLast(s, h).inRecord
         /\ Behind(s, AfterLast(s, h), h, Joined(s.batch, h, Data(s, h)))
<1> DEFINE t == AfterLast(s, h)
<1>1. /\ t.pc = "batch" /\ ~t.inRecord /\ t.idx = s.idx /\ t.base = s.base
      /\ t.limit = s.limit /\ t.batch = Joined(s.batch, h, Data(s, h))
      /\ t.tell = s.tell + HeaderSize + DataLen(s, h)
  BY DEF AfterLast, Deliver, Past, Iterator
<1> HIDE DEF t
<1>2. /\ Reached(t) = s.idx * BlockSize + t.tell /\ Reached(s) = s.idx * BlockSize + s.tell
  BY <1>1 DEF Reached
<1>3. s.idx * BlockSize \in Nat /\ s.tell \in Nat BY BlockStarts DEF Iterator
<1>4. Reached(t) = Reached(s) + HeaderSize + DataLen(s, h) BY <1>1, <1>2, <1>3, Sizes
<1> QED BY <1>1, <1>4 DEF Behind, t

\* ReadFragment: an iterator that stands where it should reads what LevelDB
\* wrote there, or zeros behind all that survived.
LEMMA FragmentRead ==
  ASSUME TypeInv, Layout(disk), NEW s \in Iterator, Sound(s), ChunkInv(disk, s), s.pc = "frag",
         ~ChunkExhausted(s), NEW o \in Seq(YieldedRecord), Reading(disk, s, o),
         NEW h \in Headers(Reached(s))
  PROVE  /\ h.type \in {ZERO, FULL, FIRST, MIDDLE, LAST}
         /\ h.type = ZERO => Reading(disk, NextChunk(s), o)
         /\ h.type = FULL => ~s.inRecord /\ Splitting(disk, AfterFull(s, h), o)
         /\ h.type = FIRST => ~s.inRecord /\ Reading(disk, AfterFirst(s, h), o)
         /\ h.type = MIDDLE => s.inRecord /\ Reading(disk, AfterMiddle(s, h), o)
         /\ h.type = LAST => s.inRecord /\ Splitting(disk, AfterLast(s, h), o)
<1> DEFINE p == Reached(s)
<1>1. /\ s.base = BlockStart(s.idx) /\ p \in Nat /\ s.base \in Nat /\ s.idx \in Nat
      /\ BlockStart(s.idx) <= p /\ p + HeaderSize <= BlockStart(s.idx) + BlockSize
      /\ p <= BlockStart(s.idx + 1) /\ BlockStart(s.idx + 1) \in Nat
  <2>1. ~(p + HeaderSize > s.base + s.limit) BY ChunkIs
  <2>2. /\ p \in Nat /\ s.base \in Nat /\ s.limit \in Nat /\ s.limit <= BlockSize
        /\ BlockStart(s.idx + 1) = s.base + BlockSize
    BY ChunkIs
  <2>3. p + HeaderSize <= s.base + BlockSize BY <2>1, <2>2, Sizes
  <2> QED BY <2>2, <2>3, ChunkIs, Sizes
<1>2. valid \in Nat BY Disk DEF Layout, DiskType
<1>3. /\ Reached(NextChunk(s)) = BlockStart(s.idx + 1)
      /\ NextChunk(s).inRecord = s.inRecord /\ NextChunk(s).batch = s.batch
  BY NextChunkIs
<1> HIDE DEF p
\* a zero header, and what to do with it
<1>4. CASE h = ZeroHeader /\ Reading(disk, NextChunk(s), o)
  BY <1>4 DEF ZeroHeader, ZERO, FULL, FIRST, MIDDLE, LAST
<1>5. ASSUME NEW c \in Nat, NEW i \in Nat, Sealed(disk, p, c), History(disk.batches, o, c, i)
      PROVE  h = ZeroHeader /\ Reading(disk, NextChunk(s), o)
  <2>1. h = ZeroHeader BY <1>5, ZeroAt, Disk DEF Sealed, p
  <2>2. Sealed(disk, Reached(NextChunk(s)), c) BY <1>1, <1>3, <1>5, SealedFurther
  <2> QED BY <1>5, <2>1, <2>2, ReadingSealed
<1>6. ASSUME NEW j \in DOMAIN disk.frags, At(disk.frags[j], p), InProgress(s, disk.frags[j]),
             History(disk.batches, o, disk.frags[j].b - 1, 0), p + HeaderSize > valid
      PROVE  h = ZeroHeader /\ Reading(disk, NextChunk(s), o)
  <2>1. h = ZeroHeader BY <1>6, ZeroAt DEF p
  <2>2. Sealed(disk, BlockStart(s.idx + 1), disk.frags[j].b - 1)
    <3>1. p + HeaderSize > disk.valid BY <1>6, Disk
    <3> QED BY <1>1, <1>6, <3>1, ZeroRest
  <2>3. disk.frags[j].b - 1 \in Nat BY DiskFrag
  <2> QED BY <1>3, <1>6, <2>1, <2>2, <2>3, ReadingSealed
<1>7. ASSUME NEW j \in DOMAIN disk.frags, At(disk.frags[j], p), InProgress(s, disk.frags[j]),
             History(disk.batches, o, disk.frags[j].b - 1, 0), ~(p + HeaderSize > valid)
      PROVE  /\ h.type \in {FULL, FIRST, MIDDLE, LAST}
             /\ h.type = FULL => ~s.inRecord /\ Splitting(disk, AfterFull(s, h), o)
             /\ h.type = FIRST => ~s.inRecord /\ Reading(disk, AfterFirst(s, h), o)
             /\ h.type = MIDDLE => s.inRecord /\ Reading(disk, AfterMiddle(s, h), o)
             /\ h.type = LAST => s.inRecord /\ Splitting(disk, AfterLast(s, h), o)
  <2> DEFINE f == disk.frags[j]
  <2>1. f.start = p BY <1>1, <1>7, NoPadding
  <2>2. p + HeaderSize <= valid BY <1>1, <1>2, <1>7, Sizes
  <2>3. h = f /\ j \in DOMAIN frags
    <3>1. j \in DOMAIN frags /\ f = frags[j] BY Disk
    <3>2. frags[j].start = p /\ h \in Headers(p) BY <2>1, <3>1 DEF p
    <3> QED BY <1>1, <2>2, <3>1, <3>2, HeaderAt
  <2>4. /\ f \in Fragment /\ f.b \in Nat /\ f.len \in Nat /\ f.from \in Nat
        /\ FragmentEnd(f) = f.start + HeaderSize + f.len /\ FragmentEnd(f) \in Nat
        /\ f.b \in 1..Len(batches) /\ Piece(f, batches[f.b].size) /\ f.b # 0 /\ f.b # -1
        /\ f.b - 1 \in Nat
    BY DiskFrag, FragmentFields, Disk
  <2>5. /\ FragmentEnd(f) <= valid =>
             /\ DataLen(s, f) = f.len
             /\ Data(s, f) = [b |-> f.b, m |-> f.len, z |-> 0]
        /\ FragmentEnd(f) > valid =>
             Sealed(disk, p + HeaderSize + DataLen(s, f), f.b - 1)
    BY <2>1, <2>2, <2>3, DataAt, Disk DEF p
  <2>6. h \in Header /\ h.b # 0 /\ h.b <= Len(batches)
    BY <1>1, HeaderType DEF p
  <2>7. DataLen(s, h) \in Nat /\ Data(s, h) \in Bytes /\ Data(s, h).b = h.b
    BY <2>6, FragmentFacts
  <2>8. FragmentEnd(f) <= valid \/ FragmentEnd(f) > valid BY <1>2, <2>4
  <2>9. h.type \in {FULL, FIRST, MIDDLE, LAST}
    <3>1. h.type \in FULL..LAST BY <2>3, <2>4 DEF Fragment
    <3> QED BY <3>1 DEF FULL, FIRST, MIDDLE, LAST
  <2>10. /\ Begins(f) <=> h.type \in {FULL, FIRST}
         /\ Ends(f) <=> h.type \in {FULL, LAST}
         /\ FULL \notin {FIRST, MIDDLE, LAST} /\ FIRST \notin {MIDDLE, LAST} /\ MIDDLE # LAST
    BY <2>3 DEF Begins, Ends, FULL, FIRST, MIDDLE, LAST
  <2>11. s.inRecord <=> ~Begins(f) BY <1>7 DEF InProgress
  <2>12. Begins(f) => f.from = 0 BY <2>4 DEF Piece
  <2> HIDE DEF f
  \* the bytes of the batch up to the end of f
  <2> DEFINE joined == IF Begins(f) THEN Data(s, h) ELSE Joined(s.batch, h, Data(s, h))
  <2>13. /\ FragmentEnd(f) <= valid =>
              joined = [b |-> f.b, m |-> f.from + f.len, z |-> 0]
         /\ joined.b = f.b
    <3>1. CASE Begins(f)
      <4>1. f.from + f.len = f.len BY <2>4, <2>12, <3>1
      <4> QED BY <2>3, <2>5, <2>7, <3>1, <4>1
    <3>2. CASE ~Begins(f)
      <4>1. s.batch = [b |-> f.b, m |-> f.from, z |-> 0]
        BY <1>7, <2>11, <3>2 DEF InProgress, f
      <4>2. joined = [b |-> h.b, m |-> s.batch.m + Data(s, h).m, z |-> Data(s, h).z]
        BY <2>3, <2>4, <3>2, <4>1 DEF Joined
      <4>3. joined.b = f.b BY <2>3, <4>2
      <4>4. FragmentEnd(f) <= valid =>
              Data(s, h).m = f.len /\ Data(s, h).z = 0
        BY <2>3, <2>5
      <4>5. s.batch.m = f.from BY <4>1
      <4> HIDE DEF joined
      <4> QED BY <2>3, <4>2, <4>3, <4>4, <4>5
    <3> QED BY <3>1, <3>2
  <2> HIDE DEF joined
  <2>14. ASSUME NEW t \in Iterator, Behind(s, t, h, joined)
         PROVE  /\ ~Ends(f) /\ t.inRecord => Reading(disk, t, o)
                /\ Ends(f) /\ t.pc = "batch" => Splitting(disk, t, o)
    <3>1. Reached(t) = p + HeaderSize + DataLen(s, f) /\ t.batch = joined
      BY <2>3, <2>14 DEF Behind, p
    <3>2. CASE FragmentEnd(f) <= valid
      <4>1. Reached(t) = FragmentEnd(f) BY <2>1, <2>4, <2>5, <3>1, <3>2 DEF f
      <4>2. t.batch = [b |-> f.b, m |-> f.from + f.len, z |-> 0] BY <2>13, <3>1, <3>2
      <4> QED BY <1>7, <4>1, <4>2, Carried DEF f
    <3>3. CASE FragmentEnd(f) > valid
      <4>1. Sealed(disk, Reached(t), f.b - 1) BY <2>5, <3>1, <3>3
      <4>2. t.batch.b = f.b BY <2>13, <3>1
      <4> QED BY <1>7, <4>1, <4>2, Torn DEF f
    <3> QED BY <2>8, <3>2, <3>3
  <2>15. ASSUME h.type = FULL PROVE ~s.inRecord /\ Splitting(disk, AfterFull(s, h), o)
    <3>1. Begins(f) /\ Ends(f) /\ ~s.inRecord BY <2>10, <2>11, <2>15
    <3>2. AfterFull(s, h) \in Iterator BY <2>6, FullAdvances DEF Advance, Sound
    <3>3. AfterFull(s, h).pc = "batch" /\ Behind(s, AfterFull(s, h), h, joined)
      BY <2>7, <3>1, FullFields DEF joined
    <3> QED BY <2>14, <3>1, <3>2, <3>3
  <2>16. ASSUME h.type = FIRST PROVE ~s.inRecord /\ Reading(disk, AfterFirst(s, h), o)
    <3>1. Begins(f) /\ ~Ends(f) /\ ~s.inRecord BY <2>10, <2>11, <2>16
    <3>2. AfterFirst(s, h) \in Iterator BY <2>6, FirstAdvances DEF Advance, Sound
    <3>3. AfterFirst(s, h).inRecord /\ Behind(s, AfterFirst(s, h), h, joined)
      BY <2>7, <3>1, FirstFields DEF joined
    <3> QED BY <2>14, <3>1, <3>2, <3>3
  <2>17. ASSUME h.type = MIDDLE PROVE s.inRecord /\ Reading(disk, AfterMiddle(s, h), o)
    <3>1. ~Begins(f) /\ ~Ends(f) /\ s.inRecord BY <2>10, <2>11, <2>17
    <3>2. AfterMiddle(s, h) \in Iterator BY <2>6, MiddleAdvances DEF Advance, Sound
    <3>3. AfterMiddle(s, h).inRecord /\ Behind(s, AfterMiddle(s, h), h, joined)
      BY <2>7, <3>1, MiddleFields DEF joined
    <3> QED BY <2>14, <3>1, <3>2, <3>3
  <2>18. ASSUME h.type = LAST PROVE s.inRecord /\ Splitting(disk, AfterLast(s, h), o)
    <3>1. ~Begins(f) /\ Ends(f) /\ s.inRecord BY <2>10, <2>11, <2>18
    <3>2. AfterLast(s, h) \in Iterator BY <2>6, LastAdvances DEF Advance, Sound
    <3>3. AfterLast(s, h).pc = "batch" /\ Behind(s, AfterLast(s, h), h, joined)
      BY <2>7, <3>1, LastFields DEF joined
    <3> QED BY <2>14, <3>1, <3>2, <3>3
  <2> QED BY <2>9, <2>15, <2>16, <2>17, <2>18
<1>8. ZERO \notin {FULL, FIRST, MIDDLE, LAST} BY DEF ZERO, FULL, FIRST, MIDDLE, LAST
<1> QED BY <1>4, <1>5, <1>6, <1>7, <1>8 DEF Reading, p

(***************************************************************************)
(* One step of LogFile.__iter__                                            *)
(***************************************************************************)

\* The records of a batch lie between its header and its end.
LEMMA RecordsInside ==
  ASSUME NEW recs \in Seq(WrittenRecord), NEW n \in Nat, Laid(recs, n), NEW i \in 0..Len(recs)
  PROVE  /\ RecordsEnd(recs, i) \in Nat /\ RecordsEnd(recs, i) <= n /\ BatchHeader <= n
         /\ i < Len(recs) =>
              /\ recs[i + 1] \in WrittenRecord
              /\ recs[i + 1].pos = RecordsEnd(recs, i)
              /\ RecordsEnd(recs, i + 1) =
                   recs[i + 1].pos + RecordSize(recs[i + 1].state, recs[i + 1].klen, recs[i + 1].vlen)
              /\ RecordsEnd(recs, i + 1) <= n
<1>1. Len(recs) \in Nat /\ \A l \in 1..Len(recs) : recs[l] \in WrittenRecord OBVIOUS
<1>2. ASSUME NEW l \in 1..Len(recs)
      PROVE  /\ recs[l].pos \in Nat /\ l # 0
             /\ RecordSize(recs[l].state, recs[l].klen, recs[l].vlen) \in Nat
             /\ RecordsEnd(recs, l) =
                  recs[l].pos + RecordSize(recs[l].state, recs[l].klen, recs[l].vlen)
             /\ RecordsEnd(recs, l) \in Nat /\ RecordsEnd(recs, l) <= n
             /\ recs[l].pos = RecordsEnd(recs, l - 1)
  <2>1. recs[l] \in WrittenRecord /\ l # 0 BY <1>1
  <2>2. /\ recs[l].pos \in Nat /\ RecordSize(recs[l].state, recs[l].klen, recs[l].vlen) \in Nat
    BY <2>1 DEF WrittenRecord, RecordSize
  <2>3. RecordsEnd(recs, l) =
          recs[l].pos + RecordSize(recs[l].state, recs[l].klen, recs[l].vlen)
    BY <2>1 DEF RecordsEnd
  <2>4. RecordsEnd(recs, l) <= n /\ recs[l].pos = RecordsEnd(recs, l - 1) BY DEF Laid
  <2> QED BY <2>1, <2>2, <2>3, <2>4
<1>3. RecordsEnd(recs, 0) = BatchHeader BY DEF RecordsEnd
<1>4. BatchHeader <= n
  <2>1. CASE Len(recs) = 0 BY <1>3, <2>1, Sizes DEF Laid
  <2>2. CASE Len(recs) # 0
    <3>1. 1 \in 1..Len(recs) /\ 1 - 1 = 0 BY <1>1, <2>2
    <3>2. recs[1].pos = RecordsEnd(recs, 0) BY <1>2, <3>1
    <3> QED BY <1>2, <1>3, <3>1, <3>2, Sizes
  <2> QED BY <2>1, <2>2
<1>5. RecordsEnd(recs, i) \in Nat /\ RecordsEnd(recs, i) <= n
  <2>1. CASE i = 0 BY <1>3, <1>4, <2>1, Sizes
  <2>2. CASE i # 0
    <3>1. i \in 1..Len(recs) BY <2>2
    <3> QED BY <1>2, <3>1
  <2> QED BY <2>1, <2>2
<1>6. ASSUME i < Len(recs)
      PROVE  /\ recs[i + 1] \in WrittenRecord
             /\ recs[i + 1].pos = RecordsEnd(recs, i)
             /\ RecordsEnd(recs, i + 1) =
                  recs[i + 1].pos + RecordSize(recs[i + 1].state, recs[i + 1].klen, recs[i + 1].vlen)
             /\ RecordsEnd(recs, i + 1) <= n
  <2>1. i + 1 \in 1..Len(recs) /\ (i + 1) - 1 = i BY <1>6
  <2> QED BY <1>1, <1>2, <2>1
<1> QED BY <1>4, <1>5, <1>6

\* The batch in hand.
LEMMA InHand ==
  ASSUME TypeInv, Layout(disk), NEW s \in Iterator, NEW o, Splitting(disk, s, o)
  PROVE  /\ s.batch.b \in 1..Len(batches) /\ s.batch.b \in Nat /\ s.batch.b # -1
         /\ s.batch.b - 1 \in Nat /\ (s.batch.b - 1) + 1 = s.batch.b
         /\ batches[s.batch.b] \in Batch
         /\ batches[s.batch.b].recs \in Seq(WrittenRecord)
         /\ Len(batches[s.batch.b].recs) \in Nat \ {0}
         /\ batches[s.batch.b].size \in Nat
         /\ Laid(batches[s.batch.b].recs, batches[s.batch.b].size)
         /\ BatchHeader <= batches[s.batch.b].size
         /\ disk.batches[s.batch.b] = batches[s.batch.b]
<1>1. s.batch.b \in DOMAIN batches /\ batches \in Seq(Batch)
  BY Disk DEF Splitting, TypeInv, TypeOK
<1>2. s.batch.b \in 1..Len(batches) /\ batches[s.batch.b] \in Batch BY <1>1
<1>3. batches[s.batch.b].recs \in Seq(WrittenRecord) /\ batches[s.batch.b].size \in Nat
  BY <1>2 DEF Batch
<1>4. batches[s.batch.b].recs # <<>> /\ Laid(batches[s.batch.b].recs, batches[s.batch.b].size)
  BY <1>1, Disk DEF Layout, BatchesLaid
<1>5. Len(batches[s.batch.b].recs) \in Nat \ {0} BY <1>3, <1>4
<1>6. BatchHeader <= batches[s.batch.b].size
  <2>1. 0 \in 0..Len(batches[s.batch.b].recs) BY <1>5
  <2> QED BY <1>3, <1>4, <2>1, RecordsInside
<1> QED BY <1>2, <1>3, <1>4, <1>5, <1>6, Disk

\* A batch that is there with every byte is read as it was written.
LEMMA WholeRecord ==
  ASSUME TypeInv, Layout(disk), NEW s \in Iterator, NEW o, Splitting(disk, s, o),
         HasWhole(disk, s, o), s.pc = "rec", s.i < s.count
  PROVE  /\ ~OutOfBatch(s) /\ Yielded(s).intact
         /\ RecordEnd(s) = RecordsEnd(batches[s.batch.b].recs, s.i + 1)
<1> DEFINE recs == batches[s.batch.b].recs
           n == batches[s.batch.b].size
           rec == recs[s.i + 1]
<1>1. /\ recs \in Seq(WrittenRecord) /\ n \in Nat /\ Laid(recs, n) /\ s.batch.b # -1
      /\ Len(recs) \in Nat
  BY InHand
<1>2. s.batch.m = n /\ s.batch.z = 0 /\ s.count = Len(recs) /\ s.at = RecordsEnd(recs, s.i)
  BY InHand DEF HasWhole
<1>3. s.i \in 0..Len(recs) /\ s.i < Len(recs) BY <1>1, <1>2 DEF Iterator
<1>4. BatchLen(s) = n BY <1>1, <1>2 DEF BatchLen, Length
<1> HIDE DEF recs, n, rec
<1>5. /\ rec \in WrittenRecord /\ rec.pos = s.at /\ s.at \in Nat
      /\ RecordsEnd(recs, s.i + 1) = s.at + RecordSize(rec.state, rec.klen, rec.vlen)
      /\ s.at + RecordSize(rec.state, rec.klen, rec.vlen) <= n
  BY <1>1, <1>2, <1>3, RecordsInside DEF rec
<1>6. rec.state \in {DELETED, LIVE} /\ rec.klen \in Nat /\ rec.vlen \in Nat
  BY <1>5 DEF WrittenRecord
<1>7. RecordSize(rec.state, rec.klen, rec.vlen) =
        IF rec.state = DELETED THEN 2 + rec.klen ELSE 3 + rec.klen + rec.vlen
  BY DEF RecordSize
<1>8. s.at + 2 + rec.klen <= n /\ (rec.state # DELETED => s.at + 3 + rec.klen + rec.vlen <= n)
  <2>1. CASE rec.state = DELETED BY <1>1, <1>5, <1>6, <1>7, <2>1
  <2>2. CASE rec.state # DELETED BY <1>1, <1>5, <1>6, <1>7, <2>2
  <2> QED BY <2>1, <2>2
<1>17. rec = batches[s.batch.b].recs[s.i + 1] BY DEF rec, recs
<1>18. s.at < s.batch.m /\ s.at + 1 < s.batch.m BY <1>1, <1>2, <1>5, <1>6, <1>8
<1>9. StateAt(s) = rec.state BY <1>17, <1>18 DEF StateAt
<1>10. KeyLenAt(s) = rec.klen BY <1>17, <1>18 DEF KeyLenAt
<1>11. KeyRead(s) = rec.klen
  BY <1>1, <1>4, <1>5, <1>6, <1>8, <1>10 DEF KeyRead, Smaller
<1>12. rec.state # DELETED => ValLenAt(s) = rec.vlen
  <2> SUFFICES ASSUME rec.state # DELETED PROVE ValLenAt(s) = rec.vlen OBVIOUS
  <2>1. s.at + 2 + KeyRead(s) < s.batch.m BY <1>1, <1>2, <1>5, <1>6, <1>8, <1>11
  <2> QED BY <1>17, <2>1 DEF ValLenAt
<1>13. rec.state # DELETED => ValRead(s) = rec.vlen
  BY <1>1, <1>4, <1>5, <1>6, <1>8, <1>9, <1>11, <1>12 DEF ValRead, Smaller
<1>14. RecordEnd(s) = s.at + RecordSize(rec.state, rec.klen, rec.vlen)
  <2>1. CASE rec.state = DELETED
    BY <1>5, <1>6, <1>7, <1>9, <1>11, <2>1 DEF RecordEnd, ValRead
  <2>2. CASE rec.state # DELETED
    BY <1>5, <1>6, <1>7, <1>9, <1>11, <1>13, <2>2 DEF RecordEnd
  <2> QED BY <2>1, <2>2
<1>15. ~OutOfBatch(s)
  BY <1>1, <1>4, <1>5, <1>6, <1>8, <1>9, <1>11 DEF OutOfBatch
<1>16. Yielded(s).intact
  BY <1>1, <1>2, <1>5 DEF Yielded, rec, recs, n
<1> QED BY <1>5, <1>14, <1>15, <1>16 DEF recs

\* ParseBatch: a batch without a header was torn; the count is that of the batch.
LEMMA BatchParsed ==
  ASSUME TypeInv, Layout(disk), NEW s \in Iterator, NEW o, Splitting(disk, s, o), s.pc = "batch"
  PROVE  /\ BatchLen(s) < BatchHeader => Reading(disk, [s EXCEPT !.pc = "frag"], o)
         /\ \A n \in Counts(s.batch) :
              Splitting(disk, [s EXCEPT !.pc = "rec", !.at = BatchHeader, !.count = n, !.i = 0], o)
<1>1. /\ s.batch.b - 1 \in Nat /\ s.batch.b # -1 /\ batches[s.batch.b].size \in Nat
      /\ BatchHeader <= batches[s.batch.b].size
      /\ disk.batches[s.batch.b] = batches[s.batch.b]
      /\ Len(batches[s.batch.b].recs) \in Nat
  BY InHand
<1>2. Taken(s) = 0 /\ History(disk.batches, o, s.batch.b - 1, 0) BY DEF Splitting, Taken
<1>3. HasWhole(disk, s, o) => s.batch.m = batches[s.batch.b].size /\ s.batch.z = 0
  BY <1>1 DEF HasWhole
<1>4. ASSUME BatchLen(s) < BatchHeader PROVE Reading(disk, [s EXCEPT !.pc = "frag"], o)
  <2> DEFINE t == [s EXCEPT !.pc = "frag"]
  <2>1. t.pc = "frag" /\ t.idx = s.idx /\ t.tell = s.tell BY DEF Iterator
  <2>2. Reached(t) = Reached(s) BY <2>1 DEF Reached
  <2> HIDE DEF t
  <2>3. ~HasWhole(disk, s, o) BY <1>1, <1>3, <1>4, Sizes DEF BatchLen, Length
  <2>4. Sealed(disk, Reached(t), s.batch.b - 1) BY <2>2, <2>3 DEF Splitting
  <2>5. Reading(disk, t, o) BY <1>1, <1>2, <2>4, ReadingSealed
  <2> QED BY <2>5 DEF t
<1>5. ASSUME NEW n \in Counts(s.batch)
      PROVE  Splitting(disk, [s EXCEPT !.pc = "rec", !.at = BatchHeader, !.count = n, !.i = 0], o)
  <2> DEFINE t == [s EXCEPT !.pc = "rec", !.at = BatchHeader, !.count = n, !.i = 0]
  <2>1. /\ t.pc = "rec" /\ t.idx = s.idx /\ t.tell = s.tell /\ t.batch = s.batch
        /\ t.at = BatchHeader /\ t.count = n /\ t.i = 0
    BY DEF Iterator
  <2> HIDE DEF t
  <2>2. Reached(t) = Reached(s) BY <2>1 DEF Reached
  <2>3. Taken(t) = 0 BY <2>1 DEF Taken
  <2>4. ASSUME HasWhole(disk, s, o) PROVE HasWhole(disk, t, o)
    <3>1. s.batch.m >= BatchHeader BY <1>1, <1>3, <2>4
    <3>2. n = Len(batches[s.batch.b].recs) BY <1>1, <3>1 DEF Counts
    <3>3. RecordsEnd(batches[s.batch.b].recs, 0) = BatchHeader BY DEF RecordsEnd
    <3> QED BY <1>1, <1>2, <2>1, <2>2, <2>3, <2>4, <3>2, <3>3 DEF HasWhole
  <2> QED BY <1>2, <2>1, <2>2, <2>3, <2>4 DEF Splitting, t
<1> QED BY <1>4, <1>5

\* EndBatch: a whole batch has been yielded, or a torn one came to its end.
LEMMA BatchLeft ==
  ASSUME TypeInv, Layout(disk), NEW s \in Iterator, Sound(s), NEW o \in Seq(YieldedRecord),
         Splitting(disk, s, o), s.pc = "rec", s.i = s.count \/ OutOfBatch(s)
  PROVE  Reading(disk, [s EXCEPT !.pc = "frag"], o)
<1> DEFINE t == [s EXCEPT !.pc = "frag"]
           b == s.batch.b
<1>1. /\ t.pc = "frag" /\ t.idx = s.idx /\ t.tell = s.tell /\ t.inRecord = s.inRecord
      /\ s.i \in Nat
  BY DEF Iterator
<1>2. Reached(t) = Reached(s) BY <1>1 DEF Reached
<1>3. ~t.inRecord BY <1>1 DEF Sound, Ahead
<1>4. /\ b - 1 \in Nat /\ (b - 1) + 1 = b /\ b \in Nat /\ disk.batches[b] = batches[b]
      /\ Len(batches[b].recs) \in Nat \ {0}
  BY InHand
<1>5. Taken(s) = s.i /\ History(disk.batches, o, b - 1, s.i)
  BY DEF Splitting, Taken
<1> HIDE DEF t, b
<1>6. CASE Sealed(disk, Reached(s), b - 1)
  BY <1>1, <1>2, <1>4, <1>5, <1>6, ReadingSealed DEF t
<1>7. CASE HasWhole(disk, s, o)
  <2>1. s.i <= s.count /\ s.count = Len(batches[b].recs) BY <1>4, <1>7 DEF HasWhole, b
  <2>2. ~(s.i < s.count)
    <3> SUFFICES ASSUME s.i < s.count PROVE FALSE OBVIOUS
    <3>1. ~OutOfBatch(s) BY <1>7, WholeRecord
    <3>2. s.i = s.count BY <3>1
    <3> QED BY <1>1, <3>2
  <2>3. s.i = Len(batches[b].recs) BY <1>1, <1>4, <2>1, <2>2
  <2>4. Given(o, b, s.i) BY <1>5, <1>7 DEF HasWhole, b
  <2>5. History(disk.batches, o, b, 0)
    <3> DEFINE c == b - 1
    <3>1. c \in Nat /\ c + 1 = b BY <1>4
    <3> HIDE DEF c
    <3>2. /\ Len(disk.batches[c + 1].recs) \in Nat \ {0}
          /\ History(disk.batches, o, c, Len(disk.batches[c + 1].recs))
          /\ Given(o, c + 1, Len(disk.batches[c + 1].recs))
      BY <1>4, <1>5, <2>3, <2>4, <3>1 DEF c
    <3>3. History(disk.batches, o, c + 1, 0) BY <3>1, <3>2, HistoryNext
    <3> QED BY <3>1, <3>3
  <2>6. Before(disk, Reached(t), b) BY <1>2, <1>7 DEF HasWhole, b
  <2>7. CASE Sealed(disk, Reached(t), b) BY <1>4, <2>5, <2>7, ReadingSealed DEF t
  <2>8. ASSUME NEW j \in DOMAIN disk.frags, At(disk.frags[j], Reached(t)),
               Begins(disk.frags[j]), disk.frags[j].b = b + 1
        PROVE  Reading(disk, t, o)
    <3>1. InProgress(t, disk.frags[j]) BY <1>3, <2>8 DEF InProgress
    <3>2. disk.frags[j].b - 1 = b BY <1>4, <2>8
    <3> QED BY <2>5, <2>8, <3>1, <3>2 DEF Reading
  <2> QED BY <2>6, <2>7, <2>8 DEF Before, t
<1> QED BY <1>6, <1>7 DEF Splitting, b, t

\* YieldRecord: the next record of the batch, as it was written if it is whole.
LEMMA RecordYielded ==
  ASSUME TypeInv, Layout(disk), NEW s \in Iterator, Sound(s), NEW o \in Seq(YieldedRecord),
         Splitting(disk, s, o), s.pc = "rec", s.i < s.count, ~OutOfBatch(s)
  PROVE  Splitting(disk, AfterYield(s, RecordEnd(s)), Append(o, Yielded(s)))
<1> DEFINE t == AfterYield(s, RecordEnd(s))
           b == s.batch.b
           y == Yielded(s)
           q == Append(o, y)
<1>1. /\ t.pc = "yield" /\ t.idx = s.idx /\ t.tell = s.tell /\ t.batch = s.batch
      /\ t.at = RecordEnd(s) /\ t.count = s.count /\ t.i = s.i + 1 /\ s.i \in Nat
      /\ s.count \in Nat
  BY DEF AfterYield, Iterator
<1>2. Reached(t) = Reached(s) BY <1>1 DEF Reached
<1>3. /\ b - 1 \in Nat /\ (b - 1) + 1 = b /\ b \in Nat /\ b # -1 /\ disk.batches[b] = batches[b]
  BY InHand
<1>4. History(disk.batches, o, b - 1, s.i) BY DEF Splitting, Taken
<1>5. y \in YieldedRecord /\ y.b = b /\ y.i = s.i
  BY <1>3, RecordFits DEF Yielded
<1>6. Taken(t) = s.i + 1 BY <1>1 DEF Taken
<1> HIDE DEF t, b, y
<1>7. /\ History(disk.batches, q, b - 1, s.i + 1)
      /\ \A a, n : Has(o, a, n) => Has(q, a, n)
      /\ y.intact => Has(q, b, s.i)
  BY <1>1, <1>3, <1>4, <1>5, HistoryYield
<1>8. ASSUME HasWhole(disk, s, o) PROVE HasWhole(disk, t, q)
  <2>1. y.intact /\ RecordEnd(s) = RecordsEnd(batches[b].recs, s.i + 1)
    BY <1>8, WholeRecord DEF y, b
  <2>2. Given(o, b, s.i) BY <1>8 DEF HasWhole, Taken, b
  <2>3. Given(q, b, s.i + 1)
    <3>1. /\ DOMAIN q = 1..Len(o) + 1 /\ DOMAIN o = 1..Len(o) /\ q[Len(o) + 1] = y
          /\ Len(o) \in Nat /\ \A k \in 1..Len(o) : q[k] = o[k]
      BY <1>5
    <3> HIDE DEF q
    <3>2. ASSUME NEW k \in DOMAIN q, q[k].b = b PROVE q[k].intact
      <4>1. CASE k = Len(o) + 1 BY <2>1, <3>1, <4>1
      <4>2. CASE k # Len(o) + 1
        <5>1. k \in DOMAIN o /\ q[k] = o[k] BY <3>1, <4>2
        <5> QED BY <2>2, <3>2, <5>1 DEF Given
      <4> QED BY <4>1, <4>2
    <3>3. ASSUME NEW l \in 0..(s.i + 1) - 1 PROVE Has(q, b, l)
      <4>1. CASE l = s.i BY <1>7, <2>1, <4>1
      <4>2. CASE l # s.i
        <5>1. l \in 0..s.i - 1 BY <1>1, <4>2
        <5> QED BY <1>7, <2>2, <5>1 DEF Given
      <4> QED BY <4>1, <4>2
    <3> QED BY <3>2, <3>3 DEF Given
  <2>4. s.count = Len(batches[b].recs) BY <1>3, <1>8 DEF HasWhole, b
  <2>5. s.i + 1 <= s.count BY <1>1
  <2>6. /\ s.batch.m = disk.batches[b].size /\ s.batch.z = 0 /\ Before(disk, Reached(s), b)
    BY <1>8 DEF HasWhole, b
  <2>7. t.batch.b = b BY <1>1 DEF b
  <2> HIDE DEF q
  <2> QED BY <1>1, <1>2, <1>3, <1>6, <2>1, <2>3, <2>4, <2>5, <2>6, <2>7 DEF HasWhole
<1>9. t.batch.b = b /\ b \in DOMAIN disk.batches BY <1>1 DEF Splitting, b
<1> HIDE DEF q
<1>10. HasWhole(disk, t, q) \/ Sealed(disk, Reached(t), b - 1)
  BY <1>2, <1>8 DEF Splitting, b
<1>11. Splitting(disk, t, q) BY <1>6, <1>7, <1>9, <1>10 DEF Splitting
<1> QED BY <1>11 DEF t, q, y

(***************************************************************************)
(* One step of the system                                                  *)
(***************************************************************************)

\* An iterator that has been started stays so; the file stays as it is.
LEMMA UndisturbedBefore ==
  ASSUME \A q \in Readers : it[q].pc # "new" => it'[q].pc # "new", size' = size, Undisturbed'
  PROVE  Undisturbed
BY DEF Undisturbed

\* An iterator that was never started satisfies its invariant.
LEMMA NotStarted ==
  ASSUME NEW d, NEW cl, NEW s, s.pc = "new"
  PROVE  ChunkInv(d, s) /\ ReaderInv(d, cl, s, <<>>)
BY DEF ChunkInv, ReaderInv, Running, Busy

\* In a file of one block, the stream stands at its end or is about to be read.
LEMMA OneBlockRead ==
  ASSUME Layout(disk), NEW s \in Iterator, size <= BlockSize, s.pc # "chunk"
  PROVE  Expected(disk, s) = size
<1>1. s.idx \in Nat /\ size \in Nat BY Disk DEF Iterator, Layout, DiskType
<1>2. BlockStart(s.idx) \in Nat /\ BlockStart(s.idx + 1) = BlockStart(s.idx) + BlockSize
  BY <1>1, Blocks
<1> QED BY <1>1, <1>2, Disk, Sizes DEF Expected, Smaller

\* Iterator r, at work, goes on to t, with q yielded.
LEMMA GoesOn ==
  ASSUME IInv, OrderInv, NEW r \in Readers, NEW t, NEW q, it[r].pc \in Busy, t.pc # "new",
         it' = [it EXCEPT ![r] = t], out' = [out EXCEPT ![r] = q],
         UNCHANGED <<writer, passes, closed>>,
         Undisturbed =>
           /\ ChunkInv(disk, t) /\ ReaderInv(disk, closed, t, q)
           /\ ~closed /\ t.pc \in Running => fpos' = Expected(disk, t)
           /\ ~closed /\ size <= BlockSize /\ t.pc \notin Busy => fpos' = size
  PROVE  OrderInv'
<1>1. \A p \in Readers : /\ it'[p] = IF p = r THEN t ELSE it[p]
                         /\ out'[p] = IF p = r THEN q ELSE out[p]
  BY DEF IInv, TypeInv, TypeOK
<1>2. disk' = disk /\ size' = size /\ closed' = closed /\ phase' = phase BY DEF disk, writer
<1>3. LayoutInv' BY <1>2 DEF OrderInv, LayoutInv, Appending, WriterAt, writer
<1>4. phase # "up" BY DEF OrderInv, Solo, Busy
<1>5. Solo' BY <1>1, <1>2, <1>4 DEF OrderInv, Solo
<1>6. ASSUME Undisturbed' PROVE ReadersInv'
  <2>1. Undisturbed
    <3>1. \A p \in Readers : it[p].pc # "new" => it'[p].pc # "new" BY <1>1
    <3> QED BY <1>2, <1>6, <3>1, UndisturbedBefore
  <2>2. ReadersInv BY <2>1 DEF OrderInv
  <2>3. \A p \in Readers : ChunkInv(disk', it'[p]) BY <1>1, <1>2, <2>1, <2>2 DEF ReadersInv
  <2>4. \A p \in Readers : ReaderInv(disk', closed', it'[p], out'[p])
    BY <1>1, <1>2, <2>1, <2>2 DEF ReadersInv
  <2>5. ASSUME NEW p \in Readers, ~closed', it'[p].pc \in Running, it'[p].pc = "yield" => Idle'
        PROVE  fpos' = Expected(disk', it'[p])
    <3>1. CASE p = r BY <1>1, <1>2, <2>1, <2>5, <3>1
    <3>2. CASE p # r
      <4>1. it'[p] = it[p] BY <1>1, <3>2
      <4>2. it[p].pc \notin Busy BY <3>2 DEF OrderInv, Solo
      <4>3. it[p].pc = "yield" /\ Idle' BY <2>5, <4>1, <4>2 DEF Running
      <4>4. t.pc \notin Busy BY <1>1, <4>3 DEF Idle
      <4>5. size <= BlockSize
        <5>1. it[p].pc # "new" /\ it[r].pc # "new" BY <4>3 DEF Busy
        <5> QED BY <2>1, <3>2, <5>1 DEF Undisturbed
      <4>6. fpos' = size BY <1>2, <2>1, <2>5, <4>4, <4>5
      <4>7. Expected(disk, it[p]) = size
        <5>1. it[p] \in Iterator BY DEF IInv, TypeInv, TypeOK
        <5>2. Layout(disk) BY DEF OrderInv, LayoutInv
        <5> QED BY <4>3, <4>5, <5>1, <5>2, OneBlockRead
      <4> QED BY <1>2, <4>1, <4>6, <4>7
    <3> QED BY <3>1, <3>2
  <2> QED BY <2>3, <2>4, <2>5 DEF ReadersInv, StreamInv
<1> QED BY <1>3, <1>5, <1>6 DEF OrderInv

\* The same, when r only moves on in its chunk.
LEMMA MovesOn ==
  ASSUME IInv, IInv', OrderInv, NEW r \in Readers, NEW t, NEW q,
         it[r].pc \in Busy \ {"chunk"}, it' = [it EXCEPT ![r] = t], out' = [out EXCEPT ![r] = q],
         UNCHANGED <<writer, fpos, passes, closed>>,
         Undisturbed =>
           \/ t = NextChunk(it[r]) /\ it[r].pc = "frag" /\ Reading(disk, t, q)
           \/ /\ t.idx = it[r].idx /\ t.base = it[r].base /\ t.limit = it[r].limit
              /\ \/ t.pc = "frag" /\ Reading(disk, t, q)
                 \/ t.pc \in {"batch", "rec", "yield"} /\ Splitting(disk, t, q),
         t.pc # "new"
  PROVE  OrderInv'
<1> DEFINE s == it[r]
<1>1. s \in Iterator /\ t \in Iterator
  <2>1. it'[r] = t /\ it'[r] \in Iterator BY DEF IInv, TypeInv, TypeOK
  <2> QED BY <2>1 DEF IInv, TypeInv, TypeOK
<1>2. s.pc \in Busy /\ s.pc \in Running \ {"chunk"} BY DEF Busy, Running
<1>3. UNCHANGED <<writer, passes, closed>> /\ fpos' = fpos OBVIOUS
<1>4. ASSUME Undisturbed
      PROVE  /\ ChunkInv(disk, t) /\ ReaderInv(disk, closed, t, q)
             /\ ~closed /\ t.pc \in Running => fpos' = Expected(disk, t)
             /\ ~closed /\ size <= BlockSize /\ t.pc \notin Busy => fpos' = size
  <2>1. /\ ChunkInv(disk, s) /\ Layout(disk)
        /\ ~closed => fpos = Expected(disk, s)
    <3>1. s.pc # "yield" BY DEF Busy
    <3> QED BY <1>2, <1>4, <3>1 DEF OrderInv, ReadersInv, StreamInv, LayoutInv
  <2>2. ASSUME t = NextChunk(s), s.pc = "frag", Reading(disk, t, q)
        PROVE  /\ ChunkInv(disk, t) /\ ReaderInv(disk, closed, t, q)
               /\ Expected(disk, t) = Expected(disk, s) /\ t.pc \in Busy
    <3>1. t.pc = "chunk" /\ ChunkInv(disk, t) /\ Expected(disk, t) = Expected(disk, s)
      BY <1>1, <2>2, NextChunkIs
    <3> QED BY <2>2, <3>1 DEF ReaderInv, Busy
  <2>3. ASSUME t.idx = s.idx, t.base = s.base, t.limit = s.limit,
               \/ t.pc = "frag" /\ Reading(disk, t, q)
               \/ t.pc \in {"batch", "rec", "yield"} /\ Splitting(disk, t, q)
        PROVE  /\ ChunkInv(disk, t) /\ ReaderInv(disk, closed, t, q)
               /\ Expected(disk, t) = Expected(disk, s)
    <3>1. t.pc \in Running \ {"chunk"} BY <2>3 DEF Running, Busy
    <3>2. ChunkInv(disk, t) /\ Expected(disk, t) = Expected(disk, s)
      BY <1>1, <1>2, <2>1, <2>3, <3>1, SameChunk
    <3>3. ReaderInv(disk, closed, t, q) BY <2>3 DEF ReaderInv
    <3> QED BY <3>2, <3>3
  <2>4. /\ ChunkInv(disk, t) /\ ReaderInv(disk, closed, t, q)
        /\ Expected(disk, t) = Expected(disk, s)
    BY <1>4, <2>2, <2>3
  <2>5. size <= BlockSize => Expected(disk, s) = size BY <1>1, <1>2, <2>1, OneBlockRead
  <2> QED BY <1>3, <2>1, <2>4, <2>5
<1> QED BY <1>2, <1>3, <1>4, GoesOn

\* What a step of r may rely on.
LEMMA AtWork ==
  ASSUME IInv, OrderInv, NEW r \in Readers
  PROVE  /\ TypeInv /\ Layout(disk) /\ it[r] \in Iterator /\ Sound(it[r])
         /\ out[r] \in Seq(YieldedRecord)
         /\ Undisturbed =>
              /\ ChunkInv(disk, it[r])
              /\ it[r].pc \in {"chunk", "frag"} => Reading(disk, it[r], out[r])
              /\ it[r].pc \in {"batch", "rec", "yield"} => Splitting(disk, it[r], out[r])
              /\ ~closed /\ it[r].pc \in Busy => fpos = Expected(disk, it[r])
<1>1. /\ TypeInv /\ it[r] \in Iterator /\ Sound(it[r]) /\ out[r] \in Seq(YieldedRecord)
  BY DEF IInv, TypeInv, TypeOK, OffsetInv, Sound
<1>2. Layout(disk) BY DEF OrderInv, LayoutInv
<1>3. ASSUME Undisturbed
      PROVE  /\ ChunkInv(disk, it[r]) /\ ReaderInv(disk, closed, it[r], out[r])
             /\ ~closed /\ it[r].pc \in Busy => fpos = Expected(disk, it[r])
  BY <1>3 DEF OrderInv, ReadersInv, StreamInv, Running, Busy
<1> QED BY <1>1, <1>2, <1>3 DEF ReaderInv

\* A step between a next() and its answer.
LEMMA StepKeeps ==
  ASSUME IInv, IInv', OrderInv, NEW r \in Readers, Step(r)
  PROVE  OrderInv'
<1> DEFINE s == it[r]
           o == out[r]
<1>1. /\ TypeInv /\ Layout(disk) /\ s \in Iterator /\ Sound(s)
      /\ o \in Seq(YieldedRecord)
      /\ Undisturbed =>
           /\ ChunkInv(disk, s)
           /\ s.pc \in {"chunk", "frag"} => Reading(disk, s, o)
           /\ s.pc \in {"batch", "rec", "yield"} => Splitting(disk, s, o)
           /\ ~closed /\ s.pc \in Busy => fpos = Expected(disk, s)
  BY AtWork
<1>2. fpos \in Nat /\ size \in Nat /\ valid \in Nat BY <1>1 DEF TypeInv, TypeOK
<1>3. out' = out => out' = [out EXCEPT ![r] = o] BY DEF IInv, TypeInv, TypeOK
<1>4. ASSUME ReadChunk(r) PROVE OrderInv'
  <2>1. s.pc = "chunk" /\ s.pc \in Busy /\ UNCHANGED <<writer, passes, closed>>
        /\ out' = [out EXCEPT ![r] = o]
    BY <1>3, <1>4 DEF ReadChunk, Busy
  <2>2. CASE closed
    <3> DEFINE t == [s EXCEPT !.pc = "raised"]
    <3>1. it' = [it EXCEPT ![r] = t] BY <1>4, <2>2 DEF ReadChunk
    <3>2. t.pc = "raised" BY <1>1 DEF Iterator
    <3> HIDE DEF t
    <3>3. ASSUME Undisturbed PROVE ReaderInv(disk, closed, t, o) /\ ChunkInv(disk, t)
      <4>1. \E c, i \in Nat : History(disk.batches, o, c, i)
        <5>1. Reading(disk, s, o) BY <1>1, <2>1, <3>3
        <5>2. \A j \in DOMAIN disk.frags : disk.frags[j].b - 1 \in Nat BY <1>1, DiskFrag
        <5> QED BY <5>1, <5>2 DEF Reading
      <4> QED BY <2>2, <3>2, <4>1 DEF ReaderInv, ChunkInv, Running, Busy
    <3> QED BY <2>1, <2>2, <3>1, <3>2, <3>3, GoesOn
  <2>3. CASE ~closed /\ fpos >= size
    <3> DEFINE t == [s EXCEPT !.pc = "done"]
    <3>1. it' = [it EXCEPT ![r] = t] /\ fpos' = fpos BY <1>4, <2>3 DEF ReadChunk
    <3>2. t.pc = "done" BY <1>1 DEF Iterator
    <3> HIDE DEF t
    <3>3. ASSUME Undisturbed
          PROVE  ReaderInv(disk, closed, t, o) /\ ChunkInv(disk, t) /\ fpos' = size
      <4>1. Reading(disk, s, o) /\ fpos = Expected(disk, s) BY <1>1, <2>1, <2>3, <3>3
      <4>2. \E c, i \in Nat : History(disk.batches, o, c, i) /\ Kept(disk, c)
        <5>1. Expected(disk, s) >= disk.size BY <2>3, <4>1, Disk
        <5> QED BY <1>1, <2>1, <4>1, <5>1, AtEnd
      <4>3. fpos <= size
        <5>1. BlockStart(s.idx) \in Nat BY <1>1, Blocks DEF Iterator
        <5> QED BY <1>2, <2>1, <4>1, <5>1, Disk DEF Expected, Smaller
      <4>4. fpos = size BY <1>2, <2>3, <4>3
      <4> QED BY <3>1, <3>2, <4>2, <4>4 DEF ReaderInv, ChunkInv, Running, Busy
    <3>4. t.pc \notin Running BY <3>2 DEF Running, Busy
    <3> QED BY <2>1, <3>1, <3>2, <3>3, <3>4, GoesOn
  <2>4. CASE ~closed /\ ~(fpos >= size)
    <3> DEFINE n == Smaller(BlockSize, size - fpos)
               t == [s EXCEPT !.base = fpos, !.limit = n, !.tell = 0, !.pc = "frag"]
    <3>1. it' = [it EXCEPT ![r] = t] /\ fpos' = fpos + n BY <1>4, <2>4 DEF ReadChunk
    <3>2. t \in Iterator
      <4>1. it'[r] = t /\ it'[r] \in Iterator BY <3>1 DEF IInv, TypeInv, TypeOK
      <4> QED BY <4>1
    <3>3. t.pc = "frag" BY <1>1 DEF Iterator
    <3>4. ASSUME Undisturbed
          PROVE  /\ ReaderInv(disk, closed, t, o) /\ ChunkInv(disk, t)
                 /\ fpos' = Expected(disk, t)
      <4>1. Reading(disk, s, o) /\ fpos = Expected(disk, s) BY <1>1, <2>1, <2>4, <3>4
      <4>2. fpos < disk.size /\ n = Smaller(BlockSize, disk.size - fpos) BY <1>2, <2>4, Disk
      <4>3. ChunkInv(disk, t) /\ Reading(disk, t, o) /\ fpos + n = Expected(disk, t)
        <5>1. /\ t.base = fpos /\ t.limit = n /\ t.tell = 0 /\ t.pc = "frag" /\ t.idx = s.idx
              /\ t.inRecord = s.inRecord /\ t.batch = s.batch
          BY <1>1 DEF Iterator
        <5> HIDE DEF t, n, s, o
        <5> QED BY <1>1, <2>1, <3>2, <4>1, <4>2, <5>1, ChunkRead
      <4> QED BY <3>1, <3>3, <4>3 DEF ReaderInv
    <3> HIDE DEF t, n
    <3>5. t.pc \in Busy BY <3>3 DEF Busy
    <3> QED BY <2>1, <3>1, <3>3, <3>4, <3>5, GoesOn
  <2> QED BY <2>2, <2>3, <2>4
<1>5. ASSUME EndChunk(r) PROVE OrderInv'
  <2> DEFINE t == NextChunk(s)
  <2>1. /\ s.pc = "frag" /\ s.pc \in Busy \ {"chunk"} /\ it' = [it EXCEPT ![r] = t]
        /\ UNCHANGED <<writer, fpos, passes, closed>> /\ out' = [out EXCEPT ![r] = o]
        /\ ChunkExhausted(s)
    BY <1>3, <1>5 DEF EndChunk, Busy
  <2>2. t.pc # "new" BY <1>1, <2>1, NextChunkIs
  <2>3. Undisturbed => Reading(disk, t, o) BY <1>1, <2>1, ChunkLeft
  <2> HIDE DEF t
  <2> QED BY <2>1, <2>2, <2>3, MovesOn DEF t
<1>6. ASSUME ReadFragment(r) PROVE OrderInv'
  <2>1. /\ s.pc = "frag" /\ s.pc \in Busy \ {"chunk"} /\ ~ChunkExhausted(s)
        /\ UNCHANGED <<writer, fpos, passes, closed>> /\ out' = [out EXCEPT ![r] = o]
    BY <1>3, <1>6 DEF ReadFragment, Busy
  <2>2. PICK h \in Headers(s.base + s.tell) :
          \/ h.type = FULL    /\ it' = [it EXCEPT ![r] = AfterFull(s, h)]
          \/ h.type = FIRST   /\ it' = [it EXCEPT ![r] = AfterFirst(s, h)]
          \/ h.type = MIDDLE  /\ it' = [it EXCEPT ![r] = AfterMiddle(s, h)]
          \/ h.type = LAST    /\ it' = [it EXCEPT ![r] = AfterLast(s, h)]
          \/ h.type = ZERO    /\ it' = [it EXCEPT ![r] = NextChunk(s)]
          \/ h.type = UNKNOWN /\ it' = [it EXCEPT ![r] = Raise(s)]
    BY <1>6 DEF ReadFragment
  <2>3. h \in Header /\ h.b # 0 /\ h.b <= Len(batches)
    <3>1. s.base + s.tell \in Nat BY <1>1 DEF Iterator
    <3> QED BY <1>1, <3>1, HeaderType
  <2>4. DataLen(s, h) \in Nat BY <1>1, <2>1, <2>3, FragmentFacts
  <2>5. PICK t : /\ it' = [it EXCEPT ![r] = t]
                 /\ \/ h.type = FULL    /\ t = AfterFull(s, h)
                    \/ h.type = FIRST   /\ t = AfterFirst(s, h)
                    \/ h.type = MIDDLE  /\ t = AfterMiddle(s, h)
                    \/ h.type = LAST    /\ t = AfterLast(s, h)
                    \/ h.type = ZERO    /\ t = NextChunk(s)
                    \/ h.type = UNKNOWN /\ t = Raise(s)
    BY <2>2
  <2>6. Raise(s).pc # "new" BY <1>1 DEF Raise, Iterator
  <2>7. t.pc # "new"
    <3>1. AfterFull(s, h).pc # "new"
      <4>1. CASE s.inRecord BY <2>6, <4>1 DEF AfterFull
      <4>2. CASE ~s.inRecord BY <1>1, <2>1, <2>4, <4>2, FullFields
      <4> QED BY <4>1, <4>2
    <3>2. AfterFirst(s, h).pc # "new"
      <4>1. CASE s.inRecord BY <2>6, <4>1 DEF AfterFirst
      <4>2. CASE ~s.inRecord BY <1>1, <2>1, <2>4, <4>2, FirstFields
      <4> QED BY <4>1, <4>2
    <3>3. AfterMiddle(s, h).pc # "new"
      <4>1. CASE ~s.inRecord BY <2>6, <4>1 DEF AfterMiddle
      <4>2. CASE s.inRecord BY <1>1, <2>1, <2>4, <4>2, MiddleFields
      <4> QED BY <4>1, <4>2
    <3>4. AfterLast(s, h).pc # "new"
      <4>1. CASE ~s.inRecord BY <2>6, <4>1 DEF AfterLast
      <4>2. CASE s.inRecord BY <1>1, <2>1, <2>4, <4>2, LastFields
      <4> QED BY <4>1, <4>2
    <3>5. NextChunk(s).pc # "new" BY <1>1, <2>1, NextChunkIs
    <3> QED BY <2>5, <2>6, <3>1, <3>2, <3>3, <3>4, <3>5
  <2>8. ASSUME Undisturbed
        PROVE  \/ t = NextChunk(s) /\ s.pc = "frag" /\ Reading(disk, t, o)
               \/ /\ t.idx = s.idx /\ t.base = s.base /\ t.limit = s.limit
                  /\ \/ t.pc = "frag" /\ Reading(disk, t, o)
                     \/ t.pc \in {"batch", "rec", "yield"} /\ Splitting(disk, t, o)
    <3>1. ChunkInv(disk, s) /\ Reading(disk, s, o) BY <1>1, <2>1, <2>8
    <3>2. Reached(s) = s.base + s.tell BY <1>1, <2>1, <3>1, ChunkIs
    <3>3. h \in Headers(Reached(s)) BY <3>2
    <3>4. /\ h.type \in {ZERO, FULL, FIRST, MIDDLE, LAST}
          /\ h.type = ZERO => Reading(disk, NextChunk(s), o)
          /\ h.type = FULL => ~s.inRecord /\ Splitting(disk, AfterFull(s, h), o)
          /\ h.type = FIRST => ~s.inRecord /\ Reading(disk, AfterFirst(s, h), o)
          /\ h.type = MIDDLE => s.inRecord /\ Reading(disk, AfterMiddle(s, h), o)
          /\ h.type = LAST => s.inRecord /\ Splitting(disk, AfterLast(s, h), o)
      BY <1>1, <2>1, <3>1, <3>3, FragmentRead
    <3>5. UNKNOWN \notin {ZERO, FULL, FIRST, MIDDLE, LAST}
      BY DEF UNKNOWN, ZERO, FULL, FIRST, MIDDLE, LAST
    <3>6. CASE h.type = FULL /\ t = AfterFull(s, h)
      BY <1>1, <2>1, <2>4, <3>4, <3>6, FullFields DEF Behind
    <3>7. CASE h.type = FIRST /\ t = AfterFirst(s, h)
      BY <1>1, <2>1, <2>4, <3>4, <3>7, FirstFields DEF Behind
    <3>8. CASE h.type = MIDDLE /\ t = AfterMiddle(s, h)
      BY <1>1, <2>1, <2>4, <3>4, <3>8, MiddleFields DEF Behind
    <3>9. CASE h.type = LAST /\ t = AfterLast(s, h)
      BY <1>1, <2>1, <2>4, <3>4, <3>9, LastFields DEF Behind
    <3>10. CASE h.type = ZERO /\ t = NextChunk(s) BY <2>1, <3>4, <3>10
    <3> QED BY <2>5, <3>4, <3>5, <3>6, <3>7, <3>8, <3>9, <3>10
  <2> QED BY <2>1, <2>5, <2>7, <2>8, MovesOn
<1>7. ASSUME ParseBatch(r) PROVE OrderInv'
  <2>1. /\ s.pc = "batch" /\ s.pc \in Busy \ {"chunk"}
        /\ UNCHANGED <<writer, fpos, passes, closed>> /\ out' = [out EXCEPT ![r] = o]
    BY <1>3, <1>7 DEF ParseBatch, Busy
  <2>2. CASE BatchLen(s) < BatchHeader
    <3> DEFINE t == [s EXCEPT !.pc = "frag"]
    <3>1. it' = [it EXCEPT ![r] = t] BY <1>7, <2>2 DEF ParseBatch
    <3>2. t.pc = "frag" /\ t.idx = s.idx /\ t.base = s.base /\ t.limit = s.limit
      BY <1>1 DEF Iterator
    <3>3. Undisturbed => Reading(disk, t, o) BY <1>1, <2>1, <2>2, BatchParsed
    <3> HIDE DEF t
    <3> QED BY <2>1, <3>1, <3>2, <3>3, MovesOn
  <2>3. CASE ~(BatchLen(s) < BatchHeader)
    <3>1. PICK n \in Counts(s.batch) :
            it' = [it EXCEPT ![r] = [s EXCEPT !.pc = "rec", !.at = BatchHeader,
                                              !.count = n, !.i = 0]]
      BY <1>7, <2>3 DEF ParseBatch
    <3> DEFINE t == [s EXCEPT !.pc = "rec", !.at = BatchHeader, !.count = n, !.i = 0]
    <3>2. t.pc = "rec" /\ t.idx = s.idx /\ t.base = s.base /\ t.limit = s.limit
      BY <1>1 DEF Iterator
    <3>3. Undisturbed => Splitting(disk, t, o) BY <1>1, <2>1, BatchParsed
    <3>4. it' = [it EXCEPT ![r] = t] BY <3>1
    <3> HIDE DEF t
    <3> QED BY <2>1, <3>2, <3>3, <3>4, MovesOn
  <2> QED BY <2>2, <2>3
<1>8. ASSUME EndBatch(r) PROVE OrderInv'
  <2> DEFINE t == [s EXCEPT !.pc = "frag"]
  <2>1. /\ s.pc = "rec" /\ s.pc \in Busy \ {"chunk"} /\ it' = [it EXCEPT ![r] = t]
        /\ UNCHANGED <<writer, fpos, passes, closed>> /\ out' = [out EXCEPT ![r] = o]
        /\ s.i = s.count \/ OutOfBatch(s)
    BY <1>3, <1>8 DEF EndBatch, Busy
  <2>2. t.pc = "frag" /\ t.idx = s.idx /\ t.base = s.base /\ t.limit = s.limit
    BY <1>1 DEF Iterator
  <2>3. Undisturbed => Reading(disk, t, o) BY <1>1, <2>1, BatchLeft
  <2> HIDE DEF t
  <2> QED BY <2>1, <2>2, <2>3, MovesOn
<1>9. ASSUME YieldRecord(r) PROVE OrderInv'
  <2> DEFINE t == AfterYield(s, RecordEnd(s))
             q == Append(o, Yielded(s))
  <2>1. /\ s.pc = "rec" /\ s.pc \in Busy \ {"chunk"} /\ it' = [it EXCEPT ![r] = t]
        /\ UNCHANGED <<writer, fpos, passes, closed>> /\ out' = [out EXCEPT ![r] = q]
        /\ s.i < s.count /\ ~OutOfBatch(s)
    BY <1>9 DEF YieldRecord, Busy
  <2>2. t.pc = "yield" /\ t.idx = s.idx /\ t.base = s.base /\ t.limit = s.limit
    BY <1>1 DEF Iterator, AfterYield
  <2>3. Undisturbed => Splitting(disk, t, q) BY <1>1, <2>1, RecordYielded
  <2> HIDE DEF t, q
  <2> QED BY <2>1, <2>2, <2>3, MovesOn
<1>10. ASSUME YieldGarbage(r) PROVE OrderInv'
  <2>1. /\ s.pc = "rec" /\ s.pc \in Busy \ {"chunk"} /\ s.batch.b = -1
        /\ UNCHANGED <<writer, fpos, passes, closed>>
    BY <1>10 DEF YieldGarbage, Busy
  <2>2. ~Undisturbed
    <3> SUFFICES ASSUME Undisturbed PROVE FALSE OBVIOUS
    <3>1. Splitting(disk, s, o) BY <1>1, <2>1
    <3> QED BY <1>1, <2>1, <3>1, InHand
  <2>3. PICK t, q : it' = [it EXCEPT ![r] = t] /\ out' = [out EXCEPT ![r] = q] /\ t.pc # "new"
    <3>1. ASSUME NEW end, it' = [it EXCEPT ![r] = AfterYield(s, end)],
                 out' = [out EXCEPT ![r] = Append(@, GarbageRecord(s))]
          PROVE  \E t, q : /\ it' = [it EXCEPT ![r] = t] /\ out' = [out EXCEPT ![r] = q]
                           /\ t.pc # "new"
      <4>1. AfterYield(s, end).pc # "new" BY <1>1 DEF AfterYield, Iterator
      <4> QED BY <3>1, <4>1
    <3>2. ASSUME NEW pc \in {"frag", "raised"}, it' = [it EXCEPT ![r].pc = pc], out' = out
          PROVE  \E t, q : /\ it' = [it EXCEPT ![r] = t] /\ out' = [out EXCEPT ![r] = q]
                           /\ t.pc # "new"
      <4> DEFINE t == [s EXCEPT !.pc = pc]
      <4>1. it' = [it EXCEPT ![r] = t] BY <3>2
      <4>2. t.pc # "new" BY <1>1 DEF Iterator
      <4> QED BY <1>3, <3>2, <4>1, <4>2
    <3> QED BY <1>10, <3>1, <3>2 DEF YieldGarbage
  <2> QED BY <2>1, <2>2, <2>3, MovesOn
<1> QED BY <1>4, <1>5, <1>6, <1>7, <1>8, <1>9, <1>10 DEF Step

\* next() of a new iterator, which reads from the start of the file.
LEMMA StartKeeps ==
  ASSUME ~LiveWriter, IInv, OrderInv, NEW r \in Readers, Start(r)
  PROVE  OrderInv'
<1> DEFINE t == [Fresh EXCEPT !.pc = IF closed THEN "raised" ELSE "chunk"]
<1>1. /\ t.pc = IF closed THEN "raised" ELSE "chunk"
      /\ t.idx = 0 /\ t.tell = 0 /\ ~t.inRecord
  BY DEF Fresh
<1>2. /\ it' = [it EXCEPT ![r] = t] /\ out' = [out EXCEPT ![r] = <<>>]
      /\ fpos' = (IF closed THEN fpos ELSE 0) /\ Idle /\ phase # "up"
      /\ UNCHANGED <<writer, closed>>
  <2>1. /\ it' = [it EXCEPT ![r] = t] /\ out' = [out EXCEPT ![r] = <<>>]
        /\ fpos' = (IF closed THEN fpos ELSE 0) /\ Idle
        /\ phase = "down" \/ LiveWriter
        /\ UNCHANGED <<writer, closed>>
    BY DEF Start
  <2> QED BY <2>1
<1> HIDE DEF t
<1>3. \A p \in Readers : /\ it'[p] = IF p = r THEN t ELSE it[p]
                         /\ out'[p] = IF p = r THEN <<>> ELSE out[p]
  BY <1>2 DEF IInv, TypeInv, TypeOK
<1>4. disk' = disk /\ size' = size /\ closed' = closed /\ phase' = phase
  BY <1>2 DEF disk, writer
<1>5. LayoutInv' BY <1>2, <1>4 DEF OrderInv, LayoutInv, Appending, WriterAt, writer
<1>6. Solo' BY <1>2, <1>3, <1>4 DEF Solo, Idle
<1>7. Layout(disk) BY DEF OrderInv, LayoutInv
<1>8. Reached(t) = 0
  <2>1. 0 * BlockSize = 0 BY Sizes
  <2> QED BY <1>1, <2>1 DEF Reached
<1>9. History(disk.batches, <<>>, 0, 0) BY HistoryStart
\* in front of the first fragment, or of none
<1>10. Reading(disk, t, <<>>)
  <2>1. CASE disk.frags = <<>>
    <3>1. disk.valid = 0
      <4>1. disk.size <= 0 /\ disk.valid <= disk.size /\ disk.valid \in Nat /\ disk.size \in Nat
        BY <1>7, <2>1 DEF Layout, DiskType, Written
      <4> QED BY <4>1
    <3>2. Sealed(disk, Reached(t), 0)
      <4>1. Kept(disk, 0) BY <2>1 DEF Kept
      <4>2. 0 + HeaderSize > 0 BY Sizes
      <4> QED BY <1>8, <3>1, <4>1, <4>2 DEF Sealed
    <3> QED BY <1>9, <3>2, ReadingSealed
  <2>2. CASE disk.frags # <<>>
    <3>1. 1 \in DOMAIN disk.frags BY <1>7, <2>2 DEF Layout, DiskType
    <3>2. /\ disk.frags[1].start = 0 /\ Begins(disk.frags[1]) /\ disk.frags[1].b = 1
      BY <1>7, <2>2 DEF Layout, FragsLaid
    <3>3. At(disk.frags[1], Reached(t)) /\ InProgress(t, disk.frags[1])
      BY <1>1, <1>8, <3>2 DEF At, InProgress
    <3>4. History(disk.batches, <<>>, disk.frags[1].b - 1, 0) BY <1>9, <3>2
    <3> QED BY <3>1, <3>3, <3>4 DEF Reading
  <2> QED BY <2>1, <2>2
<1>11. ChunkInv(disk, t) /\ ReaderInv(disk, closed, t, <<>>)
  BY <1>1, <1>9, <1>10 DEF ChunkInv, ReaderInv, Running, Busy
<1>12. ASSUME Undisturbed' PROVE ReadersInv'
  <2>1. Undisturbed
    <3>1. \A p \in Readers : it[p].pc # "new" => it'[p].pc # "new" BY <1>1, <1>3
    <3> QED BY <1>4, <1>12, <3>1, UndisturbedBefore
  <2>2. ReadersInv BY <2>1 DEF OrderInv
  <2>3. \A p \in Readers : ChunkInv(disk', it'[p]) BY <1>3, <1>4, <1>11, <2>2 DEF ReadersInv
  <2>4. \A p \in Readers : ReaderInv(disk', closed', it'[p], out'[p])
    BY <1>3, <1>4, <1>11, <2>2 DEF ReadersInv
  <2>5. ASSUME NEW p \in Readers, ~closed', it'[p].pc \in Running, it'[p].pc = "yield" => Idle'
        PROVE  fpos' = Expected(disk', it'[p])
    <3>1. ~closed /\ t.pc = "chunk" /\ fpos' = 0 BY <1>1, <1>2, <1>4, <2>5
    <3>2. ~Idle' BY <1>3, <3>1 DEF Idle, Busy
    <3>3. p = r
      <4> SUFFICES ASSUME p # r PROVE FALSE OBVIOUS
      <4>1. it'[p] = it[p] /\ it[p].pc \notin Busy BY <1>2, <1>3 DEF Idle
      <4> QED BY <2>5, <3>2, <4>1 DEF Running
    <3>4. Expected(disk, t) = 0
      <4>1. Expected(disk, t) = Smaller(0, disk.size) BY <1>1, <3>1, Blocks DEF Expected
      <4> QED BY <1>7, <4>1 DEF Layout, DiskType, Smaller
    <3> QED BY <1>3, <1>4, <3>1, <3>3, <3>4
  <2> QED BY <2>3, <2>4, <2>5 DEF ReadersInv, StreamInv
<1> QED BY <1>5, <1>6, <1>12 DEF OrderInv

\* next() on a suspended iterator.
LEMMA ResumeKeeps ==
  ASSUME IInv, OrderInv, NEW r \in Readers, Resume(r)
  PROVE  OrderInv'
<1> DEFINE s == it[r]
           t == [s EXCEPT !.pc = "rec"]
<1>1. s \in Iterator /\ out \in [Readers -> Seq(YieldedRecord)]
  BY DEF IInv, TypeInv, TypeOK
<1>2. /\ t.pc = "rec" /\ t.idx = s.idx /\ t.tell = s.tell /\ t.base = s.base
      /\ t.limit = s.limit /\ t.batch = s.batch /\ t.i = s.i /\ t.at = s.at
      /\ t.count = s.count
  BY <1>1 DEF Iterator
<1>3. /\ it' = [it EXCEPT ![r] = t] /\ Idle /\ s.pc = "yield" /\ fpos' = fpos
      /\ UNCHANGED <<writer, closed, out>>
  BY DEF Resume
<1> HIDE DEF t
<1>4. \A p \in Readers : it'[p] = IF p = r THEN t ELSE it[p]
  BY <1>3 DEF IInv, TypeInv, TypeOK
<1>5. disk' = disk /\ size' = size /\ closed' = closed /\ phase' = phase /\ out' = out
  BY <1>3 DEF disk, writer
<1>6. LayoutInv' BY <1>3, <1>5 DEF OrderInv, LayoutInv, Appending, WriterAt, writer
<1>7. Solo'
  <2>1. phase # "up" BY <1>3 DEF OrderInv, Solo
  <2> QED BY <1>3, <1>4, <1>5, <2>1 DEF Solo, Idle
<1>8. ASSUME Undisturbed' PROVE ReadersInv'
  <2>1. Undisturbed
    <3>1. \A p \in Readers : it[p].pc # "new" => it'[p].pc # "new" BY <1>2, <1>4
    <3> QED BY <1>5, <1>8, <3>1, UndisturbedBefore
  <2>2. ReadersInv BY <2>1 DEF OrderInv
  <2>3. ChunkInv(disk, t) /\ Expected(disk, t) = Expected(disk, s)
    BY <1>2, <1>3, <2>2 DEF ReadersInv, ChunkInv, Expected, Running, Busy
  <2>4. ReaderInv(disk, closed, t, out[r])
    <3>1. Splitting(disk, s, out[r]) BY <1>3, <2>2 DEF ReadersInv, ReaderInv
    <3>2. Reached(t) = Reached(s) /\ Taken(t) = Taken(s) BY <1>2, <1>3 DEF Reached, Taken
    <3>3. HasWhole(disk, s, out[r]) => HasWhole(disk, t, out[r])
      BY <1>2, <1>3, <3>2 DEF HasWhole
    <3>4. Splitting(disk, t, out[r]) BY <1>2, <3>1, <3>2, <3>3 DEF Splitting
    <3> QED BY <1>2, <3>4 DEF ReaderInv
  <2>5. \A p \in Readers : ChunkInv(disk', it'[p]) BY <1>4, <1>5, <2>2, <2>3 DEF ReadersInv
  <2>6. \A p \in Readers : ReaderInv(disk', closed', it'[p], out'[p])
    BY <1>4, <1>5, <2>2, <2>4 DEF ReadersInv
  <2>7. ASSUME NEW p \in Readers, ~closed', it'[p].pc \in Running, it'[p].pc = "yield" => Idle'
        PROVE  fpos' = Expected(disk', it'[p])
    <3>1. ~Idle' BY <1>2, <1>4 DEF Idle, Busy
    <3>2. p = r
      <4> SUFFICES ASSUME p # r PROVE FALSE OBVIOUS
      <4>1. it'[p] = it[p] /\ it[p].pc \notin Busy BY <1>3, <1>4 DEF Idle
      <4> QED BY <2>7, <3>1, <4>1 DEF Running
    <3>3. fpos = Expected(disk, s)
      BY <1>3, <1>5, <2>2, <2>7 DEF ReadersInv, StreamInv, Running
    <3> QED BY <1>3, <1>4, <1>5, <2>3, <3>2, <3>3
  <2> QED BY <2>5, <2>6, <2>7 DEF ReadersInv, StreamInv
<1> QED BY <1>6, <1>7, <1>8 DEF OrderInv

\* LogFile.close(): from here on an iterator may raise.
LEMMA CloseKeeps ==
  ASSUME OrderInv, Close
  PROVE  OrderInv'
<1>1. UNCHANGED <<writer, fpos, passes, it, out>> /\ closed' = TRUE BY DEF Close
<1>2. disk' = disk /\ size' = size /\ it' = it /\ out' = out BY <1>1 DEF disk, writer
<1>3. LayoutInv' BY <1>1, <1>2 DEF OrderInv, LayoutInv, Appending, WriterAt, writer
<1>4. Solo' BY <1>1, <1>2 DEF OrderInv, Solo, writer
<1>5. ASSUME Undisturbed' PROVE ReadersInv'
  <2>1. Undisturbed BY <1>2, <1>5 DEF Undisturbed
  <2>2. ReadersInv BY <2>1 DEF OrderInv
  <2>3. \A p \in Readers : ChunkInv(disk', it'[p]) BY <1>2, <2>2 DEF ReadersInv
  <2>4. \A p \in Readers : ReaderInv(disk', closed', it'[p], out'[p])
    <3>1. \A p \in Readers : ReaderInv(disk, closed, it[p], out[p]) BY <2>2 DEF ReadersInv
    <3>2. \A p \in Readers : ReaderInv(disk, TRUE, it[p], out[p]) BY <3>1 DEF ReaderInv
    <3> QED BY <1>1, <1>2, <3>2
  <2>5. StreamInv' BY <1>1 DEF StreamInv
  <2> QED BY <2>3, <2>4, <2>5 DEF ReadersInv
<1> QED BY <1>3, <1>4, <1>5 DEF OrderInv

(***************************************************************************)
(* The browser                                                             *)
(***************************************************************************)

\* Nobody reads while the browser writes.
LEMMA WriterAlone ==
  ASSUME OrderInv, phase = "up", LayoutInv', UNCHANGED <<fpos, passes, closed, it, out>>
  PROVE  OrderInv'
<1>1. \A r \in Readers : it[r].pc = "new" BY DEF OrderInv, Solo
<1>2. ReadersInv BY <1>1 DEF OrderInv, Undisturbed
<1>3. \A r \in Readers : out[r] = <<>> BY <1>1, <1>2 DEF ReadersInv, ReaderInv
<1>4. Solo' BY <1>1 DEF Solo, Busy
<1>5. ReadersInv'
  <2>1. \A r \in Readers : ChunkInv(disk', it'[r]) BY <1>1, NotStarted
  <2>2. \A r \in Readers : ReaderInv(disk', closed', it'[r], out'[r]) BY <1>1, <1>3, NotStarted
  <2>3. StreamInv' BY <1>1 DEF StreamInv, Running, Busy
  <2> QED BY <2>1, <2>2, <2>3 DEF ReadersInv
<1> QED BY <1>4, <1>5 DEF OrderInv

\* Put: one record more behind the others.
LEMMA LaidAppended ==
  ASSUME NEW recs \in Seq(WrittenRecord), NEW n \in Nat, Laid(recs, n),
         NEW rec \in WrittenRecord, rec.pos = n
  PROVE  Laid(Append(recs, rec), n + RecordSize(rec.state, rec.klen, rec.vlen))
<1> DEFINE q == Append(recs, rec)
           l == Len(recs)
           m == n + RecordSize(rec.state, rec.klen, rec.vlen)
<1>1. /\ Len(q) = l + 1 /\ l \in Nat /\ q[l + 1] = rec /\ \A i \in 1..l : q[i] = recs[i]
  OBVIOUS
<1>2. m \in Nat /\ n <= m BY DEF RecordSize, WrittenRecord
<1>3. n = RecordsEnd(recs, l) BY DEF Laid
<1>4. \A i \in 0..l : RecordsEnd(recs, i) \in Nat /\ RecordsEnd(recs, i) <= n
  BY RecordsInside
<1>5. m = n + RecordSize(rec.state, rec.klen, rec.vlen) OBVIOUS
<1> HIDE DEF q, l, m
<1>6. ASSUME NEW i \in 0..l PROVE RecordsEnd(q, i) = RecordsEnd(recs, i)
  <2>1. CASE i = 0 BY <2>1 DEF RecordsEnd
  <2>2. CASE i # 0
    <3>1. i \in 1..l BY <1>1, <2>2
    <3> QED BY <1>1, <2>2, <3>1 DEF RecordsEnd
  <2> QED BY <2>1, <2>2
<1>7. RecordsEnd(q, l + 1) = m
  <2>1. l + 1 # 0 BY <1>1
  <2> QED BY <1>1, <1>5, <2>1 DEF RecordsEnd
<1>8. ASSUME NEW i \in 1..l + 1
      PROVE  q[i].pos = RecordsEnd(q, i - 1) /\ RecordsEnd(q, i) <= m
  <2>1. CASE i = l + 1
    <3>1. i - 1 = l /\ l \in 0..l BY <1>1, <2>1
    <3>2. RecordsEnd(q, i - 1) = n BY <1>3, <1>6, <3>1
    <3> QED BY <1>1, <1>2, <1>7, <2>1, <3>2
  <2>2. CASE i # l + 1
    <3>1. i \in 1..l /\ i \in 0..l /\ i - 1 \in 0..l BY <1>1, <2>2
    <3>2. recs[i].pos = RecordsEnd(recs, i - 1) BY <3>1 DEF Laid, l
    <3>3. RecordsEnd(recs, i) \in Nat /\ RecordsEnd(recs, i) <= n BY <1>4, <3>1
    <3> QED BY <1>1, <1>2, <1>6, <3>1, <3>2, <3>3
  <2> QED BY <2>1, <2>2
<1>9. Laid(q, m) BY <1>1, <1>7, <1>8 DEF Laid
<1> QED BY <1>9 DEF q, m

\* Commit: one batch more.
LEMMA BatchAdded ==
  ASSUME NEW d, NEW e, Layout(d), NEW x \in Batch, x.recs # <<>>, Laid(x.recs, x.size),
         e.frags = d.frags, e.batches = Append(d.batches, x), e.valid = d.valid, e.size = d.size
  PROVE  Layout(e)
<1>1. /\ d.batches \in Seq(Batch) /\ d.frags \in Seq(Fragment)
      /\ \A j \in DOMAIN d.frags : d.frags[j].b \in 1..Len(d.batches)
  BY DEF Layout, DiskType
<1>2. /\ e.batches \in Seq(Batch) /\ Len(e.batches) = Len(d.batches) + 1
      /\ Len(d.batches) \in Nat /\ e.batches[Len(d.batches) + 1] = x
      /\ \A b \in 1..Len(d.batches) : e.batches[b] = d.batches[b]
      /\ DOMAIN e.batches = 1..Len(d.batches) + 1 /\ DOMAIN d.batches = 1..Len(d.batches)
  BY <1>1
<1>3. DiskType(e) BY <1>1, <1>2 DEF Layout, DiskType
<1>4. FragsLaid(e)
  <2>1. \A j \in DOMAIN d.frags : e.batches[d.frags[j].b] = d.batches[d.frags[j].b]
    BY <1>1, <1>2
  <2> QED BY <2>1 DEF Layout, FragsLaid
<1>5. BatchesLaid(e.batches)
  <2> SUFFICES ASSUME NEW b \in 1..Len(d.batches) + 1
               PROVE  e.batches[b].recs # <<>> /\ Laid(e.batches[b].recs, e.batches[b].size)
    BY <1>2 DEF BatchesLaid
  <2>1. CASE b = Len(d.batches) + 1 BY <1>2, <2>1
  <2>2. CASE b # Len(d.batches) + 1
    <3>1. b \in DOMAIN d.batches /\ e.batches[b] = d.batches[b] BY <1>2, <2>2
    <3> QED BY <3>1 DEF Layout, BatchesLaid
  <2> QED BY <2>1, <2>2
<1> QED BY <1>3, <1>4, <1>5 DEF Layout

\* EmitFragment: one fragment more.
LEMMA FragmentAdded ==
  ASSUME NEW d, NEW e, Layout(d), NEW f \in Fragment, f.b \in 1..Len(d.batches),
         Piece(f, d.batches[f.b].size),
         d.frags = <<>> => f.start = 0 /\ Begins(f) /\ f.b = 1,
         d.frags # <<>> => Succeeds(d.frags[Len(d.frags)], f),
         e.frags = Append(d.frags, f), e.batches = d.batches,
         e.valid = FragmentEnd(f), e.size = FragmentEnd(f)
  PROVE  Layout(e)
<1> DEFINE n == Len(d.frags)
           g == d.frags[n]
<1>1. d.frags \in Seq(Fragment) /\ d.batches \in Seq(Batch)
      /\ \A j \in DOMAIN d.frags : d.frags[j].b \in 1..Len(d.batches)
  BY DEF Layout, DiskType
<1>2. /\ e.frags \in Seq(Fragment) /\ Len(e.frags) = n + 1 /\ n \in Nat
      /\ e.frags[n + 1] = f /\ \A j \in 1..n : e.frags[j] = d.frags[j]
      /\ DOMAIN e.frags = 1..n + 1 /\ DOMAIN d.frags = 1..n /\ e.frags # <<>>
      /\ d.frags = <<>> <=> n = 0
  BY <1>1
<1>3. FragmentEnd(f) \in Nat BY FragmentFields
<1>4. n # 0 => g \in Fragment /\ Succeeds(g, f) /\ n \in DOMAIN d.frags
  BY <1>1, <1>2
<1> HIDE DEF n, g
<1>5. DiskType(e)
  <2>1. ASSUME NEW j \in 1..n + 1 PROVE e.frags[j].b \in 1..Len(e.batches)
    <3>1. CASE j = n + 1 BY <1>2, <3>1
    <3>2. CASE j # n + 1
      <4>1. j \in 1..n BY <1>2, <3>2
      <4> QED BY <1>1, <1>2, <4>1
    <3> QED BY <3>1, <3>2
  <2> QED BY <1>1, <1>2, <1>3, <2>1 DEF DiskType
<1>6. n # 0 => Precedes(g, f) /\ FragmentEnd(g) \in Nat /\ g.start <= FragmentEnd(g)
  <2> SUFFICES ASSUME n # 0
               PROVE  Precedes(g, f) /\ FragmentEnd(g) \in Nat /\ g.start <= FragmentEnd(g)
    OBVIOUS
  <2>1. g \in Fragment /\ Succeeds(g, f) BY <1>4
  <2>2. /\ g.start \in Nat /\ FragmentEnd(g) \in Nat /\ g.start + HeaderSize <= FragmentEnd(g)
        /\ g.b \in Nat /\ f.b \in Nat
    BY <2>1, FragmentFields
  <2>3. PICK k \in Nat : InBlock(g, k) /\ f.start = StartAfter(g, k) BY <2>1 DEF Succeeds
  <2>4. BlockStart(k) \in Nat BY Blocks
  <2>5. FragmentEnd(g) <= f.start BY <2>2, <2>3, <2>4, Sizes DEF InBlock, StartAfter
  <2>6. g.b <= f.b /\ (Ends(g) => g.b < f.b) BY <2>1, <2>2 DEF Succeeds
  <2> QED BY <2>2, <2>5, <2>6, Sizes DEF Precedes
<1>7. FragsLaid(e)
  <2>1. ASSUME NEW j \in 1..n + 1 PROVE Piece(e.frags[j], e.batches[e.frags[j].b].size)
    <3>1. CASE j = n + 1 BY <1>2, <3>1
    <3>2. CASE j # n + 1
      <4>1. j \in DOMAIN d.frags /\ e.frags[j] = d.frags[j] BY <1>2, <3>2
      <4> QED BY <4>1 DEF Layout, FragsLaid
    <3> QED BY <3>1, <3>2
  <2>2. e.frags[1].start = 0 /\ Begins(e.frags[1]) /\ e.frags[1].b = 1
    <3>1. CASE n = 0 BY <1>2, <3>1
    <3>2. CASE n # 0
      <4>1. e.frags[1] = d.frags[1] /\ d.frags # <<>> BY <1>2, <3>2
      <4> QED BY <4>1 DEF Layout, FragsLaid
    <3> QED BY <3>1, <3>2
  <2>3. ASSUME NEW j \in 1..n PROVE Succeeds(e.frags[j], e.frags[j + 1])
    <3>1. CASE j = n BY <1>2, <1>4, <3>1 DEF g
    <3>2. CASE j # n
      <4>1. j \in 1..n - 1 /\ e.frags[j] = d.frags[j] /\ e.frags[j + 1] = d.frags[j + 1]
        BY <1>2, <3>2
      <4> QED BY <4>1 DEF Layout, FragsLaid, n
    <3> QED BY <3>1, <3>2
  <2>4. ASSUME NEW j \in 1..n + 1, NEW l \in 1..n + 1, j < l
        PROVE  Precedes(e.frags[j], e.frags[l])
    <3>1. j \in 1..n /\ e.frags[j] = d.frags[j] /\ j \in DOMAIN d.frags BY <1>2, <2>4
    <3>2. CASE l # n + 1
      <4>1. l \in DOMAIN d.frags /\ e.frags[l] = d.frags[l] BY <1>2, <3>2
      <4> QED BY <2>4, <3>1, <4>1 DEF Layout, FragsLaid
    <3>3. CASE l = n + 1 /\ j = n BY <1>2, <1>6, <3>1, <3>3 DEF g
    <3>4. CASE l = n + 1 /\ j # n
      <4>1. j < n /\ n # 0 /\ n \in DOMAIN d.frags BY <1>2, <3>1, <3>4
      <4>2. Precedes(d.frags[j], g) BY <3>1, <4>1 DEF Layout, FragsLaid, g
      <4>3. Precedes(g, f) /\ FragmentEnd(g) \in Nat /\ g.start <= FragmentEnd(g)
        BY <1>6, <4>1
      <4>4. d.frags[j] \in Fragment /\ g \in Fragment BY <1>4, <3>1, <4>1, DiskFrag
      <4>5. /\ FragmentEnd(d.frags[j]) \in Nat /\ g.start \in Nat /\ f.start \in Nat
            /\ d.frags[j].b \in Nat /\ g.b \in Nat /\ f.b \in Nat
        BY <4>4, FragmentFields
      <4>6. Precedes(d.frags[j], f) BY <4>2, <4>3, <4>5 DEF Precedes
      <4> QED BY <1>2, <3>1, <3>4, <4>6
    <3> QED BY <3>2, <3>3, <3>4
  <2>5. Len(e.frags) - 1 = n BY <1>2
  <2> QED BY <1>2, <2>1, <2>2, <2>3, <2>4, <2>5 DEF FragsLaid
<1>8. e.valid <= e.size /\ e.size <= Written(e.frags) BY <1>2, <1>3 DEF Written
<1> QED BY <1>5, <1>7, <1>8 DEF Layout

\* Put changes nothing on the disk.
LEMMA PutKeeps ==
  ASSUME IInv, OrderInv, NEW state \in {DELETED, LIVE}, NEW k \in Nat, NEW v \in Nat,
         state = DELETED => v = 0, Put(state, k, v)
  PROVE  OrderInv'
<1> DEFINE rec == [state |-> state, klen |-> k, vlen |-> v, pos |-> draft.size]
<1>1. draft.recs \in Seq(WrittenRecord) /\ draft.size \in Nat /\ Laid(draft.recs, draft.size)
  BY DEF IInv, TypeInv, TypeOK, OrderInv, LayoutInv
<1>2. rec \in WrittenRecord /\ rec.pos = draft.size BY <1>1 DEF WrittenRecord
<1>3. /\ draft' = [recs |-> Append(draft.recs, rec),
                   size |-> draft.size + RecordSize(rec.state, rec.klen, rec.vlen)]
      /\ phase = "up"
      /\ UNCHANGED <<batches, sent, frags, blk, size, valid, phase>>
      /\ UNCHANGED <<fpos, passes, closed, it, out>>
  BY DEF Put
<1> HIDE DEF rec
<1>4. Laid(draft'.recs, draft'.size) BY <1>1, <1>2, <1>3, LaidAppended
<1>5. disk' = disk BY <1>3 DEF disk
<1>6. Layout(disk') BY <1>5 DEF OrderInv, LayoutInv
<1>7. Appending' BY <1>3 DEF OrderInv, LayoutInv, Appending, WriterAt
<1>8. LayoutInv' BY <1>4, <1>6, <1>7 DEF LayoutInv
<1> QED BY <1>3, <1>8, WriterAlone

\* Commit: the log writer is between the last batch and the new one.
LEMMA CommitKeeps ==
  ASSUME IInv, OrderInv, Commit
  PROVE  OrderInv'
<1> DEFINE x == [seq |-> NextSeq, recs |-> draft.recs, size |-> draft.size]
<1>1. /\ draft.recs \in Seq(WrittenRecord) /\ draft.size \in Nat
      /\ Laid(draft.recs, draft.size) /\ Layout(disk) /\ batches \in Seq(Batch)
      /\ frags \in Seq(Fragment)
  BY DEF IInv, TypeInv, TypeOK, OrderInv, LayoutInv
<1>2. /\ batches' = Append(batches, x) /\ draft' = NoDraft /\ sent' = 0
      /\ phase = "up" /\ draft.recs # <<>> /\ Emitted
      /\ UNCHANGED <<frags, blk, size, valid, phase>>
      /\ UNCHANGED <<fpos, passes, closed, it, out>>
  BY DEF Commit
<1>3. x \in Batch
  <2>1. NextSeq \in Nat
    <3>1. CASE batches = <<>> BY <3>1 DEF NextSeq
    <3>2. CASE batches # <<>>
      <4>1. LastBatch \in Batch BY <1>1, <3>2 DEF LastBatch
      <4>2. LastBatch.seq \in Nat /\ Len(LastBatch.recs) \in Nat BY <4>1 DEF Batch
      <4> QED BY <3>2, <4>2 DEF NextSeq
    <3> QED BY <3>1, <3>2
  <2> QED BY <1>1, <2>1 DEF Batch
<1>4. x.recs # <<>> /\ Laid(x.recs, x.size) BY <1>1, <1>2
<1> HIDE DEF x
<1>5. /\ Len(batches') = Len(batches) + 1 /\ Len(batches) \in Nat
      /\ batches = <<>> => Len(batches) = 0
  BY <1>1, <1>2, <1>3
<1>6. Layout(disk')
  <2>1. PICK d, e : d = disk /\ e = disk' OBVIOUS
  <2>2. /\ e.frags = d.frags /\ e.batches = Append(d.batches, x)
        /\ e.valid = d.valid /\ e.size = d.size
    BY <1>2, <2>1 DEF disk
  <2>3. Layout(e) BY <1>1, <1>3, <1>4, <2>1, <2>2, BatchAdded
  <2> QED BY <2>1, <2>3
<1>7. Laid(draft'.recs, draft'.size)
  BY <1>2, Sizes DEF NoDraft, Laid, RecordsEnd
<1>8. Appending'
  <2>1. Appending BY <1>2 DEF OrderInv, LayoutInv
  <2>2. ASSUME frags = <<>> PROVE Len(batches') <= 1
    <3>1. sent = 0 /\ Len(batches) <= 1 BY <2>1, <2>2 DEF Appending
    <3>2. CASE batches = <<>> BY <1>5, <3>2
    <3>3. CASE batches # <<>>
      <4>1. Len(batches) \in DOMAIN batches BY <1>1, <3>3
      <4>2. LastBatch \in Batch /\ Laid(LastBatch.recs, LastBatch.size)
        BY <1>1, <4>1 DEF Layout, BatchesLaid, disk, LastBatch
      <4>3. LastBatch.recs \in Seq(WrittenRecord) /\ LastBatch.size \in Nat
        BY <4>2 DEF Batch
      <4>4. 0 \in 0..Len(LastBatch.recs) BY <4>3
      <4>5. BatchHeader <= LastBatch.size BY <4>2, <4>3, <4>4, RecordsInside
      <4>6. LastBatch.size = 0 BY <1>2, <3>1, <3>3 DEF Emitted
      <4> QED BY <4>5, <4>6, Sizes
    <3> QED BY <3>2, <3>3
  <2>3. ASSUME frags # <<>> PROVE WriterAt(frags[Len(frags)])'
    <3> DEFINE f == frags[Len(frags)]
    <3>1. Len(frags) \in DOMAIN frags BY <1>1, <2>3
    <3>2. WriterAt(f) BY <2>1, <2>3 DEF Appending
    <3>3. /\ f \in Fragment /\ f.b \in 1..Len(batches)
          /\ Piece(f, batches[f.b].size)
      BY <1>1, <3>1, DiskFrag DEF disk
    <3>4. f' = f BY <1>2
    <3> HIDE DEF f
    <3>5. f.b = Len(batches) /\ Ends(f)
      <4>1. batches # <<>> BY <1>5, <3>3
      <4>2. sent = LastBatch.size BY <1>2, <4>1 DEF Emitted
      <4>3. CASE f.b = Len(batches) /\ sent = f.from + f.len
        BY <3>3, <4>2, <4>3 DEF Piece, LastBatch
      <4>4. CASE f.b = Len(batches) - 1 /\ sent = 0 /\ Ends(f)
        <5>1. Len(batches) \in DOMAIN batches BY <1>1, <4>1
        <5>2. LastBatch \in Batch /\ Laid(LastBatch.recs, LastBatch.size)
          BY <1>1, <5>1 DEF Layout, BatchesLaid, disk, LastBatch
        <5>3. LastBatch.recs \in Seq(WrittenRecord) /\ LastBatch.size \in Nat
          BY <5>2 DEF Batch
        <5>4. 0 \in 0..Len(LastBatch.recs) BY <5>3
        <5>5. BatchHeader <= LastBatch.size BY <5>2, <5>3, <5>4, RecordsInside
        <5> QED BY <4>2, <4>4, <5>5, Sizes
      <4> QED BY <3>2, <4>3, <4>4 DEF WriterAt
    <3>6. PICK k \in Nat : blk = BlockStart(k) /\ InBlock(f, k) BY <3>2 DEF WriterAt
    <3>7. blk' = BlockStart(k) /\ f.b = Len(batches') - 1 /\ sent' = 0
      BY <1>2, <1>5, <3>5, <3>6
    <3>8. WriterAt(f)'
      BY <3>4, <3>5, <3>6, <3>7 DEF WriterAt
    <3> QED BY <3>8 DEF f
  <2> QED BY <1>2, <2>1, <2>2, <2>3 DEF Appending
<1>9. LayoutInv' BY <1>6, <1>7, <1>8 DEF LayoutInv
<1> QED BY <1>2, <1>9, WriterAlone

\* A crash cuts the file, and leaves the fragments where they are.
LEMMA StopKeeps ==
  ASSUME IInv, OrderInv, NEW v \in 0..size, NEW s \in v..size, Stop(v, s)
  PROVE  OrderInv'
<1>1. /\ phase = "up" /\ phase' = "down" /\ valid' = v /\ size' = s
      /\ UNCHANGED <<draft, batches, sent, frags, blk>>
      /\ UNCHANGED <<fpos, passes, closed, it, out>>
  BY DEF Stop
<1>2. size \in Nat BY DEF IInv, TypeInv, TypeOK
<1>3. v \in Nat /\ s \in Nat /\ v <= s /\ s <= size BY <1>2
<1>4. Layout(disk) /\ Laid(draft.recs, draft.size) BY DEF OrderInv, LayoutInv
<1>5. Layout(disk')
  <2>1. PICK d, e : d = disk /\ e = disk' OBVIOUS
  <2>2. /\ e.frags = d.frags /\ e.batches = d.batches
        /\ e.valid = v /\ e.size = s /\ d.size = size
    BY <1>1, <2>1 DEF disk
  <2>3. Layout(d) BY <1>4, <2>1
  <2>4. DiskType(e) BY <1>3, <2>2, <2>3 DEF Layout, DiskType
  <2>5. FragsLaid(e) BY <2>2, <2>3 DEF Layout, FragsLaid
  <2>6. s <= Written(e.frags)
    <3>1. size <= Written(d.frags) BY <2>2, <2>3 DEF Layout
    <3>2. Written(d.frags) \in Nat
      <4>1. CASE d.frags = <<>> BY <4>1 DEF Written
      <4>2. CASE d.frags # <<>>
        <5>1. Len(d.frags) \in DOMAIN d.frags BY <2>3, <4>2 DEF Layout, DiskType
        <5> QED BY <2>3, <4>2, <5>1, DiskFrag, FragmentFields DEF Written
      <4> QED BY <4>1, <4>2
    <3> QED BY <1>2, <1>3, <2>2, <3>1, <3>2
  <2>7. Layout(e) BY <1>3, <2>2, <2>3, <2>4, <2>5, <2>6 DEF Layout
  <2> QED BY <2>1, <2>7
<1>6. LayoutInv' BY <1>1, <1>4, <1>5 DEF LayoutInv
<1> QED BY <1>1, <1>6, WriterAlone

\* What the log writer emits next comes right after what it emitted last.
LEMMA NextFragment ==
  ASSUME NEW f \in Fragment, NEW k \in Nat, NEW start, NEW block,
         block = IF BlockStart(k) + BlockSize - FragmentEnd(f) < HeaderSize
                 THEN BlockStart(k) + BlockSize ELSE BlockStart(k),
         start = IF BlockStart(k) + BlockSize - FragmentEnd(f) < HeaderSize
                 THEN block ELSE FragmentEnd(f)
  PROVE  start = StartAfter(f, k) /\ \E m \in Nat : block = BlockStart(m)
<1>1. /\ BlockStart(k) \in Nat /\ BlockStart(k + 1) = BlockStart(k) + BlockSize
      /\ FragmentEnd(f) \in Nat /\ k + 1 \in Nat
  BY Blocks, FragmentFields
<1>2. start = StartAfter(f, k) BY <1>1, Sizes DEF StartAfter
<1> QED BY <1>1, <1>2

\* The next fragment lies behind the last one, or at the start of a block.
LEMMA EmitKeeps ==
  ASSUME IInv, OrderInv, EmitFragment
  PROVE  OrderInv'
<1> DEFINE pad   == blk + BlockSize - size < HeaderSize
           block == IF pad THEN blk + BlockSize ELSE blk
           start == IF pad THEN block ELSE size
           len   == Smaller(block + BlockSize - start - HeaderSize,
                            LastBatch.size - sent)
           begin == frags = <<>> \/ frags[Len(frags)].b # Len(batches)
           end   == sent + len = LastBatch.size
           frag  == [start |-> start, type |-> FragmentType(begin, end), len |-> len,
                     b |-> Len(batches), from |-> sent]
           last  == frags[Len(frags)]
<1>1. TypeOK /\ WriterInv /\ Layout(disk) BY DEF IInv, TypeInv, OrderInv, LayoutInv
<1>2. /\ frags' = Append(frags, frag) /\ blk' = block
      /\ size' = start + HeaderSize + len /\ valid' = start + HeaderSize + len
      /\ sent' = sent + len /\ phase = "up" /\ ~Emitted
      /\ UNCHANGED <<draft, batches, phase>>
      /\ UNCHANGED <<fpos, passes, closed, it, out>>
  BY DEF EmitFragment
<1>3. Appending BY <1>2 DEF OrderInv, LayoutInv
<1>4. /\ batches # <<>> /\ LastBatch \in Batch /\ LastBatch.size \in Nat
      /\ sent \in Nat /\ sent < LastBatch.size /\ Len(batches) \in 1..Len(batches)
  <2>1. batches # <<>> BY <1>1, <1>2 DEF Emitted, WriterInv
  <2>2. LastBatch \in Batch /\ Len(batches) \in 1..Len(batches)
    BY <1>1, <2>1 DEF TypeOK, LastBatch
  <2>3. LastBatch.size \in Nat /\ sent \in Nat /\ sent <= LastBatch.size /\ sent # LastBatch.size
    BY <1>1, <1>2, <2>1, <2>2 DEF Batch, WriterInv, TypeOK, Emitted
  <2> QED BY <2>1, <2>2, <2>3
<1>5. blk \in Nat /\ size \in Nat /\ blk <= size /\ size <= blk + BlockSize
  BY <1>1, <1>2 DEF WriterInv, TypeOK
<1>6. /\ block \in Nat /\ start \in Nat /\ block <= start
      /\ start + HeaderSize <= block + BlockSize
  BY <1>5, Sizes
<1>7. /\ len \in Nat /\ sent + len <= LastBatch.size
      /\ start + HeaderSize + len <= block + BlockSize
  BY <1>4, <1>6, Sizes DEF Smaller
<1>8. frag.start = start /\ frag.len = len /\ frag.b = Len(batches) /\ frag.from = sent
  OBVIOUS
<1>9. frag \in Fragment
  <2>1. FragmentType(begin, end) \in FULL..LAST
    BY DEF FragmentType, FULL, FIRST, MIDDLE, LAST
  <2> QED BY <1>4, <1>6, <1>7, <2>1 DEF Fragment
<1>10. Ends(frag) <=> end
  BY DEF Ends, FragmentType, FULL, FIRST, MIDDLE, LAST
<1>11. Begins(frag) <=> begin
  BY DEF Begins, FragmentType, FULL, FIRST, MIDDLE, LAST
<1>12. FragmentEnd(frag) = start + HeaderSize + len BY <1>8 DEF FragmentEnd
<1> HIDE DEF pad, block, start, len, frag
\* The fragment after the last one, or the first.
<1>13. begin => sent = 0
  <2>1. CASE frags = <<>> BY <1>3, <2>1 DEF Appending
  <2>2. CASE frags # <<>> BY <1>3, <2>2 DEF Appending, WriterAt
  <2> QED BY <2>1, <2>2
<1>14. PICK m \in Nat : /\ block = BlockStart(m)
                        /\ frags = <<>> => start = 0
                        /\ frags # <<>> =>
                             \E k \in Nat : InBlock(last, k) /\ start = StartAfter(last, k)
  <2>1. CASE frags = <<>>
    <3>1. blk = 0 /\ size = 0 BY <1>3, <2>1 DEF Appending, Written
    <3>2. block = BlockStart(0) /\ start = 0
      BY <3>1, Blocks, Sizes DEF pad, block, start
    <3> QED BY <2>1, <3>2
  <2>2. CASE frags # <<>>
    <3>1. size = FragmentEnd(last) /\ WriterAt(last) BY <1>3, <2>2 DEF Appending, Written
    <3>2. last \in Fragment BY <1>1, <2>2 DEF TypeOK
    <3> HIDE DEF last
    <3>3. PICK k \in Nat : blk = BlockStart(k) /\ InBlock(last, k) BY <3>1 DEF WriterAt
    <3>4. start = StartAfter(last, k) /\ \E m \in Nat : block = BlockStart(m)
      BY <3>1, <3>2, <3>3, NextFragment DEF pad, block, start
    <3> QED BY <2>2, <3>3, <3>4
  <2> QED BY <2>1, <2>2
<1>15. InBlock(frag, m) BY <1>6, <1>7, <1>8, <1>12, <1>14 DEF InBlock
<1>16. Piece(frag, LastBatch.size)
  BY <1>7, <1>8, <1>10, <1>11, <1>13, <1>15 DEF Piece
<1>17. frags # <<>> => Succeeds(last, frag)
  <2> SUFFICES ASSUME frags # <<>> PROVE Succeeds(last, frag) OBVIOUS
  <2>1. Len(frags) \in DOMAIN frags /\ last \in Fragment BY <1>1 DEF TypeOK
  <2>2. Piece(last, batches[last.b].size) BY <1>1, <2>1, DiskFrag DEF disk
  <2>3. WriterAt(last) BY <1>3 DEF Appending
  <2>4. begin <=> last.b # Len(batches) OBVIOUS
  <2> HIDE DEF last, begin
  <2>5. last.b \in Nat /\ Len(batches) \in Nat BY <1>4, <2>1, FragmentFields
  <2>6. CASE last.b = Len(batches) /\ sent = last.from + last.len
    <3>1. ~Ends(last) BY <1>4, <2>2, <2>6 DEF Piece, LastBatch
    <3> QED BY <1>8, <1>11, <1>14, <2>4, <2>6, <3>1 DEF Succeeds
  <2>7. CASE last.b = Len(batches) - 1 /\ sent = 0 /\ Ends(last)
    <3>1. last.b # Len(batches) /\ Len(batches) = last.b + 1 BY <2>5, <2>7
    <3> QED BY <1>8, <1>11, <1>14, <2>4, <2>7, <3>1 DEF Succeeds
  <2> QED BY <2>3, <2>6, <2>7 DEF WriterAt
<1>18. frags = <<>> => frag.start = 0 /\ Begins(frag) /\ frag.b = 1
  <2> SUFFICES ASSUME frags = <<>> PROVE frag.start = 0 /\ Begins(frag) /\ frag.b = 1
    OBVIOUS
  <2>1. Len(batches) <= 1 BY <1>3 DEF Appending
  <2>2. begin OBVIOUS
  <2> HIDE DEF begin
  <2>3. Len(batches) = 1
    <3>1. PICK n : n = Len(batches) OBVIOUS
    <3>2. n \in Nat BY <1>1, <3>1 DEF TypeOK
    <3>3. n \in 1..n /\ n <= 1 BY <1>4, <2>1, <3>1
    <3> QED BY <3>1, <3>2, <3>3
  <2>4. Begins(frag) BY <1>11, <2>2
  <2> QED BY <1>8, <1>14, <2>3, <2>4
<1>19. Layout(disk')
  <2>1. PICK d, e : d = disk /\ e = disk' OBVIOUS
  <2>2. /\ d.frags = frags /\ d.batches = batches
        /\ e.frags = Append(frags, frag) /\ e.batches = batches
        /\ e.valid = FragmentEnd(frag) /\ e.size = FragmentEnd(frag)
    BY <1>2, <1>12, <2>1 DEF disk
  <2>3. frag.b \in 1..Len(batches) /\ batches[frag.b] = LastBatch
    BY <1>4, <1>8 DEF LastBatch
  <2>4. Layout(e)
    BY <1>1, <1>9, <1>16, <1>17, <1>18, <2>1, <2>2, <2>3, FragmentAdded DEF last
  <2> QED BY <2>1, <2>4
<1>20. Appending'
  <2>1. /\ frags' # <<>> /\ frags'[Len(frags')] = frag
    <3>1. frags \in Seq(Fragment) BY <1>1 DEF TypeOK
    <3> QED BY <1>2, <1>9, <3>1
  <2>2. Written(frags') = size' /\ valid' = size'
    BY <1>2, <1>12, <2>1 DEF Written
  <2>3. blk' = BlockStart(m) /\ frag.b = Len(batches') /\ sent' = frag.from + frag.len
    BY <1>2, <1>8, <1>14
  <2>4. PICK x : x = frag OBVIOUS
  <2>5. WriterAt(x)' BY <1>15, <2>3, <2>4 DEF WriterAt
  <2>6. WriterAt(frags[Len(frags)])' BY <2>1, <2>4, <2>5 DEF WriterAt
  <2> QED BY <2>1, <2>2, <2>6 DEF Appending
<1>21. LayoutInv' BY <1>2, <1>19, <1>20 DEF OrderInv, LayoutInv
<1> QED BY <1>2, <1>21, WriterAlone

\* Every step of the browser.
LEMMA WriterKeeps ==
  ASSUME IInv, OrderInv, Write
  PROVE  OrderInv'
<1>1. \A k \in KeyLens, v \in ValLens : k \in Nat /\ v \in Nat BY LogConstants
<1>2. ASSUME NEW k \in KeyLens, NEW v \in ValLens, Put(LIVE, k, v) PROVE OrderInv'
  <2>1. LIVE \in {DELETED, LIVE} /\ LIVE # DELETED BY DEF LIVE, DELETED
  <2> QED BY <1>1, <1>2, <2>1, PutKeeps
<1>3. ASSUME NEW k \in KeyLens, Put(DELETED, k, 0) PROVE OrderInv'
  <2>1. k \in Nat BY LogConstants
  <2> QED BY <1>3, <2>1, PutKeeps
<1> QED BY <1>2, <1>3, CommitKeeps, EmitKeeps, StopKeeps DEF Write

(***************************************************************************)
(* The invariant                                                           *)
(***************************************************************************)
\* The empty file is laid out.
LEMMA InitOrder ==
  ASSUME Init
  PROVE  OrderInv
<1>1. /\ disk.frags = <<>> /\ disk.batches = <<>> /\ disk.valid = 0 /\ disk.size = 0
  BY DEF Init, disk
<1>2. Layout(disk)
  <2>1. DiskType(disk) BY <1>1 DEF DiskType
  <2>2. FragsLaid(disk) BY <1>1 DEF FragsLaid
  <2>3. BatchesLaid(disk.batches) BY <1>1 DEF BatchesLaid
  <2> QED BY <1>1, <2>1, <2>2, <2>3 DEF Layout, Written
<1>3. Laid(draft.recs, draft.size) BY Sizes DEF Init, NoDraft, Laid, RecordsEnd
<1>4. Appending BY DEF Init, Appending, Written
<1>5. \A r \in Readers : it[r].pc = "new" /\ out[r] = <<>> BY DEF Init, Fresh
<1>6. Solo BY <1>5 DEF Solo, Busy
<1>7. ReadersInv
  <2>1. \A r \in Readers : ChunkInv(disk, it[r]) BY <1>5, NotStarted
  <2>2. \A r \in Readers : ReaderInv(disk, closed, it[r], out[r]) BY <1>5, NotStarted
  <2>3. StreamInv BY <1>5 DEF StreamInv, Running, Busy
  <2> QED BY <2>1, <2>2, <2>3 DEF ReadersInv
<1> QED BY <1>2, <1>3, <1>4, <1>6, <1>7 DEF OrderInv, LayoutInv

\* A step that changes nothing.
LEMMA StutterKeeps ==
  ASSUME OrderInv, UNCHANGED vars
  PROVE  OrderInv'
<1>1. /\ disk' = disk /\ it' = it /\ out' = out /\ closed' = closed /\ fpos' = fpos
      /\ UNCHANGED <<draft, batches, sent, frags, blk, size, valid, phase>>
  BY DEF vars, disk
<1>2. LayoutInv' BY <1>1 DEF OrderInv, LayoutInv, Appending, WriterAt
<1>3. Solo' BY <1>1 DEF OrderInv, Solo
<1>4. ASSUME Undisturbed' PROVE ReadersInv'
  <2>1. ReadersInv BY <1>1, <1>4 DEF OrderInv, Undisturbed
  <2>2. StreamInv' BY <1>1, <2>1 DEF ReadersInv, StreamInv, Idle
  <2> QED BY <1>1, <2>1, <2>2 DEF ReadersInv
<1> QED BY <1>2, <1>3, <1>4 DEF OrderInv

\* Every step of a system whose log nobody writes while it is read.
LEMMA NextOrder ==
  ASSUME ~LiveWriter, IInv, IInv', OrderInv, [Next]_vars
  PROVE  OrderInv'
<1>1. CASE Write BY <1>1, WriterKeeps
<1>2. CASE Close BY <1>2, CloseKeeps
<1>3. CASE \E r \in Readers : Start(r) \/ Resume(r) \/ Step(r)
  BY <1>3, StartKeeps, ResumeKeeps, StepKeeps
<1>4. CASE UNCHANGED vars BY <1>4, StutterKeeps
<1> QED BY <1>1, <1>2, <1>3, <1>4 DEF Next

\* What an iterator yielded is always a history of the batches.
LEMMA YieldedHistory ==
  ASSUME IInv, OrderInv, Undisturbed, NEW r \in Readers
  PROVE  \E c, i \in Nat : History(batches, out[r], c, i)
<1> DEFINE s == it[r]
           o == out[r]
<1>1. s \in Iterator /\ Layout(disk) /\ ReaderInv(disk, closed, s, o)
  BY DEF IInv, TypeInv, TypeOK, OrderInv, LayoutInv, ReadersInv
<1>2. disk.batches = batches /\ batches \in Seq(Batch) BY DEF disk, IInv, TypeInv, TypeOK
<1> HIDE DEF s, o
<1>3. CASE s.pc = "new"
  <2>1. o = <<>> BY <1>1, <1>3 DEF ReaderInv
  <2>2. History(batches, o, 0, 0) BY <2>1, HistoryStart
  <2> QED BY <2>2 DEF o
<1>4. CASE s.pc \in {"chunk", "frag"}
  <2>1. Reading(disk, s, o) BY <1>1, <1>4 DEF ReaderInv
  <2>2. ASSUME NEW j \in DOMAIN disk.frags, History(disk.batches, o, disk.frags[j].b - 1, 0)
        PROVE  \E c, i \in Nat : History(batches, o, c, i)
    <3>1. disk.frags[j].b - 1 \in Nat BY <1>1, DiskFrag
    <3> QED BY <1>2, <2>2, <3>1
  <2> QED BY <1>2, <2>1, <2>2 DEF Reading, o
<1>5. CASE s.pc \in {"batch", "rec", "yield"}
  <2>1. Splitting(disk, s, o) BY <1>1, <1>5 DEF ReaderInv
  <2>2. s.batch.b \in 1..Len(batches) /\ History(batches, o, s.batch.b - 1, Taken(s))
    BY <1>2, <2>1 DEF Splitting
  <2>3. s.batch.b - 1 \in Nat BY <1>2, <2>2
  <2>4. Taken(s) \in Nat BY <1>1 DEF Taken, Iterator
  <2> QED BY <2>2, <2>3, <2>4 DEF o
<1>6. CASE s.pc \in {"done", "raised"}
  BY <1>1, <1>2, <1>6 DEF ReaderInv, o
<1>7. s.pc \in {"new", "yield", "done", "raised"} \cup Busy BY <1>1 DEF Iterator
<1> QED BY <1>3, <1>4, <1>5, <1>6, <1>7 DEF Busy

(***************************************************************************)
(* Theorems                                                                *)
(***************************************************************************)

\* The layout of the file and the place of every iterator in it: an invariant
\* of every behaviour in which the browser is gone before the log is read.
THEOREM OrderInvariance == ~LiveWriter => (Spec => []OrderInv)
<1> SUFFICES ASSUME ~LiveWriter PROVE Spec => []OrderInv
  OBVIOUS
<1>1. Init => OrderInv BY InitOrder
<1>2. IInv /\ IInv' /\ OrderInv /\ [Next]_vars => OrderInv' BY NextOrder
<1> QED BY <1>1, <1>2, Invariance, PTL DEF Spec

\* A pass over a log that nobody writes any more yields the records in the
\* order they were written, from the first one on, none left out and none
\* twice, wherever batches fall on blocks (_iter_log_blocks, LogFile.__iter__).
THEOREM ReadInOrder == ~LiveWriter => (Spec => []InOrder)
<1> SUFFICES ASSUME ~LiveWriter PROVE Spec => []InOrder
  OBVIOUS
<1>1. IInv /\ OrderInv => InOrder
  <2> SUFFICES ASSUME IInv, OrderInv, Undisturbed, NEW r \in Readers
               PROVE  /\ out[r] # <<>> => out[r][1].b = 1 /\ out[r][1].i = 0
                      /\ \A j \in 1..Len(out[r]) - 1 : Follows(out[r][j], out[r][j + 1])
    BY DEF InOrder
  <2>1. PICK c, i \in Nat : History(batches, out[r], c, i) BY YieldedHistory
  <2>2. InTurn(batches, out[r]) BY <2>1 DEF History
  <2> QED BY <2>2 DEF InTurn, RightAfter, Follows
<1> QED BY <1>1, Invariance, OrderInvariance, PTL

\* A crash damages records of the last batch only: once a record is not the
\* one the browser wrote, no record of a later batch is yielded, wherever the
\* log is cut and whatever zero bytes follow (LogFile.__iter__).
THEOREM DamageAlwaysConfined == ~LiveWriter => (Spec => []DamageConfined)
<1> SUFFICES ASSUME ~LiveWriter PROVE Spec => []DamageConfined
  OBVIOUS
<1>1. IInv /\ OrderInv => DamageConfined
  <2> SUFFICES ASSUME IInv, OrderInv, Undisturbed, NEW r \in Readers,
                      NEW j \in DOMAIN out[r], NEW k \in DOMAIN out[r],
                      j < k, ~out[r][j].intact
               PROVE  out[r][k].b = out[r][j].b
    BY DEF DamageConfined
  <2>1. PICK c, i \in Nat : History(batches, out[r], c, i) BY YieldedHistory
  <2>2. Harmed(out[r], c, i) BY <2>1 DEF History
  <2>3. out[r][j].b \in 1..c + 1 /\ out[r][k].b \in 1..c + 1 /\ ~(out[r][j].b <= c)
    BY <2>2 DEF Harmed
  <2>4. out[r][j].b <= out[r][k].b BY <2>2 DEF Harmed
  <2> QED BY <2>3, <2>4
<1> QED BY <1>1, Invariance, OrderInvariance, PTL

\* When an iterator ends, every record of every batch that is whole in the file
\* has been yielded as it was written (_iter_log_blocks, LogFile.__iter__).
THEOREM NothingEverLost == ~LiveWriter => (Spec => []NothingLost)
<1> SUFFICES ASSUME ~LiveWriter PROVE Spec => []NothingLost
  OBVIOUS
<1>1. IInv /\ OrderInv => NothingLost
  <2> SUFFICES ASSUME IInv, OrderInv, Undisturbed, NEW r \in Readers, it[r].pc = "done",
                      NEW b \in DOMAIN batches, Durable(b),
                      NEW i \in 0..Len(batches[b].recs) - 1
               PROVE  Has(out[r], b, i)
    BY DEF NothingLost, Has
  <2>1. PICK c, n \in Nat : History(batches, out[r], c, n) /\ Kept(disk, c)
    BY DEF OrderInv, ReadersInv, ReaderInv, disk
  <2>2. b <= c BY <2>1 DEF Durable, Kept, Ends, FragmentEnd, disk
  <2>3. b \in 1..c
    <3>1. batches \in Seq(Batch) BY DEF IInv, TypeInv, TypeOK
    <3> QED BY <2>2, <3>1
  <2> QED BY <2>1, <2>3 DEF History, HasAll
<1> QED BY <1>1, Invariance, OrderInvariance, PTL

\* A log LevelDB wrote, cut anywhere by a crash, never makes the reader raise:
\* only a closed file does (the raise statements of _iter_log_blocks).
THEOREM NoErrorWithoutClose == ~LiveWriter => (Spec => []NoSpuriousError)
<1> SUFFICES ASSUME ~LiveWriter PROVE Spec => []NoSpuriousError
  OBVIOUS
<1>1. OrderInv => NoSpuriousError
  BY DEF OrderInv, ReadersInv, ReaderInv, NoSpuriousError
<1> QED BY <1>1, OrderInvariance, PTL
=============================================================================
