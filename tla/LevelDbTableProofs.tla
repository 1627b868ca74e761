-------------------------- MODULE LevelDbTableProofs --------------------------
(***************************************************************************)
(* What holds of LevelDbTable for any user keys and values, any interval   *)
(* of restart points and any number of entries, blocks and iterators: its  *)
(* types, that an iteration gives every entry of the table in order and    *)
(* without an exception, what offsets tell apart, and that the module      *)
(* implements TableScan.                                                   *)
(***************************************************************************)
EXTENDS LevelDbTable, SequenceTheorems, WellFoundedInduction, TLAPS

(***************************************************************************)
(* The inductive invariant                                                 *)
(***************************************************************************)
Piece == [at : Nat, shared : Nat, rest : Seq(Nat), value : Values]
Block == [entries : Seq(Piece), raw : Nat, restarts : Nat, first : {0},
          compressed : BOOLEAN]
Handle == [offset : Nat, length : Nat]
Local == [pc : {"new", "before", "at", "done", "error"}, next : Nat, block : Nat,
          tell : Nat, key : Seq(Nat)]
Yield == [key : UserKeys, seq : Seqs, state : States, value : Values,
          offset : Nat, compressed : BOOLEAN]

Types ==
  /\ table \in Seq(Entry) /\ draft \in Seq(Piece) /\ size \in Nat
  /\ index \in Seq(Handle) /\ footer \in BOOLEAN
  /\ handles \in Seq(Handle) /\ state \in {"new", "open", "closed"} /\ fpos \in 0..size
  /\ it \in [Readers -> Local] /\ out \in [Readers -> Seq(Yield)]

\* The key before the i-th entry of a block that follows b entries of t.
Before(t, b, i) == IF i = 1 THEN <<>> ELSE InternalKey(t[b + i - 1])

\* The i-th piece of a block that follows b entries stands for the next of t.
Encodes(t, xs, b, i) ==
  /\ b + i \in DOMAIN t
  /\ xs[i].value = t[b + i].value
  /\ xs[i].shared <= Len(Before(t, b, i))
  /\ KeyAfter(Before(t, b, i), xs[i]) = InternalKey(t[b + i])

\* Where the i-th entry of a block ends.
EndOf(xs, i) == After(xs[i].at, xs[i])

\* The entries of a block follow each other without a gap.
Laid(xs) ==
  /\ \A i \in DOMAIN xs : xs[i].at = IF i = 1 THEN 0 ELSE EndOf(xs, i - 1)
  /\ \A i, l \in DOMAIN xs : i < l => EndOf(xs, i) <= xs[l].at

BlockOf(j) == file[index[j].offset]
EntriesOf(j) == BlockOf(j).entries
EndOfBlock(j) == index[j].offset + index[j].length + BlockTrailer

\* Block j begins after base[j] entries of the table.
BlockInv(base, j) ==
  /\ BlockOf(j) \in Block /\ EntriesOf(j) # <<>>
  /\ RestartOffset(BlockOf(j)) = SizeOf(EntriesOf(j))
  /\ ~BlockOf(j).compressed => SizeOf(EntriesOf(j)) <= index[j].length
  /\ EndOfBlock(j) <= size
  /\ base[j + 1] = base[j] + Len(EntriesOf(j))
  /\ \A i \in DOMAIN EntriesOf(j) : Encodes(table, EntriesOf(j), base[j], i)
  /\ Laid(EntriesOf(j))

FileInv(base) ==
  /\ DOMAIN file = {index[j].offset : j \in DOMAIN index}
  /\ \A j \in DOMAIN index : BlockInv(base, j)
  /\ \A j, k \in DOMAIN index : j < k => EndOfBlock(j) <= index[k].offset

DraftInv(base) ==
  /\ Len(table) = base[Len(index) + 1] + Len(draft)
  /\ \A i \in DOMAIN draft : Encodes(table, draft, base[Len(index) + 1], i)
  /\ Laid(draft)
  /\ footer => draft = <<>>

OpenInv ==
  IF state = "new" THEN handles = <<>> ELSE footer /\ handles = index

\* What is yielded of the i-th entry of block j.
RecordOf(j, i, e) ==
  [key |-> e.key, seq |-> e.seq, state |-> Meant(e).state, value |-> e.value,
   offset |-> OffsetOf(index[j].offset, EntriesOf(j)[i]),
   compressed |-> BlockOf(j).compressed]

\* The n-th record an iterator yielded is the n-th entry of the table.
IsRecord(base, r, n) ==
  \E j \in DOMAIN index : \E i \in DOMAIN EntriesOf(j) :
    n = base[j] + i /\ out[r][n] = RecordOf(j, i, table[n])

Yielded(base, r) == \A n \in DOMAIN out[r] : IsRecord(base, r, n)

\* The iterator has just read the i-th entry of block j.
Stands(base, r, j, i) ==
  /\ it[r].block = index[j].offset
  /\ it[r].tell = EndOf(EntriesOf(j), i)
  /\ Len(out[r]) = base[j] + i
  /\ it[r].key = InternalKey(table[base[j] + i])

StandsIn(base, r, j) == \E i \in DOMAIN EntriesOf(j) : Stands(base, r, j, i)

IterInv(base, r) ==
  /\ Len(out[r]) <= Len(table)
  /\ Yielded(base, r)
  /\ it[r].next \in 1..Len(handles) + 1
  /\ it[r].pc # "new" => state # "new"
  /\ it[r].pc \in {"new", "before"} => it[r].next = 1 /\ out[r] = <<>>
  /\ it[r].pc = "at" =>
       \E j \in DOMAIN index : it[r].next = j + 1 /\ StandsIn(base, r, j)
  /\ it[r].pc = "done" => Len(out[r]) = Len(table)
  /\ it[r].pc = "error" => state = "closed"

Inv(base) ==
  /\ base[1] = 0
  /\ FileInv(base) /\ DraftInv(base) /\ OpenInv
  /\ \A r \in Readers : IterInv(base, r)

IInv == Types /\ \E base \in [1..Len(index) + 1 -> 0..Len(table)] : Inv(base)

(***************************************************************************)
(* Keys                                                                    *)
(***************************************************************************)
LEMMA Least ==
  ASSUME NEW T \in SUBSET Nat, T # {}
  PROVE  \E m \in T : \A n \in T : m <= n
<1> DEFINE R == OpToRel(<, Nat)
<1>1. IsWellFoundedOn(R, Nat) BY NatLessThanWellFounded
<1>2. PICK x \in T : \A y \in T : <<y, x>> \notin R
  <2> HIDE DEF R
  <2> QED BY <1>1, WFMin, Zenon
<1>3. \A y \in T : ~(y < x) BY <1>2 DEF OpToRel
<1> QED BY <1>3

LEMMA Appended ==
  ASSUME NEW S, NEW s \in Seq(S), NEW e \in S
  PROVE  /\ Append(s, e) \in Seq(S) /\ Len(Append(s, e)) = Len(s) + 1 /\ Len(s) \in Nat
         /\ DOMAIN s = 1..Len(s) /\ DOMAIN Append(s, e) = 1..Len(s) + 1
         /\ Append(s, e)[Len(s) + 1] = e /\ \A l \in 1..Len(s) : Append(s, e)[l] = s[l]
         /\ Append(s, e) # <<>>
OBVIOUS

\* What the library says of \o, for byte strings.
LEMMA Joining ==
  ASSUME NEW s \in Seq(Nat), NEW t \in Seq(Nat)
  PROVE  /\ s \o t \in Seq(Nat) /\ Len(s \o t) = Len(s) + Len(t)
         /\ \A j \in 1..Len(s) + Len(t) :
              (s \o t)[j] = IF j <= Len(s) THEN s[j] ELSE t[j - Len(s)]
BY ConcatProperties, Zenon

\* Shared gives the length of a common beginning.
LEMMA SharedRight ==
  ASSUME NEW a \in Seq(Nat), NEW b \in Seq(Nat)
  PROVE  /\ Shared(a, b) \in Nat
         /\ Shared(a, b) <= Len(a) /\ Shared(a, b) <= Len(b)
         /\ \A j \in 1..Shared(a, b) : a[j] = b[j]
<1> DEFINE n == IF Len(a) < Len(b) THEN Len(a) ELSE Len(b)
           P(k) == /\ \A j \in 1..k : a[j] = b[j]
                   /\ k = n \/ a[k + 1] # b[k + 1]
           T == {k \in 0..n : k = n \/ a[k + 1] # b[k + 1]}
<1>1. n \in Nat /\ n <= Len(a) /\ n <= Len(b) OBVIOUS
<1>2. T \in SUBSET Nat /\ n \in T BY <1>1
<1>3. PICK m \in T : \A k \in T : m <= k BY <1>2, Least
<1>4. ASSUME NEW j \in 1..m PROVE a[j] = b[j]
  <2>1. j - 1 \in 0..n /\ j - 1 < m /\ j - 1 + 1 = j BY <1>1, <1>2, <1>3, <1>4
  <2>2. j - 1 \notin T
    <3> HIDE DEF T
    <3> QED BY <1>2, <1>3, <2>1
  <2> HIDE DEF n
  <2> QED BY <2>1, <2>2
<1>5. m \in 0..n /\ P(m) BY <1>3, <1>4
<1>6. \E k \in 0..n : P(k) BY <1>5
<1>7. Shared(a, b) = CHOOSE k \in 0..n : P(k) BY DEF Shared
<1> DEFINE S == CHOOSE k \in 0..n : P(k)
<1>8. S \in 0..n /\ P(S)
  <2> HIDE DEF P, n
  <2> QED BY <1>6
<1>9. Shared(a, b) = S BY <1>7
<1> QED BY <1>1, <1>8, <1>9

\* What is cut from a key is put back.
LEMMA PutBack ==
  ASSUME NEW a \in Seq(Nat), NEW b \in Seq(Nat), NEW n \in Nat,
         n <= Len(a), n <= Len(b), \A j \in 1..n : a[j] = b[j]
  PROVE  SubSeq(a, 1, n) \o SubSeq(b, n + 1, Len(b)) = b
<1> DEFINE s == SubSeq(a, 1, n)
           t == SubSeq(b, n + 1, Len(b))
<1>1. s \in Seq(Nat) /\ Len(s) = n /\ \A j \in 1..n : s[j] = a[j] OBVIOUS
<1>2. /\ t \in Seq(Nat) /\ Len(t) = Len(b) - n
      /\ \A j \in 1..Len(b) - n : t[j] = b[n + j]
  OBVIOUS
<1> HIDE DEF s, t
<1>3. /\ s \o t \in Seq(Nat) /\ Len(s \o t) = Len(s) + Len(t)
      /\ \A j \in 1..Len(s) + Len(t) : (s \o t)[j] = IF j <= Len(s) THEN s[j] ELSE t[j - Len(s)]
  <2>1. s \in Seq(Nat) /\ t \in Seq(Nat) BY <1>1, <1>2
  <2> QED BY <2>1, Joining, Zenon
<1> DEFINE u == s \o t
<1>6. /\ u \in Seq(Nat) /\ Len(u) = Len(b) /\ Len(b) \in Nat
      /\ \A j \in 1..Len(b) : u[j] = IF j <= n THEN s[j] ELSE t[j - n]
  BY <1>1, <1>2, <1>3
<1> HIDE DEF u
<1>4. ASSUME NEW j \in 1..Len(b) PROVE u[j] = b[j]
  <2>1. CASE j <= n
    <3>1. j \in 1..n BY <2>1
    <3> QED BY <1>1, <1>6, <2>1, <3>1
  <2>2. CASE j > n
    <3>1. u[j] = t[j - n] BY <1>6, <2>2
    <3>2. j - n \in 1..Len(b) - n /\ n + (j - n) = j BY <2>2
    <3> QED BY <1>2, <3>1, <3>2
  <2> QED BY <2>1, <2>2
<1>5. u = b BY <1>4, <1>6, SeqEqual
<1> QED BY <1>5 DEF s, t, u

\* The trailer of an internal key, and what is before it.
LEMMA Keys ==
  ASSUME NEW e \in Entry
  PROVE  /\ e.key \in UserKeys /\ e.key \in Seq(Nat) /\ e.value \in Values /\ e.value \in Nat
         /\ InternalKey(e) \in Seq(Nat)
         /\ Len(InternalKey(e)) = Len(e.key) + Trailer
         /\ InternalKey(e)[Len(InternalKey(e)) - 1] = e.type
         /\ InternalKey(e)[Len(InternalKey(e))] = e.seq
         /\ UserKey(InternalKey(e)) = e.key
         /\ StateOf(InternalKey(e)) = Meant(e).state
<1> DEFINE k == e.key
           t == <<e.type, e.seq>>
<1>1. k \in Seq(Nat) /\ k \in UserKeys /\ e.type \in Nat /\ e.seq \in Nat /\ e.value \in Values
  BY TableConstants DEF Entry, Seqs, DELETED, LIVE
<1>2. t \in Seq(Nat) /\ Len(t) = 2 /\ t[1] = e.type /\ t[2] = e.seq BY <1>1
<1> HIDE DEF k, t
<1>3. /\ k \o t \in Seq(Nat) /\ Len(k \o t) = Len(k) + 2
      /\ (k \o t)[Len(k) + 1] = t[1] /\ (k \o t)[Len(k) + 2] = t[2]
      /\ \A j \in 1..Len(k) : (k \o t)[j] = k[j]
  <2> DEFINE u == k \o t
  <2>1. /\ u \in Seq(Nat) /\ Len(u) = Len(k) + Len(t)
        /\ \A j \in 1..Len(k) + Len(t) : u[j] = IF j <= Len(k) THEN k[j] ELSE t[j - Len(k)]
    <3>1. k \in Seq(Nat) /\ t \in Seq(Nat) BY <1>1, <1>2
    <3> QED BY <3>1, Joining, Zenon DEF u
  <2> HIDE DEF u
  <2>2. Len(k) \in Nat BY <1>1
  <2>3. u[Len(k) + 1] = t[1] /\ u[Len(k) + 2] = t[2] BY <1>2, <2>1, <2>2
  <2>4. \A j \in 1..Len(k) : u[j] = k[j] BY <1>2, <2>1, <2>2
  <2> QED BY <1>2, <2>1, <2>3, <2>4 DEF u
<1>4. InternalKey(e) = k \o t BY DEF InternalKey, k, t
<1>5. SubSeq(k \o t, 1, Len(k)) = k
  <2> DEFINE s == SubSeq(k \o t, 1, Len(k))
  <2>1. s \in Seq(Nat) /\ Len(s) = Len(k) /\ \A j \in 1..Len(k) : s[j] = (k \o t)[j]
    BY <1>1, <1>3
  <2> HIDE DEF s
  <2>2. \A j \in 1..Len(k) : s[j] = k[j] BY <2>1, <1>3
  <2>3. s = k BY <1>1, <2>1, <2>2, SeqEqual
  <2> QED BY <2>3 DEF s
<1>6. UserKey(InternalKey(e)) = k
  <2> DEFINE u == k \o t
  <2>1. Len(u) = Len(k) + 2 /\ Len(k) \in Nat /\ SubSeq(u, 1, Len(k)) = k BY <1>1, <1>3, <1>5
  <2> HIDE DEF u
  <2>2. Len(u) >= 2 /\ Len(u) - 2 = Len(k) BY <2>1
  <2>3. UserKey(u) = k BY <2>1, <2>2 DEF UserKey, Trailer
  <2> QED BY <1>4, <2>3 DEF u
<1>7. e.key = k BY DEF k
<1>8. StateOf(InternalKey(e)) = Meant(e).state
  <2>1. k = <<>> <=> Len(k) = 0 BY <1>1
  <2>2. InternalKey(e)[Len(InternalKey(e)) - 1] = e.type BY <1>1, <1>2, <1>3, <1>4
  <2>3. Len(InternalKey(e)) = Len(k) + 2 /\ Len(k) \in Nat BY <1>1, <1>3, <1>4
  <2> QED BY <1>7, <2>1, <2>2, <2>3 DEF StateOf, Meant, Trailer
<1>9. /\ InternalKey(e) \in Seq(Nat) /\ Len(InternalKey(e)) = Len(e.key) + Trailer
      /\ InternalKey(e)[Len(InternalKey(e)) - 1] = e.type
      /\ InternalKey(e)[Len(InternalKey(e))] = e.seq
  <2> DEFINE u == k \o t
  <2>1. /\ u \in Seq(Nat) /\ Len(u) = Len(k) + 2 /\ Len(k) \in Nat
        /\ u[Len(k) + 1] = e.type /\ u[Len(k) + 2] = e.seq
    BY <1>1, <1>2, <1>3
  <2> HIDE DEF u
  <2>2. Len(u) - 1 = Len(k) + 1 BY <2>1
  <2>3. /\ u \in Seq(Nat) /\ Len(u) = Len(k) + 2
        /\ u[Len(u) - 1] = e.type /\ u[Len(u)] = e.seq
    BY <2>1, <2>2
  <2> QED BY <1>4, <1>7, <2>3 DEF u, Trailer
<1>10. e.value \in Nat BY <1>1, TableConstants
<1> QED BY <1>1, <1>6, <1>7, <1>8, <1>9, <1>10

(***************************************************************************)
(* Entries of a block                                                      *)
(***************************************************************************)
LEMMA Pieces ==
  ASSUME NEW x \in Piece
  PROVE  /\ x.at \in Nat /\ x.shared \in Nat /\ x.rest \in Seq(Nat)
         /\ x.value \in Values /\ x.value \in Nat /\ Len(x.rest) \in Nat
         /\ After(x.at, x) \in Nat /\ x.at < After(x.at, x)
         /\ x.at + EntrySize(x) = After(x.at, x)
<1>1. /\ x.at \in Nat /\ x.shared \in Nat /\ x.rest \in Seq(Nat)
      /\ x.value \in Values /\ x.value \in Nat
  BY TableConstants DEF Piece
<1>2. Len(x.rest) \in Nat BY <1>1
<1>3. After(x.at, x) = x.at + 3 + Len(x.rest) + x.value BY DEF After
<1>4. x.at + EntrySize(x) = x.at + (3 + Len(x.rest) + x.value) BY DEF EntrySize
<1> DEFINE p == x.at
           q == Len(x.rest)
           v == x.value
<1>5. p \in Nat /\ q \in Nat /\ v \in Nat BY <1>1, <1>2
<1> HIDE DEF p, q, v
<1>6. p + 3 + q + v \in Nat /\ p < p + 3 + q + v /\ p + (3 + q + v) = p + 3 + q + v BY <1>5
<1> QED BY <1>1, <1>2, <1>3, <1>4, <1>6 DEF p, q, v

\* The entries of a block end where the last of them ends.
LEMMA Sizes ==
  ASSUME NEW xs \in Seq(Piece), Laid(xs)
  PROVE  /\ SizeOf(xs) \in Nat
         /\ xs # <<>> => SizeOf(xs) = EndOf(xs, Len(xs)) /\ Len(xs) \in DOMAIN xs /\ 1 \in DOMAIN xs
         /\ \A i \in DOMAIN xs : /\ EndOf(xs, i) <= SizeOf(xs)
                                 /\ xs[i].at < SizeOf(xs) /\ EndOf(xs, i) \in Nat
         /\ \A i \in DOMAIN xs : EndOf(xs, i) < SizeOf(xs) =>
              i + 1 \in DOMAIN xs /\ xs[i + 1].at = EndOf(xs, i)
<1>1. DOMAIN xs = 1..Len(xs) /\ Len(xs) \in Nat OBVIOUS
<1>2. \A i \in DOMAIN xs : xs[i] \in Piece BY ElementOfSeq
<1>3. CASE xs = <<>> BY <1>1, <1>3 DEF SizeOf
<1>4. CASE xs # <<>>
  <2> DEFINE m == Len(xs)
  <2>1. m \in DOMAIN xs /\ 1 \in DOMAIN xs BY <1>1, <1>4
  <2>2. SizeOf(xs) = EndOf(xs, m) BY <1>2, <1>4, <2>1, Pieces DEF SizeOf, EndOf
  <2>3. ASSUME NEW i \in DOMAIN xs
        PROVE  xs[i].at \in Nat /\ EndOf(xs, i) \in Nat /\ xs[i].at < EndOf(xs, i)
    BY <1>2, <2>3, Pieces DEF EndOf
  <2>4. ASSUME NEW i \in DOMAIN xs, i # m
        PROVE  i + 1 \in DOMAIN xs /\ xs[i + 1].at = EndOf(xs, i) /\ EndOf(xs, i) < SizeOf(xs)
    <3>1. i + 1 \in DOMAIN xs /\ i + 1 # 1 /\ i + 1 - 1 = i /\ i < m BY <1>1, <2>4
    <3>2. xs[i + 1].at = EndOf(xs, i) BY <3>1 DEF Laid
    <3>3. EndOf(xs, i) <= xs[m].at BY <2>1, <3>1 DEF Laid
    <3>4. EndOf(xs, i) < EndOf(xs, m)
      <4> HIDE DEF m
      <4> QED BY <2>1, <2>3, <3>3
    <3> QED BY <2>2, <3>1, <3>2, <3>4
  <2>5. ASSUME NEW i \in DOMAIN xs
        PROVE  EndOf(xs, i) <= SizeOf(xs) /\ xs[i].at < SizeOf(xs)
    <3>1. CASE i = m BY <2>1, <2>2, <2>3, <3>1
    <3>2. CASE i # m BY <2>1, <2>2, <2>3, <2>4, <3>2
    <3> QED BY <3>1, <3>2
  <2> QED BY <2>1, <2>2, <2>3, <2>4, <2>5
<1> QED BY <1>3, <1>4

LEMMA SamePlace ==
  ASSUME NEW xs \in Seq(Piece), Laid(xs), NEW i \in DOMAIN xs, NEW l \in DOMAIN xs,
         xs[i].at = xs[l].at
  PROVE  i = l
<1>1. i \in Nat /\ l \in Nat OBVIOUS
<1>2. \A k \in DOMAIN xs : xs[k].at \in Nat /\ EndOf(xs, k) \in Nat /\ xs[k].at < EndOf(xs, k)
  <2> TAKE k \in DOMAIN xs
  <2>1. xs[k] \in Piece BY ElementOfSeq
  <2> QED BY <2>1, Pieces DEF EndOf
<1>3. ~(i < l) BY <1>2 DEF Laid
<1>4. ~(l < i) BY <1>2 DEF Laid
<1> QED BY <1>1, <1>3, <1>4

LEMMA AppendLaid ==
  ASSUME NEW xs \in Seq(Piece), Laid(xs), NEW x \in Piece, x.at = SizeOf(xs)
  PROVE  Laid(Append(xs, x)) /\ Append(xs, x) \in Seq(Piece)
<1> DEFINE ys == Append(xs, x)
           m == Len(xs)
<1>1. /\ ys \in Seq(Piece) /\ Len(ys) = m + 1 /\ m \in Nat /\ DOMAIN xs = 1..m
      /\ DOMAIN ys = 1..m + 1 /\ ys[m + 1] = x /\ \A i \in 1..m : ys[i] = xs[i]
  OBVIOUS
<1> HIDE DEF ys
<1>2. \A i \in 1..m : EndOf(ys, i) = EndOf(xs, i) BY <1>1 DEF EndOf
<1>3. ASSUME NEW i \in DOMAIN ys
      PROVE  ys[i].at = IF i = 1 THEN 0 ELSE EndOf(ys, i - 1)
  <2>1. CASE i \in 1..m
    <3>1. i # 1 => i - 1 \in 1..m BY <2>1
    <3> QED BY <1>1, <1>2, <2>1, <3>1 DEF Laid
  <2>2. CASE i = m + 1 /\ xs = <<>>
    <3>1. i = 1 /\ x.at = 0 BY <1>1, <2>2 DEF SizeOf
    <3> QED BY <1>1, <2>2, <3>1
  <2>3. CASE i = m + 1 /\ xs # <<>>
    <3>1. i # 1 /\ i - 1 = m /\ m \in 1..m BY <1>1, <2>3
    <3>2. x.at = EndOf(xs, m) BY <2>3, Sizes
    <3> QED BY <1>1, <1>2, <2>3, <3>1, <3>2
  <2> QED BY <1>1, <2>1, <2>2, <2>3
<1>4. ASSUME NEW i \in DOMAIN ys, NEW l \in DOMAIN ys, i < l
      PROVE  EndOf(ys, i) <= ys[l].at
  <2>1. i \in 1..m BY <1>1, <1>4
  <2>2. CASE l \in 1..m BY <1>1, <1>2, <1>4, <2>1, <2>2 DEF Laid
  <2>3. CASE l = m + 1 BY <1>1, <1>2, <2>1, <2>3, Sizes
  <2> QED BY <1>1, <2>2, <2>3
<1>5. Laid(ys) BY <1>3, <1>4 DEF Laid
<1> QED BY <1>1, <1>5 DEF ys

\* Another entry of the table changes nothing for the pieces there are.
LEMMA StillEncodes ==
  ASSUME NEW t \in Seq(Entry), NEW e \in Entry, NEW xs \in Seq(Piece), NEW x \in Piece,
         NEW b \in Nat, NEW i \in 1..Len(xs), Encodes(t, xs, b, i)
  PROVE  /\ Encodes(Append(t, e), xs, b, i)
         /\ Encodes(Append(t, e), Append(xs, x), b, i)
<1> DEFINE u == Append(t, e)
           ys == Append(xs, x)
<1>1. DOMAIN t = 1..Len(t) /\ DOMAIN u = 1..Len(t) + 1 /\ \A n \in 1..Len(t) : u[n] = t[n]
  OBVIOUS
<1>2. ys[i] = xs[i] OBVIOUS
<1> HIDE DEF u, ys
<1>3. b + i \in 1..Len(t) /\ i \in Nat \ {0} BY <1>1 DEF Encodes
<1>4. i # 1 => b + i - 1 \in 1..Len(t) BY <1>3
<1>5. Before(u, b, i) = Before(t, b, i) BY <1>1, <1>4 DEF Before
<1>6. u[b + i] = t[b + i] /\ b + i \in DOMAIN u BY <1>1, <1>3
<1>7. Encodes(u, xs, b, i) BY <1>5, <1>6 DEF Encodes
<1>8. Encodes(u, ys, b, i) BY <1>2, <1>5, <1>6 DEF Encodes
<1> QED BY <1>7, <1>8 DEF u, ys

\* What Add appends to the block xs for e, of which the key shares n bytes.
PieceFor(xs, e, n) ==
  [at |-> SizeOf(xs), shared |-> n,
   rest |-> SubSeq(InternalKey(e), n + 1, Len(InternalKey(e))), value |-> e.value]

\* It stands for the entry it adds.
LEMMA NewPiece ==
  ASSUME NEW t \in Seq(Entry), NEW e \in Entry, NEW xs \in Seq(Piece), NEW b \in Nat,
         Len(t) = b + Len(xs), Laid(xs), NEW n \in Nat,
         xs = <<>> => n = 0,
         xs # <<>> => n = 0 \/ n = Shared(InternalKey(t[Len(t)]), InternalKey(e)),
         NEW x, x = PieceFor(xs, e, n)
  PROVE  x \in Piece /\ Encodes(Append(t, e), Append(xs, x), b, Len(xs) + 1)
<1> DEFINE u == Append(t, e)
           ys == Append(xs, x)
           m == Len(xs)
           k == InternalKey(e)
           a == Before(u, b, m + 1)
<1>1. /\ DOMAIN u = 1..Len(t) + 1 /\ u[Len(t) + 1] = e /\ \A l \in 1..Len(t) : u[l] = t[l]
      /\ ys[m + 1] = x /\ m \in Nat /\ Len(t) \in Nat
  <2>1. /\ DOMAIN u = 1..Len(t) + 1 /\ u[Len(t) + 1] = e
        /\ \A l \in 1..Len(t) : u[l] = t[l]
        /\ Len(t) \in Nat
    BY Appended
  <2>2. ys[m + 1] = x /\ m \in Nat
    <3> HIDE DEF u, k, a
    <3> QED OBVIOUS
  <2> QED BY <2>1, <2>2
<1>2. k \in Seq(Nat) /\ e.value \in Values BY Keys
<1>3. x.at = SizeOf(xs) /\ x.shared = n /\ x.rest = SubSeq(k, n + 1, Len(k)) /\ x.value = e.value
  BY DEF PieceFor
<1>4. n <= Len(k) /\ a \in Seq(Nat) /\ n <= Len(a) /\ \A j \in 1..n : a[j] = k[j]
  <2>1. CASE xs = <<>>
    <3>1. m = 0 /\ n = 0 BY <2>1
    <3>2. a = <<>> BY <3>1 DEF Before
    <3> HIDE DEF a, k
    <3> QED BY <1>2, <3>1, <3>2
  <2>2. CASE xs # <<>>
    <3>1. m # 0 /\ m \in Nat /\ Len(t) \in 1..Len(t) BY <2>2
    <3>2. a = InternalKey(t[Len(t)])
      <4>1. m + 1 # 1 /\ b + (m + 1) - 1 = Len(t) BY <3>1
      <4>2. u[Len(t)] = t[Len(t)] BY <1>1, <3>1
      <4> HIDE DEF m, u
      <4> QED BY <4>1, <4>2 DEF Before
    <3>3. t[Len(t)] \in Entry BY <3>1, ElementOfSeq
    <3>4. a \in Seq(Nat) BY <3>2, <3>3, Keys
    <3> HIDE DEF a
    <3>5. n = 0 \/ n = Shared(a, k) BY <2>2, <3>2
    <3> HIDE DEF k
    <3>6. CASE n = 0 BY <1>2, <3>4, <3>6
    <3>7. CASE n = Shared(a, k) BY <1>2, <3>4, <3>7, SharedRight
    <3> QED BY <3>4, <3>5, <3>6, <3>7
  <2> QED BY <2>1, <2>2
<1> HIDE DEF u, ys, m, k, a
<1>5. SubSeq(a, 1, n) \o SubSeq(k, n + 1, Len(k)) = k BY <1>2, <1>4, PutBack
<1>6. KeyAfter(a, x) = k BY <1>3, <1>5 DEF KeyAfter
<1>7. b + (m + 1) = Len(t) + 1 BY <1>1 DEF m
<1>8. b + (m + 1) \in DOMAIN u /\ u[b + (m + 1)] = e BY <1>1, <1>7
<1>9. Encodes(u, ys, b, m + 1) BY <1>1, <1>3, <1>4, <1>6, <1>8 DEF Encodes, a, k
<1>10. x \in Piece
  <2>1. SizeOf(xs) \in Nat BY Sizes
  <2>2. SubSeq(k, n + 1, Len(k)) \in Seq(Nat) BY <1>2, <1>4
  <2> QED BY <1>2, <2>1, <2>2 DEF Piece, PieceFor, k
<1> QED BY <1>9, <1>10 DEF u, ys, m

(***************************************************************************)
(* TableBuilder keeps the invariant                                        *)
(***************************************************************************)
Bases == [1..Len(index) + 1 -> 0..Len(table)]

LEMMA Initially ==
  ASSUME Init
  PROVE  IInv
<1> DEFINE base == [j \in {1} |-> 0]
<1>1. Types
  <2>1. it \in [Readers -> Local] BY DEF Init, Local
  <2>2. out \in [Readers -> Seq(Yield)] BY DEF Init
  <2>3. /\ table \in Seq(Entry) /\ draft \in Seq(Piece)
        /\ index \in Seq(Handle) /\ handles \in Seq(Handle)
    BY DEF Init
  <2>4. size = 0 /\ footer = FALSE /\ state = "new" /\ fpos = 0 BY DEF Init
  <2> QED BY <2>1, <2>2, <2>3, <2>4, 0 \in 0..0 DEF Types
<1>2. Len(index) = 0 /\ Len(table) = 0 /\ 1..Len(index) + 1 = {1} /\ 0..Len(table) = {0}
  BY DEF Init
<1>3. base \in Bases BY <1>2 DEF Bases
<1>4. base[1] = 0 OBVIOUS
<1> HIDE DEF base
<1>5. FileInv(base) /\ DraftInv(base) /\ OpenInv
  <2>1. DOMAIN index = {} /\ DOMAIN draft = {} /\ DOMAIN file = {} BY DEF Init
  <2>2. FileInv(base) BY <2>1 DEF FileInv
  <2>3. DraftInv(base) BY <1>2, <1>4, <2>1 DEF DraftInv, Laid, Init
  <2> QED BY <2>2, <2>3 DEF OpenInv, Init
<1>6. ASSUME NEW r \in Readers PROVE IterInv(base, r)
  <2>1. it[r].pc = "new" /\ it[r].next = 1 /\ out[r] = <<>> BY DEF Init
  <2>2. Len(out[r]) = 0 /\ DOMAIN out[r] = {} BY <2>1
  <2>3. it[r].next \in 1..Len(handles) + 1 BY <2>1 DEF Init
  <2> QED BY <1>2, <2>1, <2>2, <2>3 DEF IterInv, Yielded
<1>7. Inv(base) BY <1>4, <1>5, <1>6 DEF Inv
<1> QED BY <1>1, <1>3, <1>7 DEF IInv, Bases

\* As long as the file has no footer there is no LdbFile to iterate.
LEMMA Idle ==
  ASSUME Types, NEW base, Inv(base), ~footer, UNCHANGED <<object, it, out>>,
         Len(table') \in Nat, NEW then, NEW r \in Readers
  PROVE  OpenInv' /\ IterInv(then, r)'
<1>1. state = "new" /\ handles = <<>> BY DEF Inv, OpenInv
<1>2. it[r].pc = "new" /\ it[r].next = 1 /\ out[r] = <<>>
  <2>1. IterInv(base, r) BY DEF Inv
  <2> QED BY <1>1, <2>1 DEF IterInv
<1>3. /\ state' = "new" /\ handles' = <<>> /\ it'[r].pc = "new" /\ it'[r].next = 1
      /\ out'[r] = <<>>
  BY <1>1, <1>2 DEF object
<1>4. Len(out'[r]) = 0 /\ DOMAIN out'[r] = {} /\ it'[r].next \in 1..Len(handles') + 1 BY <1>3
<1>5. IterInv(then, r)' BY <1>3, <1>4 DEF IterInv, Yielded
<1> QED BY <1>3, <1>5 DEF OpenInv

LEMMA AddKeeps ==
  ASSUME Types, NEW base \in Bases, Inv(base), NEW e \in Entry, Add(e)
  PROVE  IInv'
<1> DEFINE key == InternalKey(e)
           n == IF Len(draft) % Interval = 0 THEN 0
                ELSE Shared(InternalKey(table[Len(table)]), key)
           x == PieceFor(draft, e, n)
           b == base[Len(index) + 1]
<1>1. /\ ~footer /\ table' = Append(table, e) /\ draft' = Append(draft, x)
      /\ UNCHANGED <<file, size, index, footer, object, fpos, it, out>>
  BY DEF Add, PieceFor
<1>2. table \in Seq(Entry) /\ draft \in Seq(Piece) BY DEF Types
<1>3. DraftInv(base) /\ FileInv(base) BY DEF Inv
<1>4. b \in Nat /\ Len(table) = b + Len(draft) /\ Laid(draft) /\ Len(index) \in Nat
  <2>1. Len(index) \in Nat /\ Len(table) \in Nat BY DEF Types
  <2>2. Len(index) + 1 \in 1..Len(index) + 1 BY <2>1
  <2> QED BY <1>3, <2>1, <2>2 DEF Bases, DraftInv
<1>5. n \in Nat /\ (draft = <<>> => n = 0)
      /\ (draft # <<>> => n = 0 \/ n = Shared(InternalKey(table[Len(table)]), key))
  <2>1. CASE Len(draft) % Interval = 0 BY <2>1
  <2>2. CASE Len(draft) % Interval # 0
    <3>1. draft # <<>>
      <4>1. 0 % Interval = 0 BY TableConstants
      <4> QED BY <2>2, <4>1
    <3>2. Len(draft) \in Nat /\ Len(draft) # 0 BY <1>2, <3>1
    <3>3. Len(table) \in DOMAIN table BY <1>2, <1>4, <3>2
    <3>4. table[Len(table)] \in Entry BY <1>2, <3>3, ElementOfSeq
    <3>5. InternalKey(table[Len(table)]) \in Seq(Nat) /\ key \in Seq(Nat) BY <3>4, Keys
    <3>6. Shared(InternalKey(table[Len(table)]), key) \in Nat
      <4> HIDE DEF key
      <4> QED BY <3>5, SharedRight
    <3> QED BY <2>2, <3>1, <3>6
  <2> QED BY <2>1, <2>2
<1> HIDE DEF n, b
<1>6. x \in Piece /\ Encodes(table', draft', b, Len(draft) + 1)
  <2>1. n = 0 \/ n = Shared(InternalKey(table[Len(table)]), InternalKey(e)) \/ draft = <<>> BY <1>5
  <2> HIDE DEF x, key
  <2>2. x = PieceFor(draft, e, n) BY DEF x
  <2> QED BY <1>1, <1>2, <1>4, <1>5, <2>1, <2>2, NewPiece
<1>7. x.at = SizeOf(draft) BY DEF PieceFor
<1> HIDE DEF x
<1>8. Laid(draft') /\ draft' \in Seq(Piece) BY <1>1, <1>2, <1>4, <1>6, <1>7, AppendLaid
<1>9. /\ table' \in Seq(Entry) /\ Len(table') = Len(table) + 1 /\ Len(table) \in Nat
      /\ Len(draft') = Len(draft) + 1 /\ Len(draft) \in Nat
      /\ DOMAIN draft = 1..Len(draft) /\ DOMAIN draft' = 1..Len(draft) + 1
  BY <1>1, <1>2, <1>6, Appended
<1>10. Types' BY <1>1, <1>8, <1>9 DEF Types, object
<1>11. base \in Bases' BY <1>1, <1>9 DEF Bases
<1>12. DraftInv(base)'
  <2>1. base[Len(index') + 1] = b BY <1>1 DEF b
  <2>2. ASSUME NEW i \in DOMAIN draft' PROVE Encodes(table', draft', b, i)
    <3>1. CASE i \in 1..Len(draft)
      <4>1. Encodes(table, draft, b, i) BY <1>3, <1>9, <3>1 DEF DraftInv, b
      <4> QED BY <1>1, <1>2, <1>4, <1>6, <3>1, <4>1, StillEncodes
    <3>2. CASE i = Len(draft) + 1 BY <1>6, <3>2
    <3> QED BY <1>9, <3>1, <3>2
  <2>3. Len(table') = b + Len(draft') BY <1>4, <1>9
  <2> QED BY <1>1, <1>8, <2>1, <2>2, <2>3 DEF DraftInv
<1>13. FileInv(base)'
  <2>1. DOMAIN file' = {index'[j].offset : j \in DOMAIN index'} BY <1>1, <1>3 DEF FileInv
  <2>2. ASSUME NEW j \in DOMAIN index' PROVE BlockInv(base, j)'
    <3>1. BlockOf(j)' = BlockOf(j) /\ EntriesOf(j)' = EntriesOf(j) /\ EndOfBlock(j)' = EndOfBlock(j)
      BY <1>1 DEF BlockOf, EntriesOf, EndOfBlock
    <3>2. BlockInv(base, j) BY <1>1, <1>3 DEF FileInv
    <3>3. EntriesOf(j) \in Seq(Piece) BY <3>2 DEF BlockInv, Block, EntriesOf
    <3>4. base[j] \in Nat
      <4>1. index \in Seq(Handle) /\ j \in DOMAIN index BY <1>1 DEF Types
      <4>2. j \in 1..Len(index) + 1 BY <4>1
      <4>3. base[j] \in 0..Len(table) BY <4>2 DEF Bases
      <4> QED BY <4>3
    <3>5. ASSUME NEW i \in DOMAIN EntriesOf(j) PROVE Encodes(table', EntriesOf(j), base[j], i)
      <4>1. Encodes(table, EntriesOf(j), base[j], i) BY <3>2 DEF BlockInv
      <4>2. i \in 1..Len(EntriesOf(j)) BY <3>3
      <4> QED BY <1>1, <1>2, <1>6, <3>3, <3>4, <4>1, <4>2, StillEncodes
    <3> QED BY <1>1, <3>1, <3>2, <3>5 DEF BlockInv
  <2>3. ASSUME NEW j \in DOMAIN index', NEW k \in DOMAIN index', j < k
        PROVE  EndOfBlock(j)' <= index'[k].offset
    BY <1>1, <1>3, <2>3 DEF FileInv, EndOfBlock
  <2> QED BY <2>1, <2>2, <2>3 DEF FileInv
<1>14. Len(table') \in Nat BY <1>9
<1>15. OpenInv' BY <1>1, <1>3 DEF Inv, OpenInv, object
<1>16. \A r \in Readers : IterInv(base, r)' BY <1>1, <1>14, Idle
<1>17. Inv(base)' BY <1>12, <1>13, <1>15, <1>16 DEF Inv
<1> QED BY <1>10, <1>11, <1>17 DEF IInv, Bases

LEMMA Restarted ==
  ASSUME NEW xs \in Seq(Piece)
  PROVE  Restarts(xs) \in Nat
<1>1. Len(xs) + Interval - 1 \in Nat /\ Interval \in Nat \ {0} BY TableConstants
<1> DEFINE a == Len(xs) + Interval - 1
<1>2. a \in Nat BY <1>1
<1> HIDE DEF a
<1>3. a \div Interval \in Nat BY <1>1, <1>2
<1> QED BY <1>3 DEF a, Restarts

\* A compressed block is not longer than before, and has a length.
LEMMA Lengths ==
  ASSUME NEW raw \in Nat, raw > 0
  PROVE  raw - raw \div 8 - 1 \in Nat
OBVIOUS

LEMMA FlushKeeps ==
  ASSUME Types, NEW base \in Bases, Inv(base), NEW compressed \in BOOLEAN, Flush(compressed)
  PROVE  IInv'
<1> DEFINE end == SizeOf(draft)
           raw == end + (Restarts(draft) + 1) * Word
           len == IF compressed THEN raw - raw \div 8 - 1 ELSE raw
           block == [entries |-> draft, raw |-> raw, restarts |-> Restarts(draft),
                     first |-> 0, compressed |-> compressed]
           handle == [offset |-> size, length |-> len]
<1> PICK m : m = Len(index) + 1 OBVIOUS
<1> PICK then : then = [j \in 1..m + 1 |-> IF j <= m THEN base[j] ELSE Len(table)] OBVIOUS
<1>1. /\ ~footer /\ draft # <<>> /\ draft' = <<>>
      /\ file' = [o \in DOMAIN file \cup {size} |-> IF o = size THEN block ELSE file[o]]
      /\ index' = Append(index, handle)
      /\ size' = size + len + BlockTrailer
      /\ UNCHANGED <<table, footer, object, fpos, it, out>>
  BY DEF Flush
<1>2. /\ draft \in Seq(Piece) /\ Laid(draft) /\ size \in Nat /\ index \in Seq(Handle)
      /\ Len(table) = base[m] + Len(draft)
      /\ \A i \in DOMAIN draft : Encodes(table, draft, base[m], i)
      /\ FileInv(base)
  BY DEF Types, Inv, DraftInv
<1>3. end \in Nat /\ Restarts(draft) \in Nat BY <1>2, Sizes, Restarted
<1>4. raw \in Nat /\ raw > 0 /\ raw - (Restarts(draft) + 1) * Word = end /\ end <= raw
  <2> HIDE DEF end
  <2> QED BY <1>3 DEF Word
<1>5. len \in Nat /\ (~compressed => end <= len)
  <2>1. raw - raw \div 8 - 1 \in Nat
    <3> HIDE DEF raw
    <3> QED BY <1>4, Lengths
  <2> HIDE DEF raw, end
  <2> QED BY <1>4, <2>1
<1>6. /\ block.entries = draft /\ block.raw = raw /\ block.restarts = Restarts(draft)
      /\ block.first = 0 /\ block.compressed = compressed
  OBVIOUS
<1>7. block \in Block
  <2> HIDE DEF raw
  <2> QED BY <1>2, <1>3, <1>4 DEF Block
<1>8. RestartOffset(block) = end BY <1>4, <1>6 DEF RestartOffset
<1>9. handle \in Handle /\ handle.offset = size /\ handle.length = len
  <2> HIDE DEF len
  <2> QED BY <1>2, <1>5 DEF Handle
<1> HIDE DEF end, raw, block, handle, len
<1>10. /\ index' \in Seq(Handle) /\ Len(index') = m /\ m \in Nat
       /\ DOMAIN index = 1..m - 1 /\ DOMAIN index' = 1..m
       /\ index'[m] = handle /\ \A j \in 1..m - 1 : index'[j] = index[j]
  <2>1. Len(index) \in Nat /\ m = Len(index) + 1 BY <1>2
  <2>2. m - 1 = Len(index) /\ Len(index) + 1 = m BY <2>1
  <2> QED BY <1>1, <1>2, <1>9, <2>1, <2>2, Appended
<1>11. /\ \A j \in 1..m : base[j] \in 0..Len(table)
       /\ Len(table) \in Nat
  <2>1. Len(table) \in Nat BY DEF Types
  <2> QED BY <2>1 DEF Bases
<1>12. /\ then \in [1..m + 1 -> 0..Len(table)] /\ then[m + 1] = Len(table)
       /\ \A j \in 1..m : then[j] = base[j]
  BY <1>10, <1>11
<1>13. then \in Bases' BY <1>1, <1>10, <1>12 DEF Bases
<1>14. ASSUME NEW j \in 1..m - 1
       PROVE  /\ index[j].offset \in Nat /\ index[j].length \in Nat
              /\ index[j].offset # size /\ EndOfBlock(j) <= size /\ EndOfBlock(j) \in Nat
              /\ index[j].offset \in DOMAIN file /\ BlockInv(base, j)
  <2>1. index[j] \in Handle BY <1>2, <1>10, ElementOfSeq
  <2>2. index[j].offset \in Nat /\ index[j].length \in Nat BY <2>1 DEF Handle
  <2>3. BlockInv(base, j) /\ index[j].offset \in DOMAIN file BY <1>2, <1>10 DEF FileInv
  <2>4. EndOfBlock(j) = index[j].offset + index[j].length + 5 BY DEF EndOfBlock, BlockTrailer
  <2>5. EndOfBlock(j) <= size BY <2>3 DEF BlockInv
  <2> QED BY <1>2, <2>2, <2>3, <2>4, <2>5
<1>15. size' \in Nat /\ size <= size' /\ size' = size + len + 5 BY <1>1, <1>2, <1>5 DEF BlockTrailer
<1>16. ASSUME NEW j \in 1..m - 1
       PROVE  /\ BlockOf(j)' = BlockOf(j) /\ EntriesOf(j)' = EntriesOf(j)
              /\ EndOfBlock(j)' = EndOfBlock(j) /\ index'[j].offset = index[j].offset
  <2>1. index'[j] = index[j] BY <1>10
  <2>2. file'[index[j].offset] = file[index[j].offset] BY <1>1, <1>14
  <2> QED BY <2>1, <2>2 DEF BlockOf, EntriesOf, EndOfBlock
<1>17. BlockOf(m)' = block /\ EntriesOf(m)' = draft /\ EndOfBlock(m)' = size'
  <2>1. file'[size] = block BY <1>1
  <2>2. index'[m].offset = size /\ index'[m].length = len BY <1>9, <1>10
  <2> QED BY <1>6, <1>15, <2>1, <2>2 DEF BlockOf, EntriesOf, EndOfBlock, BlockTrailer
<1>18. Types'
  <2>1. draft' \in Seq(Piece) BY <1>1
  <2>2. fpos' \in 0..size' BY <1>1, <1>2, <1>15 DEF Types
  <2> QED BY <1>1, <1>10, <1>15, <2>1, <2>2 DEF Types, object
<1>19. BlockInv(then, m)'
  <2>1. BlockOf(m)' \in Block /\ EntriesOf(m)' # <<>> BY <1>1, <1>7, <1>17
  <2>2. RestartOffset(BlockOf(m)') = SizeOf(EntriesOf(m)') BY <1>8, <1>17 DEF end
  <2>3. ~BlockOf(m)'.compressed => SizeOf(EntriesOf(m)') <= index'[m].length
    BY <1>5, <1>6, <1>9, <1>10, <1>17 DEF end
  <2>4. EndOfBlock(m)' <= size' BY <1>15, <1>17
  <2>5. then[m + 1] = then[m] + Len(EntriesOf(m)') BY <1>2, <1>10, <1>12, <1>17
  <2>6. then[m] = base[m] BY <1>10, <1>12
  <2>7. \A i \in DOMAIN EntriesOf(m)' : Encodes(table', EntriesOf(m)', then[m], i)
    BY <1>1, <1>2, <1>17, <2>6
  <2>8. Laid(EntriesOf(m)') BY <1>2, <1>17
  <2> QED BY <2>1, <2>2, <2>3, <2>4, <2>5, <2>7, <2>8 DEF BlockInv
<1>20. FileInv(then)'
  <2>1. DOMAIN file' = {index'[j].offset : j \in DOMAIN index'}
    <3>1. DOMAIN file' = DOMAIN file \cup {size} BY <1>1
    <3>2. DOMAIN file = {index[j].offset : j \in 1..m - 1} BY <1>2, <1>10 DEF FileInv
    <3>3. index'[m].offset = size /\ \A j \in 1..m - 1 : index'[j].offset = index[j].offset
      BY <1>9, <1>10
    <3>4. 1..m = 1..m - 1 \cup {m} BY <1>10
    <3> QED BY <1>10, <3>1, <3>2, <3>3, <3>4
  <2>2. ASSUME NEW j \in 1..m - 1 PROVE BlockInv(then, j)'
    <3>1. BlockInv(base, j) /\ EndOfBlock(j) \in Nat BY <1>14
    <3>2. j \in 1..m /\ j + 1 \in 1..m BY <1>10
    <3>3. then[j] = base[j] /\ then[j + 1] = base[j + 1] BY <1>12, <3>2
    <3>4. EndOfBlock(j)' <= size' BY <1>2, <1>14, <1>15, <1>16
    <3>5. index'[j] = index[j] /\ table' = table BY <1>1, <1>10
    <3> QED BY <1>16, <3>1, <3>3, <3>4, <3>5 DEF BlockInv
  <2>3. ASSUME NEW j \in 1..m, NEW k \in 1..m, j < k PROVE EndOfBlock(j)' <= index'[k].offset
    <3>1. j \in 1..m - 1 BY <1>10, <2>3
    <3>2. CASE k \in 1..m - 1
      <4>1. EndOfBlock(j)' = EndOfBlock(j) BY <1>16, <3>1
      <4>2. index'[k].offset = index[k].offset BY <1>16, <3>2
      <4>3. EndOfBlock(j) <= index[k].offset BY <1>2, <1>10, <2>3, <3>1, <3>2 DEF FileInv
      <4> QED BY <4>1, <4>2, <4>3
    <3>3. CASE k = m BY <1>9, <1>10, <1>14, <1>16, <3>1, <3>3
    <3> QED BY <1>10, <3>2, <3>3
  <2>4. \A j \in 1..m : BlockInv(then, j)' BY <1>10, <1>19, <2>2
  <2> QED BY <1>10, <2>1, <2>3, <2>4 DEF FileInv
<1>21. DraftInv(then)'
  <2>1. Len(draft') = 0 /\ DOMAIN draft' = {} BY <1>1
  <2>2. then[Len(index') + 1] = Len(table') BY <1>1, <1>10, <1>12
  <2>3. Laid(draft') BY <2>1 DEF Laid
  <2> QED BY <1>1, <1>11, <2>1, <2>2, <2>3 DEF DraftInv
<1>22. then[1] = 0 BY <1>10, <1>12 DEF Inv
<1>23. OpenInv' BY <1>1 DEF Inv, OpenInv, object
<1>24. \A r \in Readers : IterInv(then, r)' BY <1>1, <1>11, Idle
<1>25. Inv(then)' BY <1>20, <1>21, <1>22, <1>23, <1>24 DEF Inv
<1> QED BY <1>13, <1>18, <1>25 DEF IInv, Bases

LEMMA FinishKeeps ==
  ASSUME Types, NEW base \in Bases, Inv(base), Finish
  PROVE  IInv'
<1>1. /\ ~footer /\ draft = <<>> /\ footer' = TRUE
      /\ UNCHANGED <<table, draft, file, size, index, object, fpos, it, out>>
  BY DEF Finish
<1>2. Types' BY <1>1 DEF Types, object
<1>3. base \in Bases' BY <1>1 DEF Bases
<1>4. FileInv(base)' BY <1>1 DEF Inv, FileInv, BlockInv, BlockOf, EntriesOf, EndOfBlock
<1>5. DraftInv(base)' BY <1>1 DEF Inv, DraftInv
<1>6. Len(table') \in Nat BY <1>1 DEF Types
<1>7. OpenInv' BY <1>1 DEF Inv, OpenInv, object
<1>8. \A r \in Readers : IterInv(base, r)' BY <1>1, <1>6, Idle
<1>9. Inv(base)' BY <1>4, <1>5, <1>7, <1>8 DEF Inv
<1> QED BY <1>2, <1>3, <1>9 DEF IInv, Bases

(***************************************************************************)
(* What an iterator yields                                                 *)
(***************************************************************************)
\* The file is read from when it is complete.
LEMMA Opened ==
  ASSUME Types, NEW base \in Bases, Inv(base), state # "new"
  PROVE  /\ footer /\ handles = index /\ draft = <<>> /\ Len(index) \in Nat /\ Len(table) \in Nat
         /\ DOMAIN index = 1..Len(index)
         /\ Len(table) = base[Len(index) + 1]
         /\ \A j \in DOMAIN index :
              /\ index[j].offset \in DOMAIN file /\ BlockInv(base, j)
              /\ index[j].offset \in Nat /\ index[j].length \in Nat
              /\ base[j] \in Nat /\ base[j + 1] \in 0..Len(table)
              /\ EntriesOf(j) \in Seq(Piece) /\ Laid(EntriesOf(j))
              /\ EntriesOf(j) # <<>> /\ 1 \in DOMAIN EntriesOf(j)
              /\ EndOfBlock(j) \in 0..size
<1>1. footer /\ handles = index /\ draft = <<>> BY DEF Inv, OpenInv, DraftInv
<1>2. /\ Len(index) \in Nat /\ Len(table) \in Nat /\ DOMAIN index = 1..Len(index)
      /\ index \in Seq(Handle) /\ size \in Nat
  BY DEF Types
<1>3. base[Len(index) + 1] \in 0..Len(table) BY <1>2 DEF Bases
<1>4. Len(table) = base[Len(index) + 1]
  <2>1. Len(draft) = 0 BY <1>1
  <2>2. Len(table) = base[Len(index) + 1] + Len(draft) BY DEF Inv, DraftInv
  <2> QED BY <1>3, <2>1, <2>2
<1>5. ASSUME NEW j \in DOMAIN index
      PROVE  /\ index[j].offset \in DOMAIN file /\ BlockInv(base, j)
             /\ index[j].offset \in Nat /\ index[j].length \in Nat
             /\ base[j] \in Nat /\ base[j + 1] \in 0..Len(table)
             /\ EntriesOf(j) \in Seq(Piece) /\ Laid(EntriesOf(j))
             /\ EntriesOf(j) # <<>> /\ 1 \in DOMAIN EntriesOf(j)
             /\ EndOfBlock(j) \in 0..size
  <2>1. BlockInv(base, j) /\ index[j].offset \in DOMAIN file BY DEF Inv, FileInv
  <2>2. index[j] \in Handle BY <1>2, ElementOfSeq
  <2>3. index[j].offset \in Nat /\ index[j].length \in Nat BY <2>2 DEF Handle
  <2>4. j \in 1..Len(index) + 1 /\ j + 1 \in 1..Len(index) + 1 BY <1>2
  <2>5. base[j] \in 0..Len(table) /\ base[j + 1] \in 0..Len(table) BY <2>4 DEF Bases
  <2>6. EntriesOf(j) \in Seq(Piece) /\ Laid(EntriesOf(j)) /\ EntriesOf(j) # <<>>
    BY <2>1 DEF BlockInv, Block, EntriesOf
  <2>7. 1 \in DOMAIN EntriesOf(j) BY <2>6, Sizes
  <2>8. EndOfBlock(j) \in 0..size
    <3>1. EndOfBlock(j) <= size BY <2>1 DEF BlockInv
    <3>2. EndOfBlock(j) = index[j].offset + index[j].length + 5 BY DEF EndOfBlock, BlockTrailer
    <3> QED BY <1>2, <2>3, <3>1, <3>2
  <2> QED BY <2>1, <2>3, <2>5, <2>6, <2>7, <2>8
<1> QED BY <1>1, <1>2, <1>4, <1>5

\* A record shows what the entry means.
LEMMA Recorded ==
  ASSUME Types, NEW base \in Bases, Inv(base), state # "new",
         NEW j \in DOMAIN index, NEW i \in DOMAIN EntriesOf(j), NEW e \in Entry
  PROVE  RecordOf(j, i, e) \in Yield
<1> DEFINE x == EntriesOf(j)[i]
<1>1. e.key \in UserKeys /\ e.value \in Values BY Keys
<1>2. e.seq \in Seqs BY DEF Entry
<1>3. Meant(e).state \in States BY DEF Meant, States
<1>4. x \in Piece
  <2>1. EntriesOf(j) \in Seq(Piece) BY Opened
  <2> QED BY <2>1, ElementOfSeq
<1>5. x.at \in Nat /\ index[j].offset \in Nat BY <1>4, Opened, Pieces
<1>6. OffsetOf(index[j].offset, x) \in Nat BY <1>5 DEF OffsetOf
<1>7. BlockOf(j).compressed \in BOOLEAN
  <2>1. BlockInv(base, j) BY Opened
  <2> QED BY <2>1 DEF BlockInv, Block
<1> HIDE DEF x
<1> QED BY <1>1, <1>2, <1>3, <1>6, <1>7 DEF RecordOf, Yield, x

\* Iterator r yields the i-th entry of block j, the next of the table.
Gives(base, r, j, i) ==
  /\ j \in DOMAIN index /\ i \in DOMAIN EntriesOf(j)
  /\ Len(out[r]) + 1 = base[j] + i /\ base[j] + i \in DOMAIN table
  /\ it' = [it EXCEPT ![r] = [pc |-> "at", next |-> j + 1, block |-> index[j].offset,
                              tell |-> EndOf(EntriesOf(j), i),
                              key |-> InternalKey(table[base[j] + i])]]
  /\ out' = [out EXCEPT ![r] = Append(@, RecordOf(j, i, table[base[j] + i]))]

LEMMA YieldsRight ==
  ASSUME Types, NEW base \in Bases, Inv(base), state # "new", NEW r \in Readers,
         NEW j \in DOMAIN index, NEW i \in DOMAIN EntriesOf(j),
         Len(out[r]) + 1 = base[j] + i,
         YieldEntry(r, index[j].offset, EntriesOf(j)[i].at, Before(table, base[j], i), j + 1)
  PROVE  Gives(base, r, j, i)
<1> DEFINE o == index[j].offset
           xs == EntriesOf(j)
           key == Before(table, base[j], i)
           e == table[base[j] + i]
<1>1. BlockInv(base, j) /\ xs \in Seq(Piece) /\ Laid(xs) BY Opened
<1>2. file[o].entries = xs BY DEF EntriesOf, BlockOf
<1>3. Encodes(table, xs, base[j], i) BY <1>1 DEF BlockInv
<1>4. e \in Entry /\ base[j] + i \in DOMAIN table
  <2>1. base[j] + i \in DOMAIN table BY <1>3 DEF Encodes
  <2> QED BY <2>1, ElementOfSeq DEF Types
<1> HIDE DEF o, xs, key, e
<1>5. PICK x \in {file[o].entries[n] : n \in DOMAIN file[o].entries} :
        /\ x.at = xs[i].at
        /\ \/ /\ SharesTooMuch(key, x)
              /\ it' = [it EXCEPT ![r].pc = "error"]
              /\ UNCHANGED out
           \/ /\ ~SharesTooMuch(key, x)
              /\ it' = [it EXCEPT ![r] = [pc |-> "at", next |-> j + 1, block |-> o,
                                          tell |-> After(xs[i].at, x),
                                          key |-> KeyAfter(key, x)]]
              /\ out' = [out EXCEPT ![r] = Append(@,
                   [key |-> UserKey(KeyAfter(key, x)),
                    seq |-> KeyAfter(key, x)[Len(KeyAfter(key, x))],
                    state |-> StateOf(KeyAfter(key, x)), value |-> x.value,
                    offset |-> OffsetOf(o, x), compressed |-> file[o].compressed])]
  BY DEF YieldEntry, o, xs, key
<1>6. x = xs[i]
  <2>1. PICK n \in DOMAIN xs : x = xs[n] BY <1>2, <1>5
  <2>2. i \in DOMAIN xs BY DEF xs
  <2>3. n = i BY <1>1, <1>5, <2>1, <2>2, SamePlace
  <2> QED BY <2>1, <2>3
<1>7. KeyAfter(key, x) = InternalKey(e) /\ x.value = e.value /\ x.shared <= Len(key)
  BY <1>3, <1>6 DEF Encodes, e, key
<1>8. ~SharesTooMuch(key, x)
  <2>1. x \in Piece BY <1>1, <1>6, ElementOfSeq DEF xs
  <2>2. x.shared \in Nat BY <2>1, Pieces
  <2>3. Len(key) \in Nat
    <3>1. CASE i = 1 BY <3>1 DEF Before, key
    <3>2. CASE i # 1
      <4> HIDE DEF e
      <4>6. table \in Seq(Entry) BY DEF Types
      <4>7. base[j] + i \in 1..Len(table) BY <1>4, <4>6
      <4>8. base[j] \in Nat BY Opened
      <4>9. i \in Nat \ {0}
        <5>1. i \in DOMAIN xs BY DEF xs
        <5> QED BY <1>1, <5>1
      <4>1. /\ table \in Seq(Entry) /\ base[j] + i \in 1..Len(table) /\ base[j] \in Nat
            /\ i \in Nat \ {0}
        BY <4>6, <4>7, <4>8, <4>9
      <4>2. base[j] + i - 1 \in DOMAIN table BY <3>2, <4>1
      <4>3. table[base[j] + i - 1] \in Entry BY <4>1, <4>2, ElementOfSeq
      <4>4. InternalKey(table[base[j] + i - 1]) \in Seq(Nat) BY <4>3, Keys
      <4>5. key = InternalKey(table[base[j] + i - 1]) BY <3>2 DEF Before, key
      <4> QED BY <4>4, <4>5
    <3> QED BY <3>1, <3>2
  <2> QED BY <1>7, <2>2, <2>3 DEF SharesTooMuch
<1>9. /\ UserKey(InternalKey(e)) = e.key
      /\ InternalKey(e)[Len(InternalKey(e))] = e.seq
      /\ StateOf(InternalKey(e)) = Meant(e).state
  BY <1>4, Keys
<1>10. RecordOf(j, i, e) =
         [key |-> UserKey(KeyAfter(key, x)),
          seq |-> KeyAfter(key, x)[Len(KeyAfter(key, x))],
          state |-> StateOf(KeyAfter(key, x)), value |-> x.value,
          offset |-> OffsetOf(o, x), compressed |-> file[o].compressed]
  BY <1>6, <1>7, <1>9 DEF RecordOf, BlockOf, o, xs
<1>11. it' = [it EXCEPT ![r] = [pc |-> "at", next |-> j + 1, block |-> o,
                                tell |-> EndOf(xs, i), key |-> InternalKey(e)]]
  BY <1>5, <1>6, <1>7, <1>8 DEF EndOf
<1>12. out' = [out EXCEPT ![r] = Append(@, RecordOf(j, i, e))] BY <1>5, <1>8, <1>10
<1> QED BY <1>4, <1>11, <1>12 DEF Gives, o, xs, e

\* Where an iterator that is in the table is: it has another entry of its block,
\* or it has yielded all of the blocks before the next.
LEMMA Standing ==
  ASSUME Types, NEW base \in Bases, Inv(base), NEW r \in Readers, it[r].pc \in {"before", "at"}
  PROVE  /\ state # "new" /\ it[r].next \in 1..Len(index) + 1
         /\ InBlock(r) =>
              /\ it[r].next - 1 \in DOMAIN index /\ it[r].block = index[it[r].next - 1].offset
              /\ \E i \in DOMAIN EntriesOf(it[r].next - 1) :
                   /\ it[r].tell = EntriesOf(it[r].next - 1)[i].at
                   /\ Len(out[r]) + 1 = base[it[r].next - 1] + i
                   /\ it[r].key = Before(table, base[it[r].next - 1], i)
         /\ ~InBlock(r) => Len(out[r]) = base[it[r].next]
<1>1. IterInv(base, r) /\ base[1] = 0 BY DEF Inv
<1>2. state # "new" BY <1>1 DEF IterInv
<1>3. handles = index /\ Len(index) \in Nat /\ DOMAIN index = 1..Len(index) BY <1>2, Opened
<1>4. it[r].next \in 1..Len(index) + 1 BY <1>1, <1>3 DEF IterInv
<1>5. CASE it[r].pc = "before"
  <2>1. ~InBlock(r) BY <1>5 DEF InBlock
  <2>2. it[r].next = 1 /\ Len(out[r]) = 0 BY <1>1, <1>5 DEF IterInv
  <2> QED BY <1>1, <1>2, <1>4, <2>1, <2>2
<1>6. CASE it[r].pc = "at"
  <2>1. PICK j \in DOMAIN index : it[r].next = j + 1 /\ StandsIn(base, r, j)
    BY <1>1, <1>6 DEF IterInv
  <2>2. j \in DOMAIN index /\ it[r].next = j + 1 BY <2>1
  <2> DEFINE xs == EntriesOf(j)
  <2>3. PICK i \in DOMAIN xs : Stands(base, r, j, i) BY <2>1 DEF StandsIn
  <2>4. /\ BlockInv(base, j) /\ xs \in Seq(Piece) /\ Laid(xs) /\ base[j] \in Nat
    BY <1>2, <2>2, Opened
  <2>5. /\ it[r].block = index[j].offset /\ it[r].tell = EndOf(xs, i)
        /\ Len(out[r]) = base[j] + i /\ it[r].key = InternalKey(table[base[j] + i])
    BY <2>3 DEF Stands
  <2>6. RestartOffset(file[it[r].block]) = SizeOf(xs)
    BY <2>4, <2>5 DEF BlockInv, BlockOf
  <2>7. InBlock(r) <=> EndOf(xs, i) < SizeOf(xs) BY <1>6, <2>5, <2>6 DEF InBlock
  <2>8. i \in Nat \ {0} /\ DOMAIN xs = 1..Len(xs) /\ Len(xs) \in Nat
    <3> HIDE DEF xs
    <3> QED BY <2>4
  <2>9. ASSUME InBlock(r)
        PROVE  \E n \in DOMAIN xs : /\ it[r].tell = xs[n].at
                                    /\ Len(out[r]) + 1 = base[j] + n
                                    /\ it[r].key = Before(table, base[j], n)
    <3> HIDE DEF xs
    <3>1. i + 1 \in DOMAIN xs /\ xs[i + 1].at = EndOf(xs, i) BY <2>4, <2>7, <2>9, Sizes
    <3>2. Len(out[r]) + 1 = base[j] + (i + 1) BY <2>4, <2>5, <2>8
    <3>3. i + 1 # 1 /\ base[j] + (i + 1) - 1 = base[j] + i BY <2>4, <2>8
    <3>4. Before(table, base[j], i + 1) = InternalKey(table[base[j] + i]) BY <3>3 DEF Before
    <3> QED BY <2>5, <3>1, <3>2, <3>4
  <2>10. ASSUME ~InBlock(r) PROVE Len(out[r]) = base[it[r].next]
    <3>1. i = Len(xs)
      <4> HIDE DEF xs
      <4>1. CASE i < Len(xs)
        <5>1. i + 1 \in DOMAIN xs /\ i < i + 1 /\ i + 1 # 1 /\ i + 1 - 1 = i BY <2>8, <4>1
        <5>2. xs[i + 1].at = EndOf(xs, i) BY <2>4, <5>1 DEF Laid
        <5>3. xs[i + 1].at < SizeOf(xs) BY <2>4, <5>1, Sizes
        <5> QED BY <2>7, <2>10, <5>2, <5>3
      <4> QED BY <2>8, <4>1
    <3>2. base[j + 1] = base[j] + Len(xs) BY <2>4 DEF BlockInv
    <3> QED BY <2>2, <2>5, <3>1, <3>2
  <2>11. it[r].next - 1 = j BY <2>2, <1>3
  <2> QED BY <1>2, <1>4, <2>2, <2>5, <2>9, <2>10, <2>11
<1> QED BY <1>5, <1>6

LEMMA NextEntryGives ==
  ASSUME Types, NEW base \in Bases, Inv(base), NEW r \in Readers, NextEntry(r)
  PROVE  state # "new" /\ \E j, i : Gives(base, r, j, i)
<1>1. InBlock(r) /\ it[r].pc = "at" BY DEF NextEntry, InBlock
<1> PICK j : j = it[r].next - 1 OBVIOUS
<1>2. /\ state # "new" /\ j \in DOMAIN index /\ it[r].block = index[j].offset
      /\ it[r].next \in 1..Len(index) + 1
  BY <1>1, Standing
<1>3. PICK i \in DOMAIN EntriesOf(j) : /\ it[r].tell = EntriesOf(j)[i].at
                                       /\ Len(out[r]) + 1 = base[j] + i
                                       /\ it[r].key = Before(table, base[j], i)
  BY <1>1, Standing
<1>4. it[r].next = j + 1
  <2>1. Len(index) \in Nat BY DEF Types
  <2> QED BY <1>2, <2>1
<1>5. YieldEntry(r, index[j].offset, EntriesOf(j)[i].at, Before(table, base[j], i), j + 1)
  BY <1>2, <1>3, <1>4 DEF NextEntry
<1>6. Gives(base, r, j, i) BY <1>2, <1>3, <1>5, YieldsRight
<1> QED BY <1>2, <1>6

\* Iterator r fails: the file was closed.
Fails(r) == state = "closed" /\ it' = [it EXCEPT ![r].pc = "error"] /\ UNCHANGED out

LEMMA NextBlockGives ==
  ASSUME Types, NEW base \in Bases, Inv(base), NEW r \in Readers, NextBlock(r)
  PROVE  /\ state # "new" /\ fpos' \in 0..size
         /\ Fails(r) \/ \E j, i : Gives(base, r, j, i)
<1> PICK j : j = it[r].next OBVIOUS
<1>1. it[r].pc \in {"before", "at"} /\ ~InBlock(r) /\ j <= Len(handles) BY DEF NextBlock
<1>2. state # "new" /\ j \in 1..Len(index) + 1 /\ Len(out[r]) = base[j] BY <1>1, Standing
<1>3. handles = index /\ Len(index) \in Nat /\ DOMAIN index = 1..Len(index) BY <1>2, Opened
<1>4. j \in DOMAIN index BY <1>1, <1>2, <1>3
<1>5. /\ index[j].offset \in DOMAIN file /\ BlockInv(base, j)
      /\ EntriesOf(j) \in Seq(Piece) /\ Laid(EntriesOf(j)) /\ 1 \in DOMAIN EntriesOf(j)
      /\ base[j] \in Nat /\ EndOfBlock(j) \in 0..size
  BY <1>2, <1>4, Opened
<1>6. CASE state = "open"
  <2>1. /\ YieldEntry(r, index[j].offset, file[index[j].offset].first, <<>>, j + 1)
        /\ fpos' = EndOfBlock(j)
    BY <1>3, <1>5, <1>6 DEF NextBlock, Place, EndOfBlock
  <2>2. file[index[j].offset].first = 0 BY <1>5 DEF BlockInv, Block, BlockOf
  <2>3. EntriesOf(j)[1].at = 0 BY <1>5 DEF Laid
  <2>4. Before(table, base[j], 1) = <<>> BY DEF Before
  <2>5. Len(out[r]) + 1 = base[j] + 1 BY <1>2
  <2>6. Gives(base, r, j, 1) BY <1>2, <1>4, <1>5, <2>1, <2>2, <2>3, <2>4, <2>5, YieldsRight
  <2> QED BY <1>2, <1>5, <2>1, <2>6
<1>7. CASE state # "open"
  <2>1. state = "closed" BY <1>2, <1>7 DEF Types
  <2>2. it' = [it EXCEPT ![r].pc = "error"] /\ UNCHANGED <<fpos, out>> BY <1>7 DEF NextBlock
  <2>3. Fails(r) BY <2>1, <2>2 DEF Fails
  <2>4. fpos' \in 0..size BY <2>2 DEF Types
  <2> QED BY <1>2, <2>3, <2>4
<1> QED BY <1>6, <1>7

(***************************************************************************)
(* LdbFile keeps the invariant                                             *)
(***************************************************************************)
LEMMA YieldedFramed ==
  ASSUME NEW base, NEW s \in Readers, Yielded(base, s),
         UNCHANGED <<table, file, index>>, out'[s] = out[s]
  PROVE  Yielded(base, s)'
<1> SUFFICES ASSUME NEW k \in DOMAIN out[s] PROVE IsRecord(base, s, k)' BY DEF Yielded
<1>1. IsRecord(base, s, k) BY DEF Yielded
<1>2. PICK l \in DOMAIN index : \E h \in DOMAIN EntriesOf(l) :
        k = base[l] + h /\ out[s][k] = RecordOf(l, h, table[k])
  BY <1>1 DEF IsRecord
<1>3. PICK h \in DOMAIN EntriesOf(l) : k = base[l] + h /\ out[s][k] = RecordOf(l, h, table[k])
  BY <1>2
<1>4. EntriesOf(l)' = EntriesOf(l) /\ RecordOf(l, h, table[k])' = RecordOf(l, h, table[k])
  BY DEF RecordOf, OffsetOf, EntriesOf, BlockOf
<1> QED BY <1>3, <1>4 DEF IsRecord

LEMMA IterFramed ==
  ASSUME NEW base, NEW s \in Readers, IterInv(base, s),
         UNCHANGED <<table, file, index, handles>>, it'[s] = it[s], out'[s] = out[s],
         state' = state \/ (state # "closed" /\ state' = "closed")
  PROVE  IterInv(base, s)'
<1>1. Yielded(base, s)' BY YieldedFramed DEF IterInv
<1>2. ASSUME it[s].pc = "at"
      PROVE  \E j \in DOMAIN index' : it'[s].next = j + 1 /\ StandsIn(base, s, j)'
  <2>1. PICK j \in DOMAIN index : it[s].next = j + 1 /\ StandsIn(base, s, j)
    BY <1>2 DEF IterInv
  <2>2. StandsIn(base, s, j)' BY <2>1 DEF StandsIn, Stands, EntriesOf, BlockOf
  <2> QED BY <2>1, <2>2
<1> QED BY <1>1, <1>2 DEF IterInv

LEMMA Framed ==
  ASSUME Types, NEW base \in Bases, Inv(base), state # "new",
         UNCHANGED <<builder, handles>>,
         state' = state \/ (state # "closed" /\ state' = "closed")
  PROVE  /\ base \in Bases' /\ FileInv(base)' /\ DraftInv(base)' /\ OpenInv'
         /\ \A s \in Readers : it'[s] = it[s] /\ out'[s] = out[s] => IterInv(base, s)'
<1>1. /\ UNCHANGED <<table, draft, file, size, index, footer, handles>> BY DEF builder
<1>2. base \in Bases' BY <1>1 DEF Bases
<1>3. FileInv(base)' BY <1>1 DEF Inv, FileInv, BlockInv, BlockOf, EntriesOf, EndOfBlock
<1>4. DraftInv(base)' BY <1>1 DEF Inv, DraftInv
<1>5. OpenInv' BY <1>1 DEF Inv, OpenInv
<1>6. ASSUME NEW s \in Readers, it'[s] = it[s], out'[s] = out[s]
      PROVE  IterInv(base, s)'
  <2>1. IterInv(base, s) BY DEF Inv
  <2>2. state' = state \/ (state # "closed" /\ state' = "closed") OBVIOUS
  <2> QED BY <1>1, <1>6, <2>1, <2>2, IterFramed
<1> QED BY <1>2, <1>3, <1>4, <1>5, <1>6

LEMMA GivesKeeps ==
  ASSUME Types, NEW base \in Bases, Inv(base), state # "new", NEW r \in Readers,
         NEW j, NEW i, Gives(base, r, j, i), UNCHANGED <<builder, object>>, fpos' \in 0..size
  PROVE  IInv'
<1> DEFINE n == base[j] + i
           record == RecordOf(j, i, table[n])
<1>1. /\ j \in DOMAIN index /\ i \in DOMAIN EntriesOf(j) /\ Len(out[r]) + 1 = n
      /\ n \in DOMAIN table
      /\ it' = [it EXCEPT ![r] = [pc |-> "at", next |-> j + 1, block |-> index[j].offset,
                                  tell |-> EndOf(EntriesOf(j), i),
                                  key |-> InternalKey(table[n])]]
      /\ out' = [out EXCEPT ![r] = Append(@, record)]
  BY DEF Gives
<1>2. UNCHANGED <<table, draft, file, size, index, footer, handles, state>>
  BY DEF builder, object
<1>3. /\ base \in Bases' /\ FileInv(base)' /\ DraftInv(base)' /\ OpenInv'
      /\ \A s \in Readers : it'[s] = it[s] /\ out'[s] = out[s] => IterInv(base, s)'
  BY <1>2, Framed
<1>4. table[n] \in Entry /\ table \in Seq(Entry) BY <1>1, ElementOfSeq DEF Types
<1>5. record \in Yield BY <1>1, <1>4, Recorded
<1>6. /\ handles = index /\ Len(index) \in Nat /\ DOMAIN index = 1..Len(index)
      /\ index[j].offset \in Nat /\ EntriesOf(j) \in Seq(Piece) /\ Laid(EntriesOf(j))
  BY <1>1, Opened
<1>7. out[r] \in Seq(Yield) /\ out \in [Readers -> Seq(Yield)] /\ it \in [Readers -> Local]
  BY DEF Types
<1> DEFINE after == [pc |-> "at", next |-> j + 1, block |-> index[j].offset,
                     tell |-> EndOf(EntriesOf(j), i), key |-> InternalKey(table[n])]
<1>8. after \in Local
  <2>1. EndOf(EntriesOf(j), i) \in Nat BY <1>1, <1>6, Sizes
  <2>2. InternalKey(table[n]) \in Seq(Nat) BY <1>4, Keys
  <2>3. j + 1 \in Nat BY <1>1, <1>6
  <2> QED BY <1>6, <2>1, <2>2, <2>3 DEF Local
<1>9. /\ after.pc = "at" /\ after.next = j + 1 /\ after.block = index[j].offset
      /\ after.tell = EndOf(EntriesOf(j), i) /\ after.key = InternalKey(table[n])
  OBVIOUS
<1>10. /\ it'[r] = after /\ out'[r] = Append(out[r], record)
       /\ \A s \in Readers \ {r} : it'[s] = it[s] /\ out'[s] = out[s]
  BY <1>1, <1>7
<1> HIDE DEF record, after
<1>11. Append(out[r], record) \in Seq(Yield) BY <1>5, <1>7, Appended
<1>12. it' \in [Readers -> Local] /\ out' \in [Readers -> Seq(Yield)]
  BY <1>1, <1>7, <1>8, <1>11 DEF after, record
<1>13. Types' BY <1>2, <1>12 DEF Types
<1>14. IterInv(base, r)'
  <2>1. /\ Len(out'[r]) = n /\ DOMAIN out'[r] = 1..n /\ out'[r][n] = record
        /\ \A k \in 1..n - 1 : out'[r][k] = out[r][k] /\ n \in Nat
        /\ DOMAIN out[r] = 1..n - 1
    <3>1. /\ Len(out'[r]) = Len(out[r]) + 1 /\ Len(out[r]) \in Nat
          /\ DOMAIN out[r] = 1..Len(out[r]) /\ DOMAIN out'[r] = 1..Len(out[r]) + 1
          /\ out'[r][Len(out[r]) + 1] = record
          /\ \A l \in 1..Len(out[r]) : out'[r][l] = out[r][l]
      BY <1>5, <1>7, <1>10, Appended
    <3>2. Len(out[r]) = n - 1 /\ n \in Nat BY <1>1, <3>1
    <3> QED BY <1>1, <3>1, <3>2
  <2>2. n <= Len(table) BY <1>1, <1>4
  <2>3. EntriesOf(j)' = EntriesOf(j) BY <1>2 DEF EntriesOf, BlockOf
  <2>4. RecordOf(j, i, table[n])' = record
    BY <1>2 DEF RecordOf, OffsetOf, EntriesOf, BlockOf, record
  <2>5. Yielded(base, r)'
    <3>1. ASSUME NEW k \in 1..n PROVE IsRecord(base, r, k)'
      <4>1. CASE k = n BY <1>1, <1>2, <2>1, <2>3, <2>4, <4>1 DEF IsRecord
      <4>2. CASE k \in 1..n - 1
        <5>3. IsRecord(base, r, k)
          <6>1. Yielded(base, r) BY DEF Inv, IterInv
          <6> QED BY <2>1, <4>2, <6>1 DEF Yielded
        <5>4. PICK l \in DOMAIN index : \E h \in DOMAIN EntriesOf(l) :
                k = base[l] + h /\ out[r][k] = RecordOf(l, h, table[k])
          BY <5>3 DEF IsRecord
        <5>1. PICK h \in DOMAIN EntriesOf(l) :
                k = base[l] + h /\ out[r][k] = RecordOf(l, h, table[k])
          BY <5>4
        <5>2. EntriesOf(l)' = EntriesOf(l) /\ RecordOf(l, h, table[k])' = RecordOf(l, h, table[k])
          BY <1>2 DEF RecordOf, OffsetOf, EntriesOf, BlockOf
        <5> QED BY <1>2, <2>1, <4>2, <5>1, <5>2 DEF IsRecord
      <4> QED BY <2>1, <4>1, <4>2
    <3> QED BY <2>1, <3>1 DEF Yielded
  <2>6. it'[r].next = j + 1 /\ it'[r].pc = "at" BY <1>9, <1>10
  <2>7. j + 1 \in 1..Len(handles') + 1 BY <1>1, <1>2, <1>6
  <2>8. Stands(base, r, j, i)' BY <1>2, <1>9, <1>10, <2>1, <2>3 DEF Stands
  <2>10. StandsIn(base, r, j)' BY <1>1, <2>3, <2>8 DEF StandsIn
  <2> QED BY <1>1, <1>2, <2>1, <2>2, <2>3, <2>5, <2>6, <2>7, <2>10 DEF IterInv
<1>15. Inv(base)' BY <1>3, <1>10, <1>14 DEF Inv
<1> QED BY <1>3, <1>13, <1>15 DEF IInv, Bases

LEMMA FailsKeeps ==
  ASSUME Types, NEW base \in Bases, Inv(base), state # "new", NEW r \in Readers,
         Fails(r), UNCHANGED <<builder, object>>, fpos' \in 0..size
  PROVE  IInv'
<1>1. UNCHANGED <<table, draft, file, size, index, footer, handles, state>>
  BY DEF builder, object
<1>2. state = "closed" /\ it' = [it EXCEPT ![r].pc = "error"] /\ out' = out BY DEF Fails
<1>3. /\ base \in Bases' /\ FileInv(base)' /\ DraftInv(base)' /\ OpenInv'
      /\ \A s \in Readers : it'[s] = it[s] /\ out'[s] = out[s] => IterInv(base, s)'
  BY <1>1, Framed
<1>4. it \in [Readers -> Local] BY DEF Types
<1>5. it' \in [Readers -> Local] BY <1>2, <1>4 DEF Local
<1>6. it'[r].pc = "error" /\ it'[r].next = it[r].next /\ \A s \in Readers \ {r} : it'[s] = it[s]
  BY <1>2, <1>4 DEF Local
<1>7. Types' BY <1>1, <1>2, <1>5 DEF Types
<1>8. IterInv(base, r)'
  <2>1. IterInv(base, r) BY DEF Inv
  <2>2. Yielded(base, r)' BY <1>1, <1>2, <2>1, YieldedFramed DEF IterInv
  <2> QED BY <1>1, <1>2, <1>6, <2>1, <2>2 DEF IterInv
<1>9. Inv(base)' BY <1>2, <1>3, <1>6, <1>8 DEF Inv
<1> QED BY <1>3, <1>7, <1>9 DEF IInv, Bases

LEMMA StartKeeps ==
  ASSUME Types, NEW base \in Bases, Inv(base), NEW r \in Readers, Start(r)
  PROVE  IInv'
<1> DEFINE fresh == [pc |-> "before", next |-> 1, block |-> 0, tell |-> 0, key |-> <<>>]
<1>1. /\ state # "new" /\ it' = [it EXCEPT ![r] = fresh] /\ out' = [out EXCEPT ![r] = <<>>]
      /\ UNCHANGED <<builder, object, fpos>>
  BY DEF Start
<1>2. UNCHANGED <<table, draft, file, size, index, footer, handles, state, fpos>>
  BY <1>1 DEF builder, object
<1>3. /\ base \in Bases' /\ FileInv(base)' /\ DraftInv(base)' /\ OpenInv'
      /\ \A s \in Readers : it'[s] = it[s] /\ out'[s] = out[s] => IterInv(base, s)'
  BY <1>1, <1>2, Framed
<1>4. it \in [Readers -> Local] /\ out \in [Readers -> Seq(Yield)] BY DEF Types
<1>5. fresh \in Local /\ fresh.pc = "before" /\ fresh.next = 1 BY DEF Local
<1> HIDE DEF fresh
<1>6. /\ it'[r] = fresh /\ out'[r] = <<>>
      /\ \A s \in Readers \ {r} : it'[s] = it[s] /\ out'[s] = out[s]
  BY <1>1, <1>4
<1>7. it' \in [Readers -> Local] BY <1>1, <1>4, <1>5
<1>8. out' \in [Readers -> Seq(Yield)] BY <1>1, <1>4
<1>9. Types' BY <1>2, <1>7, <1>8 DEF Types
<1>10. IterInv(base, r)'
  <2>1. Len(out'[r]) = 0 /\ DOMAIN out'[r] = {} BY <1>6
  <2>2. Len(table') \in Nat /\ Len(handles') \in Nat BY <1>9 DEF Types
  <2> QED BY <1>1, <1>2, <1>5, <1>6, <2>1, <2>2 DEF IterInv, Yielded
<1>11. Inv(base)' BY <1>3, <1>6, <1>10 DEF Inv
<1> QED BY <1>3, <1>9, <1>11 DEF IInv, Bases

LEMMA EndTableKeeps ==
  ASSUME Types, NEW base \in Bases, Inv(base), NEW r \in Readers, EndTable(r)
  PROVE  IInv'
<1>1. /\ it[r].pc \in {"before", "at"} /\ ~InBlock(r) /\ it[r].next > Len(handles)
      /\ it' = [it EXCEPT ![r].pc = "done"] /\ UNCHANGED <<builder, object, fpos, out>>
  BY DEF EndTable
<1>2. state # "new" /\ it[r].next \in 1..Len(index) + 1 /\ Len(out[r]) = base[it[r].next]
  BY <1>1, Standing
<1>3. handles = index /\ Len(index) \in Nat /\ Len(table) = base[Len(index) + 1]
  BY <1>2, Opened
<1>4. it[r].next = Len(index) + 1 BY <1>1, <1>2, <1>3
<1>5. Len(out[r]) = Len(table) BY <1>2, <1>3, <1>4
<1>6. UNCHANGED <<builder, table, draft, file, size, index, footer, handles, state, fpos, out>>
  BY <1>1 DEF builder, object
<1>7. /\ base \in Bases' /\ FileInv(base)' /\ DraftInv(base)' /\ OpenInv'
      /\ \A s \in Readers : it'[s] = it[s] /\ out'[s] = out[s] => IterInv(base, s)'
  BY <1>2, <1>6, Framed
<1>8. it \in [Readers -> Local] BY DEF Types
<1>9. it' \in [Readers -> Local] BY <1>1, <1>8 DEF Local
<1>10. it'[r].pc = "done" /\ it'[r].next = it[r].next /\ \A s \in Readers \ {r} : it'[s] = it[s]
  BY <1>1, <1>8 DEF Local
<1>11. Types' BY <1>6, <1>9 DEF Types
<1>12. IterInv(base, r)'
  <2>1. IterInv(base, r) BY DEF Inv
  <2>2. Yielded(base, r)' BY <1>6, <2>1, YieldedFramed DEF IterInv
  <2> QED BY <1>2, <1>5, <1>6, <1>10, <2>1, <2>2 DEF IterInv
<1>13. Inv(base)' BY <1>6, <1>7, <1>10, <1>12 DEF Inv
<1> QED BY <1>7, <1>11, <1>13 DEF IInv, Bases

LEMMA CloseKeeps ==
  ASSUME Types, NEW base \in Bases, Inv(base), Close
  PROVE  IInv'
<1>1. state = "open" /\ state' = "closed" /\ UNCHANGED <<builder, handles, fpos, it, out>>
  BY DEF Close
<1>2. /\ base \in Bases' /\ FileInv(base)' /\ DraftInv(base)' /\ OpenInv'
      /\ \A s \in Readers : IterInv(base, s)'
  BY <1>1, Framed
<1>3. Types' BY <1>1 DEF Types, builder
<1>4. Inv(base)' BY <1>2 DEF Inv
<1> QED BY <1>2, <1>3, <1>4 DEF IInv, Bases

LEMMA OpenKeeps ==
  ASSUME Types, NEW base \in Bases, Inv(base), Open
  PROVE  IInv'
<1>1. /\ state = "new" /\ footer /\ state' = "open" /\ handles' = index /\ fpos' = size
      /\ UNCHANGED <<table, draft, file, size, index, footer, it, out>>
  BY DEF Open, builder
<1>2. base \in Bases' BY <1>1 DEF Bases
<1>3. FileInv(base)' BY <1>1 DEF Inv, FileInv, BlockInv, BlockOf, EntriesOf, EndOfBlock
<1>4. DraftInv(base)' BY <1>1 DEF Inv, DraftInv
<1>5. OpenInv' BY <1>1 DEF OpenInv
<1>6. Types' BY <1>1 DEF Types
<1>7. ASSUME NEW r \in Readers PROVE IterInv(base, r)'
  <2>1. IterInv(base, r) BY DEF Inv
  <2>2. it[r].pc = "new" /\ it[r].next = 1 /\ out[r] = <<>> BY <1>1, <2>1 DEF IterInv
  <2>3. Len(out'[r]) = 0 /\ DOMAIN out'[r] = {} BY <1>1, <2>2
  <2>4. Len(table') \in Nat /\ Len(handles') \in Nat BY <1>6 DEF Types
  <2> QED BY <1>1, <2>2, <2>3, <2>4 DEF IterInv, Yielded
<1>8. Inv(base)' BY <1>3, <1>4, <1>5, <1>7 DEF Inv
<1> QED BY <1>2, <1>6, <1>8 DEF IInv, Bases

LEMMA NextKeeps ==
  ASSUME IInv, [Next]_vars
  PROVE  IInv'
<1>1. Types BY DEF IInv
<1>2. PICK base \in Bases : Inv(base) BY DEF IInv, Bases
<1>3. CASE UNCHANGED vars
  <2>1. UNCHANGED <<table, draft, file, size, index, footer, handles, state, fpos, it, out>>
    BY <1>3 DEF vars
  <2>2. Types' /\ base \in Bases' BY <1>1, <2>1 DEF Types, Bases
  <2>3. FileInv(base)'
    BY <1>2, <2>1 DEF Inv, FileInv, BlockInv, BlockOf, EntriesOf, EndOfBlock
  <2>4. DraftInv(base)' /\ OpenInv' BY <1>2, <2>1 DEF Inv, DraftInv, OpenInv
  <2>5. \A r \in Readers : IterInv(base, r)' BY <1>2, <2>1, IterFramed DEF Inv
  <2>6. Inv(base)' BY <1>2, <2>3, <2>4, <2>5 DEF Inv
  <2> QED BY <2>2, <2>6 DEF IInv, Bases
<1>4. CASE Build BY <1>1, <1>2, <1>4, AddKeeps, FlushKeeps, FinishKeeps DEF Build
<1>5. CASE Open BY <1>1, <1>2, <1>5, OpenKeeps
<1>6. CASE Close BY <1>1, <1>2, <1>6, CloseKeeps
<1>7. ASSUME NEW r \in Readers, NextEntry(r) PROVE IInv'
  <2>1. state # "new" /\ \E j, i : Gives(base, r, j, i) BY <1>1, <1>2, <1>7, NextEntryGives
  <2>2. UNCHANGED <<builder, object, fpos>> BY <1>7 DEF NextEntry
  <2>3. fpos' \in 0..size BY <1>1, <2>2 DEF Types
  <2> QED BY <1>1, <1>2, <2>1, <2>2, <2>3, GivesKeeps
<1>8. ASSUME NEW r \in Readers, NextBlock(r) PROVE IInv'
  <2>1. /\ state # "new" /\ fpos' \in 0..size
        /\ Fails(r) \/ \E j, i : Gives(base, r, j, i)
    BY <1>1, <1>2, <1>8, NextBlockGives
  <2>2. UNCHANGED <<builder, object>> BY <1>8 DEF NextBlock
  <2> QED BY <1>1, <1>2, <2>1, <2>2, GivesKeeps, FailsKeeps
<1>9. CASE Iterate BY <1>1, <1>2, <1>7, <1>8, <1>9, StartKeeps, EndTableKeeps DEF Iterate
<1> QED BY <1>3, <1>4, <1>5, <1>6, <1>9 DEF Next

LEMMA Invariant == Spec => []IInv
<1> QED BY Initially, NextKeeps, PTL DEF Spec

(***************************************************************************)
(* What an LdbFile promises                                                *)
(***************************************************************************)
\* Every variable has its type; the stream is never put beyond the end of the
\* file, and no iterator reads into the restart points of its block.
THEOREM TypeCorrect == Spec => []TypeOK
<1>1. ASSUME IInv PROVE TypeOK
  <2>1. Types BY <1>1 DEF IInv
  <2>2. PICK base \in Bases : Inv(base) BY <1>1 DEF IInv, Bases
  <2>3. Len(handles) <= Len(index)
    <3>1. Len(index) \in Nat BY <2>1 DEF Types
    <3>2. handles = index \/ Len(handles) = 0 BY <2>2 DEF Inv, OpenInv
    <3> QED BY <3>1, <3>2
  <2>4. ASSUME NEW r \in Readers
        PROVE  /\ it[r].pc \in {"new", "before", "at", "done", "error"}
               /\ it[r].next \in 1..Len(handles) + 1
               /\ it[r].pc = "at" => it[r].tell <= RestartOffset(file[it[r].block])
               /\ \A n \in DOMAIN out[r] : /\ out[r][n].state \in States
                                           /\ out[r][n].key \in UserKeys
    <3>1. IterInv(base, r) BY <2>2 DEF Inv
    <3>2. it[r] \in Local /\ out[r] \in Seq(Yield) BY <2>1 DEF Types
    <3>3. ASSUME it[r].pc = "at" PROVE it[r].tell <= RestartOffset(file[it[r].block])
      <4>1. PICK j \in DOMAIN index : StandsIn(base, r, j) BY <3>1, <3>3 DEF IterInv
      <4>2. PICK i \in DOMAIN EntriesOf(j) : Stands(base, r, j, i) BY <4>1 DEF StandsIn
      <4>3. state # "new" BY <3>1, <3>3 DEF IterInv
      <4>4. BlockInv(base, j) /\ EntriesOf(j) \in Seq(Piece) /\ Laid(EntriesOf(j))
        BY <2>1, <2>2, <4>3, Opened
      <4>5. EndOf(EntriesOf(j), i) <= SizeOf(EntriesOf(j)) BY <4>4, Sizes
      <4> QED BY <4>2, <4>4, <4>5 DEF Stands, BlockInv, BlockOf
    <3>4. ASSUME NEW n \in DOMAIN out[r]
          PROVE  out[r][n].state \in States /\ out[r][n].key \in UserKeys
      <4>1. out[r][n] \in Yield BY <3>2, ElementOfSeq
      <4> QED BY <4>1 DEF Yield
    <3>5. it[r].next \in 1..Len(handles) + 1 BY <3>1 DEF IterInv
    <3>6. it[r].pc \in {"new", "before", "at", "done", "error"} BY <3>2 DEF Local
    <3> QED BY <3>3, <3>4, <3>5, <3>6
  <2> QED BY <2>1, <2>3, <2>4 DEF Types, TypeOK
<1> QED BY <1>1, Invariant, PTL

\* Iterating a table LevelDB wrote raises only if the file was closed: every
\* handle of the index leads to a block, and no entry claims more of the key
\* before it than that key has, whatever block the other iterators have moved
\* the stream to.
THEOREM NeverFails == Spec => []NoError
<1>1. ASSUME IInv PROVE NoError BY <1>1 DEF IInv, Inv, IterInv, NoError
<1> QED BY <1>1, Invariant, PTL

\* An iteration that stops has yielded as many records as the table has
\* entries, however the builder divided them into blocks.
THEOREM EverythingGiven == Spec => []Complete
<1>1. ASSUME IInv PROVE Complete BY <1>1 DEF IInv, Inv, IterInv, Complete
<1> QED BY <1>1, Invariant, PTL

\* Where a record of the i-th entry of block j can have its offset.
LEMMA OffsetInBlocks ==
  ASSUME Types, NEW base \in Bases, Inv(base), state # "new",
         NEW j \in DOMAIN index, NEW i \in DOMAIN EntriesOf(j)
  PROVE  LET at == OffsetOf(index[j].offset, EntriesOf(j)[i])
         IN  /\ index[j].offset <= at /\ at < EndOfBlock(j) /\ at \in Nat
             /\ ~BlockOf(j).compressed => at = index[j].offset + EntriesOf(j)[i].at
<1> DEFINE xs == EntriesOf(j)
           o == index[j].offset
           len == index[j].length
           x == xs[i]
<1>1. /\ BlockInv(base, j) /\ xs \in Seq(Piece) /\ Laid(xs) /\ o \in Nat /\ len \in Nat
  BY Opened
<1>2. i \in DOMAIN xs OBVIOUS
<1>3. BlockOf(j) = file[o] BY DEF BlockOf
<1>4. ~BlockOf(j).compressed => SizeOf(xs) <= len BY <1>1 DEF BlockInv
<1>5. EndOfBlock(j) = o + len + 5 BY DEF EndOfBlock, BlockTrailer
<1>6. OffsetOf(o, x) = IF BlockOf(j).compressed THEN o ELSE o + x.at BY <1>3 DEF OffsetOf
<1> HIDE DEF xs, o, len
<1>7. SizeOf(xs) \in Nat /\ x.at < SizeOf(xs) BY <1>1, <1>2, Sizes
<1>8. x \in Piece BY <1>1, <1>2, ElementOfSeq
<1>9. x.at \in Nat BY <1>8, Pieces
<1> HIDE DEF x
<1>10. /\ o <= OffsetOf(o, x) /\ OffsetOf(o, x) < EndOfBlock(j) /\ OffsetOf(o, x) \in Nat
       /\ ~BlockOf(j).compressed => OffsetOf(o, x) = o + x.at
  BY <1>1, <1>4, <1>5, <1>6, <1>7, <1>9
<1> QED BY <1>10 DEF o, x, xs

\* Blocks do not overlap, and the entries of one begin at different places; so
\* the offset of a record that was not compressed is that of one record of the
\* table only.
THEOREM OffsetsTell == Spec => []OffsetsIdentify
<1>1. ASSUME IInv PROVE OffsetsIdentify
  <2>1. Types BY <1>1 DEF IInv
  <2>2. PICK base \in Bases : Inv(base) BY <1>1 DEF IInv, Bases
  <2> SUFFICES ASSUME NEW r \in Readers, NEW s \in Readers, NEW m \in DOMAIN out[r],
                      NEW n \in DOMAIN out[s],
                      out[r][m].offset = out[s][n].offset, ~out[r][m].compressed
               PROVE  out[r][m] = out[s][n]
    BY DEF OffsetsIdentify
  <2>3. IterInv(base, r) /\ IterInv(base, s) BY <2>2 DEF Inv
  <2>4. IsRecord(base, r, m) /\ IsRecord(base, s, n) BY <2>3 DEF IterInv, Yielded
  <2>5. state # "new"
    <3>1. ASSUME state = "new" PROVE out[r] = <<>> BY <2>3, <3>1 DEF IterInv
    <3>2. DOMAIN <<>> = {} OBVIOUS
    <3> QED BY <3>1, <3>2
  <2>6. PICK j \in DOMAIN index : \E i \in DOMAIN EntriesOf(j) :
          m = base[j] + i /\ out[r][m] = RecordOf(j, i, table[m])
    BY <2>4 DEF IsRecord
  <2>7. PICK i \in DOMAIN EntriesOf(j) :
          m = base[j] + i /\ out[r][m] = RecordOf(j, i, table[m])
    BY <2>6
  <2>8. PICK k \in DOMAIN index : \E l \in DOMAIN EntriesOf(k) :
          n = base[k] + l /\ out[s][n] = RecordOf(k, l, table[n])
    BY <2>4 DEF IsRecord
  <2>9. PICK l \in DOMAIN EntriesOf(k) :
          n = base[k] + l /\ out[s][n] = RecordOf(k, l, table[n])
    BY <2>8
  <2> DEFINE p == OffsetOf(index[j].offset, EntriesOf(j)[i])
             q == OffsetOf(index[k].offset, EntriesOf(k)[l])
  <2>10. p = q /\ ~BlockOf(j).compressed BY <2>7, <2>9 DEF RecordOf
  <2>11. /\ index[j].offset <= p /\ p < EndOfBlock(j) /\ p \in Nat
         /\ p = index[j].offset + EntriesOf(j)[i].at
    BY <2>1, <2>2, <2>5, <2>10, OffsetInBlocks
  <2>12. index[k].offset <= q /\ q < EndOfBlock(k) /\ q \in Nat
    BY <2>1, <2>2, <2>5, OffsetInBlocks
  <2>13. /\ DOMAIN index = 1..Len(index) /\ index[j].offset \in Nat /\ index[k].offset \in Nat
         /\ EndOfBlock(j) \in 0..size /\ EndOfBlock(k) \in 0..size /\ size \in Nat
    BY <2>1, <2>2, <2>5, Opened DEF Types
  <2>14. j = k
    <3>1. j < k => EndOfBlock(j) <= index[k].offset BY <2>2 DEF Inv, FileInv
    <3>2. k < j => EndOfBlock(k) <= index[j].offset BY <2>2 DEF Inv, FileInv
    <3>3. j \in Nat /\ k \in Nat BY <2>13
    <3> HIDE DEF p, q
    <3>4. ~(j < k) BY <2>10, <2>11, <2>12, <2>13, <3>1
    <3>5. ~(k < j) BY <2>10, <2>11, <2>12, <2>13, <3>2
    <3> QED BY <3>3, <3>4, <3>5
  <2>15. i = l
    <3>1. /\ EntriesOf(j) \in Seq(Piece) /\ Laid(EntriesOf(j)) BY <2>1, <2>2, <2>5, Opened
    <3>2. l \in DOMAIN EntriesOf(j) BY <2>14
    <3>3. q = index[j].offset + EntriesOf(j)[l].at BY <2>1, <2>2, <2>5, <2>10, <2>14, OffsetInBlocks
    <3>4. EntriesOf(j)[i] \in Piece /\ EntriesOf(j)[l] \in Piece BY <3>1, <3>2, ElementOfSeq
    <3>5. EntriesOf(j)[i].at \in Nat /\ EntriesOf(j)[l].at \in Nat BY <3>4, Pieces
    <3>6. index[j].offset + EntriesOf(j)[i].at = index[j].offset + EntriesOf(j)[l].at
      BY <2>10, <2>11, <3>3
    <3>7. EntriesOf(j)[i].at = EntriesOf(j)[l].at BY <2>13, <3>5, <3>6
    <3> QED BY <3>1, <3>2, <3>7, SamePlace
  <2>16. m = n BY <2>7, <2>9, <2>14, <2>15
  <2> QED BY <2>7, <2>9, <2>14, <2>15, <2>16
<1> QED BY <1>1, Invariant, PTL

(***************************************************************************)
(* LdbFile implements TableScan                                            *)
(***************************************************************************)
Shown(x) == [key |-> x.key, seq |-> x.seq, value |-> x.value, state |-> x.state]
AllShown(o) == [n \in DOMAIN o |-> Shown(o[n])]
AllMeant(t) == [n \in DOMAIN t |-> Meant(t[n])]

LEMMA MeantAppend ==
  ASSUME NEW t \in Seq(Entry), NEW e \in Entry
  PROVE  AllMeant(Append(t, e)) = Append(AllMeant(t), Meant(e))
<1> DEFINE M == {Meant(x) : x \in Entry}
           u == Append(t, e)
           a == AllMeant(t)
<1>1. /\ DOMAIN t = 1..Len(t) /\ Len(t) \in Nat /\ DOMAIN u = 1..Len(t) + 1
      /\ u[Len(t) + 1] = e /\ \A n \in 1..Len(t) : u[n] = t[n]
  BY Appended
<1>2. \A n \in 1..Len(t) : Meant(t[n]) \in M
  <2> TAKE n \in 1..Len(t)
  <2>1. t[n] \in Entry BY ElementOfSeq
  <2> QED BY <2>1
<1>3. Meant(e) \in M OBVIOUS
<1> HIDE DEF M, u
<1>4. a \in Seq(M) /\ Len(a) = Len(t) /\ \A n \in 1..Len(t) : a[n] = Meant(t[n])
  <2>1. a = [n \in 1..Len(t) |-> Meant(t[n])] BY <1>1 DEF AllMeant
  <2> QED BY <1>1, <1>2, <2>1
<1> HIDE DEF a
<1> DEFINE b == Append(a, Meant(e))
<1>5. /\ b \in Seq(M) /\ Len(b) = Len(a) + 1 /\ DOMAIN b = 1..Len(a) + 1
      /\ b[Len(a) + 1] = Meant(e) /\ \A n \in 1..Len(a) : b[n] = a[n]
  BY <1>3, <1>4, Appended
<1> HIDE DEF b
<1>6. \A n \in 1..Len(a) + 1 : Meant(u[n]) = b[n] /\ b[n] \in M
  <2>1. \A n \in 1..Len(b) : b[n] \in M BY <1>5, ElementOfSeq
  <2> QED BY <1>1, <1>4, <1>5, <2>1
<1>7. AllMeant(u) = [n \in 1..Len(a) + 1 |-> Meant(u[n])] BY <1>1, <1>4 DEF AllMeant
<1> DEFINE c == [n \in 1..Len(a) + 1 |-> Meant(u[n])]
<1>10. /\ c \in Seq(M) /\ Len(c) = Len(a) + 1
       /\ \A n \in 1..Len(a) + 1 : c[n] = b[n]
  BY <1>1, <1>4, <1>6
<1> HIDE DEF c
<1>11. c = b BY <1>5, <1>10, SeqEqual
<1>8. AllMeant(u) = b BY <1>7, <1>11 DEF c
<1> QED BY <1>8 DEF a, b, u

LEMMA ShownAppend ==
  ASSUME NEW o \in Seq(Yield), NEW x \in Yield
  PROVE  AllShown(Append(o, x)) = Append(AllShown(o), Shown(x)) /\ Len(AllShown(o)) = Len(o)
<1> DEFINE M == {Shown(y) : y \in Yield}
           u == Append(o, x)
           a == AllShown(o)
<1>1. /\ DOMAIN o = 1..Len(o) /\ Len(o) \in Nat /\ DOMAIN u = 1..Len(o) + 1
      /\ u[Len(o) + 1] = x /\ \A n \in 1..Len(o) : u[n] = o[n]
  BY Appended
<1>2. \A n \in 1..Len(o) : Shown(o[n]) \in M
  <2> TAKE n \in 1..Len(o)
  <2>1. o[n] \in Yield BY ElementOfSeq
  <2> QED BY <2>1
<1>3. Shown(x) \in M OBVIOUS
<1> HIDE DEF M, u
<1>4. a \in Seq(M) /\ Len(a) = Len(o) /\ \A n \in 1..Len(o) : a[n] = Shown(o[n])
  <2>1. a = [n \in 1..Len(o) |-> Shown(o[n])] BY <1>1 DEF AllShown
  <2> QED BY <1>1, <1>2, <2>1
<1> HIDE DEF a
<1> DEFINE b == Append(a, Shown(x))
<1>5. /\ b \in Seq(M) /\ Len(b) = Len(a) + 1 /\ DOMAIN b = 1..Len(a) + 1
      /\ b[Len(a) + 1] = Shown(x) /\ \A n \in 1..Len(a) : b[n] = a[n]
  BY <1>3, <1>4, Appended
<1> HIDE DEF b
<1>6. \A n \in 1..Len(a) + 1 : Shown(u[n]) = b[n] /\ b[n] \in M
  <2>1. \A n \in 1..Len(b) : b[n] \in M BY <1>5, ElementOfSeq
  <2> QED BY <1>1, <1>4, <1>5, <2>1
<1>7. AllShown(u) = [n \in 1..Len(a) + 1 |-> Shown(u[n])] BY <1>1, <1>4 DEF AllShown
<1> DEFINE c == [n \in 1..Len(a) + 1 |-> Shown(u[n])]
<1>10. /\ c \in Seq(M) /\ Len(c) = Len(a) + 1
       /\ \A n \in 1..Len(a) + 1 : c[n] = b[n]
  BY <1>1, <1>4, <1>6
<1> HIDE DEF c
<1>11. c = b BY <1>5, <1>10, SeqEqual
<1>8. AllShown(u) = b BY <1>7, <1>11 DEF c
<1>9. Len(a) = Len(o) BY <1>4
<1> QED BY <1>8, <1>9 DEF a, b, u

\* What the abstract scan sees of a state.
Entries == {Meant(e) : e \in Entry}
Scanned == AllMeant(table)
GivenTo == [r \in Readers |-> AllShown(out[r])]

LEMMA ScanView ==
  /\ Scan!Init <=> Scanned = <<>> /\ footer = FALSE /\ GivenTo = [r \in Readers |-> <<>>]
  /\ \A e : Scan!Add(e) <=> /\ ~footer /\ Scanned' = Append(Scanned, e)
                            /\ UNCHANGED <<footer, GivenTo>>
  /\ Scan!Seal <=> ~footer /\ footer' = TRUE /\ UNCHANGED <<Scanned, GivenTo>>
  /\ \A r : Scan!Begin(r) <=> /\ footer /\ GivenTo' = [GivenTo EXCEPT ![r] = <<>>]
                              /\ UNCHANGED <<Scanned, footer>>
  /\ \A r : Scan!Give(r) <=>
       /\ footer /\ Len(GivenTo[r]) < Len(Scanned)
       /\ GivenTo' = [GivenTo EXCEPT ![r] = Append(@, Scanned[Len(@) + 1])]
       /\ UNCHANGED <<Scanned, footer>>
BY DEF Scan!Init, Scan!Add, Scan!Seal, Scan!Begin, Scan!Give, Scanned, GivenTo, AllMeant,
   AllShown, Shown, Given

\* Yielding a record gives the next entry of the table.
LEMMA GivesGive ==
  ASSUME Types, NEW base \in Bases, Inv(base), state # "new", NEW r \in Readers,
         NEW j, NEW i, Gives(base, r, j, i), UNCHANGED builder
  PROVE  Scan!Give(r)
<1> DEFINE n == base[j] + i
           x == RecordOf(j, i, table[n])
<1>1. /\ j \in DOMAIN index /\ i \in DOMAIN EntriesOf(j) /\ Len(out[r]) + 1 = n
      /\ n \in DOMAIN table /\ out' = [out EXCEPT ![r] = Append(@, x)]
  BY DEF Gives
<1>2. footer /\ UNCHANGED <<table, footer>> BY Opened DEF builder
<1>3. table[n] \in Entry /\ table \in Seq(Entry) BY <1>1, ElementOfSeq DEF Types
<1>4. x \in Yield BY <1>1, <1>3, Recorded
<1>5. Shown(x) = Meant(table[n]) BY DEF Shown, RecordOf, Meant
<1>6. out \in [Readers -> Seq(Yield)] BY DEF Types
<1> HIDE DEF x
<1>7. AllShown(Append(out[r], x)) = Append(AllShown(out[r]), Meant(table[n]))
      /\ Len(AllShown(out[r])) = Len(out[r])
  BY <1>4, <1>5, <1>6, ShownAppend
<1>8. Len(Scanned) = Len(table) /\ Scanned[n] = Meant(table[n])
  <2>1. DOMAIN Scanned = 1..Len(table) /\ Len(table) \in Nat BY <1>3 DEF Scanned, AllMeant
  <2>2. Len(Scanned) = Len(table) BY <1>3, <2>1 DEF Scanned, AllMeant
  <2> QED BY <1>1, <2>2 DEF Scanned, AllMeant
<1>9. GivenTo[r] = AllShown(out[r]) BY DEF GivenTo
<1>10. Len(GivenTo[r]) < Len(Scanned)
  <2>1. n \in 1..Len(table) /\ Len(out[r]) \in Nat BY <1>1, <1>3, <1>6
  <2> QED BY <1>1, <1>7, <1>8, <1>9, <2>1
<1>11. GivenTo' = [GivenTo EXCEPT ![r] = Append(@, Scanned[Len(@) + 1])]
  <2>1. Append(GivenTo[r], Scanned[Len(GivenTo[r]) + 1]) = AllShown(Append(out[r], x))
    BY <1>1, <1>7, <1>8, <1>9
  <2>2. ASSUME NEW s \in Readers
        PROVE  AllShown(out'[s]) = IF s = r THEN AllShown(Append(out[r], x)) ELSE AllShown(out[s])
    BY <1>1, <1>6
  <2>3. GivenTo' = [s \in Readers |-> IF s = r THEN AllShown(Append(out[r], x))
                                      ELSE AllShown(out[s])]
    BY <2>2 DEF GivenTo
  <2> QED BY <2>1, <2>3 DEF GivenTo
<1>12. UNCHANGED <<Scanned, footer>> BY <1>2 DEF Scanned
<1> QED BY <1>2, <1>10, <1>11, <1>12, ScanView

LEMMA ScanInit ==
  ASSUME Init
  PROVE  Scan!Init
<1>1. table = <<>> /\ footer = FALSE /\ \A r \in Readers : out[r] = <<>> BY DEF Init
<1>2. AllMeant(<<>>) = <<>> /\ AllShown(<<>>) = <<>> BY DEF AllMeant, AllShown
<1>3. Scanned = <<>> /\ GivenTo = [r \in Readers |-> <<>>] BY <1>1, <1>2 DEF Scanned, GivenTo
<1> QED BY <1>1, <1>3, ScanView

LEMMA ScanNext ==
  ASSUME IInv, [Next]_vars
  PROVE  [Scan!Next]_<<Scanned, footer, GivenTo>>
<1>1. Types BY DEF IInv
<1>2. PICK base \in Bases : Inv(base) BY DEF IInv, Bases
<1>3. ASSUME NEW e \in Entry, Add(e) PROVE Scan!Add(Meant(e))
  <2>1. ~footer /\ table' = Append(table, e) /\ UNCHANGED <<footer, out>> BY <1>3 DEF Add
  <2>2. Scanned' = Append(Scanned, Meant(e)) BY <1>1, <2>1, MeantAppend DEF Scanned, Types
  <2>3. UNCHANGED <<footer, GivenTo>> BY <2>1 DEF GivenTo
  <2> QED BY <2>1, <2>2, <2>3, ScanView
<1>4. ASSUME Finish PROVE Scan!Seal
  <2>1. ~footer /\ footer' = TRUE /\ UNCHANGED <<table, out>> BY <1>4 DEF Finish
  <2>2. UNCHANGED <<Scanned, GivenTo>> BY <2>1 DEF Scanned, GivenTo
  <2> QED BY <2>1, <2>2, ScanView
<1>5. ASSUME NEW r \in Readers, Start(r) PROVE Scan!Begin(r)
  <2>1. state # "new" /\ out' = [out EXCEPT ![r] = <<>>] /\ UNCHANGED <<table, footer>>
    BY <1>5 DEF Start, builder
  <2>2. footer BY <1>1, <1>2, <2>1, Opened
  <2>3. AllShown(<<>>) = <<>> BY DEF AllShown
  <2>4. out \in [Readers -> Seq(Yield)] BY <1>1 DEF Types
  <2>5. \A s \in Readers : AllShown(out'[s]) = IF s = r THEN <<>> ELSE AllShown(out[s])
    BY <2>1, <2>3, <2>4
  <2>6. GivenTo' = [GivenTo EXCEPT ![r] = <<>>] BY <2>5 DEF GivenTo
  <2>7. UNCHANGED <<Scanned, footer>> BY <2>1 DEF Scanned
  <2> QED BY <2>2, <2>6, <2>7, ScanView
<1>6. ASSUME UNCHANGED <<table, footer, out>> PROVE UNCHANGED <<Scanned, footer, GivenTo>>
  BY <1>6 DEF Scanned, GivenTo
<1>7. ASSUME NEW r \in Readers, NextEntry(r) PROVE Scan!Give(r)
  <2>1. state # "new" /\ \E j, i : Gives(base, r, j, i) BY <1>1, <1>2, <1>7, NextEntryGives
  <2>2. UNCHANGED builder BY <1>7 DEF NextEntry
  <2> QED BY <1>1, <1>2, <2>1, <2>2, GivesGive
<1>8. ASSUME NEW r \in Readers, NextBlock(r)
      PROVE  Scan!Give(r) \/ UNCHANGED <<Scanned, footer, GivenTo>>
  <2>1. state # "new" /\ (Fails(r) \/ \E j, i : Gives(base, r, j, i))
    BY <1>1, <1>2, <1>8, NextBlockGives
  <2>2. UNCHANGED builder BY <1>8 DEF NextBlock
  <2>3. CASE Fails(r)
    <3>1. UNCHANGED <<table, footer, out>> BY <2>2, <2>3 DEF Fails, builder
    <3> QED BY <1>6, <3>1
  <2> QED BY <1>1, <1>2, <2>1, <2>2, <2>3, GivesGive
<1>9. ASSUME NEW r \in Readers, EndTable(r) PROVE UNCHANGED <<table, footer, out>>
  BY <1>9 DEF EndTable, builder
<1>10. CASE Build
  <2>1. ASSUME NEW compressed \in BOOLEAN, Flush(compressed) PROVE UNCHANGED <<table, footer, out>>
    BY <2>1 DEF Flush
  <2>2. ASSUME NEW e \in Entry, Add(e) PROVE Scan!Next
    BY <1>3, <2>2 DEF Scan!Next, Entries
  <2>3. ASSUME Finish PROVE Scan!Next BY <1>4, <2>3 DEF Scan!Next
  <2> QED BY <1>6, <1>10, <2>1, <2>2, <2>3 DEF Build
<1>11. CASE Open \/ Close
  <2>1. UNCHANGED <<table, footer, out>> BY <1>11 DEF Open, Close, builder
  <2> QED BY <1>6, <2>1
<1>12. CASE Iterate
  <2>1. ASSUME NEW r \in Readers, Scan!Begin(r) \/ Scan!Give(r) PROVE Scan!Next
    BY <2>1 DEF Scan!Next
  <2> QED BY <1>5, <1>6, <1>7, <1>8, <1>9, <1>12, <2>1 DEF Iterate
<1>13. CASE UNCHANGED vars
  <2>1. UNCHANGED <<table, footer, out>> BY <1>13 DEF vars
  <2> QED BY <1>6, <2>1
<1> QED BY <1>10, <1>11, <1>12, <1>13 DEF Next

\* Whatever blocks the builder cut, prefixes it shared and restart points it
\* set, and however iterators of one LdbFile take turns at its stream, what
\* each yields is the table from the first entry, one entry after the other,
\* with the user key, state and value LevelDB meant.
THEOREM TableScanned == Spec => ImplementsTableScan
<1>1. Init => Scan!Init BY ScanInit
<1>2. IInv /\ [Next]_vars => [Scan!Next]_<<Scanned, footer, GivenTo>> BY ScanNext
<1>3. Scan!Spec <=> Scan!Init /\ [][Scan!Next]_<<Scanned, footer, GivenTo>>
  BY DEF Scan!Spec, Scanned, GivenTo, AllMeant, AllShown, Shown, Given
<1> QED BY <1>1, <1>2, <1>3, Invariant, PTL DEF Spec, ImplementsTableScan
=============================================================================
