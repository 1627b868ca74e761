------------------------------- MODULE Manifest -------------------------------
(***************************************************************************)
(* The MANIFEST of a LevelDB directory as RawLevelDb.__init__ reads it:    *)
(* the one with the highest number is opened after all data files, and the *)
(* files its edits add give file_to_level.  CURRENT is not consulted.      *)
(*                                                                         *)
(* LevelDB appends an edit whenever tables are added, merged or moved.     *)
(* When it opens a directory it begins a new MANIFEST with a snapshot of   *)
(* all tables, and names it in CURRENT once it is complete.  An edit may   *)
(* be read, or left by a crash, with its end missing; it is the payload of *)
(* one log fragment here (LevelDbLog has what happens at block ends).      *)
(***************************************************************************)
EXTENDS Varints, FiniteSets, TLC

LOCAL INSTANCE SequencesExt
LOCAL INSTANCE Functions

CONSTANTS
  MaxFile,   (* bound: file numbers, of tables and of manifests             *)
  MaxEdits,  (* bound: edits the browser begins, snapshots included         *)
  MaxLevel   (* bound: levels                                               *)

ASSUME ManifestConstants ==
  MaxFile \in 1..100 /\ MaxEdits \in Nat /\ MaxLevel \in Nat

VARIABLES
  manifests, (* the complete edits in each MANIFEST of the directory        *)
  version,   (* the tables each MANIFEST amounts to, and their levels       *)
  current,   (* the MANIFEST that CURRENT names                             *)
  target,    (* the MANIFEST appended to                                    *)
  writing,   (* the edit begun in each MANIFEST and not complete, if any    *)
  next,      (* next file number                                            *)
  begun,     (* edits begun                                                 *)
  pc,        (* what the reader is doing                                    *)
  chosen,    (* the MANIFEST with the highest number listed                 *)
  text,      (* the payloads read                                           *)
  pos,       (* bytes of the first of them that are parsed                  *)
  edit,      (* the attributes of _ManifestParser                           *)
  edits,     (* the VersionEdits yielded                                    *)
  levels,    (* file_to_level                                               *)
  source,    (* history: the edits in text, as they were meant              *)
  cut,       (* history: the last of them is not complete                   *)
  goal       (* history: the tables of CURRENT when text was read           *)

browser == <<manifests, version, current, target, writing, next, begun>>
reader == <<pc, chosen, text, pos, edit, edits, levels, source, cut, goal>>
vars == <<browser, reader>>

\* _VersionEditTag
COMPARATOR == 1
LOG_NUMBER == 2
NEXT_FILE_NUMBER == 3
LAST_SEQUENCE == 4
COMPACT_POINTER == 5
DELETED_FILE == 6
NEW_FILE == 7
PREV_LOG_NUMBER == 9

\* VersionEdit: what is not there is <<>>, Python's None.
NoEdit ==
  [comparator |-> <<>>, log_number |-> <<>>, prev_log_number |-> <<>>,
   next_file_number |-> <<>>, last_sequence |-> <<>>, new_files |-> <<>>,
   deleted_files |-> <<>>]

Name == <<108, 46>>
Size == 200
Smallest == <<7>>
Largest == <<7, 6>>
NewFile(level, f) ==
  [level |-> level, file_no |-> f, file_size |-> Size,
   smallest_key |-> Smallest, largest_key |-> Largest]

(***************************************************************************)
(* leveldb::VersionSet (external)                                          *)
(***************************************************************************)
Sized(s) == <<Len(s)>> \o s
Optional(tag, v) == IF v = <<>> THEN <<>> ELSE <<tag>> \o EncodeVarint(v[1])
All(Op(_), s) == FlattenSeq([i \in DOMAIN s |-> Op(s[i])])

\* VersionEdit::EncodeTo, with the compact pointers, which no VersionEdit of
\* the reader keeps
Encoded(e, pointers) ==
  (IF e.comparator = <<>> THEN <<>> ELSE <<COMPARATOR>> \o Sized(e.comparator[1]))
    \o Optional(LOG_NUMBER, e.log_number) \o Optional(PREV_LOG_NUMBER, e.prev_log_number)
    \o Optional(NEXT_FILE_NUMBER, e.next_file_number)
    \o Optional(LAST_SEQUENCE, e.last_sequence)
    \o All(LAMBDA p : <<COMPACT_POINTER, p>> \o Sized(Largest), pointers)
    \o All(LAMBDA d : <<DELETED_FILE>> \o EncodeVarint(d[1]) \o EncodeVarint(d[2]), e.deleted_files)
    \o All(LAMBDA n : <<NEW_FILE>> \o EncodeVarint(n.level) \o EncodeVarint(n.file_no)
                        \o EncodeVarint(n.file_size) \o Sized(n.smallest_key)
                        \o Sized(n.largest_key), e.new_files)

\* The tables of a version, in the order of their levels and numbers.
Ordered(v) ==
  SetToSortSeq(DOMAIN v, LAMBDA f, g : v[f] < v[g] \/ (v[f] = v[g] /\ f < g))
Live == DOMAIN version[target]
At(level) == {f \in Live : version[target][f] = level}
Snapshot(v) ==
  [NoEdit EXCEPT !.comparator = <<Name>>,
                 !.new_files = [i \in DOMAIN Ordered(v) |-> NewFile(v[Ordered(v)[i]], Ordered(v)[i])]]

\* Every edit but a snapshot has these numbers.
Change(deleted, new) ==
  [NoEdit EXCEPT !.log_number = <<next>>, !.prev_log_number = <<0>>,
                 !.next_file_number = <<next + 1>>, !.last_sequence = <<300>>,
                 !.deleted_files = deleted, !.new_files = new]

\* the tables an edit adds, the last word on a number
Added(v, e) == FoldLeft(LAMBDA w, n : (n.file_no :> n.level) @@ w, v, e.new_files)
Applied(v, e) ==
  LET gone == {e.deleted_files[i][2] : i \in DOMAIN e.deleted_files}
  IN  Added(Restrict(v, DOMAIN v \ gone), e)

Written(e, pointers) == [edit |-> e, pointers |-> pointers]
Bytes(w) == Encoded(w.edit, w.pointers)

\* The reader has all bytes once the MANIFEST is open: what the browser does
\* then cannot be seen, and is left out.
Seen == pc \in {"new", "listed"}

Init ==
  /\ manifests = (1 :> <<Written(Snapshot(<<>>), <<>>)>>)
  /\ version = (1 :> <<>>) /\ current = 1 /\ target = 1 /\ writing = (1 :> <<>>)
  /\ next = 2 /\ begun = 0
  /\ pc = "new" /\ chosen = -1 /\ text = <<>> /\ pos = 0 /\ edit = NoEdit
  /\ edits = <<>> /\ levels = <<>> /\ source = <<>> /\ cut = FALSE /\ goal = <<>>

Begin(e, pointers, n) ==
  /\ Seen /\ writing[target] = <<>> /\ begun < MaxEdits
  /\ writing' = [writing EXCEPT ![target] = <<Written(e, pointers)>>]
  /\ begun' = begun + 1 /\ next' = n
  /\ UNCHANGED <<manifests, version, current, target, reader>>

\* A new MANIFEST takes one edit after the snapshot before CURRENT names it.
Appending == manifests[target] # <<>> /\ (target = current \/ Len(manifests[target]) = 1)

Flush(level) ==
  /\ Appending /\ next <= MaxFile
  /\ Begin(Change(<<>>, <<NewFile(level, next)>>), <<>>, next + 1)

\* Tables of one level, and of the next, are merged into one of the next.
Compact(level, inputs) ==
  /\ Appending /\ target = current /\ next <= MaxFile /\ level < MaxLevel
  /\ inputs \subseteq At(level) \cup At(level + 1) /\ inputs \cap At(level) # {}
  /\ LET ins == SelectSeq(Ordered(version[target]), LAMBDA f : f \in inputs)
     IN  Begin(Change([i \in DOMAIN ins |-> <<version[target][ins[i]], ins[i]>>],
                      <<NewFile(level + 1, next)>>), <<level>>, next + 1)

\* A table that overlaps none of the next level goes there as it is.
Move(f) ==
  /\ Appending /\ target = current /\ f \in Live /\ version[target][f] < MaxLevel
  /\ LET level == version[target][f]
     IN  Begin(Change(<<<<level, f>>>>, <<NewFile(level + 1, f)>>), <<level>>, next)

\* The edit is in the file with its last byte.
Commit ==
  /\ Seen /\ writing[target] # <<>>
  /\ manifests' = [manifests EXCEPT ![target] = @ \o writing[target]]
  /\ version' = [version EXCEPT ![target] = Applied(@, writing[target][1].edit)]
  /\ writing' = [writing EXCEPT ![target] = <<>>]
  /\ UNCHANGED <<current, target, next, begun, reader>>

\* LevelDB opens the directory, after an exit or a crash: what CURRENT names
\* stays as it is, and a MANIFEST that it does not name is written anew.
Reopen ==
  LET m == IF target = current THEN next ELSE target
  IN  /\ Seen /\ m <= MaxFile /\ begun < MaxEdits
      /\ target' = m /\ begun' = begun + 1
      /\ next' = IF m = next THEN next + 1 ELSE next
      /\ manifests' = (m :> <<>>) @@ manifests /\ version' = (m :> <<>>) @@ version
      /\ writing' = (m :> <<Written(Snapshot(version[current]), <<>>)>>) @@ writing
      /\ UNCHANGED <<current, reader>>

SetCurrent ==
  /\ Seen /\ target # current /\ Len(manifests[target]) = 2
  /\ current' = target
  /\ UNCHANGED <<manifests, version, target, writing, next, begun, reader>>

Unlink(m) ==
  /\ Seen /\ m \in DOMAIN manifests /\ m < current
  /\ manifests' = Restrict(manifests, DOMAIN manifests \ {m})
  /\ version' = Restrict(version, DOMAIN manifests \ {m})
  /\ writing' = Restrict(writing, DOMAIN manifests \ {m})
  /\ UNCHANGED <<current, target, next, begun, reader>>

Maintain ==
  \/ \E level \in 0..MaxLevel : Flush(level)
  \/ \E level \in 0..MaxLevel, inputs \in SUBSET Live : Compact(level, inputs)
  \/ \E f \in Live : Move(f)
  \/ Commit \/ Reopen \/ SetCurrent
  \/ \E m \in DOMAIN manifests : Unlink(m)

(***************************************************************************)
(* RawLevelDb.__init__ and ManifestFile.__init__                           *)
(***************************************************************************)
Highest == CHOOSE m \in DOMAIN manifests : \A o \in DOMAIN manifests : o <= m

List ==
  /\ pc = "new"
  /\ chosen' = Highest
  /\ pc' = "listed"
  /\ UNCHANGED <<browser, text, pos, edit, edits, levels, source, cut, goal>>

Payloads(es) == [i \in DOMAIN es |-> Bytes(es[i])]

\* The data files are opened in between.  Of the edit being written there is
\* nothing, or what is not all of it.
Open ==
  /\ pc = "listed"
  /\ IF chosen \notin DOMAIN manifests
     THEN /\ pc' = "failed"
          /\ UNCHANGED <<text, source, cut, goal>>
     ELSE /\ pc' = "parse"
          /\ \/ /\ text' = Payloads(manifests[chosen])
                /\ source' = manifests[chosen] /\ cut' = FALSE
             \/ /\ writing[chosen] # <<>>
                /\ \E n \in 0..Len(Bytes(writing[chosen][1])) - 1 :
                     text' = Payloads(manifests[chosen])
                               \o <<SubSeq(Bytes(writing[chosen][1]), 1, n)>>
                /\ source' = manifests[chosen] \o writing[chosen] /\ cut' = TRUE
          /\ goal' = IF chosen = Highest /\ manifests[chosen] # <<>>
                     THEN version[current] ELSE <<>>
  /\ UNCHANGED <<browser, chosen, pos, edit, edits, levels>>

(***************************************************************************)
(* _ManifestParser                                                         *)
(***************************************************************************)
Buffer == Head(text)

\* _read_le_varint at p, of at most cap bytes: the number or None, and where
\* the stream is after it
Number(p, cap) ==
  IF VarintLen(Drop(Buffer, p), cap) = 0 THEN <<>>
  ELSE <<VarintValue(Drop(Buffer, p), cap)>>

\* Mutant: a number that is cut still moves the stream.
AfterMoves(p, cap) ==
  p + (IF Number(p, cap) = <<>> THEN 1 ELSE VarintLen(Drop(Buffer, p), cap))

After(p, cap) ==
  IF Number(p, cap) = <<>> THEN Len(Buffer) ELSE p + VarintLen(Drop(Buffer, p), cap)

\* _read_length_prefixed at p: what it raises for, and what it reads
SizeBroken(p) ==
  IF Number(p, 10) = <<>> THEN TRUE ELSE After(p, 10) + Number(p, 10)[1] > Len(Buffer)
SizedEnd(p) == After(p, 10) + Number(p, 10)[1]
SizedBytes(p) == SubSeq(Buffer, After(p, 10) + 1, SizedEnd(p))

\* A single byte left is no field.
AtEnd ==
  pos >= Len(Buffer) - 1

Numbers == {LOG_NUMBER, PREV_LOG_NUMBER, NEXT_FILE_NUMBER, LAST_SEQUENCE}
Tags == Numbers \cup {COMPARATOR, COMPACT_POINTER, DELETED_FILE, NEW_FILE}
Field == After(pos, 5)
TagIs(tags) == pc = "parse" /\ text # <<>> /\ ~AtEnd /\ \E t \in tags : Number(pos, 5) = <<t>>

Reads(e, p) ==
  /\ edit' = e /\ pos' = p
  /\ UNCHANGED <<browser, pc, chosen, text, edits, levels, source, cut, goal>>

ReadComparator ==
  /\ TagIs({COMPARATOR}) /\ ~SizeBroken(Field)
  /\ Reads([edit EXCEPT !.comparator = <<SizedBytes(Field)>>], SizedEnd(Field))

\* Mutant: a number that is not there is zero.
ReadNumberZero ==
  /\ TagIs(Numbers)
  /\ LET v == IF Number(Field, 10) = <<>> THEN <<0>> ELSE Number(Field, 10)
     IN  Reads(CASE TagIs({LOG_NUMBER}) -> [edit EXCEPT !.log_number = v]
                 [] TagIs({PREV_LOG_NUMBER}) -> [edit EXCEPT !.prev_log_number = v]
                 [] TagIs({NEXT_FILE_NUMBER}) -> [edit EXCEPT !.next_file_number = v]
                 [] TagIs({LAST_SEQUENCE}) -> [edit EXCEPT !.last_sequence = v],
               After(Field, 10))

ReadNumber ==
  /\ TagIs(Numbers)
  /\ LET v == Number(Field, 10)
     IN  Reads(CASE TagIs({LOG_NUMBER}) -> [edit EXCEPT !.log_number = v]
                 [] TagIs({PREV_LOG_NUMBER}) -> [edit EXCEPT !.prev_log_number = v]
                 [] TagIs({NEXT_FILE_NUMBER}) -> [edit EXCEPT !.next_file_number = v]
                 [] TagIs({LAST_SEQUENCE}) -> [edit EXCEPT !.last_sequence = v],
               After(Field, 10))

\* read and dropped
ReadCompactPointer ==
  /\ TagIs({COMPACT_POINTER}) /\ ~SizeBroken(After(Field, 5))
  /\ Reads(edit, SizedEnd(After(Field, 5)))

ReadDeletedFile ==
  /\ TagIs({DELETED_FILE})
  /\ LET level == Number(Field, 5)
         f     == Number(After(Field, 5), 10)
     IN  Reads(IF level = <<>> \/ f = <<>> THEN edit
               ELSE [edit EXCEPT !.deleted_files = Append(@, <<level[1], f[1]>>)],
               After(After(Field, 5), 10))

\* level, file_no and file_size of a new file, or fewer; and its keys
FileAt == After(Field, 5)
FileSizeAt == After(FileAt, 10)
KeysAt == After(FileSizeAt, 10)
Cut == <<>> \in {Number(Field, 5), Number(FileAt, 10), Number(FileSizeAt, 10)}
KeyBroken == IF SizeBroken(KeysAt) THEN TRUE ELSE SizeBroken(SizedEnd(KeysAt))

ReadNewFile ==
  /\ TagIs({NEW_FILE})
  /\ Cut \/ ~KeyBroken
  /\ Reads(IF Cut THEN edit
           ELSE [edit EXCEPT !.new_files = Append(@,
                   [level |-> Number(Field, 5)[1], file_no |-> Number(FileAt, 10)[1],
                    file_size |-> Number(FileSizeAt, 10)[1],
                    smallest_key |-> SizedBytes(KeysAt),
                    largest_key |-> SizedBytes(SizedEnd(KeysAt))])],
           IF Cut THEN KeysAt ELSE SizedEnd(SizedEnd(KeysAt)))

\* ValueError of _read_length_prefixed
RaiseTruncated ==
  /\ \/ TagIs({COMPARATOR}) /\ SizeBroken(Field)
     \/ TagIs({COMPACT_POINTER}) /\ SizeBroken(After(Field, 5))
     \/ TagIs({NEW_FILE}) /\ ~Cut /\ KeyBroken
  /\ pc' = "raised"
  /\ UNCHANGED <<browser, chosen, text, pos, edit, edits, levels, source, cut, goal>>

\* Mutant: the first word on a number stays.
EndEditFirst ==
  /\ pc = "parse" /\ text # <<>> /\ (AtEnd \/ ~TagIs(Tags))
  /\ edits' = Append(edits, edit)
  /\ levels' = levels @@ Added(<<>>, edit)
  /\ text' = Tail(text) /\ pos' = 0 /\ edit' = NoEdit
  /\ UNCHANGED <<browser, pc, chosen, source, cut, goal>>

\* The buffer is at its end, or a tag is unknown; levels[nf.file_no] = nf.level
EndEdit ==
  /\ pc = "parse" /\ text # <<>> /\ (AtEnd \/ ~TagIs(Tags))
  /\ edits' = Append(edits, edit)
  /\ levels' = Added(levels, edit)
  /\ text' = Tail(text) /\ pos' = 0 /\ edit' = NoEdit
  /\ UNCHANGED <<browser, pc, chosen, source, cut, goal>>

Constructed ==
  /\ pc = "parse" /\ text = <<>>
  /\ pc' = "done"
  /\ UNCHANGED <<browser, chosen, text, pos, edit, edits, levels, source, cut, goal>>

Read ==
  \/ List \/ Open
  \/ ReadComparator \/ ReadNumber \/ ReadCompactPointer
  \/ ReadDeletedFile \/ ReadNewFile \/ RaiseTruncated
  \/ EndEdit \/ Constructed

Next == Maintain \/ Read

Spec == Init /\ [][Next]_vars

(***************************************************************************)
(* Properties                                                              *)
(***************************************************************************)
FileEntry ==
  [level : Nat, file_no : Nat, file_size : Nat, smallest_key : Seq(Byte), largest_key : Seq(Byte)]
AtMostOne(s) == Len(s) <= 1

\* Every variable of the reader has its type, and it stays in its buffer.
TypeOK ==
  /\ pc \in {"new", "listed", "failed", "parse", "raised", "done"}
  /\ chosen \in 1..MaxFile \cup {-1}
  /\ text \in Seq(Seq(Byte)) /\ pos \in Nat /\ (text # <<>> => pos <= Len(Buffer))
  /\ \A e \in {edit} \cup {edits[i] : i \in DOMAIN edits} :
       /\ e.comparator \in Seq(Seq(Byte)) /\ e.new_files \in Seq(FileEntry)
       /\ e.deleted_files \in Seq(Nat \X Nat)
       /\ \A v \in {e.log_number, e.prev_log_number, e.next_file_number, e.last_sequence} :
            v \in Seq(Nat) /\ AtMostOne(v)
  /\ DOMAIN levels \subseteq Nat /\ \A f \in DOMAIN levels : levels[f] \in 0..MaxLevel

Numeric(e) == <<e.comparator, e.log_number, e.prev_log_number, e.next_file_number, e.last_sequence>>

\* The VersionEdits of a MANIFEST are the edits that were written, in order,
\* and one that was written to its end never raises; of one whose end is
\* missing there is what was read before the end, never a number that is not
\* the one written (_ManifestParser.parse, _read_length_prefixed).
EditsRight ==
  /\ \A i \in DOMAIN edits :
       LET meant == source[i].edit
       IN  /\ IsPrefix(edits[i].new_files, meant.new_files)
           /\ IsPrefix(edits[i].deleted_files, meant.deleted_files)
           /\ \A j \in 1..5 : Numeric(edits[i])[j] \in {<<>>, Numeric(meant)[j]}
           /\ i < Len(source) \/ ~cut => edits[i] = meant
  /\ pc = "raised" => cut /\ Len(text) = 1

\* file_to_level has the level of every table of the database, whenever the
\* MANIFEST of the highest number has its snapshot, complete or not, named in
\* CURRENT or not, and though deletions are not looked at.
LevelsRight ==
  pc = "done" => \A f \in DOMAIN goal : f \in DOMAIN levels /\ levels[f] = goal[f]
=============================================================================
