------------------------------ MODULE RawLevelDb ------------------------------
(***************************************************************************)
(* A LevelDB directory as chromium_reader.leveldb.RawLevelDb reads it:     *)
(* every data file the directory lists is opened, whatever the MANIFEST    *)
(* says, and the records come file by file in the order of file numbers.   *)
(*                                                                         *)
(* The browser owns the directory.  It appends batches to a log, dumps a   *)
(* full log into a table, merges tables and unlinks the files it no longer *)
(* needs; it may exit or crash anywhere in between.                        *)
(*                                                                         *)
(* A file is the set of the entries in it, and a record of the reader is   *)
(* the entry.  How a log is cut into records is LevelDbLog's matter.       *)
(***************************************************************************)
EXTENDS Integers, Sequences, FiniteSets

CONSTANTS
  Keys,         (* user keys, numbered in byte order                       *)
  Values,       (* what is stored under a key, and what a deletion stores  *)
  WriteBatches, (* batches the browser may write                           *)
  MaxSeq,       (* bound: sequence numbers                                 *)
  MaxFile,      (* bound: file numbers                                     *)
  LiveBrowser   (* TRUE: the browser may run while the directory is read   *)

Op == [key : Keys, live : BOOLEAN, value : Values]

ASSUME DbConstants ==
  /\ Keys \subseteq Nat
  /\ WriteBatches \subseteq Seq(Op)
  /\ MaxSeq \in Nat /\ MaxFile \in Nat \ {0}
  /\ LiveBrowser \in BOOLEAN

VARIABLES
  seq,      (* last sequence number used                                   *)
  content,  (* entries of each file number, kept when the file is unlinked *)
  logs,     (* the file numbers that are logs                              *)
  dir,      (* the file numbers in the directory                           *)
  whole,    (* the file numbers whose file is not still being written      *)
  log,      (* the log appended to                                         *)
  full,     (* the full logs not yet dumped                                *)
  tables,   (* the tables of the current version                           *)
  job,      (* the file the background thread writes, from which others    *)
  next,     (* next file number                                            *)
  up,       (* the browser runs                                            *)
  pc,       (* what the RawLevelDb object is doing                         *)
  todo,     (* directory entries not looked at yet                         *)
  at,       (* the entry that is_file() accepted and that is being opened  *)
  opened,   (* RawLevelDb._files                                           *)
  skipped,  (* history: entries that is_file() refused                     *)
  snap,     (* history: entries of the current version when dir was listed *)
  left,     (* opened files the iteration has yet to come to               *)
  reverse,  (* the iteration goes from the highest file number down        *)
  file,     (* the file iterated                                           *)
  rest,     (* its entries not yet yielded                                 *)
  yielded   (* what the iteration yielded                                  *)

browser == <<seq, content, logs, dir, whole, log, full, tables, job, next, up>>
handles == <<todo, at, opened, skipped, snap>>
iteration == <<left, reverse, file, rest, yielded>>
vars == <<seq, content, logs, dir, whole, log, full, tables, job, next, up,
          pc, todo, at, opened, skipped, snap, left, reverse, file, rest, yielded>>

Files == 1..MaxFile
Entry == [key : Keys, live : BOOLEAN, value : Values, seq : Nat]
NoJob == [inputs |-> {}, output |-> 0]

EntriesOf(fs) == UNION {content[f] : f \in fs}

\* Everything the browser ever wrote: a log is never rewritten.
Written == EntriesOf(logs)

\* The newest entry of key k in S, if there is one.
NewestOf(S, k) ==
  {e \in S : e.key = k /\ \A o \in S : o.key = k => o.seq <= e.seq}

(***************************************************************************)
(* The browser (external)                                                  *)
(***************************************************************************)
Init ==
  /\ seq = 0 /\ content = [f \in Files |-> {}]
  /\ logs = {1} /\ dir = {1} /\ whole = {1} /\ log = 1 /\ full = {}
  /\ tables = {} /\ job = NoJob /\ next = 2 /\ up = TRUE
  /\ pc = "new" /\ todo = {} /\ at = 0 /\ opened = {} /\ skipped = {}
  /\ snap = {} /\ left = {} /\ reverse = FALSE /\ file = 0 /\ rest = {}
  /\ yielded = <<>>

\* The files that hold the database; the rest of dir is obsolete.
Version == tables \cup full \cup {log}
Obsolete == dir \ (Version \cup {job.output})

Write(batch) ==
  /\ up /\ seq + Len(batch) <= MaxSeq
  /\ content' = [content EXCEPT ![log] = @ \cup
       {[key |-> batch[i].key, live |-> batch[i].live,
         value |-> batch[i].value, seq |-> seq + i] : i \in DOMAIN batch}]
  /\ seq' = seq + Len(batch)
  /\ UNCHANGED <<logs, dir, whole, log, full, tables, job, next, up,
                 pc, handles, iteration>>

\* The log is full: a new one is begun.
Rotate ==
  /\ up /\ full = {} /\ next <= MaxFile /\ content[log] # {}
  /\ log' = next /\ full' = {log} /\ next' = next + 1
  /\ logs' = logs \cup {next} /\ dir' = dir \cup {next}
  /\ whole' = whole \cup {next}
  /\ UNCHANGED <<seq, content, tables, job, up, pc, handles, iteration>>

\* The background thread creates a table for the entries of `inputs`.
Begin(inputs) ==
  /\ up /\ job = NoJob /\ next <= MaxFile
  /\ inputs # {} /\ (inputs = full \/ inputs \subseteq tables)
  /\ job' = [inputs |-> inputs, output |-> next]
  /\ next' = next + 1 /\ dir' = dir \cup {next}
  /\ UNCHANGED <<seq, content, logs, whole, log, full, tables, up,
                 pc, handles, iteration>>

\* A merge keeps the newest entry of a key, and a deletion as long as an
\* older entry is left elsewhere for it to hide.
Merged(inputs) ==
  LET all   == EntriesOf(inputs)
      other == EntriesOf(Version \ inputs)
  IN  {e \in all :
         /\ \A o \in all : o.key = e.key => o.seq <= e.seq
         /\ e.live \/ \E o \in other : o.key = e.key /\ o.seq < e.seq}

\* The table is complete and replaces its inputs in the current version.
Install ==
  /\ up /\ job # NoJob
  /\ content' = [content EXCEPT ![job.output] =
       IF job.inputs = full THEN EntriesOf(full) ELSE Merged(job.inputs)]
  /\ whole' = whole \cup {job.output}
  /\ tables' = (tables \ job.inputs) \cup {job.output}
  /\ full' = full \ job.inputs
  /\ job' = NoJob
  /\ UNCHANGED <<seq, logs, dir, log, next, up, pc, handles, iteration>>

Unlink(f) ==
  /\ up /\ f \in Obsolete
  /\ dir' = dir \ {f}
  /\ UNCHANGED <<seq, content, logs, whole, log, full, tables, job, next, up,
                 pc, handles, iteration>>

\* Exit or crash: an unfinished table and obsolete files may stay behind.
Stop ==
  /\ up
  /\ up' = FALSE
  /\ UNCHANGED <<seq, content, logs, dir, whole, log, full, tables, job, next,
                 pc, handles, iteration>>

(***************************************************************************)
(* RawLevelDb.__init__                                                     *)
(***************************************************************************)
\* Mutant: CURRENT, LOCK and LOG, file number 0, are taken for data files.
ListAll ==
  /\ pc = "new" /\ (LiveBrowser \/ ~up)
  /\ todo' = dir \cup {0}
  /\ snap' = EntriesOf(Version)
  /\ pc' = "scan"
  /\ UNCHANGED <<browser, at, opened, skipped, iteration>>

\* self._in_dir.iterdir() takes the names once
List ==
  /\ pc = "new" /\ (LiveBrowser \/ ~up)
  /\ todo' = dir
  /\ snap' = EntriesOf(Version)
  /\ pc' = "scan"
  /\ UNCHANGED <<browser, at, opened, skipped, iteration>>

\* if not entry.is_file(): continue
CheckEntry(f) ==
  /\ pc = "scan" /\ at = 0 /\ f \in todo
  /\ todo' = todo \ {f}
  /\ IF f \in dir THEN /\ at' = f
                       /\ UNCHANGED skipped
                  ELSE /\ skipped' = skipped \cup {f}
                       /\ UNCHANGED at
  /\ UNCHANGED <<browser, pc, opened, snap, iteration>>

\* Mutant: a file that cannot be opened is passed over.
OpenEntryTolerant ==
  /\ pc = "scan" /\ at # 0
  /\ at' = 0
  /\ opened' = IF at \in dir \cap whole THEN opened \cup {at} ELSE opened
  /\ UNCHANGED <<browser, pc, todo, skipped, snap, iteration>>

\* LogFile(entry) or LdbFile(entry): the path must still exist, and a table
\* must end in its footer.
OpenEntry ==
  /\ pc = "scan" /\ at # 0
  /\ at' = 0
  /\ IF at \in dir \cap whole
     THEN /\ opened' = opened \cup {at}
          /\ UNCHANGED pc
     ELSE /\ pc' = "failed"
          /\ UNCHANGED opened
  /\ UNCHANGED <<browser, todo, skipped, snap, iteration>>

Constructed ==
  /\ pc = "scan" /\ at = 0 /\ todo = {}
  /\ pc' = "open"
  /\ UNCHANGED <<browser, handles, iteration>>

(***************************************************************************)
(* RawLevelDb.iterate_records_raw and close                                *)
(***************************************************************************)
Iterate(rev) ==
  /\ pc \in {"open", "done"}
  /\ left' = opened /\ reverse' = rev /\ file' = 0 /\ rest' = {}
  /\ yielded' = <<>>
  /\ pc' = "iter"
  /\ UNCHANGED <<browser, handles>>

\* Mutant: deletions are not yielded.
NextFileLive ==
  /\ pc = "iter" /\ rest = {}
  /\ \E f \in left :
       /\ \A g \in left : IF reverse THEN g <= f ELSE f <= g
       /\ file' = f /\ left' = left \ {f}
       /\ rest' = {e \in content[f] : e.live}
  /\ UNCHANGED <<browser, pc, handles, reverse, yielded>>

\* Mutant: a file is not crossed off when it is read first.
NextFileAgain ==
  /\ pc = "iter" /\ rest = {}
  /\ \E f \in left :
       /\ \A g \in left : IF reverse THEN g <= f ELSE f <= g
       /\ file' = f /\ rest' = content[f]
       /\ left' = IF f = file THEN left \ {f} ELSE left
  /\ UNCHANGED <<browser, pc, handles, reverse, yielded>>

\* An open handle reads a file that was unlinked, and a log as it is now.
NextFile ==
  /\ pc = "iter" /\ rest = {}
  /\ \E f \in left :
       /\ \A g \in left : IF reverse THEN g <= f ELSE f <= g
       /\ file' = f /\ left' = left \ {f} /\ rest' = content[f]
  /\ UNCHANGED <<browser, pc, handles, reverse, yielded>>

\* e comes before o in file f: a log is in the order of writing, a table by
\* user key, newest first.
Before(f, e, o) ==
  IF f \in logs THEN e.seq < o.seq
  ELSE e.key < o.key \/ (e.key = o.key /\ e.seq > o.seq)

YieldRecord ==
  /\ pc = "iter"
  /\ \E e \in rest :
       /\ \A o \in rest \ {e} : Before(file, e, o)
       /\ rest' = rest \ {e}
       /\ yielded' = Append(yielded, e)
  /\ UNCHANGED <<browser, pc, handles, left, reverse, file>>

Exhausted ==
  /\ pc = "iter" /\ rest = {} /\ left = {}
  /\ pc' = "done"
  /\ UNCHANGED <<browser, handles, iteration>>

Close ==
  /\ pc \in {"open", "iter", "done"}
  /\ pc' = "closed"
  /\ UNCHANGED <<browser, handles, iteration>>

(***************************************************************************)
(* Specification                                                           *)
(***************************************************************************)
Writes == \E batch \in WriteBatches : Write(batch)

Maintain ==
  \/ Rotate
  \/ Begin(full)
  \/ \E inputs \in SUBSET tables : Begin(inputs)
  \/ Install
  \/ \E f \in Obsolete : Unlink(f)
  \/ Stop

Open ==
  \/ List
  \/ \E f \in todo : CheckEntry(f)
  \/ OpenEntry
  \/ Constructed

Read ==
  \/ \E rev \in BOOLEAN : Iterate(rev)
  \/ NextFile
  \/ YieldRecord
  \/ Exhausted

Next == Writes \/ Maintain \/ Open \/ Read \/ Close

Spec == Init /\ [][Next]_vars

(***************************************************************************)
(* Properties                                                              *)
(***************************************************************************)
\* Every variable has its type.
TypeOK ==
  /\ seq \in Nat /\ content \in [Files -> SUBSET Entry]
  /\ logs \subseteq Files /\ dir \subseteq Files /\ whole \subseteq Files
  /\ log \in Files /\ full \subseteq Files /\ tables \subseteq Files
  /\ job \in [inputs : SUBSET Files, output : Files \cup {0}]
  /\ next \in 2..MaxFile + 1 /\ up \in BOOLEAN
  /\ pc \in {"new", "scan", "open", "failed", "iter", "done", "closed"}
  /\ todo \subseteq Files /\ at \in Files \cup {0} /\ opened \subseteq Files
  /\ skipped \subseteq Files /\ snap \subseteq Entry
  /\ left \subseteq Files /\ reverse \in BOOLEAN /\ file \in Files \cup {0}
  /\ rest \subseteq Entry /\ yielded \in Seq(Entry)

Yielded == {yielded[i] : i \in DOMAIN yielded}

\* What the database held when the directory was listed is all there when
\* the iteration ends, however much the browser flushed, merged and unlinked
\* meanwhile, unless a file vanished before its is_file().
SnapshotCovered ==
  pc = "done" /\ skipped = {} => snap \subseteq Yielded

\* Of a browser that no longer runs, the newest record read of a key is what
\* the key had, and of a key it had deleted there is no live newest record
\* unless obsolete files were left behind.
NewestIsCurrent ==
  pc = "done" /\ ~LiveBrowser =>
    \A k \in Keys :
      \/ NewestOf(Yielded, k) = NewestOf(snap, k)
      \/ /\ Obsolete # {}
         /\ \A e \in NewestOf(snap, k) : ~e.live

\* No record is yielded twice unless the directory holds obsolete files.
NoRecordTwice ==
  ~LiveBrowser /\ Obsolete = {} =>
    \A i, j \in DOMAIN yielded : i # j => yielded[i] # yielded[j]
=============================================================================
