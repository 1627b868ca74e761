--------------------------- MODULE RawLevelDbProofs ---------------------------
(***************************************************************************)
(* What holds of RawLevelDb for every set of keys, values and batches and  *)
(* for any number of files: its types; that no entry of the snapshot is    *)
(* lost, also with a live browser; that no record comes twice from a       *)
(* directory without obsolete files; that a sequence number names one      *)
(* entry; and that the newest record read of a key is what the key had,    *)
(* which the readers above it rely on.                                     *)
(***************************************************************************)
EXTENDS RawLevelDb, SequencesExt, SequenceTheorems, FiniteSetTheorems, WellFoundedInduction, TLAPS

(***************************************************************************)
(* The readers above RawLevelDb let their browsers write batches of their  *)
(* own, so the lemmas are about a browser that writes what it likes.       *)
(***************************************************************************)
AnyWrite == \E batch \in Seq(Op) : Write(batch)
AnyNext == AnyWrite \/ Maintain \/ Open \/ Read \/ Close

LEMMA NextIsAny == [Next]_vars => [AnyNext]_vars
BY DbConstants DEF Next, Writes, AnyNext, AnyWrite

(***************************************************************************)
(* Types                                                                   *)
(***************************************************************************)
TypeInv ==
  /\ TypeOK
  /\ job # NoJob => job.output \in Files

LEMMA EntriesOfType ==
  ASSUME content \in [Files -> SUBSET Entry], NEW fs \in SUBSET Files
  PROVE  EntriesOf(fs) \in SUBSET Entry
BY DEF EntriesOf

LEMMA InitTypes == Init => TypeInv
<1> SUFFICES ASSUME Init PROVE TypeInv OBVIOUS
<1>1. 1 \in Files /\ 2 \in 2..MaxFile + 1 BY DbConstants DEF Files
<1>2. content \in [Files -> SUBSET Entry] /\ yielded \in Seq(Entry) BY DEF Init
<1>3. job \in [inputs : SUBSET Files, output : Files \cup {0}] BY DEF Init, NoJob
<1> QED BY <1>1, <1>2, <1>3 DEF Init, TypeInv, TypeOK

LEMMA WriteTypes ==
  ASSUME TypeInv, NEW batch \in Seq(Op), Write(batch)
  PROVE  TypeInv'
<1>1. batch \in Seq(Op) OBVIOUS
<1>2. seq' \in Nat BY <1>1, LenProperties DEF Write, TypeInv, TypeOK
<1>3. content' \in [Files -> SUBSET Entry]
  <2> DEFINE new == {[key |-> batch[i].key, live |-> batch[i].live,
                      value |-> batch[i].value, seq |-> seq + i] : i \in DOMAIN batch}
  <2>1. ASSUME NEW i \in DOMAIN batch
        PROVE  [key |-> batch[i].key, live |-> batch[i].live,
                value |-> batch[i].value, seq |-> seq + i] \in Entry
    <3>1. batch[i] \in Op /\ i \in Nat BY <1>1, ElementOfSeq
    <3> QED BY <3>1 DEF Op, Entry, TypeInv, TypeOK
  <2>2. new \subseteq Entry BY <2>1
  <2>3. content' = [content EXCEPT ![log] = @ \cup new] BY DEF Write
  <2> HIDE DEF new
  <2> QED BY <2>2, <2>3 DEF TypeInv, TypeOK
<1> QED BY <1>2, <1>3 DEF Write, TypeInv, TypeOK, handles, iteration

LEMMA MaintainTypes ==
  ASSUME TypeInv, Maintain
  PROVE  TypeInv'
<1> USE DEF TypeInv, TypeOK, handles, iteration
<1>1. CASE Rotate BY <1>1, DbConstants DEF Rotate, Files
<1>2. ASSUME NEW inputs \in SUBSET Files, Begin(inputs) PROVE TypeInv'
  <2>1. next \in Files /\ next' \in 2..MaxFile + 1
    BY <1>2, DbConstants DEF Begin, Files
  <2>2. job' \in [inputs : SUBSET Files, output : Files \cup {0}] /\ job'.output \in Files
    BY <1>2, <2>1 DEF Begin
  <2> QED BY <1>2, <2>1, <2>2 DEF Begin
<1>3. CASE Install
  <2> DEFINE made == IF job.inputs = full THEN EntriesOf(full) ELSE Merged(job.inputs)
  <2>1. made \subseteq Entry
    <3>1. job.inputs \in SUBSET Files OBVIOUS
    <3>2. EntriesOf(job.inputs) \in SUBSET Entry BY <3>1, EntriesOfType
    <3>3. EntriesOf(full) \in SUBSET Entry BY EntriesOfType
    <3>4. Merged(job.inputs) \subseteq EntriesOf(job.inputs) BY DEF Merged
    <3> QED BY <3>2, <3>3, <3>4
  <2>2. content' = [content EXCEPT ![job.output] = made] BY <1>3 DEF Install
  <2> HIDE DEF made
  <2>3. content' \in [Files -> SUBSET Entry] BY <2>1, <2>2
  <2>4. job.output \in Files BY <1>3 DEF Install
  <2>5. job' = NoJob /\ job' \in [inputs : SUBSET Files, output : Files \cup {0}]
    BY <1>3 DEF Install, NoJob
  <2> QED BY <1>3, <2>3, <2>4, <2>5 DEF Install
<1>4. ASSUME NEW f \in Obsolete, Unlink(f) PROVE TypeInv' BY <1>4 DEF Unlink
<1>5. CASE Stop BY <1>5 DEF Stop
<1> QED BY <1>1, <1>2, <1>3, <1>4, <1>5 DEF Maintain

LEMMA OpenTypes ==
  ASSUME TypeInv, Open
  PROVE  TypeInv'
<1> USE DEF TypeInv, TypeOK, browser, handles, iteration
<1>1. CASE List
  <2>1. Version \in SUBSET Files BY DEF Version
  <2>2. snap' \subseteq Entry BY <1>1, <2>1, EntriesOfType DEF List
  <2> QED BY <1>1, <2>2 DEF List
<1>2. ASSUME NEW f \in todo, CheckEntry(f) PROVE TypeInv'
  <2>1. f \in Files OBVIOUS
  <2>2. at' \in Files \cup {0} /\ skipped' \subseteq Files BY <1>2, <2>1 DEF CheckEntry
  <2> QED BY <1>2, <2>2 DEF CheckEntry
<1>3. CASE OpenEntry BY <1>3 DEF OpenEntry
<1>4. CASE Constructed BY <1>4 DEF Constructed
<1> QED BY <1>1, <1>2, <1>3, <1>4 DEF Open

\* One turn of the iteration: an entry moves from rest to yielded.
LEMMA YieldStep ==
  ASSUME TypeInv, YieldRecord
  PROVE  \E e \in rest :
           /\ rest' = rest \ {e}
           /\ yielded' = Append(yielded, e)
           /\ yielded' \in Seq(Entry)
           /\ Len(yielded') = Len(yielded) + 1
           /\ \A i \in 1..Len(yielded) : yielded'[i] = yielded[i]
           /\ yielded'[Len(yielded) + 1] = e
           /\ Yielded' = Yielded \cup {e}
<1>1. PICK e \in rest : rest' = rest \ {e} /\ yielded' = Append(yielded, e)
  BY DEF YieldRecord
<1>2. e \in Entry /\ yielded \in Seq(Entry) BY DEF TypeInv, TypeOK
<1>3. /\ yielded' \in Seq(Entry) /\ Len(yielded') = Len(yielded) + 1
      /\ \A i \in 1..Len(yielded) : yielded'[i] = yielded[i]
      /\ yielded'[Len(yielded) + 1] = e
  BY <1>1, <1>2, AppendProperties
<1>4. DOMAIN yielded' = 1..Len(yielded) + 1 /\ DOMAIN yielded = 1..Len(yielded)
  BY <1>2, <1>3, LenProperties
<1>5. Len(yielded) \in Nat BY <1>2, LenProperties
<1>6. Yielded' = Yielded \cup {e}
  <2>1. Yielded' = {yielded'[i] : i \in 1..Len(yielded) + 1} BY <1>4 DEF Yielded
  <2>2. Yielded = {yielded[i] : i \in 1..Len(yielded)} BY <1>4 DEF Yielded
  <2>3. 1..Len(yielded) + 1 = 1..Len(yielded) \cup {Len(yielded) + 1} BY <1>5
  <2> QED BY <2>1, <2>2, <2>3, <1>3
<1> QED BY <1>1, <1>3, <1>6

LEMMA ReadTypes ==
  ASSUME TypeInv, Read \/ Close
  PROVE  TypeInv'
<1> USE DEF TypeInv, TypeOK, browser, handles, iteration
<1>1. ASSUME NEW rev \in BOOLEAN, Iterate(rev) PROVE TypeInv' BY <1>1 DEF Iterate
<1>2. CASE NextFile BY <1>2 DEF NextFile
<1>3. CASE YieldRecord
  <2>1. yielded' \in Seq(Entry) /\ rest' \subseteq Entry BY <1>3, YieldStep
  <2> QED BY <1>3, <2>1 DEF YieldRecord
<1>4. CASE Exhausted BY <1>4 DEF Exhausted
<1>5. CASE Close BY <1>5 DEF Close
<1> QED BY <1>1, <1>2, <1>3, <1>4, <1>5 DEF Read

LEMMA NextTypes == TypeInv /\ [AnyNext]_vars => TypeInv'
<1> SUFFICES ASSUME TypeInv, [AnyNext]_vars PROVE TypeInv' OBVIOUS
<1>1. CASE UNCHANGED vars BY <1>1 DEF vars, TypeInv, TypeOK, NoJob
<1>2. CASE AnyNext
  BY <1>2, WriteTypes, MaintainTypes, OpenTypes, ReadTypes DEF AnyNext, AnyWrite
<1> QED BY <1>1, <1>2

\* Every variable of RawLevelDb keeps its type.
THEOREM TypeCorrect == Spec => []TypeOK
<1>1. Spec => []TypeInv BY InitTypes, NextTypes, NextIsAny, PTL DEF Spec
<1>2. TypeInv => TypeOK BY DEF TypeInv
<1> QED BY <1>1, <1>2, PTL

(***************************************************************************)
(* The browser: what a file number stands for, and sequence numbers        *)
(***************************************************************************)
\* File numbers are given out in turn and the files of the version stay in
\* the directory; a table is empty until it is installed.
FileInv ==
  /\ log < next /\ job.output < next
  /\ \A f \in tables \cup full \cup dir \cup whole : f < next
  /\ \A f \in Files : f >= next => content[f] = {}
  /\ Version \subseteq dir
  /\ log \notin tables \cup full
  /\ job # NoJob =>
       /\ job.output \in dir /\ job.output \notin Version \cup whole \cup logs
       /\ content[job.output] = {}
       /\ job.inputs # {} /\ (job.inputs = full \/ job.inputs \subseteq tables)
  /\ \A f \in logs : f < next

\* A sequence number is used once, and no two files of the version share an
\* entry.
SeqInv ==
  /\ \A f \in Files : \A e \in content[f] : e.seq <= seq
  /\ \A f, g \in Files : \A e \in content[f], o \in content[g] : e.seq = o.seq => e = o
  /\ \A f, g \in Version : f # g => content[f] \cap content[g] = {}

LEMMA InitFiles == Init => FileInv /\ SeqInv
<1> SUFFICES ASSUME Init PROVE FileInv /\ SeqInv OBVIOUS
<1>1. 1 \in Files BY DbConstants DEF Files
<1>2. Version = {1} BY DEF Init, Version
<1> QED BY <1>1, <1>2 DEF Init, FileInv, SeqInv, NoJob

\* What a merge keeps was in the files merged.
LEMMA MergedSubset == \A inputs : Merged(inputs) \subseteq EntriesOf(inputs)
BY DEF Merged

LEMMA InstallContent ==
  ASSUME TypeInv, Install
  PROVE  /\ job.output \in Files /\ job.inputs \in SUBSET Files
         /\ content'[job.output] \subseteq EntriesOf(job.inputs)
         /\ \A f \in Files \ {job.output} : content'[f] = content[f]
<1>1. job.output \in Files /\ job.inputs \in SUBSET Files /\ full \in SUBSET Files
  BY DEF Install, TypeInv, TypeOK
<1> DEFINE made == IF job.inputs = full THEN EntriesOf(full) ELSE Merged(job.inputs)
<1>2. made \subseteq EntriesOf(job.inputs) BY MergedSubset
<1>3. content' = [content EXCEPT ![job.output] = made] BY DEF Install
<1> HIDE DEF made
<1> QED BY <1>1, <1>2, <1>3 DEF TypeInv, TypeOK

LEMMA WriteContent ==
  ASSUME TypeInv, NEW batch \in Seq(Op), Write(batch)
  PROVE  /\ seq' \in Nat /\ seq <= seq'
         /\ \A f \in Files \ {log} : content'[f] = content[f]
         /\ content[log] \subseteq content'[log]
         /\ \A e \in content'[log] \ content[log] : seq < e.seq /\ e.seq <= seq'
         /\ \A e, o \in content'[log] \ content[log] : e.seq = o.seq => e = o
<1>1. batch \in Seq(Op) OBVIOUS
<1>2. Len(batch) \in Nat /\ DOMAIN batch = 1..Len(batch) BY <1>1, LenProperties
<1>3. seq \in Nat /\ seq' = seq + Len(batch) BY DEF Write, TypeInv, TypeOK
<1> DEFINE entry(i) == [key |-> batch[i].key, live |-> batch[i].live,
                        value |-> batch[i].value, seq |-> seq + i]
           new == {entry(i) : i \in DOMAIN batch}
<1>4. \A i \in DOMAIN batch : i \in Nat /\ entry(i).seq = seq + i
                                /\ seq < seq + i /\ seq + i <= seq'
  BY <1>2, <1>3
<1>5. content' = [content EXCEPT ![log] = @ \cup new] BY DEF Write
<1>6. log \in Files /\ content \in [Files -> SUBSET Entry] BY DEF TypeInv, TypeOK
<1>7. content'[log] = content[log] \cup new
  <2> HIDE DEF new
  <2> QED BY <1>5, <1>6
<1>8. \A f \in Files \ {log} : content'[f] = content[f]
  <2> HIDE DEF new
  <2> QED BY <1>5, <1>6
<1>9. \A e \in content'[log] \ content[log] : \E i \in DOMAIN batch : e = entry(i)
  BY <1>7
<1> HIDE DEF entry, new
<1>10. \A e \in content'[log] \ content[log] : seq < e.seq /\ e.seq <= seq'
  BY <1>4, <1>9
<1>11. \A e, o \in content'[log] \ content[log] : e.seq = o.seq => e = o
  <2> SUFFICES ASSUME NEW e \in content'[log] \ content[log],
                      NEW o \in content'[log] \ content[log], e.seq = o.seq
               PROVE  e = o
    OBVIOUS
  <2>1. PICK i \in DOMAIN batch : e = entry(i) BY <1>9
  <2>2. PICK j \in DOMAIN batch : o = entry(j) BY <1>9
  <2>3. i = j BY <2>1, <2>2, <1>3, <1>4
  <2> QED BY <2>1, <2>2, <2>3
<1> QED BY <1>2, <1>3, <1>7, <1>8, <1>10, <1>11

\* The reader changes nothing of the browser's.
LEMMA ReaderPassive == Open \/ Read \/ Close => UNCHANGED browser
BY DEF Open, Read, Close, List, CheckEntry, OpenEntry, Constructed, Iterate,
       NextFile, YieldRecord, Exhausted

LEMMA NextFiles == TypeInv /\ FileInv /\ [AnyNext]_vars => FileInv'
<1> SUFFICES ASSUME TypeInv, FileInv, [AnyNext]_vars PROVE FileInv' OBVIOUS
<1> USE DEF FileInv, Version
<1>0. /\ next \in Nat /\ log \in Files /\ job.output \in Files \cup {0}
      /\ Files \subseteq Nat /\ content \in [Files -> SUBSET Entry]
      /\ (next <= MaxFile => next \in Files)
      /\ tables \subseteq Files /\ full \subseteq Files /\ dir \subseteq Files
      /\ whole \subseteq Files /\ logs \subseteq Files
  BY DbConstants DEF TypeInv, TypeOK, Files
<1>1. ASSUME NEW batch \in Seq(Op), Write(batch) PROVE FileInv'
  <2>1. \A f \in Files \ {log} : content'[f] = content[f] BY <1>1, WriteContent
  <2> QED BY <1>0, <1>1, <2>1 DEF Write
<1>2. CASE Rotate
  <2>1. /\ full = {} /\ log' = next /\ full' = {log} /\ next' = next + 1
        /\ next <= MaxFile /\ next \in Files
        /\ logs' = logs \cup {next} /\ dir' = dir \cup {next}
        /\ whole' = whole \cup {next} /\ UNCHANGED <<content, tables, job>>
    BY <1>0, <1>2 DEF Rotate
  <2>2. log' < next' /\ job'.output < next' BY <1>0, <2>1
  <2>3. \A f \in tables' \cup full' \cup dir' \cup whole' \cup logs' : f < next'
    BY <1>0, <2>1
  <2>4. ASSUME NEW f \in Files, f >= next' PROVE content'[f] = {}
    <3>1. f \in Nat BY <1>0
    <3>2. f >= next BY <3>1, <1>0, <2>1, <2>4
    <3> QED BY <2>1, <3>2
  <2>5. log' \notin tables' \cup full'
    <3>1. \A f \in tables \cup {log} : f # next BY <1>0
    <3> QED BY <2>1, <3>1
  <2>6. ASSUME job # NoJob
        PROVE  /\ job.output \notin Version' \cup whole' \cup logs'
               /\ job.inputs # {} /\ job.inputs \subseteq tables
    <3>1. job.output # next BY <1>0
    <3> QED BY <2>1, <2>6, <3>1
  <2> HIDE DEF FileInv, Version
  <2>7. Version' \subseteq dir' BY <2>1 DEF FileInv, Version
  <2> QED BY <2>1, <2>2, <2>3, <2>4, <2>5, <2>6, <2>7 DEF FileInv
<1>3. ASSUME NEW inputs, inputs = full \/ inputs \subseteq tables, Begin(inputs)
      PROVE  FileInv'
  <2>1. job' = [inputs |-> inputs, output |-> next] /\ next' = next + 1
        /\ dir' = dir \cup {next}
    BY <1>3 DEF Begin
  <2>2. job'.output = next /\ job'.inputs = inputs BY <2>1
  <2>3. next <= MaxFile BY <1>3 DEF Begin
  <2> QED BY <1>0, <1>3, <2>1, <2>2, <2>3 DEF Begin
<1>4. CASE Install
  <2>1. \A f \in Files \ {job.output} : content'[f] = content[f]
    BY <1>4, InstallContent
  <2>2. job' = NoJob /\ job'.output = 0 BY <1>4 DEF Install, NoJob
  <2>3. job # NoJob BY <1>4 DEF Install
  <2>4. next' = next /\ dir' = dir /\ log' = log /\ logs' = logs
        /\ tables' = (tables \ job.inputs) \cup {job.output} /\ full' = full \ job.inputs
        /\ whole' = whole \cup {job.output}
    BY <1>4 DEF Install
  <2>5. log < next' /\ job'.output < next' BY <1>0, <2>2, <2>4
  <2>6. \A f \in Files : f >= next' => content'[f] = {}
    BY <1>0, <2>1, <2>4
  <2> QED BY <1>0, <2>2, <2>3, <2>4, <2>5, <2>6
<1>5. ASSUME NEW f \in Obsolete, Unlink(f) PROVE FileInv'
  BY <1>0, <1>5 DEF Unlink, Obsolete
<1>6. CASE UNCHANGED browser BY <1>6 DEF browser
<1>7. CASE Stop BY <1>7 DEF Stop
<1>8. Open \/ Read \/ Close => UNCHANGED browser BY ReaderPassive
<1>9. CASE Maintain BY <1>2, <1>3, <1>4, <1>5, <1>7, <1>9 DEF Maintain
<1>10. UNCHANGED vars => UNCHANGED browser BY DEF vars, browser
<1> QED BY <1>1, <1>6, <1>8, <1>9, <1>10 DEF AnyNext, AnyWrite

LEMMA NextSeqs == TypeInv /\ FileInv /\ SeqInv /\ [AnyNext]_vars => SeqInv'
<1> SUFFICES ASSUME TypeInv, FileInv, SeqInv, [AnyNext]_vars PROVE SeqInv' OBVIOUS
<1>0. /\ seq \in Nat /\ log \in Files /\ Files \subseteq Nat
      /\ \A f \in Files : \A e \in content[f] : e.seq \in Nat
      /\ Version \subseteq Files
  BY DEF TypeInv, TypeOK, Files, Version, Entry
<1>1. ASSUME NEW batch \in Seq(Op), Write(batch) PROVE SeqInv'
  <2> DEFINE old(f) == content[f]  made(f) == content'[f] \ content[f]
  <2>1. /\ seq' \in Nat /\ seq <= seq'
        /\ \A f \in Files \ {log} : content'[f] = content[f]
        /\ content[log] \subseteq content'[log]
        /\ \A e \in content'[log] \ content[log] : seq < e.seq /\ e.seq <= seq'
        /\ \A e, o \in content'[log] \ content[log] : e.seq = o.seq => e = o
    BY <1>1, WriteContent
  <2>2. \A f \in Files : \A e \in content'[f] :
          \/ e \in content[f] /\ e.seq <= seq /\ e.seq \in Nat
          \/ f = log /\ e \in content'[log] \ content[log]
    BY <1>0, <2>1 DEF SeqInv
  <2>3. \A e \in content'[log] \ content[log] : seq < e.seq /\ e.seq <= seq' BY <2>1
  <2>4. ASSUME NEW f \in Files, NEW e \in content'[f] PROVE e.seq <= seq'
    BY <1>0, <2>1, <2>2, <2>4
  <2>5. ASSUME NEW f \in Files, NEW g \in Files, NEW e \in content'[f],
               NEW o \in content'[g], e.seq = o.seq
        PROVE  e = o
    <3>1. CASE e \in content[f] /\ o \in content[g] BY <2>5, <3>1 DEF SeqInv
    <3>2. CASE e \in content'[log] \ content[log] /\ o \in content'[log] \ content[log]
      BY <2>1, <2>5, <3>2
    <3>3. CASE e \in content[f] /\ e.seq <= seq /\ e.seq \in Nat
               /\ o \in content'[log] \ content[log]
      <4>1. seq < o.seq BY <2>3, <3>3
      <4> QED BY <1>0, <2>5, <3>3, <4>1
    <3>4. CASE o \in content[g] /\ o.seq <= seq /\ o.seq \in Nat
               /\ e \in content'[log] \ content[log]
      <4>1. seq < e.seq BY <2>3, <3>4
      <4> QED BY <1>0, <2>5, <3>4, <4>1
    <3>5. \/ e \in content[f] /\ e.seq <= seq /\ e.seq \in Nat
          \/ e \in content'[log] \ content[log]
      BY <2>2
    <3>6. \/ o \in content[g] /\ o.seq <= seq /\ o.seq \in Nat
          \/ o \in content'[log] \ content[log]
      BY <2>2
    <3> QED BY <3>1, <3>2, <3>3, <3>4, <3>5, <3>6
  <2>6. Version' = Version BY <1>1 DEF Write, Version
  <2>7. ASSUME NEW f \in Version, NEW g \in Version, f # g
        PROVE  content'[f] \cap content'[g] = {}
    <3> SUFFICES ASSUME NEW e \in content'[f], e \in content'[g] PROVE FALSE OBVIOUS
    <3>1. f \in Files /\ g \in Files BY <1>0
    <3>2. e \notin content[f] \/ e \notin content[g] BY <2>7 DEF SeqInv
    <3>3. CASE e \notin content[f]
      <4>1. f = log /\ seq < e.seq BY <2>2, <2>3, <3>1, <3>3
      <4>2. e.seq <= seq /\ e.seq \in Nat BY <2>2, <2>7, <3>1, <4>1
      <4> QED BY <1>0, <4>1, <4>2
    <3>4. CASE e \notin content[g]
      <4>1. g = log /\ seq < e.seq BY <2>2, <2>3, <3>1, <3>4
      <4>2. e.seq <= seq /\ e.seq \in Nat BY <2>2, <2>7, <3>1, <4>1
      <4> QED BY <1>0, <4>1, <4>2
    <3> QED BY <3>2, <3>3, <3>4
  <2> QED BY <2>4, <2>5, <2>6, <2>7 DEF SeqInv
<1>2. CASE Rotate
  <2>1. /\ Version' = Version \cup {next} /\ next \in Files
        /\ UNCHANGED <<seq, content>>
    BY <1>2, DbConstants DEF Rotate, Version, Files, TypeInv, TypeOK
  <2>2. content[next] = {} BY <2>1, <1>0 DEF FileInv
  <2> QED BY <2>1, <2>2 DEF SeqInv
<1>3. ASSUME NEW inputs, Begin(inputs) PROVE SeqInv'
  BY <1>3 DEF Begin, SeqInv, Version
<1>4. CASE Install
  <2>0. /\ job # NoJob /\ log' = log /\ seq' = seq
        /\ tables' = (tables \ job.inputs) \cup {job.output} /\ full' = full \ job.inputs
    BY <1>4 DEF Install
  <2> DEFINE out == job.output
  <2>1. /\ out \in Files /\ job.inputs \in SUBSET Files
        /\ content'[out] \subseteq EntriesOf(job.inputs)
        /\ \A f \in Files \ {out} : content'[f] = content[f]
    BY <1>4, InstallContent
  <2>2. /\ job.inputs \subseteq Version /\ log \notin job.inputs
        /\ out \notin Version
    BY <2>0 DEF FileInv, Version
  <2>3. Version' \subseteq (Version \ job.inputs) \cup {out}
    <3>1. tables \cap job.inputs \subseteq job.inputs /\ full \cap job.inputs \subseteq job.inputs
      OBVIOUS
    <3>2. Version' = ((tables \ job.inputs) \cup {out}) \cup (full \ job.inputs) \cup {log}
      BY <2>0 DEF Version
    <3> QED BY <2>2, <3>2 DEF Version
  <2>4. \A f \in Files : \A e \in content'[f] : \E g \in Files :
          e \in content[g] /\ (f = g \/ (f = out /\ g \in job.inputs))
    BY <2>1 DEF EntriesOf
  <2> HIDE DEF out
  <2>5. \A f, g \in Version' : f # g => content'[f] \cap content'[g] = {}
    <3> SUFFICES ASSUME NEW f \in Version', NEW g \in Version', f # g,
                        NEW e \in content'[f], e \in content'[g]
                 PROVE  FALSE
      OBVIOUS
    <3>1. f \in Files /\ g \in Files BY <1>0, <2>1, <2>3
    <3>2. PICK f0 \in Files : e \in content[f0] /\ (f = f0 \/ (f = out /\ f0 \in job.inputs))
      BY <2>4, <3>1
    <3>3. PICK g0 \in Files : e \in content[g0] /\ (g = g0 \/ (g = out /\ g0 \in job.inputs))
      BY <2>4, <3>1
    <3>4. content[out] = {} BY <2>0 DEF FileInv, out
    <3>5. f0 # out /\ g0 # out BY <3>2, <3>3, <3>4
    <3>6. f0 \in Version /\ g0 \in Version BY <2>2, <2>3, <3>2, <3>3, <3>5
    <3>7. f0 # g0 BY <2>3, <3>2, <3>3, <3>5
    <3> QED BY <3>2, <3>3, <3>6, <3>7 DEF SeqInv
  <2>6. \A f \in Files : \A e \in content'[f] : e.seq <= seq'
    BY <2>0, <2>4 DEF SeqInv
  <2>7. \A f, g \in Files : \A e \in content'[f], o \in content'[g] : e.seq = o.seq => e = o
    BY <2>4 DEF SeqInv
  <2> QED BY <2>5, <2>6, <2>7 DEF SeqInv
<1>5. ASSUME NEW f \in Obsolete, Unlink(f) PROVE SeqInv'
  BY <1>5 DEF Unlink, SeqInv, Version
<1>6. CASE UNCHANGED browser BY <1>6 DEF browser, SeqInv, Version
<1>7. CASE Stop BY <1>7 DEF Stop, SeqInv, Version
<1>8. Open \/ Read \/ Close => UNCHANGED browser BY ReaderPassive
<1>9. CASE Maintain BY <1>2, <1>3, <1>4, <1>5, <1>7, <1>9 DEF Maintain
<1>10. UNCHANGED vars => UNCHANGED browser BY DEF vars, browser
<1> QED BY <1>1, <1>6, <1>8, <1>9, <1>10 DEF AnyNext, AnyWrite

(***************************************************************************)
(* The browser's invariant, and what its steps do to the reader            *)
(***************************************************************************)
BrowserInv == TypeInv /\ FileInv /\ SeqInv

LEMMA BrowserCorrect == Init /\ [][AnyNext]_vars => []BrowserInv
<1>1. Init => BrowserInv BY InitTypes, InitFiles DEF BrowserInv
<1>2. BrowserInv /\ [AnyNext]_vars => BrowserInv'
  BY NextTypes, NextFiles, NextSeqs DEF BrowserInv
<1> QED BY <1>1, <1>2, PTL

\* A step of the browser leaves the reader's variables alone, is taken while
\* the browser runs, and takes no entry from a file number.
LEMMA BrowserStep ==
  ASSUME BrowserInv, AnyWrite \/ Maintain
  PROVE  /\ UNCHANGED <<pc, todo, at, opened, skipped, snap>>
         /\ UNCHANGED <<left, reverse, file, rest, yielded>>
         /\ up
         /\ \A f \in Files : content[f] \subseteq content'[f]
<1> DEFINE Passive ==
      /\ UNCHANGED <<pc, todo, at, opened, skipped, snap>>
      /\ UNCHANGED <<left, reverse, file, rest, yielded>>
      /\ up
      /\ \A f \in Files : content[f] \subseteq content'[f]
<1> SUFFICES Passive OBVIOUS
<1> USE DEF BrowserInv, handles, iteration
<1>1. ASSUME NEW batch \in Seq(Op), Write(batch) PROVE Passive
  <2>1. \A f \in Files : content[f] \subseteq content'[f] BY <1>1, WriteContent
  <2> QED BY <1>1, <2>1 DEF Write
<1>2. CASE Rotate BY <1>2 DEF Rotate
<1>3. ASSUME NEW inputs, Begin(inputs) PROVE Passive BY <1>3 DEF Begin
<1>4. CASE Install
  <2>1. content[job.output] = {} BY <1>4 DEF Install, FileInv
  <2>2. \A f \in Files : content[f] \subseteq content'[f]
    BY <1>4, <2>1, InstallContent
  <2> QED BY <1>4, <2>2 DEF Install
<1>5. ASSUME NEW f \in Obsolete, Unlink(f) PROVE Passive BY <1>5 DEF Unlink
<1>6. CASE Stop BY <1>6 DEF Stop
<1> QED BY <1>1, <1>2, <1>3, <1>4, <1>5, <1>6 DEF AnyWrite, Maintain

(***************************************************************************)
(* Nothing of the snapshot is lost                                         *)
(***************************************************************************)
\* The entries of the snapshot are where the reader is yet to come to, or in
\* what it has: a file number keeps its entries while the browser goes on.
Covered ==
  /\ pc = "scan" =>
       snap \subseteq EntriesOf(todo \cup opened \cup skipped \cup ({at} \ {0}))
  /\ skipped = {} =>
       /\ pc \in {"open", "iter", "done"} => snap \subseteq EntriesOf(opened)
       /\ pc = "iter" => snap \subseteq Yielded \cup rest \cup EntriesOf(left)
       /\ pc = "done" => snap \subseteq Yielded

LEMMA NextCovered == BrowserInv /\ Covered /\ [AnyNext]_vars => Covered'
<1> SUFFICES ASSUME BrowserInv, Covered, [AnyNext]_vars PROVE Covered' OBVIOUS
<1>1. CASE AnyWrite \/ Maintain
  <2>1. /\ UNCHANGED <<pc, todo, at, opened, skipped, snap>>
        /\ UNCHANGED <<left, reverse, file, rest, yielded>>
        /\ \A f \in Files : content[f] \subseteq content'[f]
    BY <1>1, BrowserStep
  <2>2. Yielded' = Yielded BY <2>1 DEF Yielded
  <2>3. \A fs \in SUBSET Files : EntriesOf(fs) \subseteq UNION {content'[f] : f \in fs}
    BY <2>1 DEF EntriesOf
  <2>4. todo \cup opened \cup skipped \cup ({at} \ {0}) \in SUBSET Files
        /\ opened \in SUBSET Files /\ left \in SUBSET Files
    BY DEF BrowserInv, TypeInv, TypeOK
  <2>5. EntriesOf(todo \cup opened \cup skipped \cup ({at} \ {0})) \subseteq
           EntriesOf(todo \cup opened \cup skipped \cup ({at} \ {0}))'
    BY <2>1, <2>3, <2>4 DEF EntriesOf
  <2>6. EntriesOf(opened) \subseteq EntriesOf(opened)'
        /\ EntriesOf(left) \subseteq EntriesOf(left)'
    BY <2>1, <2>3, <2>4 DEF EntriesOf
  <2> QED BY <2>1, <2>2, <2>5, <2>6 DEF Covered
<1>2. CASE List
  <2>1. dir \subseteq dir \cup opened \cup skipped \cup ({at} \ {0}) OBVIOUS
  <2>2. Version \subseteq dir BY DEF BrowserInv, FileInv
  <2>3. pc' = "scan" /\ snap' = EntriesOf(Version) /\ todo' = dir
        /\ UNCHANGED <<content, opened, skipped, at>>
    BY <1>2 DEF List, browser
  <2>4. snap' \subseteq EntriesOf(todo \cup opened \cup skipped \cup ({at} \ {0}))'
    BY <2>2, <2>3 DEF EntriesOf
  <2> QED BY <2>3, <2>4 DEF Covered
<1>3. ASSUME NEW f \in todo, CheckEntry(f) PROVE Covered'
  <2>1. /\ pc = "scan" /\ at = 0 /\ todo' = todo \ {f}
        /\ (at' = f /\ skipped' = skipped) \/ (skipped' = skipped \cup {f} /\ at' = at)
        /\ UNCHANGED <<pc, content, opened, snap>>
    BY <1>3 DEF CheckEntry, browser
  <2>2. f # 0 BY DEF BrowserInv, TypeInv, TypeOK, Files
  <2>3. (todo \cup opened \cup skipped \cup ({at} \ {0}))'
           = todo \cup opened \cup skipped \cup ({at} \ {0})
    BY <2>1, <2>2
  <2>4. EntriesOf(todo \cup opened \cup skipped \cup ({at} \ {0}))'
           = EntriesOf(todo \cup opened \cup skipped \cup ({at} \ {0}))
    BY <2>1, <2>3 DEF EntriesOf
  <2> QED BY <2>1, <2>4 DEF Covered
<1>4. CASE OpenEntry
  <2>1. CASE pc' = "failed" BY <2>1 DEF Covered
  <2>2. CASE pc' # "failed"
    <3>1. /\ pc = "scan" /\ at # 0 /\ at' = 0 /\ opened' = opened \cup {at}
          /\ UNCHANGED <<pc, content, todo, skipped, snap>>
      BY <1>4, <2>2 DEF OpenEntry, browser
    <3>2. (todo \cup opened \cup skipped \cup ({at} \ {0}))'
             = todo \cup opened \cup skipped \cup ({at} \ {0})
      BY <3>1
    <3>3. EntriesOf(todo \cup opened \cup skipped \cup ({at} \ {0}))'
             = EntriesOf(todo \cup opened \cup skipped \cup ({at} \ {0}))
      BY <3>1, <3>2 DEF EntriesOf
    <3> QED BY <3>1, <3>3 DEF Covered
  <2> QED BY <2>1, <2>2
<1>5. CASE Constructed
  <2>1. pc = "scan" /\ at = 0 /\ todo = {} /\ pc' = "open"
        /\ UNCHANGED <<content, opened, skipped, snap>>
    BY <1>5 DEF Constructed, browser, handles
  <2>2. skipped = {} => todo \cup opened \cup skipped \cup ({at} \ {0}) = opened
    BY <2>1
  <2>3. EntriesOf(opened)' = EntriesOf(opened) BY <2>1 DEF EntriesOf
  <2> QED BY <2>1, <2>2, <2>3 DEF Covered
<1>6. ASSUME NEW rev \in BOOLEAN, Iterate(rev) PROVE Covered'
  <2>1. pc \in {"open", "done"} /\ pc' = "iter" /\ left' = opened
        /\ UNCHANGED <<content, opened, skipped, snap>>
    BY <1>6 DEF Iterate, browser, handles
  <2>2. EntriesOf(opened)' = EntriesOf(opened) /\ EntriesOf(left)' = EntriesOf(opened)
    BY <2>1 DEF EntriesOf
  <2> QED BY <2>1, <2>2 DEF Covered
<1>7. CASE NextFile
  <2>1. PICK f \in left : left' = left \ {f} /\ rest' = content[f] BY <1>7 DEF NextFile
  <2>2. pc = "iter" /\ rest = {} /\ UNCHANGED <<pc, content, opened, skipped, snap, yielded>>
    BY <1>7 DEF NextFile, browser, handles
  <2>3. EntriesOf(left) \subseteq rest' \cup EntriesOf(left)'
    BY <2>1, <2>2 DEF EntriesOf
  <2>4. EntriesOf(opened)' = EntriesOf(opened) /\ Yielded' = Yielded
    BY <2>2 DEF EntriesOf, Yielded
  <2> QED BY <2>2, <2>3, <2>4 DEF Covered
<1>8. CASE YieldRecord
  <2>1. PICK e \in rest : rest' = rest \ {e} /\ Yielded' = Yielded \cup {e}
    BY <1>8, YieldStep DEF BrowserInv
  <2>2. pc = "iter" /\ UNCHANGED <<pc, content, opened, skipped, snap, left>>
    BY <1>8 DEF YieldRecord, browser, handles
  <2>3. EntriesOf(opened)' = EntriesOf(opened) /\ EntriesOf(left)' = EntriesOf(left)
    BY <2>2 DEF EntriesOf
  <2> QED BY <2>1, <2>2, <2>3 DEF Covered
<1>9. CASE Exhausted
  <2>1. /\ pc = "iter" /\ rest = {} /\ left = {} /\ pc' = "done"
        /\ UNCHANGED <<content, opened, skipped, snap, yielded>>
    BY <1>9 DEF Exhausted, browser, handles, iteration
  <2>2. EntriesOf(opened)' = EntriesOf(opened) /\ Yielded' = Yielded
    BY <2>1 DEF EntriesOf, Yielded
  <2>3. EntriesOf(left) = {} BY <2>1 DEF EntriesOf
  <2> QED BY <2>1, <2>2, <2>3 DEF Covered
<1>10. CASE Close
  <2>1. pc' = "closed" BY <1>10 DEF Close
  <2> QED BY <2>1 DEF Covered
<1>11. CASE UNCHANGED vars BY <1>11 DEF vars, Covered, EntriesOf, Yielded
<1> QED BY <1>1, <1>2, <1>3, <1>4, <1>5, <1>6, <1>7, <1>8, <1>9, <1>10, <1>11
        DEF AnyNext, Open, Read

\* Whatever the browser flushes, merges and unlinks while the directory is
\* listed, opened and read, the iteration of RawLevelDb ends with every entry
\* that the database held when the directory was listed, unless a listed file
\* vanished before its is_file().
THEOREM SnapshotNeverLost == Spec => []SnapshotCovered
<1>1. Init => Covered BY DEF Init, Covered
<1>2. Covered => SnapshotCovered BY DEF Covered, SnapshotCovered
<1> QED BY <1>1, <1>2, NextCovered, NextIsAny, BrowserCorrect, PTL DEF Spec

(***************************************************************************)
(* No record comes twice                                                   *)
(***************************************************************************)
\* The entries yielded, those left of the file iterated and those of the
\* files to come are apart.
Once ==
  /\ \A i, j \in DOMAIN yielded : i # j => yielded[i] # yielded[j]
  /\ Yielded \cap (rest \cup EntriesOf(left)) = {}
  /\ rest \cap EntriesOf(left) = {}

\* With a stopped browser nothing moves under the reader, and without obsolete
\* files what it opened are files of the version.
Quiet ==
  /\ pc = "new" => opened = {} /\ left = {} /\ rest = {} /\ yielded = <<>>
  /\ left \subseteq opened
  /\ ~LiveBrowser =>
       /\ pc # "new" => ~up
       /\ opened \subseteq dir \cap whole
       /\ Obsolete = {} => Once

LEMMA NothingYielded ==
  ASSUME yielded = <<>>, rest = {}
  PROVE  Once
<1>1. DOMAIN yielded = {} OBVIOUS
<1> QED BY <1>1 DEF Once, Yielded

\* Files opened in a quiet directory without obsolete files are the version's.
LEMMA OpenedInVersion ==
  ASSUME BrowserInv, opened \subseteq dir \cap whole, Obsolete = {}
  PROVE  opened \subseteq Version
<1>1. dir \subseteq Version \cup {job.output} BY DEF Obsolete
<1>2. job.output \notin dir \cap whole
  <2>1. CASE job = NoJob BY <2>1 DEF NoJob, BrowserInv, TypeInv, TypeOK, Files
  <2>2. CASE job # NoJob BY <2>2 DEF BrowserInv, FileInv
  <2> QED BY <2>1, <2>2
<1> QED BY <1>1, <1>2

\* An entry that is yielded was not yielded before and is in no file to come.
LEMMA YieldOnce ==
  ASSUME BrowserInv, Once, YieldRecord
  PROVE  Once'
<1>1. PICK e \in rest :
        /\ rest' = rest \ {e} /\ Yielded' = Yielded \cup {e}
        /\ yielded' \in Seq(Entry) /\ Len(yielded') = Len(yielded) + 1
        /\ \A i \in 1..Len(yielded) : yielded'[i] = yielded[i]
        /\ yielded'[Len(yielded) + 1] = e
  BY YieldStep DEF BrowserInv
<1>2. /\ Len(yielded) \in Nat /\ DOMAIN yielded = 1..Len(yielded)
      /\ DOMAIN yielded' = 1..Len(yielded) + 1
  BY <1>1, LenProperties DEF BrowserInv, TypeInv, TypeOK
<1>3. \A i \in 1..Len(yielded) : yielded[i] # e
  BY <1>2 DEF Once, Yielded
<1>4. \A i, j \in DOMAIN yielded' : i # j => yielded'[i] # yielded'[j]
  <2> SUFFICES ASSUME NEW i \in 1..Len(yielded) + 1, NEW j \in 1..Len(yielded) + 1, i # j
               PROVE  yielded'[i] # yielded'[j]
    BY <1>2
  <2>1. CASE i \in 1..Len(yielded) /\ j \in 1..Len(yielded)
    BY <1>1, <1>2, <2>1 DEF Once
  <2>2. CASE i = Len(yielded) + 1
    <3>1. j \in 1..Len(yielded) BY <1>2, <2>2
    <3> QED BY <1>1, <1>3, <2>2, <3>1
  <2>3. CASE j = Len(yielded) + 1
    <3>1. i \in 1..Len(yielded) BY <1>2, <2>3
    <3> QED BY <1>1, <1>3, <2>3, <3>1
  <2> QED BY <1>2, <2>1, <2>2, <2>3
<1>5. EntriesOf(left)' = EntriesOf(left) BY DEF YieldRecord, browser, EntriesOf
<1> QED BY <1>1, <1>4, <1>5 DEF Once

LEMMA NextQuiet == BrowserInv /\ Quiet /\ [AnyNext]_vars => Quiet'
<1> SUFFICES ASSUME BrowserInv, Quiet, [AnyNext]_vars PROVE Quiet' OBVIOUS
<1>1. CASE AnyWrite \/ Maintain
  <2>1. /\ UNCHANGED <<pc, todo, at, opened, skipped, snap>>
        /\ UNCHANGED <<left, reverse, file, rest, yielded>>
        /\ up
    BY <1>1, BrowserStep
  <2>2. CASE LiveBrowser BY <2>1, <2>2 DEF Quiet
  <2>3. CASE ~LiveBrowser
    <3>1. pc = "new" /\ opened = {} /\ left = {} /\ rest = {} /\ yielded = <<>>
      BY <2>1, <2>3 DEF Quiet
    <3>2. EntriesOf(left)' = {} BY <2>1, <3>1 DEF EntriesOf
    <3>3. Yielded' = {} /\ DOMAIN yielded' = {} BY <2>1, <3>1 DEF Yielded
    <3>4. Once' BY <2>1, <3>1, <3>2, <3>3 DEF Once
    <3> QED BY <2>1, <3>1, <3>4 DEF Quiet
  <2> QED BY <2>2, <2>3
<1>2. ASSUME UNCHANGED <<left, rest, yielded, content>> PROVE Once' = Once
  BY <1>2 DEF Once, EntriesOf, Yielded
<1>3. ASSUME UNCHANGED browser PROVE Obsolete' = Obsolete /\ UNCHANGED <<content, up, dir, whole>>
  BY <1>3 DEF browser, Obsolete, Version
<1>4. CASE List
  <2>1. UNCHANGED browser /\ UNCHANGED <<left, rest, yielded, opened>> /\ pc' # "new"
        /\ (LiveBrowser \/ ~up)
    BY <1>4 DEF List, iteration
  <2> QED BY <1>2, <1>3, <2>1 DEF Quiet
<1>5. ASSUME NEW f \in todo, CheckEntry(f) PROVE Quiet'
  <2>1. UNCHANGED browser /\ UNCHANGED <<left, rest, yielded, opened, pc>>
    BY <1>5 DEF CheckEntry, iteration
  <2> QED BY <1>2, <1>3, <2>1 DEF Quiet
<1>6. CASE OpenEntry
  <2>1. UNCHANGED browser /\ UNCHANGED <<left, rest, yielded>> /\ pc = "scan" /\ pc' # "new"
    BY <1>6 DEF OpenEntry, iteration
  <2>2. opened' = opened \/ (at \in dir \cap whole /\ opened' = opened \cup {at})
    BY <1>6 DEF OpenEntry
  <2> QED BY <1>2, <1>3, <2>1, <2>2 DEF Quiet
<1>7. CASE Constructed \/ Exhausted \/ Close
  <2>1. UNCHANGED browser /\ UNCHANGED <<left, rest, yielded, opened>>
        /\ pc # "new" /\ pc' # "new"
    BY <1>7 DEF Constructed, Exhausted, Close, handles, iteration
  <2> QED BY <1>2, <1>3, <2>1 DEF Quiet
<1>8. ASSUME NEW rev \in BOOLEAN, Iterate(rev) PROVE Quiet'
  <2>1. UNCHANGED browser /\ left' = opened /\ opened' = opened /\ rest' = {}
        /\ yielded' = <<>> /\ pc # "new" /\ pc' # "new"
    BY <1>8 DEF Iterate, handles
  <2>2. Yielded' = {} /\ DOMAIN yielded' = {} BY <2>1 DEF Yielded
  <2>3. Once' BY <2>1, <2>2 DEF Once
  <2> QED BY <1>3, <2>1, <2>3 DEF Quiet
<1>9. CASE NextFile
  <2>1. PICK f \in left : left' = left \ {f} /\ rest' = content[f] BY <1>9 DEF NextFile
  <2>2. UNCHANGED browser /\ UNCHANGED <<opened, yielded, pc>> /\ pc = "iter" /\ rest = {}
    BY <1>9 DEF NextFile, handles
  <2>3. ASSUME ~LiveBrowser, Obsolete = {} PROVE Once'
    <3>1. Once /\ left \subseteq Version
      BY <2>2, <2>3, OpenedInVersion DEF Quiet
    <3>2. EntriesOf(left) = content[f] \cup EntriesOf(left)'
      BY <1>3, <2>1, <2>2 DEF EntriesOf
    <3>3. content[f] \cap EntriesOf(left)' = {}
      BY <1>3, <2>1, <2>2, <3>1 DEF EntriesOf, BrowserInv, SeqInv
    <3>4. Yielded' = Yielded /\ DOMAIN yielded' = DOMAIN yielded BY <2>2 DEF Yielded
    <3> QED BY <2>1, <2>2, <3>1, <3>2, <3>3, <3>4 DEF Once
  <2> QED BY <1>3, <2>1, <2>2, <2>3 DEF Quiet
<1>10. CASE YieldRecord
  <2>1. UNCHANGED browser /\ UNCHANGED <<opened, pc, left>> /\ pc = "iter"
    BY <1>10 DEF YieldRecord, handles
  <2>2. Once => Once' BY <1>10, YieldOnce
  <2> QED BY <1>3, <2>1, <2>2 DEF Quiet
<1>11. CASE UNCHANGED vars
  <2>1. UNCHANGED browser /\ UNCHANGED <<left, rest, yielded, opened, pc>>
    BY <1>11 DEF vars, browser
  <2> QED BY <1>2, <1>3, <2>1 DEF Quiet
<1> QED BY <1>1, <1>4, <1>5, <1>6, <1>7, <1>8, <1>9, <1>10, <1>11 DEF AnyNext, Open, Read

\* Of a directory that nobody writes and that holds no obsolete file, RawLevelDb
\* yields no record twice, in either direction and in every iteration.
THEOREM NeverTwice == Spec => []NoRecordTwice
<1>1. Init => Quiet
  <2>1. EntriesOf({}) = {} BY DEF EntriesOf
  <2> QED BY <2>1, NothingYielded DEF Init, Quiet
<1>2. BrowserInv /\ Quiet => NoRecordTwice
  BY DEF NoRecordTwice, Quiet, Once
<1> QED BY <1>1, <1>2, NextQuiet, NextIsAny, BrowserCorrect, PTL DEF Spec

(***************************************************************************)
(* The newest record read of a key is what the key had: merging and        *)
(* dropping deletions never makes an older value the newest.  Proved for   *)
(* every directory that a stopped browser leaves.                          *)
(***************************************************************************)
\* A set of numbers that is not empty and has a bound has a greatest member.
LEMMA Greatest ==
  ASSUME NEW T \in SUBSET Nat, T # {}, NEW bound \in Nat, \A n \in T : n <= bound
  PROVE  \E m \in T : \A n \in T : n <= m
<1> DEFINE U == {bound - n : n \in T}
<1>1. U \subseteq Nat /\ U # {}
  <2>1. \A n \in T : bound - n \in Nat OBVIOUS
  <2> QED BY <2>1
<1> DEFINE R == OpToRel(<, Nat)
<1>2. IsWellFoundedOn(R, Nat) BY NatLessThanWellFounded
<1> HIDE DEF U
<1>3. PICK x \in U : \A y \in U : <<y, x>> \notin R
  <2> HIDE DEF R
  <2> QED BY <1>1, <1>2, WFMin, Zenon
<1>4. \A y \in U : ~(y < x) BY <1>1, <1>3 DEF OpToRel
<1>5. PICK m \in T : x = bound - m BY DEF U
<1>6. ASSUME NEW n \in T PROVE n <= m
  <2>1. bound - n \in U BY DEF U
  <2>2. ~(bound - n < bound - m) BY <1>4, <1>5, <2>1
  <2> QED BY <2>2
<1> QED BY <1>6

(***************************************************************************)
(* Merging                                                                 *)
(***************************************************************************)
Of(S, k) == {e \in S : e.key = k}

\* Every file holds entries that were once written to a log.
FromLogs == \A f \in Files : content[f] \subseteq Written

\* Of a key of which the version has an entry at all, it has one as new as
\* any that was ever written.
Newest ==
  \A k \in Keys :
    \/ Of(EntriesOf(Version), k) = {}
    \/ \A e \in Of(Written, k) : \E o \in Of(EntriesOf(Version), k) : e.seq <= o.seq

LogsInv == FromLogs /\ Newest /\ log \in logs /\ full \subseteq logs

LEMMA InitLogs == Init => LogsInv
<1> SUFFICES ASSUME Init PROVE LogsInv OBVIOUS
<1>1. \A fs \in SUBSET {1} : EntriesOf(fs) = {}
  BY DbConstants DEF Init, EntriesOf, Files
<1>2. Version = {1} /\ logs = {1} BY DEF Init, Version
<1> QED BY <1>1, <1>2 DEF Init, LogsInv, FromLogs, Newest, Of, Written

\* A key has a newest entry in any set of files.
LEMMA NewestInFiles ==
  ASSUME BrowserInv, NEW fs \in SUBSET Files, NEW k, Of(EntriesOf(fs), k) # {}
  PROVE  \E m \in Of(EntriesOf(fs), k) : \A e \in Of(EntriesOf(fs), k) : e.seq <= m.seq
<1> DEFINE S == Of(EntriesOf(fs), k)
           T == {e.seq : e \in S}
<1>1. \A e \in S : e.seq \in Nat /\ e.seq <= seq
  BY DEF Of, EntriesOf, BrowserInv, TypeInv, TypeOK, SeqInv, Entry
<1>2. seq \in Nat BY DEF BrowserInv, TypeInv, TypeOK
<1>3. S # {} OBVIOUS
<1> HIDE DEF S
<1>4. T \in SUBSET Nat /\ T # {} /\ \A n \in T : n <= seq BY <1>1, <1>3
<1>5. PICK m \in T : \A n \in T : n <= m
  <2> HIDE DEF T
  <2> QED BY <1>2, <1>4, Greatest
<1>6. PICK e \in S : m = e.seq OBVIOUS
<1>7. \A o \in S : o.seq <= e.seq BY <1>5, <1>6
<1> QED BY <1>7 DEF S

\* A merge leaves of a key either nothing in the version or the newest entry.
LEMMA MergeKeepsNewest ==
  ASSUME BrowserInv, NEW inputs \in SUBSET Version, NEW k \in Keys,
         NEW n \in Nat, \E o \in Of(EntriesOf(Version), k) : n <= o.seq
  PROVE  LET kept == EntriesOf(Version \ inputs) \cup Merged(inputs)
         IN  Of(kept, k) = {} \/ \E o \in Of(kept, k) : n <= o.seq
<1> DEFINE other == EntriesOf(Version \ inputs)
           kept == other \cup Merged(inputs)
<1>0. \A f \in Files : \A e \in content[f] : e.seq \in Nat
  BY DEF BrowserInv, TypeInv, TypeOK, Entry
<1>1. Version \in SUBSET Files /\ inputs \in SUBSET Files
  BY DEF BrowserInv, TypeInv, TypeOK, Version
<1>2. PICK o \in EntriesOf(Version) : o.key = k /\ n <= o.seq BY DEF Of
<1>3. CASE o \in other BY <1>2, <1>3 DEF Of
<1>4. CASE o \notin other
  <2>1. o \in Of(EntriesOf(inputs), k) BY <1>2, <1>4 DEF Of, EntriesOf
  <2>2. PICK m \in Of(EntriesOf(inputs), k) :
          \A e \in Of(EntriesOf(inputs), k) : e.seq <= m.seq
    BY <1>1, <2>1, NewestInFiles
  <2>3. m \in EntriesOf(inputs) /\ m.key = k /\ m.seq \in Nat /\ o.seq \in Nat
        /\ o.seq <= m.seq
    BY <1>0, <1>1, <2>1, <2>2 DEF Of, EntriesOf
  <2>4. n <= m.seq BY <1>2, <2>3
  <2>5. CASE m \in Merged(inputs) BY <2>3, <2>4, <2>5 DEF Of
  <2>6. CASE m \notin Merged(inputs)
    <3>1. \A x \in EntriesOf(inputs) : x.key = m.key => x.seq <= m.seq
      BY <2>2, <2>3 DEF Of
    <3>2. \A x \in other : x.key = k => ~(x.seq < m.seq)
      BY <2>3, <2>6, <3>1 DEF Merged
    <3>3. \A x \in Merged(inputs) : x.key = k => m.seq <= x.seq
      BY <2>3 DEF Merged
    <3>4. ASSUME NEW x \in kept, x.key = k PROVE n <= x.seq
      <4>1. x.seq \in Nat BY <1>0, <1>1, MergedSubset DEF EntriesOf
      <4>2. m.seq <= x.seq BY <2>3, <3>2, <3>3, <3>4, <4>1
      <4> QED BY <2>3, <2>4, <4>1, <4>2
    <3> QED BY <3>4 DEF Of
  <2> QED BY <2>5, <2>6
<1> QED BY <1>3, <1>4

LEMMA NextLogs == BrowserInv /\ LogsInv /\ [AnyNext]_vars => LogsInv'
<1> SUFFICES ASSUME BrowserInv, LogsInv, [AnyNext]_vars PROVE LogsInv' OBVIOUS
<1>0. /\ log \in Files /\ logs \in SUBSET Files /\ log \in Version /\ log \in logs
      /\ \A f \in Files : \A e \in content[f] : e.seq \in Nat /\ e.seq <= seq
      /\ seq \in Nat /\ Version \in SUBSET Files
  BY DEF BrowserInv, TypeInv, TypeOK, Version, LogsInv, SeqInv, Entry
<1>1. ASSUME NEW batch \in Seq(Op), Write(batch) PROVE LogsInv'
  <2>1. /\ \A f \in Files \ {log} : content'[f] = content[f]
        /\ content[log] \subseteq content'[log]
        /\ \A e \in content'[log] \ content[log] : seq < e.seq
    BY <1>1, WriteContent DEF BrowserInv
  <2>2. UNCHANGED <<logs, log, tables, full>> /\ Version' = Version
    BY <1>1 DEF Write, Version
  <2> DEFINE new == content'[log] \ content[log]
  <2>3. Written' = Written \cup new BY <1>0, <2>1, <2>2 DEF Written, EntriesOf
  <2>4. EntriesOf(Version)' = EntriesOf(Version) \cup new
    BY <1>0, <2>1, <2>2 DEF EntriesOf
  <2>5. \A e \in new : seq < e.seq BY <2>1
  <2>6. FromLogs'
    <3>1. \A f \in Files : content'[f] \subseteq content[f] \cup new BY <2>1
    <3> QED BY <2>3, <3>1 DEF LogsInv, FromLogs
  <2>7. \A e \in Written : e.seq \in Nat /\ e.seq <= seq
    BY <1>0 DEF Written, EntriesOf
  <2>8. \A e \in new : e.seq \in Nat
    <3>1. content' \in [Files -> SUBSET Entry]
      BY <1>1, WriteTypes DEF BrowserInv, TypeInv, TypeOK
    <3> QED BY <1>0, <3>1 DEF Entry
  <2> HIDE DEF new
  <2>9. ASSUME NEW k \in Keys, Of(EntriesOf(Version)', k) # {}, NEW e \in Of(Written', k)
        PROVE  \E o \in Of(EntriesOf(Version)', k) : e.seq <= o.seq
    <3>1. CASE e \in new BY <2>4, <2>8, <2>9, <3>1 DEF Of
    <3>2. CASE e \in Written
      <4>1. CASE Of(EntriesOf(Version), k) # {}
        <5>1. PICK o \in Of(EntriesOf(Version), k) : e.seq <= o.seq
          BY <2>9, <3>2, <4>1 DEF LogsInv, Newest, Of
        <5> QED BY <2>4, <5>1 DEF Of
      <4>2. CASE Of(EntriesOf(Version), k) = {}
        <5>1. PICK o \in new : o.key = k BY <2>4, <2>9, <4>2 DEF Of
        <5>2. e.seq <= o.seq BY <1>0, <2>5, <2>7, <2>8, <3>2
        <5> QED BY <2>4, <5>1, <5>2 DEF Of
      <4> QED BY <4>1, <4>2
    <3> QED BY <2>3, <2>9, <3>1, <3>2 DEF Of
  <2>10. Newest' BY <2>9 DEF Newest, Of
  <2> QED BY <2>2, <2>6, <2>10 DEF LogsInv
<1>2. CASE Rotate
  <2>1. /\ Version' = Version \cup {next} /\ logs' = logs \cup {next} /\ next \in Files
        /\ content' = content /\ log' = next /\ full' = {log}
    BY <1>2, DbConstants DEF Rotate, Version, Files, BrowserInv, TypeInv, TypeOK
  <2>2. content[next] = {} BY <2>1 DEF BrowserInv, FileInv, TypeInv, TypeOK
  <2>3. Written' = Written /\ EntriesOf(Version)' = EntriesOf(Version)
    BY <2>1, <2>2 DEF Written, EntriesOf
  <2>4. FromLogs' /\ Newest' BY <2>1, <2>3 DEF LogsInv, FromLogs, Newest, Of
  <2> QED BY <1>0, <2>1, <2>4 DEF LogsInv
<1>3. ASSUME UNCHANGED <<content, logs, log, tables, full>> PROVE LogsInv'
  BY <1>3 DEF LogsInv, FromLogs, Newest, Of, Written, EntriesOf, Version
<1>4. CASE Install
  <2> DEFINE out == job.output  inputs == job.inputs  made == content'[out]
  <2>0. /\ UNCHANGED <<logs, log>> /\ job # NoJob
        /\ tables' = (tables \ inputs) \cup {out} /\ full' = full \ inputs
    BY <1>4 DEF Install
  <2>1. /\ out \in Files /\ inputs \in SUBSET Files
        /\ made \subseteq EntriesOf(inputs)
        /\ \A f \in Files \ {out} : content'[f] = content[f]
    BY <1>4, InstallContent DEF BrowserInv
  <2>2. inputs \subseteq Version /\ log \notin inputs /\ out \notin Version \cup logs
    BY <2>0 DEF BrowserInv, FileInv, Version
  <2>3. made = IF inputs = full THEN EntriesOf(full) ELSE Merged(inputs)
    <3> DEFINE made2 == IF inputs = full THEN EntriesOf(full) ELSE Merged(inputs)
    <3>1. content' = [content EXCEPT ![out] = made2] BY <1>4 DEF Install
    <3> HIDE DEF made2, out
    <3>2. content'[out] = made2 BY <2>1, <3>1 DEF BrowserInv, TypeInv, TypeOK
    <3> QED BY <3>2 DEF made2, out
  <2> HIDE DEF out, inputs, made
  <2>4. Written' = Written
    BY <1>0, <2>0, <2>1, <2>2 DEF Written, EntriesOf
  <2>5. FromLogs'
    <3>1. EntriesOf(inputs) \subseteq Written BY <2>1 DEF LogsInv, FromLogs, EntriesOf
    <3>2. \A f \in Files : content'[f] \subseteq Written
      BY <2>1, <3>1 DEF LogsInv, FromLogs, made
    <3> QED BY <2>4, <3>2 DEF FromLogs
  <2>6. Version' = (Version \ inputs) \cup {out}
    BY <2>0, <2>2 DEF Version
  <2>7. EntriesOf(Version)' = EntriesOf(Version \ inputs) \cup made
    BY <1>0, <2>1, <2>2, <2>6 DEF EntriesOf, made
  <2>8. CASE inputs = full
    <3>1. made = EntriesOf(inputs) BY <2>3, <2>8
    <3>2. EntriesOf(Version)' = EntriesOf(Version)
      BY <2>2, <2>7, <3>1 DEF EntriesOf
    <3> QED BY <2>0, <2>4, <2>5, <3>2 DEF LogsInv, Newest, Of
  <2>9. CASE inputs # full
    <3>1. EntriesOf(Version)' = EntriesOf(Version \ inputs) \cup Merged(inputs)
      BY <2>3, <2>7, <2>9
    <3>2. ASSUME NEW k \in Keys, Of(EntriesOf(Version)', k) # {}, NEW e \in Of(Written', k)
          PROVE  \E o \in Of(EntriesOf(Version)', k) : e.seq <= o.seq
      <4>1. EntriesOf(Version)' \subseteq EntriesOf(Version)
        BY <2>2, <3>1, MergedSubset DEF EntriesOf
      <4>2. Of(EntriesOf(Version), k) # {} BY <3>2, <4>1 DEF Of
      <4>3. e \in Of(Written, k) BY <2>4, <3>2 DEF Of
      <4>4. \E o \in Of(EntriesOf(Version), k) : e.seq <= o.seq
        BY <4>2, <4>3 DEF LogsInv, Newest
      <4>5. e.seq \in Nat BY <1>0, <4>3 DEF Of, Written, EntriesOf
      <4> QED BY <2>2, <3>1, <3>2, <4>4, <4>5, MergeKeepsNewest
    <3>3. Newest' BY <3>2 DEF Newest, Of
    <3> QED BY <2>0, <2>5, <3>3 DEF LogsInv
  <2> QED BY <2>8, <2>9
<1>5. ASSUME NEW inputs, Begin(inputs) PROVE LogsInv' BY <1>3, <1>5 DEF Begin
<1>6. ASSUME NEW f \in Obsolete, Unlink(f) PROVE LogsInv' BY <1>3, <1>6 DEF Unlink
<1>7. CASE Stop BY <1>3, <1>7 DEF Stop
<1>8. CASE UNCHANGED browser BY <1>3, <1>8 DEF browser
<1>9. Open \/ Read \/ Close => UNCHANGED browser BY ReaderPassive
<1>10. CASE Maintain BY <1>2, <1>4, <1>5, <1>6, <1>7, <1>10 DEF Maintain
<1>11. UNCHANGED vars => UNCHANGED browser BY DEF vars, browser
<1> QED BY <1>1, <1>8, <1>9, <1>10, <1>11 DEF AnyNext, AnyWrite

(***************************************************************************)
(* What is read stays written                                              *)
(***************************************************************************)
\* The files only ever grow, those unlinked included.
LEMMA FilesGrow ==
  BrowserInv /\ [AnyNext]_vars => EntriesOf(Files) \subseteq EntriesOf(Files)'
<1> SUFFICES ASSUME BrowserInv, [AnyNext]_vars
             PROVE  EntriesOf(Files) \subseteq EntriesOf(Files)'
  OBVIOUS
<1>1. CASE AnyWrite \/ Maintain BY <1>1, BrowserStep DEF EntriesOf
<1>2. CASE UNCHANGED browser BY <1>2 DEF browser, EntriesOf
<1>3. UNCHANGED vars => UNCHANGED browser BY DEF vars, browser
<1> QED BY <1>1, <1>2, <1>3, ReaderPassive DEF AnyNext

\* What is being yielded is in some file.
LEMMA RestInFiles ==
  BrowserInv /\ rest \subseteq EntriesOf(Files) /\ [AnyNext]_vars
     => rest' \subseteq EntriesOf(Files)'
<1> SUFFICES ASSUME BrowserInv, rest \subseteq EntriesOf(Files), [AnyNext]_vars
             PROVE  rest' \subseteq EntriesOf(Files)'
  OBVIOUS
<1>1. EntriesOf(Files) \subseteq EntriesOf(Files)' BY FilesGrow
<1>2. CASE UNCHANGED rest BY <1>1, <1>2
<1>3. CASE YieldRecord BY <1>1, <1>3 DEF YieldRecord
<1>4. CASE NextFile
  <2>1. PICK f \in left : rest' = content[f] BY <1>4 DEF NextFile
  <2>2. f \in Files BY DEF BrowserInv, TypeInv, TypeOK
  <2> QED BY <1>1, <2>1, <2>2 DEF EntriesOf
<1>5. ASSUME NEW rev \in BOOLEAN, Iterate(rev) PROVE rest' \subseteq EntriesOf(Files)'
  BY <1>5 DEF Iterate
<1>6. CASE AnyWrite \/ Maintain BY <1>2, <1>6, BrowserStep
<1>7. CASE Open BY <1>2, <1>7 DEF Open, List, CheckEntry, OpenEntry, Constructed, iteration
<1>8. CASE Exhausted \/ Close BY <1>2, <1>8 DEF Exhausted, Close, iteration
<1>9. CASE UNCHANGED vars BY <1>2, <1>9 DEF vars
<1> QED BY <1>3, <1>4, <1>5, <1>6, <1>7, <1>8, <1>9 DEF AnyNext, Read

(***************************************************************************)
(* Reading                                                                 *)
(***************************************************************************)
\* Of a stopped browser's directory every file is opened and every entry is
\* yielded.
AllRead ==
  ~LiveBrowser =>
    /\ pc = "new" => at = 0
    /\ pc # "new" => snap = EntriesOf(Version)
    /\ pc = "scan" => todo \cup opened \cup ({at} \ {0}) = dir
    /\ pc \in {"open", "iter", "done"} => opened = dir
    /\ pc = "iter" => Yielded \cup rest \cup EntriesOf(left) = EntriesOf(opened)
    /\ pc = "done" => Yielded = EntriesOf(opened)

LEMMA NextAllRead == BrowserInv /\ Quiet /\ AllRead /\ [AnyNext]_vars => AllRead'
<1> SUFFICES ASSUME BrowserInv, Quiet, AllRead, ~LiveBrowser, [AnyNext]_vars PROVE AllRead'
  BY DEF AllRead
<1>1. CASE AnyWrite \/ Maintain
  <2>1. UNCHANGED <<pc, at>> /\ up BY <1>1, BrowserStep
  <2>2. pc = "new" BY <2>1 DEF Quiet
  <2> QED BY <2>1, <2>2 DEF AllRead
<1>2. UNCHANGED browser => UNCHANGED <<content, dir>> /\ Version' = Version
                           /\ EntriesOf(Version)' = EntriesOf(Version)
  BY DEF browser, Version, EntriesOf
<1>3. CASE List
  <2>1. UNCHANGED browser /\ pc = "new" /\ pc' = "scan" /\ todo' = dir /\ opened' = opened
        /\ at' = at /\ snap' = EntriesOf(Version)
    BY <1>3 DEF List
  <2> QED BY <1>2, <2>1 DEF AllRead, Quiet
<1>4. ASSUME NEW f \in todo, CheckEntry(f) PROVE AllRead'
  <2>1. /\ UNCHANGED browser /\ UNCHANGED <<pc, opened, snap>>
        /\ pc = "scan" /\ at = 0 /\ todo' = todo \ {f}
        /\ f \in dir => at' = f
    BY <1>4 DEF CheckEntry
  <2>2. f \in dir BY <2>1 DEF AllRead
  <2>3. f # 0 BY DEF BrowserInv, TypeInv, TypeOK, Files
  <2> QED BY <1>2, <2>1, <2>2, <2>3 DEF AllRead
<1>5. CASE OpenEntry
  <2>1. /\ UNCHANGED browser /\ UNCHANGED <<todo, snap>> /\ pc = "scan" /\ at' = 0
        /\ pc' = "failed" \/ (pc' = "scan" /\ opened' = opened \cup {at})
    BY <1>5 DEF OpenEntry
  <2>2. at # 0 BY <1>5 DEF OpenEntry
  <2> QED BY <1>2, <2>1, <2>2 DEF AllRead
<1>6. CASE Constructed
  <2>1. UNCHANGED browser /\ UNCHANGED <<opened, snap>>
        /\ pc = "scan" /\ at = 0 /\ todo = {} /\ pc' = "open"
    BY <1>6 DEF Constructed, handles
  <2> QED BY <1>2, <2>1 DEF AllRead
<1>7. ASSUME NEW rev \in BOOLEAN, Iterate(rev) PROVE AllRead'
  <2>1. /\ UNCHANGED browser /\ UNCHANGED <<opened, snap>> /\ pc \in {"open", "done"}
        /\ pc' = "iter" /\ left' = opened /\ rest' = {} /\ yielded' = <<>>
    BY <1>7 DEF Iterate, handles
  <2>2. Yielded' = {} BY <2>1 DEF Yielded
  <2>3. EntriesOf(left)' = EntriesOf(opened) /\ EntriesOf(opened)' = EntriesOf(opened)
    BY <1>2, <2>1 DEF EntriesOf
  <2> QED BY <1>2, <2>1, <2>2, <2>3 DEF AllRead
<1>8. CASE NextFile
  <2>1. PICK f \in left : left' = left \ {f} /\ rest' = content[f] BY <1>8 DEF NextFile
  <2>2. /\ UNCHANGED browser /\ UNCHANGED <<opened, snap, pc, yielded>>
        /\ pc = "iter" /\ rest = {}
    BY <1>8 DEF NextFile, handles
  <2>3. EntriesOf(left) = rest' \cup EntriesOf(left)' /\ EntriesOf(opened)' = EntriesOf(opened)
    BY <1>2, <2>1, <2>2 DEF EntriesOf
  <2>4. Yielded' = Yielded BY <2>2 DEF Yielded
  <2> QED BY <1>2, <2>2, <2>3, <2>4 DEF AllRead
<1>9. CASE YieldRecord
  <2>1. PICK e \in rest : rest' = rest \ {e} /\ Yielded' = Yielded \cup {e}
    BY <1>9, YieldStep DEF BrowserInv
  <2>2. UNCHANGED browser /\ UNCHANGED <<opened, snap, pc, left>> /\ pc = "iter"
    BY <1>9 DEF YieldRecord, handles
  <2>3. EntriesOf(left)' = EntriesOf(left) /\ EntriesOf(opened)' = EntriesOf(opened)
    BY <1>2, <2>2 DEF EntriesOf
  <2> QED BY <1>2, <2>1, <2>2, <2>3 DEF AllRead
<1>10. CASE Exhausted
  <2>1. /\ UNCHANGED browser /\ UNCHANGED <<opened, snap, yielded>>
        /\ pc = "iter" /\ pc' = "done" /\ rest = {} /\ left = {}
    BY <1>10 DEF Exhausted, handles, iteration
  <2>2. EntriesOf(left) = {} /\ EntriesOf(opened)' = EntriesOf(opened)
    BY <1>2, <2>1 DEF EntriesOf
  <2>3. Yielded' = Yielded BY <2>1 DEF Yielded
  <2> QED BY <1>2, <2>1, <2>2, <2>3 DEF AllRead
<1>11. CASE Close
  <2>1. UNCHANGED browser /\ UNCHANGED snap /\ pc # "new" /\ pc' = "closed"
    BY <1>11 DEF Close, handles
  <2> QED BY <1>2, <2>1 DEF AllRead
<1>12. CASE UNCHANGED vars
  BY <1>12 DEF vars, AllRead, EntriesOf, Version, Yielded
<1> QED BY <1>1, <1>3, <1>4, <1>5, <1>6, <1>7, <1>8, <1>9, <1>10, <1>11, <1>12
        DEF AnyNext, Open, Read

\* What is known of the directory and of the records read from it.
ReadInv == BrowserInv /\ LogsInv /\ Quiet /\ AllRead

LEMMA InitRead == Init => ReadInv
<1>1. Init => AllRead BY DEF Init, AllRead
<1>2. Init => Quiet
  <2>1. EntriesOf({}) = {} BY DEF EntriesOf
  <2> QED BY <2>1, NothingYielded DEF Init, Quiet
<1> QED BY <1>1, <1>2, InitTypes, InitFiles, InitLogs DEF ReadInv, BrowserInv

LEMMA NextRead == ReadInv /\ [AnyNext]_vars => ReadInv'
<1>1. BrowserInv /\ [AnyNext]_vars => BrowserInv'
  BY NextTypes, NextFiles, NextSeqs DEF BrowserInv
<1> QED BY <1>1, NextLogs, NextQuiet, NextAllRead DEF ReadInv

LEMMA NewestNow ==
  ASSUME ReadInv
  PROVE  NewestIsCurrent
<1> USE DEF ReadInv
<1> SUFFICES ASSUME pc = "done", ~LiveBrowser, NEW k \in Keys
             PROVE  \/ NewestOf(Yielded, k) = NewestOf(snap, k)
                    \/ /\ Obsolete # {}
                       /\ \A e \in NewestOf(snap, k) : ~e.live
  BY DEF NewestIsCurrent
<1>1. /\ Yielded = EntriesOf(dir) /\ snap = EntriesOf(Version)
      /\ Version \subseteq dir /\ opened = dir /\ dir \in SUBSET Files
  BY DEF AllRead, BrowserInv, FileInv, TypeInv, TypeOK
<1>2. CASE Obsolete = {}
  <2>1. dir \subseteq Version BY <1>1, <1>2, OpenedInVersion DEF Quiet
  <2> QED BY <1>1, <2>1
<1>3. CASE Of(snap, k) = {} /\ Obsolete # {} BY <1>3 DEF Of, NewestOf
<1>4. CASE Of(snap, k) # {}
  <2>1. snap \subseteq Yielded /\ Yielded \subseteq Written
    BY <1>1 DEF EntriesOf, LogsInv, FromLogs
  <2>2. \A e \in Yielded : e.key = k => \E o \in snap : o.key = k /\ e.seq <= o.seq
    BY <1>1, <1>4, <2>1 DEF LogsInv, Newest, Of
  <2>3. /\ \A e \in Yielded : e.seq \in Nat
        /\ \A e, o \in Yielded : e.seq = o.seq => e = o
    BY <1>1 DEF EntriesOf, BrowserInv, TypeInv, TypeOK, Entry, SeqInv
  <2>4. ASSUME NEW e \in NewestOf(snap, k) PROVE e \in NewestOf(Yielded, k)
    <3>1. e \in Yielded /\ e.key = k /\ \A o \in snap : o.key = k => o.seq <= e.seq
      BY <2>1, <2>4 DEF NewestOf
    <3>2. ASSUME NEW o \in Yielded, o.key = k PROVE o.seq <= e.seq
      <4>1. PICK p \in snap : p.key = k /\ o.seq <= p.seq BY <2>2, <3>2
      <4>2. p.seq <= e.seq /\ p \in Yielded BY <2>1, <3>1, <4>1
      <4> QED BY <2>3, <3>1, <4>1, <4>2
    <3> QED BY <3>1, <3>2 DEF NewestOf
  <2>5. ASSUME NEW e \in NewestOf(Yielded, k) PROVE e \in NewestOf(snap, k)
    <3>1. e \in Yielded /\ e.key = k /\ \A o \in Yielded : o.key = k => o.seq <= e.seq
      BY <2>5 DEF NewestOf
    <3>2. PICK p \in snap : p.key = k /\ e.seq <= p.seq BY <2>2, <3>1
    <3>3. p.seq <= e.seq /\ p \in Yielded BY <2>1, <3>1, <3>2
    <3>4. p = e BY <2>3, <3>1, <3>2, <3>3
    <3> QED BY <2>1, <3>1, <3>2, <3>4 DEF NewestOf
  <2> QED BY <2>4, <2>5
<1> QED BY <1>2, <1>3, <1>4

\* Of a stopped browser, the newest record RawLevelDb yields of a key is what
\* the key had; the one exception are deletions, merged away while a file with
\* the older value was left behind.
THEOREM NewestRead == Spec => []NewestIsCurrent
BY InitRead, NextRead, NewestNow, NextIsAny, PTL DEF Spec

\* What a look-up finds is in the files of the version: a merge drops no value
\* that is the newest of its key.
LiveKept ==
  \A k \in Keys : \A e \in NewestOf(Written, k) : e.live => e \in EntriesOf(Version)

LEMMA InitLive == Init => LiveKept
<1> SUFFICES ASSUME Init PROVE LiveKept OBVIOUS
<1>1. 1 \in Files /\ logs = {1} /\ content = [f \in Files |-> {}]
  BY DbConstants DEF Init, Files
<1>2. Written = {} BY <1>1 DEF Written, EntriesOf
<1> QED BY <1>2 DEF LiveKept, NewestOf

LEMMA NextLive == BrowserInv /\ LogsInv /\ LiveKept /\ [AnyNext]_vars => LiveKept'
<1> SUFFICES ASSUME BrowserInv, LogsInv, LiveKept, [AnyNext]_vars PROVE LiveKept' OBVIOUS
<1>0. /\ log \in Files /\ logs \in SUBSET Files /\ log \in Version /\ log \in logs
      /\ Version \in SUBSET Files
  BY DEF BrowserInv, TypeInv, TypeOK, Version, LogsInv
<1>1. ASSUME NEW batch \in Seq(Op), Write(batch) PROVE LiveKept'
  <2>1. /\ \A f \in Files \ {log} : content'[f] = content[f]
        /\ content[log] \subseteq content'[log]
    BY <1>1, WriteContent DEF BrowserInv
  <2>2. UNCHANGED <<logs, log, tables, full>> /\ Version' = Version
    BY <1>1 DEF Write, Version
  <2>3. /\ Written' = Written \cup content'[log]
        /\ EntriesOf(Version)' = EntriesOf(Version) \cup content'[log]
    BY <1>0, <2>1, <2>2 DEF Written, EntriesOf
  <2>4. ASSUME NEW k \in Keys, NEW e \in NewestOf(Written', k), e \in Written
        PROVE  e \in NewestOf(Written, k)
    BY <2>3, <2>4 DEF NewestOf
  <2>5. ASSUME NEW k \in Keys, NEW e \in NewestOf(Written', k), e.live
        PROVE  e \in EntriesOf(Version)'
    <3>1. e \in Written \/ e \in content'[log] BY <2>3 DEF NewestOf
    <3> QED BY <2>3, <2>4, <2>5, <3>1 DEF LiveKept
  <2> QED BY <2>5 DEF LiveKept, NewestOf
<1>2. ASSUME Written' = Written, EntriesOf(Version)' = EntriesOf(Version) PROVE LiveKept'
  BY <1>2 DEF LiveKept, NewestOf
<1>3. ASSUME UNCHANGED <<content, logs, log, tables, full>> PROVE LiveKept'
  BY <1>2, <1>3 DEF Written, EntriesOf, Version
<1>4. CASE Rotate
  <2>1. /\ Version' = Version \cup {next} /\ logs' = logs \cup {next} /\ next \in Files
        /\ content' = content
    BY <1>4, DbConstants DEF Rotate, Version, Files, BrowserInv, TypeInv, TypeOK
  <2>2. content[next] = {} BY <2>1 DEF BrowserInv, FileInv, TypeInv, TypeOK
  <2> QED BY <1>2, <2>1, <2>2 DEF Written, EntriesOf
<1>5. CASE Install
  <2> DEFINE out == job.output  inputs == job.inputs  made == content'[out]
  <2>0. /\ logs' = logs /\ log' = log /\ job # NoJob
        /\ tables' = (tables \ inputs) \cup {out} /\ full' = full \ inputs
    BY <1>5 DEF Install
  <2>1. /\ out \in Files /\ inputs \in SUBSET Files
        /\ \A f \in Files \ {out} : content'[f] = content[f]
    BY <1>5, InstallContent DEF BrowserInv
  <2>2. inputs \subseteq Version /\ log \notin inputs /\ out \notin Version \cup logs
    BY <2>0 DEF BrowserInv, FileInv, Version
  <2>3. made = IF inputs = full THEN EntriesOf(inputs) ELSE Merged(inputs)
    <3> DEFINE made2 == IF job.inputs = full THEN EntriesOf(full) ELSE Merged(job.inputs)
    <3>1. content' = [content EXCEPT ![out] = made2] BY <1>5 DEF Install
    <3> HIDE DEF made2, out
    <3>2. content'[out] = made2 BY <2>1, <3>1 DEF BrowserInv, TypeInv, TypeOK
    <3> QED BY <3>2 DEF made2, out
  <2> HIDE DEF out, inputs, made
  <2>4. Written' = Written BY <1>0, <2>0, <2>1, <2>2 DEF Written, EntriesOf
  <2>5. Version' = (Version \ inputs) \cup {out} BY <2>0, <2>2 DEF Version
  <2>6. EntriesOf(Version)' = EntriesOf(Version \ inputs) \cup made
    BY <1>0, <2>1, <2>2, <2>5 DEF EntriesOf, made
  <2>7. EntriesOf(inputs) \subseteq Written BY <2>1 DEF LogsInv, FromLogs, EntriesOf
  <2>8. ASSUME NEW k \in Keys, NEW e \in NewestOf(Written, k), e.live
        PROVE  e \in EntriesOf(Version)'
    <3>1. e \in EntriesOf(Version) BY <2>8 DEF LiveKept
    <3>2. e \in EntriesOf(Version \ inputs) \/ e \in EntriesOf(inputs)
      BY <3>1 DEF EntriesOf
    <3>3. ASSUME e \in EntriesOf(inputs) PROVE e \in Merged(inputs)
      BY <2>7, <2>8, <3>3 DEF Merged, NewestOf
    <3> QED BY <2>3, <2>6, <3>2, <3>3
  <2> QED BY <2>4, <2>8 DEF LiveKept, NewestOf
<1>6. ASSUME NEW inputs, Begin(inputs) PROVE LiveKept' BY <1>3, <1>6 DEF Begin
<1>7. ASSUME NEW f \in Obsolete, Unlink(f) PROVE LiveKept' BY <1>3, <1>7 DEF Unlink
<1>8. CASE Stop BY <1>3, <1>8 DEF Stop
<1>9. CASE UNCHANGED browser BY <1>3, <1>9 DEF browser
<1>10. CASE Maintain BY <1>4, <1>5, <1>6, <1>7, <1>8, <1>10 DEF Maintain
<1>11. UNCHANGED vars => UNCHANGED browser BY DEF vars, browser
<1> QED BY <1>1, <1>9, <1>10, <1>11, ReaderPassive DEF AnyNext, AnyWrite

(***************************************************************************)
(* Finite sets                                                             *)
(***************************************************************************)
\* The image of a finite set under a function.
LEMMA FiniteImage ==
  ASSUME NEW A, IsFiniteSet(A), NEW f, f = [x \in A |-> f[x]]
  PROVE  IsFiniteSet({f[x] : x \in A})
<1> DEFINE T == {f[x] : x \in A}
<1>1. f \in Surjection(A, T) BY DEF Surjection, Range
<1> QED BY <1>1, FS_Surjection

\* Only finitely much was ever written: a sequence number names an entry.
LEMMA WrittenFinite ==
  ASSUME BrowserInv
  PROVE  IsFiniteSet(Written)
<1> DEFINE f == [e \in Written |-> e.seq]
<1>1. \A e \in Written : e.seq \in 0..seq
  BY DEF Written, EntriesOf, BrowserInv, TypeInv, TypeOK, SeqInv, Entry
<1>2. \A e, o \in Written : e.seq = o.seq => e = o
  BY DEF Written, EntriesOf, BrowserInv, TypeInv, TypeOK, SeqInv
<1>3. f \in Injection(Written, 0..seq) BY <1>1, <1>2 DEF Injection, IsInjective
<1>4. IsFiniteSet(0..seq) BY FS_Interval DEF BrowserInv, TypeInv, TypeOK
<1> QED BY <1>3, <1>4, FS_Injection

\* SetToSeq lists members of the set.
LEMMA Listed ==
  ASSUME NEW S, NEW A \in SUBSET S, IsFiniteSet(A)
  PROVE  /\ SetToSeq(A) \in Seq(S)
         /\ \A i \in DOMAIN SetToSeq(A) : SetToSeq(A)[i] \in A
<1> DEFINE n == Cardinality(A)
<1>1. n \in Nat /\ ExistsBijection(1..n, A) BY FS_CardinalityType
<1>2. \E f \in [1..n -> A] : IsInjective(f)
  BY <1>1 DEF ExistsBijection, Bijection, Injection
<1>3. SetToSeq(A) \in [1..n -> A] BY <1>2 DEF SetToSeq
<1>4. SetToSeq(A) \in [1..n -> S] BY <1>3
<1> QED BY <1>1, <1>3, <1>4, SeqDef

(***************************************************************************)
(* What was written                                                        *)
(***************************************************************************)
LEMMA WrittenTypes ==
  ASSUME BrowserInv
  PROVE  Written \in SUBSET Entry
BY DEF BrowserInv, TypeInv, TypeOK, Written, EntriesOf

LEMMA FilesWritten == BrowserInv /\ LogsInv => EntriesOf(Files) = Written
BY DEF BrowserInv, TypeInv, TypeOK, LogsInv, FromLogs, EntriesOf, Written

\* What a batch adds.
LEMMA BatchWritten ==
  ASSUME BrowserInv, LogsInv, NEW batch, Write(batch)
  PROVE  Written' = Written \cup
           {[key |-> batch[i].key, live |-> batch[i].live,
             value |-> batch[i].value, seq |-> seq + i] : i \in DOMAIN batch}
<1> DEFINE new == {[key |-> batch[i].key, live |-> batch[i].live,
                    value |-> batch[i].value, seq |-> seq + i] : i \in DOMAIN batch}
<1>1. content' = [content EXCEPT ![log] = @ \cup new] /\ logs' = logs BY DEF Write
<1>2. log \in logs /\ logs \subseteq Files /\ content \in [Files -> SUBSET Entry]
  BY DEF LogsInv, BrowserInv, TypeInv, TypeOK
<1> HIDE DEF new
<1>3. Written' = Written \cup new BY <1>1, <1>2 DEF Written, EntriesOf
<1> QED BY <1>3 DEF new

\* Nobody but Write writes.
LEMMA NothingWritten ==
  ASSUME BrowserInv, LogsInv, Maintain \/ Open \/ Read \/ Close \/ UNCHANGED vars
  PROVE  Written' \subseteq Written
<1>1. ASSUME UNCHANGED <<content, logs>> PROVE Written' \subseteq Written
  BY <1>1 DEF Written, EntriesOf
<1>2. CASE Rotate
  <2>1. /\ logs' = logs \cup {next} /\ next \in Files /\ content' = content
    BY <1>2, DbConstants DEF Rotate, Files, BrowserInv, TypeInv, TypeOK
  <2>2. content[next] = {} BY <2>1 DEF BrowserInv, FileInv, TypeInv, TypeOK
  <2> QED BY <2>1, <2>2 DEF Written, EntriesOf
<1>3. CASE Install
  <2>1. /\ job.output \in Files /\ logs' = logs /\ job # NoJob
        /\ \A f \in Files \ {job.output} : content'[f] = content[f]
    BY <1>3, InstallContent DEF Install, BrowserInv
  <2>2. job.output \notin logs /\ logs \subseteq Files
    BY <2>1 DEF BrowserInv, FileInv, TypeInv, TypeOK
  <2> QED BY <2>1, <2>2 DEF Written, EntriesOf
<1>4. ASSUME NEW inputs, Begin(inputs) PROVE Written' \subseteq Written
  BY <1>1, <1>4 DEF Begin
<1>5. ASSUME NEW f \in Obsolete, Unlink(f) PROVE Written' \subseteq Written
  BY <1>1, <1>5 DEF Unlink
<1>6. CASE Stop BY <1>1, <1>6 DEF Stop
<1>7. UNCHANGED browser => UNCHANGED <<content, logs>> BY DEF browser
<1>8. UNCHANGED vars => UNCHANGED browser BY DEF vars, browser
<1> QED BY <1>1, <1>2, <1>3, <1>4, <1>5, <1>6, <1>7, <1>8, ReaderPassive DEF Maintain
=============================================================================
