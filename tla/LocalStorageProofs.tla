-------------------------- MODULE LocalStorageProofs --------------------------
(***************************************************************************)
(* What holds of LocalStorageReader for every set of keys, storage keys    *)
(* and batches: it reads as RawLevelDb does, the write batches it builds   *)
(* are runs of one storage key and of one batch of the browser, they do    *)
(* not overlap, and find_batch finds them.                                 *)
(***************************************************************************)
EXTENDS LocalStorage, RawLevelDbProofs

(***************************************************************************)
(* The reader is a user of RawLevelDb                                      *)
(***************************************************************************)
LEMMA LsStep == [LsNext]_lsVars => [Next]_vars
<1> SUFFICES ASSUME [LsNext]_lsVars PROVE [Next]_vars OBVIOUS
<1>1. CASE Ingest \/ IngestRaises BY <1>1 DEF Ingest, IngestRaises, Next, Read
<1>2. CASE IngestDone BY <1>2 DEF IngestDone, Next, Read
<1>3. CASE VisitItem BY <1>3 DEF VisitItem
<1>4. CASE BatchesDone BY <1>4 DEF BatchesDone
<1>5. CASE Writes \/ Maintain \/ Open \/ NextFile \/ Close BY <1>5 DEF Next, Read
<1>6. CASE Iterate(FALSE) BY <1>6 DEF Next, Read
<1>7. CASE UNCHANGED lsVars BY <1>7 DEF lsVars
<1> QED BY <1>1, <1>2, <1>3, <1>4, <1>5, <1>6, <1>7 DEF LsNext, Build, Use

LEMMA LsAny == [LsNext]_lsVars => [AnyNext]_vars
BY LsStep, NextIsAny

\* Whatever LocalStorageReader does to the directory and to the records is
\* something RawLevelDb does: its theorems hold of the records read here.
THEOREM ReadsRawLevelDb == LsSpec => Spec
<1>1. LsInit => Init BY DEF LsInit
<1> QED BY <1>1, LsStep, PTL DEF LsSpec, Spec

(***************************************************************************)
(* Types                                                                   *)
(***************************************************************************)
LsTypes ==
  /\ wrote \subseteq Nat
  /\ phase \in {"ingest", "failed", "batches", "ready"}
  /\ metaByKey \subseteq Item /\ recByKey \subseteq Item
  /\ flat \in Seq(Item) /\ rem \subseteq DOMAIN flat
  /\ current \in Meta \cup {NoMeta} /\ currentEnd \in Nat
  /\ DOMAIN batches \subseteq Nat
  /\ \A s \in DOMAIN batches :
       batches[s] \in [host : Hosts, start : Nat, end : Nat]

\* A step that is one of RawLevelDb only.
Aside == UNCHANGED reader

LEMMA LsCases ==
  ASSUME [LsNext]_lsVars
  PROVE  \/ Ingest \/ IngestRaises \/ IngestDone \/ VisitItem \/ BatchesDone
         \/ Aside
BY DEF LsNext, Build, Use, lsVars, reader, Aside

\* The browser begins a write batch, or none is begun.
LEMMA WroteStep ==
  ASSUME [LsNext]_lsVars
  PROVE  \/ Writes /\ wrote' = wrote \cup {seq + 1}
         \/ wrote' = wrote
BY DEF LsNext, lsVars

LEMMA ItemTypes ==
  ASSUME NEW e \in Entry
  PROVE  MetaItem(e) \in Item /\ RecordItem(e) \in Item
<1>1. Meaning[e.key] \in [kind : Kinds, host : Hosts, script : Scripts]
      /\ e.seq \in Nat /\ e.live \in BOOLEAN
  BY LocalStorageConstants DEF Entry
<1>2. MetaItem(e) \in [meta : {TRUE}, host : Hosts, seq : Nat] BY <1>1 DEF MetaItem
<1>3. RecordItem(e) \in [meta : {FALSE}, host : Hosts, script : Scripts, seq : Nat,
                         live : BOOLEAN]
  BY <1>1 DEF RecordItem
<1> QED BY <1>2, <1>3 DEF Item

\* One turn of the constructor's loop.
LEMMA IngestStep ==
  ASSUME BrowserInv, LsTypes, Ingest
  PROVE  \E e \in rest :
           /\ \/ UNCHANGED <<metaByKey, recByKey, flat>>
              \/ IsMeta(e) /\ flat' = Append(flat, MetaItem(e)) /\ recByKey' = recByKey
                 /\ metaByKey' \subseteq metaByKey \cup {MetaItem(e)}
              \/ IsRecord(e) /\ flat' = Append(flat, RecordItem(e)) /\ metaByKey' = metaByKey
                 /\ recByKey' \subseteq recByKey \cup {RecordItem(e)}
           /\ UNCHANGED <<phase, rem, current, currentEnd, batches>>
BY DEF Ingest, IngestMeta, IngestRecord, SkipEntry

LEMMA BuiltTypes ==
  ASSUME LsTypes, current # NoMeta
  PROVE  /\ DOMAIN WithBuilt \subseteq Nat
         /\ \A s \in DOMAIN WithBuilt :
              WithBuilt[s] \in [host : Hosts, start : Nat, end : Nat]
<1>1. current \in Meta BY DEF LsTypes
<1>2. Built \in [host : Hosts, start : Nat, end : Nat] /\ current.seq \in Nat
  BY <1>1 DEF Built, Meta, LsTypes
<1> QED BY <1>2 DEF WithBuilt, LsTypes

LEMMA VisitTypes ==
  ASSUME LsTypes, VisitItem, wrote' \subseteq Nat
  PROVE  LsTypes'
<1> USE DEF LsTypes
<1>1. PICK i \in rem :
        /\ rem' = rem \ {i}
        /\ \/ StartBatch(flat[i])
           \/ Ignore(flat[i])
           \/ EndBatch(flat[i])
           \/ ExtendBatch(flat[i])
        /\ UNCHANGED <<vars, phase, metaByKey, recByKey, flat>>
  BY DEF VisitItem
<1>2. flat[i] \in Item BY ElementOfSeq
<1>3. flat[i].host \in Hosts /\ flat[i].seq \in Nat BY <1>2 DEF Item
<1>4. batches' = batches \/ (current # NoMeta /\ batches' = WithBuilt)
  BY <1>1 DEF StartBatch, Ignore, EndBatch, ExtendBatch
<1>5. /\ DOMAIN batches' \subseteq Nat
      /\ \A s \in DOMAIN batches' :
           batches'[s] \in [host : Hosts, start : Nat, end : Nat]
  BY <1>4, BuiltTypes
<1>6. current' \in Meta \cup {NoMeta} /\ currentEnd' \in Nat
  <2>1. [host |-> flat[i].host, seq |-> flat[i].seq] \in Meta BY <1>3 DEF Meta
  <2>2. CASE StartBatch(flat[i]) BY <1>3, <2>1, <2>2 DEF StartBatch
  <2>3. CASE Ignore(flat[i]) BY <2>3 DEF Ignore
  <2>4. CASE EndBatch(flat[i]) BY <2>4 DEF EndBatch
  <2>5. CASE ExtendBatch(flat[i]) BY <1>3, <2>5 DEF ExtendBatch
  <2> QED BY <1>1, <2>2, <2>3, <2>4, <2>5
<1> QED BY <1>1, <1>5, <1>6 DEF NoMeta

LEMMA LsNextTypes == BrowserInv /\ LsTypes /\ [LsNext]_lsVars => LsTypes'
<1> SUFFICES ASSUME BrowserInv, LsTypes, [LsNext]_lsVars PROVE LsTypes' OBVIOUS
<1>0. wrote' \subseteq Nat
  <2>1. seq \in Nat BY DEF BrowserInv, TypeInv, TypeOK
  <2>2. wrote \subseteq Nat BY DEF LsTypes
  <2>3. wrote' = wrote \cup {seq + 1} \/ wrote' = wrote BY WroteStep
  <2>4. seq + 1 \in Nat BY <2>1
  <2> QED BY <2>2, <2>3, <2>4
<1>1. CASE Ingest
  <2>1. PICK e \in rest :
          /\ \/ UNCHANGED <<metaByKey, recByKey, flat>>
             \/ IsMeta(e) /\ flat' = Append(flat, MetaItem(e)) /\ recByKey' = recByKey
                /\ metaByKey' \subseteq metaByKey \cup {MetaItem(e)}
             \/ IsRecord(e) /\ flat' = Append(flat, RecordItem(e)) /\ metaByKey' = metaByKey
                /\ recByKey' \subseteq recByKey \cup {RecordItem(e)}
          /\ UNCHANGED <<phase, rem, current, currentEnd, batches>>
    BY <1>1, IngestStep
  <2>2. MetaItem(e) \in Item /\ RecordItem(e) \in Item
    BY ItemTypes DEF BrowserInv, TypeInv, TypeOK
  <2>3. \A x \in Item : Append(flat, x) \in Seq(Item)
                        /\ DOMAIN flat \subseteq DOMAIN Append(flat, x)
    <3> SUFFICES ASSUME NEW x \in Item
                 PROVE  Append(flat, x) \in Seq(Item)
                        /\ DOMAIN flat \subseteq DOMAIN Append(flat, x)
      OBVIOUS
    <3>1. flat \in Seq(Item) BY DEF LsTypes
    <3>2. Append(flat, x) \in Seq(Item) /\ Len(Append(flat, x)) = Len(flat) + 1
      BY <3>1, AppendProperties
    <3>3. DOMAIN flat = 1..Len(flat) /\ Len(flat) \in Nat BY <3>1, LenProperties
    <3>4. DOMAIN Append(flat, x) = 1..Len(Append(flat, x)) BY <3>2, LenProperties
    <3> QED BY <3>2, <3>3, <3>4
  <2> QED BY <1>0, <2>1, <2>2, <2>3 DEF LsTypes, NoMeta
<1>2. CASE IngestDone \/ IngestRaises
  BY <1>0, <1>2 DEF IngestDone, IngestRaises, LsTypes, NoMeta
<1>3. CASE VisitItem BY <1>0, <1>3, VisitTypes
<1>4. CASE BatchesDone
  <2>1. batches' = batches \/ (current # NoMeta /\ batches' = WithBuilt)
    BY <1>4 DEF BatchesDone
  <2> QED BY <1>0, <1>4, <2>1, BuiltTypes DEF BatchesDone, LsTypes, NoMeta
<1>5. CASE Aside BY <1>0, <1>5 DEF Aside, reader, LsTypes, NoMeta
<1> QED BY <1>1, <1>2, <1>3, <1>4, <1>5, LsCases

LEMMA LsInitTypes == LsInit => Init /\ LsTypes
BY EmptySeq DEF LsInit, LsTypes, NoMeta

\* Every variable of LocalStorageReader keeps its type: in particular no batch
\* is recorded without a META that begins it.
THEOREM LsTypeCorrect == LsSpec => []LsTypeOK
<1>1. BrowserInv /\ LsTypes => LsTypeOK
  BY DEF LsTypeOK, LsTypes, BrowserInv, TypeInv
<1> QED BY <1>1, LsInitTypes, LsNextTypes, LsAny, BrowserCorrect, PTL DEF LsSpec

(***************************************************************************)
(* Every item stems from an entry                                          *)
(***************************************************************************)
From(item, e) ==
  \/ IsMeta(e) /\ item = MetaItem(e)
  \/ IsRecord(e) /\ item = RecordItem(e)

Stems ==
  /\ rest \subseteq EntriesOf(Files)
  /\ \A i \in DOMAIN flat : \E e \in EntriesOf(Files) : From(flat[i], e)

LEMMA NextStems == BrowserInv /\ LsTypes /\ Stems /\ [LsNext]_lsVars => Stems'
<1> SUFFICES ASSUME BrowserInv, LsTypes, Stems, [LsNext]_lsVars PROVE Stems' OBVIOUS
<1>1. rest' \subseteq EntriesOf(Files)' BY LsAny, RestInFiles DEF Stems
<1>2. EntriesOf(Files) \subseteq EntriesOf(Files)' BY LsAny, FilesGrow
<1>3. CASE UNCHANGED flat BY <1>1, <1>2, <1>3 DEF Stems
<1>4. CASE Ingest
  <2>1. PICK e \in rest :
          \/ flat' = flat
          \/ IsMeta(e) /\ flat' = Append(flat, MetaItem(e))
          \/ IsRecord(e) /\ flat' = Append(flat, RecordItem(e))
    BY <1>4, IngestStep
  <2>2. CASE flat' # flat
    <3>1. PICK x \in Item : From(x, e) /\ flat' = Append(flat, x)
      BY <2>1, <2>2, ItemTypes DEF From, BrowserInv, TypeInv, TypeOK
    <3>2. flat \in Seq(Item) /\ Len(flat) \in Nat /\ DOMAIN flat = 1..Len(flat)
      BY LenProperties DEF LsTypes
    <3>3. /\ flat' \in Seq(Item) /\ Len(flat') = Len(flat) + 1
          /\ \A i \in 1..Len(flat) : flat'[i] = flat[i]
          /\ flat'[Len(flat) + 1] = x
      BY <3>1, <3>2, AppendProperties
    <3>4. DOMAIN flat' = DOMAIN flat \cup {Len(flat) + 1}
      BY <3>2, <3>3, LenProperties
    <3>5. e \in EntriesOf(Files) BY DEF Stems
    <3>6. \A i \in DOMAIN flat' : \E o \in EntriesOf(Files) : From(flat'[i], o)
      <4>1. \A i \in DOMAIN flat : \E o \in EntriesOf(Files) : From(flat[i], o)
        BY DEF Stems
      <4>2. \A i \in DOMAIN flat : flat'[i] = flat[i] BY <3>2, <3>3
      <4>3. From(flat'[Len(flat) + 1], e) BY <3>1, <3>3
      <4> QED BY <3>4, <3>5, <4>1, <4>2, <4>3
    <3> QED BY <1>1, <1>2, <3>6 DEF Stems
  <2> QED BY <1>3, <2>2
<1>5. CASE IngestDone \/ IngestRaises BY <1>3, <1>5 DEF IngestDone, IngestRaises
<1>6. CASE VisitItem BY <1>3, <1>6 DEF VisitItem
<1>7. CASE BatchesDone BY <1>3, <1>7 DEF BatchesDone
<1>8. CASE Aside BY <1>3, <1>8 DEF Aside, reader
<1> QED BY <1>4, <1>5, <1>6, <1>7, <1>8, LsCases

\* A sequence number names one entry.
LEMMA OneEntry ==
  ASSUME BrowserInv, NEW e \in EntriesOf(Files), NEW o \in EntriesOf(Files), e.seq = o.seq
  PROVE  e = o
<1>1. PICK f \in Files : e \in content[f] BY DEF EntriesOf
<1>2. PICK g \in Files : o \in content[g] BY DEF EntriesOf
<1> QED BY <1>1, <1>2 DEF BrowserInv, SeqInv

\* Items of one sequence number are the same item, read again.
LEMMA OneItem ==
  ASSUME BrowserInv, Stems, NEW i \in DOMAIN flat, NEW j \in DOMAIN flat,
         flat[i].seq = flat[j].seq
  PROVE  flat[i] = flat[j]
<1>1. PICK e \in EntriesOf(Files) : From(flat[i], e) BY DEF Stems
<1>2. PICK o \in EntriesOf(Files) : From(flat[j], o) BY DEF Stems
<1>3. flat[i].seq = e.seq /\ flat[j].seq = o.seq
  BY <1>1, <1>2 DEF From, MetaItem, RecordItem
<1>4. e = o BY <1>3, OneEntry
<1> QED BY <1>1, <1>2, <1>4 DEF From, IsMeta, IsRecord

(***************************************************************************)
(* Batches are runs                                                        *)
(***************************************************************************)
\* A META at `start` and a record of the same storage key at every number
\* after it up to `end`.
Run(host, start, end) ==
  /\ start <= end
  /\ \E m \in Items : m.meta /\ m.seq = start /\ m.host = host
  /\ \A n \in start + 1 .. end :
       \E r \in Items : ~r.meta /\ r.seq = n /\ r.host = host

\* The batches built, and the one being built, are runs; they come one after
\* the other, and the items left to visit come after them.
RunInv ==
  /\ \A s \in DOMAIN batches : /\ batches[s].start = s
                               /\ Run(batches[s].host, s, batches[s].end)
  /\ Disjoint
  /\ current # NoMeta => Run(current.host, current.seq, currentEnd)
  /\ phase \in {"ingest", "failed"} => DOMAIN batches = {} /\ current = NoMeta
  /\ phase # "ready" /\ current # NoMeta =>
       \A s \in DOMAIN batches :
         s <= current.seq /\ (s < current.seq => batches[s].end < current.seq)
  /\ \A i \in rem : /\ \A s \in DOMAIN batches : batches[s].end <= flat[i].seq
                    /\ current # NoMeta => currentEnd <= flat[i].seq

LEMMA RunEnd ==
  ASSUME NEW host, NEW start \in Nat, NEW end \in Nat, Run(host, start, end)
  PROVE  \E x \in Items : x.seq = end /\ (start < end => ~x.meta)
<1>1. CASE start = end BY <1>1 DEF Run
<1>2. CASE start < end
  <2>1. end \in start + 1 .. end BY <1>2
  <2> QED BY <2>1 DEF Run
<1> QED BY <1>1, <1>2 DEF Run

\* Recording the batch that was being built.
LEMMA BuiltRuns ==
  ASSUME LsTypes, RunInv, phase # "ready", current # NoMeta
  PROVE  /\ \A s \in DOMAIN WithBuilt :
              /\ WithBuilt[s].start = s
              /\ Run(WithBuilt[s].host, s, WithBuilt[s].end)
         /\ \A s, t \in DOMAIN WithBuilt : s < t => WithBuilt[s].end < t
         /\ \A i \in rem : \A s \in DOMAIN WithBuilt : WithBuilt[s].end <= flat[i].seq
<1>1. /\ current.seq \in Nat /\ currentEnd \in Nat /\ DOMAIN batches \subseteq Nat
      /\ \A s \in DOMAIN batches : batches[s].end \in Nat
  BY DEF LsTypes, Meta
<1>2. /\ Built.start = current.seq /\ Built.end = currentEnd /\ Built.host = current.host
  BY DEF Built
<1>3. /\ DOMAIN WithBuilt = DOMAIN batches \cup {current.seq}
      /\ WithBuilt[current.seq] = Built
      /\ \A s \in DOMAIN batches : s # current.seq => WithBuilt[s] = batches[s]
  BY DEF WithBuilt
<1> HIDE DEF WithBuilt, Built
<1>4. ASSUME NEW s \in DOMAIN WithBuilt
      PROVE  WithBuilt[s].start = s /\ Run(WithBuilt[s].host, s, WithBuilt[s].end)
  BY <1>2, <1>3 DEF RunInv
<1>5. ASSUME NEW s \in DOMAIN WithBuilt, NEW t \in DOMAIN WithBuilt, s < t
      PROVE  WithBuilt[s].end < t
  <2>1. CASE t = current.seq
    <3>1. s \in DOMAIN batches /\ s # current.seq BY <1>1, <1>3, <1>5, <2>1
    <3> QED BY <1>3, <1>5, <2>1, <3>1 DEF RunInv
  <2>2. CASE t # current.seq
    <3>1. t \in DOMAIN batches /\ t <= current.seq BY <1>3, <2>2 DEF RunInv
    <3>2. s \in DOMAIN batches /\ s # current.seq BY <1>1, <1>3, <1>5, <3>1
    <3> QED BY <1>3, <1>5, <3>1, <3>2 DEF RunInv, Disjoint
  <2> QED BY <2>1, <2>2
<1>6. ASSUME NEW i \in rem, NEW s \in DOMAIN WithBuilt
      PROVE  WithBuilt[s].end <= flat[i].seq
  BY <1>2, <1>3 DEF RunInv
<1> QED BY <1>4, <1>5, <1>6

LEMMA VisitRuns ==
  ASSUME BrowserInv, LsTypes, Stems, RunInv, VisitItem
  PROVE  RunInv'
<1>1. PICK i \in rem :
        /\ \A j \in rem : Comes(i, j)
        /\ rem' = rem \ {i}
        /\ \/ StartBatch(flat[i])
           \/ Ignore(flat[i])
           \/ EndBatch(flat[i])
           \/ ExtendBatch(flat[i])
        /\ phase = "batches" /\ phase' = phase /\ flat' = flat
  BY DEF VisitItem
<1> DEFINE item == flat[i]
<1>2. /\ i \in DOMAIN flat /\ item \in Items /\ item \in Item
      /\ item.seq \in Nat /\ item.host \in Hosts
      /\ \A j \in rem : flat[j].seq \in Nat /\ item.seq <= flat[j].seq
  <2>1. i \in DOMAIN flat /\ flat \in Seq(Item) BY DEF LsTypes
  <2>2. \A j \in rem : flat[j] \in Item BY ElementOfSeq DEF LsTypes
  <2>3. \A j \in rem : flat[j].seq \in Nat /\ flat[j].host \in Hosts BY <2>2 DEF Item
  <2>4. \A j \in rem : flat[i].seq <= flat[j].seq BY <1>1, <2>3 DEF Comes
  <2> QED BY <2>1, <2>2, <2>3, <2>4 DEF Items
<1>3. /\ \A j, k \in DOMAIN flat : flat[j].seq = flat[k].seq => flat[j] = flat[k]
      /\ Items' = Items
  BY <1>1, OneItem DEF Items
<1>4. \A x \in Items : x.seq = item.seq => x = item
  BY <1>2, <1>3 DEF Items
<1> HIDE DEF item
<1>5. /\ DOMAIN batches \subseteq Nat
      /\ \A s \in DOMAIN batches : batches[s].end \in Nat
      /\ currentEnd \in Nat
      /\ current # NoMeta => current.seq \in Nat
  BY DEF LsTypes, Meta
<1>6. /\ \A s \in DOMAIN batches : batches[s].end <= item.seq
      /\ current # NoMeta => currentEnd <= item.seq
  BY DEF RunInv, item
<1>7. \A h, s, n : Run(h, s, n)' = Run(h, s, n) BY <1>3 DEF Run
\* what was built is apart from a META that is visited now
<1>8. ASSUME item.meta, NEW h, NEW s \in Nat, NEW n \in Nat, Run(h, s, n), n <= item.seq
      PROVE  s <= item.seq /\ (s < item.seq => n < item.seq)
  <2>1. PICK x \in Items : x.seq = n /\ (s < n => ~x.meta) BY <1>8, RunEnd
  <2>2. s <= n BY <1>8 DEF Run
  <2>3. s < n => n # item.seq BY <1>4, <1>8, <2>1
  <2> QED BY <1>2, <1>8, <2>2, <2>3
<1>9. CASE StartBatch(item)
  <2>1. /\ item.meta /\ current' = [host |-> item.host, seq |-> item.seq]
        /\ currentEnd' = item.seq
        /\ batches' = IF current = NoMeta THEN batches ELSE WithBuilt
    BY <1>9 DEF StartBatch
  <2>2. current' # NoMeta /\ current'.seq = item.seq /\ current'.host = item.host
    BY <1>2, <2>1, LocalStorageConstants DEF NoMeta
  <2>3. Run(current'.host, current'.seq, currentEnd')
    BY <1>2, <2>1, <2>2 DEF Run
  <2>4. /\ \A s \in DOMAIN batches' : /\ batches'[s].start = s
                                      /\ Run(batches'[s].host, s, batches'[s].end)
        /\ \A s, t \in DOMAIN batches' : s < t => batches'[s].end < t
        /\ \A j \in rem : \A s \in DOMAIN batches' : batches'[s].end <= flat[j].seq
    BY <1>1, <2>1, BuiltRuns DEF RunInv, Disjoint
  <2>5. \A s \in DOMAIN batches' : s \in Nat /\ batches'[s].end \in Nat
    BY <2>1, <1>5, BuiltTypes DEF LsTypes
  <2>6. \A s \in DOMAIN batches' :
          s <= item.seq /\ (s < item.seq => batches'[s].end < item.seq)
    BY <1>8, <2>1, <2>4, <2>5 DEF item
  <2> QED BY <1>1, <1>2, <1>7, <2>1, <2>2, <2>3, <2>4, <2>6 DEF RunInv, Disjoint
<1>10. CASE Ignore(item) BY <1>1, <1>7, <1>10 DEF Ignore, RunInv, Disjoint
<1>11. CASE EndBatch(item)
  <2>1. current # NoMeta /\ batches' = WithBuilt /\ current' = NoMeta
    BY <1>11 DEF EndBatch
  <2>2. /\ \A s \in DOMAIN batches' : /\ batches'[s].start = s
                                      /\ Run(batches'[s].host, s, batches'[s].end)
        /\ \A s, t \in DOMAIN batches' : s < t => batches'[s].end < t
        /\ \A j \in rem : \A s \in DOMAIN batches' : batches'[s].end <= flat[j].seq
    BY <1>1, <2>1, BuiltRuns
  <2> QED BY <1>1, <1>7, <2>1, <2>2 DEF RunInv, Disjoint
<1>12. CASE ExtendBatch(item)
  <2>1. /\ ~item.meta /\ current # NoMeta /\ item.seq - currentEnd = 1
        /\ item.host = current.host /\ currentEnd' = item.seq
        /\ batches' = batches /\ current' = current
    BY <1>12 DEF ExtendBatch, Continues
  <2>2. Run(current.host, current.seq, item.seq)
    <3>1. Run(current.host, current.seq, currentEnd) BY <2>1 DEF RunInv
    <3>2. \A n \in current.seq + 1 .. item.seq : n \in current.seq + 1 .. currentEnd \/ n = item.seq
      BY <1>2, <1>5, <2>1
    <3>3. current.seq <= item.seq BY <1>2, <1>5, <2>1, <3>1 DEF Run
    <3> QED BY <1>2, <2>1, <3>1, <3>2, <3>3 DEF Run
  <2> QED BY <1>1, <1>2, <1>7, <2>1, <2>2 DEF RunInv, Disjoint
<1> QED BY <1>1, <1>9, <1>10, <1>11, <1>12 DEF item

LEMMA NextRuns ==
  BrowserInv /\ LsTypes /\ Stems /\ RunInv /\ [LsNext]_lsVars => RunInv'
<1> SUFFICES ASSUME BrowserInv, LsTypes, Stems, RunInv, [LsNext]_lsVars PROVE RunInv'
  OBVIOUS
<1>1. CASE UNCHANGED <<phase, flat, rem, current, currentEnd, batches>>
  BY <1>1 DEF RunInv, Run, Items, Disjoint
<1>2. CASE Ingest \/ IngestRaises
  <2>1. phase = "ingest" /\ UNCHANGED <<rem, current, currentEnd, batches>>
    BY <1>2 DEF Ingest, IngestRaises
  <2>2. DOMAIN batches' = {} /\ current' = NoMeta BY <2>1 DEF RunInv
  <2> QED BY <2>2 DEF RunInv, Disjoint
<1>3. CASE IngestDone
  <2>1. phase = "ingest" /\ UNCHANGED <<flat, current, currentEnd, batches>>
    BY <1>3 DEF IngestDone
  <2>2. DOMAIN batches' = {} /\ current' = NoMeta BY <2>1 DEF RunInv
  <2> QED BY <2>2 DEF RunInv, Disjoint
<1>4. CASE VisitItem BY <1>4, VisitRuns
<1>5. CASE BatchesDone
  <2>1. /\ phase = "batches" /\ rem = {} /\ phase' = "ready"
        /\ batches' = IF current = NoMeta THEN batches ELSE WithBuilt
        /\ UNCHANGED <<flat, rem, current, currentEnd>>
    BY <1>5 DEF BatchesDone
  <2>2. /\ \A s \in DOMAIN batches' : /\ batches'[s].start = s
                                      /\ Run(batches'[s].host, s, batches'[s].end)
        /\ \A s, t \in DOMAIN batches' : s < t => batches'[s].end < t
    BY <2>1, BuiltRuns DEF RunInv, Disjoint
  <2>3. \A h, s, n : Run(h, s, n)' = Run(h, s, n) BY <2>1 DEF Run, Items
  <2> QED BY <2>1, <2>2, <2>3 DEF RunInv, Disjoint
<1>6. CASE Aside BY <1>1, <1>6 DEF Aside, reader
<1> QED BY <1>2, <1>3, <1>4, <1>5, <1>6, LsCases

LsInv == BrowserInv /\ LsTypes /\ Stems /\ RunInv

LEMMA LsCorrect == LsSpec => []LsInv
<1>1. LsInit => Stems /\ RunInv
  BY DEF LsInit, Init, Stems, RunInv, Disjoint
<1>2. Stems /\ RunInv /\ BrowserInv /\ LsTypes /\ [LsNext]_lsVars => (Stems /\ RunInv)'
  BY NextStems, NextRuns
<1> QED BY <1>1, <1>2, LsInitTypes, LsNextTypes, LsAny, BrowserCorrect, PTL
        DEF LsSpec, LsInv

\* _build_batches attributes to a META only records of its storage key, at
\* consecutive sequence numbers, whatever the order of reading was.
THEOREM BatchesAreRuns == LsSpec => []BatchIsRun
<1>1. LsInv => BatchIsRun BY DEF LsInv, RunInv, Run, BatchIsRun
<1> QED BY <1>1, LsCorrect, PTL

\* The batches that _build_batches records do not overlap.
THEOREM BatchesDisjoint == LsSpec => []Disjoint
<1>1. LsInv => Disjoint BY DEF LsInv, RunInv
<1> QED BY <1>1, LsCorrect, PTL

(***************************************************************************)
(* Batches and the writes of the browser                                   *)
(***************************************************************************)
\* The entry is one of the write batch that follows sequence number w, all of
\* which was written, and no other write begins inside it.
WrittenIn(e, w, batch) ==
  /\ \E i \in DOMAIN batch : /\ e.seq = w + i
                             /\ e.key = batch[i].key /\ e.live = batch[i].live
  /\ \A j \in DOMAIN batch : \E o \in Written : o.seq = w + j /\ o.key = batch[j].key
  /\ w + Len(batch) <= seq
  /\ \A v \in wrote : v <= w + 1 \/ v > w + Len(batch)

WroteInv ==
  /\ log \in logs
  /\ \A v \in wrote : v <= seq + 1
  /\ \A e \in Written : \E w \in Nat, batch \in WriteBatches : WrittenIn(e, w, batch)

LEMMA BatchLength ==
  ASSUME NEW batch \in WriteBatches
  PROVE  /\ batch \in Seq(Op) /\ Len(batch) \in Nat
         /\ DOMAIN batch = 1..Len(batch)
<1>1. batch \in Seq(Op) BY DbConstants
<1> QED BY <1>1, LenProperties

LEMMA WriteWrote ==
  ASSUME BrowserInv, LsTypes, WroteInv, NEW new \in WriteBatches, Write(new),
         wrote' = wrote \cup {seq + 1}
  PROVE  WroteInv'
<1>1. /\ seq \in Nat /\ wrote \subseteq Nat /\ log \in Files /\ logs \subseteq Files
      /\ content \in [Files -> SUBSET Entry]
  BY DEF BrowserInv, TypeInv, TypeOK, LsTypes
<1>2. Len(new) \in Nat /\ DOMAIN new = 1..Len(new) BY BatchLength
<1> DEFINE entry(i) == [key |-> new[i].key, live |-> new[i].live,
                        value |-> new[i].value, seq |-> seq + i]
           added == {entry(i) : i \in DOMAIN new}
<1>3. /\ content' = [content EXCEPT ![log] = @ \cup added]
      /\ logs' = logs /\ log' = log /\ seq' = seq + Len(new)
  BY DEF Write
<1> HIDE DEF added
<1>4. Written' = Written \cup added
  <2>1. \A f \in Files : content'[f] = IF f = log THEN content[f] \cup added ELSE content[f]
    BY <1>1, <1>3
  <2>2. log \in logs BY DEF WroteInv
  <2> QED BY <1>1, <1>3, <2>1, <2>2 DEF Written, EntriesOf
<1>5. \A v \in wrote' : v <= seq' + 1
  BY <1>1, <1>2, <1>3 DEF WroteInv
<1>6. ASSUME NEW e \in Written
      PROVE  \E w \in Nat, batch \in WriteBatches : WrittenIn(e, w, batch)'
  <2>1. PICK w \in Nat, batch \in WriteBatches : WrittenIn(e, w, batch) BY DEF WroteInv
  <2>2. Len(batch) \in Nat BY BatchLength
  <2>3. w + Len(batch) <= seq /\ seq <= seq' BY <1>1, <1>2, <1>3, <2>1 DEF WrittenIn
  <2>4. \A v \in wrote' : v <= w + 1 \/ v > w + Len(batch)
    BY <1>1, <2>1, <2>2, <2>3 DEF WrittenIn
  <2>5. w + Len(batch) <= seq' BY <1>1, <1>2, <1>3, <2>2, <2>3
  <2>6. WrittenIn(e, w, batch)' BY <1>4, <2>1, <2>4, <2>5 DEF WrittenIn
  <2> QED BY <2>6
<1>7. ASSUME NEW e \in added, NEW w \in Nat, w = seq
      PROVE  WrittenIn(e, w, new)'
  <2>1. PICK i \in DOMAIN new : e = entry(i) BY <1>7 DEF added
  <2>2. e.seq = seq + i /\ e.key = new[i].key /\ e.live = new[i].live BY <2>1
  <2>3. \A j \in DOMAIN new : entry(j) \in Written' BY <1>4 DEF added
  <2>4. \A j \in DOMAIN new : \E o \in Written' : o.seq = seq + j /\ o.key = new[j].key
    BY <2>3
  <2> HIDE DEF entry
  <2>5. \A v \in wrote' : v <= w + 1 BY <1>1, <1>7 DEF WroteInv
  <2>6. w + Len(new) <= seq' BY <1>1, <1>2, <1>3, <1>7
  <2> QED BY <1>7, <2>2, <2>4, <2>5, <2>6 DEF WrittenIn
<1>8. log' \in logs' BY <1>3 DEF WroteInv
<1>9. \A e \in Written' : \E w \in Nat, batch \in WriteBatches : WrittenIn(e, w, batch)'
  BY <1>1, <1>4, <1>6, <1>7
<1> QED BY <1>5, <1>8, <1>9 DEF WroteInv

LEMMA NextWrote ==
  BrowserInv /\ LsTypes /\ WroteInv /\ [LsNext]_lsVars => WroteInv'
<1> SUFFICES ASSUME BrowserInv, LsTypes, WroteInv, [LsNext]_lsVars PROVE WroteInv'
  OBVIOUS
<1>1. CASE Writes /\ wrote' = wrote \cup {seq + 1}
  BY <1>1, WriteWrote DEF Writes
<1>2. ASSUME wrote' = wrote, seq' = seq, log' \in logs', Written' = Written PROVE WroteInv'
  BY <1>2 DEF WroteInv, WrittenIn
<1>3. log \in logs BY DEF WroteInv
<1>4. CASE wrote' = wrote /\ UNCHANGED browser
  BY <1>2, <1>3, <1>4 DEF browser, Written, EntriesOf
<1>5. CASE wrote' = wrote /\ Maintain
  <2>1. CASE Rotate
    <3>1. next \in Files /\ content[next] = {} /\ logs \subseteq Files
      BY <2>1, DbConstants DEF Rotate, BrowserInv, FileInv, TypeInv, TypeOK, Files
    <3>2. /\ content' = content /\ logs' = logs \cup {next} /\ log' = next /\ seq' = seq
      BY <2>1 DEF Rotate
    <3>3. Written' = Written BY <3>1, <3>2 DEF Written, EntriesOf
    <3> QED BY <1>2, <1>5, <3>2, <3>3
  <2>2. CASE Install
    <3>1. /\ job.output \notin logs /\ logs' = logs /\ log' = log /\ seq' = seq
      BY <2>2 DEF Install, BrowserInv, FileInv
    <3>2. \A f \in logs : content'[f] = content[f]
      BY <2>2, <3>1, InstallContent DEF BrowserInv, TypeInv, TypeOK
    <3>3. Written' = Written BY <3>1, <3>2 DEF Written, EntriesOf
    <3> QED BY <1>2, <1>3, <1>5, <3>1, <3>3
  <2>3. ASSUME UNCHANGED <<content, logs, log, seq>> PROVE WroteInv'
    BY <1>2, <1>3, <1>5, <2>3 DEF Written, EntriesOf
  <2> QED BY <1>5, <2>1, <2>2, <2>3 DEF Maintain, Begin, Unlink, Stop
<1>6. UNCHANGED vars => UNCHANGED browser BY DEF vars, browser
<1>7. \/ Writes /\ wrote' = wrote \cup {seq + 1}
      \/ wrote' = wrote /\ (Maintain \/ UNCHANGED browser)
  <2>1. CASE wrote' = wrote /\ Build
    BY <2>1, <1>6, ReaderPassive
       DEF Build, Ingest, IngestRaises, IngestDone, VisitItem, BatchesDone, Read
  <2>2. CASE wrote' = wrote /\ Use BY <2>2, ReaderPassive DEF Use, Read
  <2>3. CASE UNCHANGED lsVars BY <2>3, <1>6 DEF lsVars
  <2> QED BY <2>1, <2>2, <2>3 DEF LsNext
<1> QED BY <1>1, <1>4, <1>5, <1>7

\* All that a batch spans are records.
LEMMA SpanIsRecords ==
  ASSUME LsInv, NEW s \in DOMAIN batches, NEW e \in Written,
         e.seq \in s + 1 .. batches[s].end
  PROVE  Meaning[e.key].kind = "record"
<1>1. PICK r \in Items : ~r.meta /\ r.seq = e.seq BY DEF LsInv, RunInv, Run
<1>2. PICK o \in EntriesOf(Files) : From(r, o) BY <1>1 DEF LsInv, Stems, Items
<1>3. r.seq = o.seq /\ IsRecord(o) BY <1>1, <1>2 DEF From, MetaItem, RecordItem
<1>4. e \in EntriesOf(Files)
  BY DEF Written, EntriesOf, LsInv, BrowserInv, TypeInv, TypeOK
<1>5. e = o BY <1>1, <1>3, <1>4, OneEntry DEF LsInv
<1> QED BY <1>3, <1>5 DEF IsRecord

\* What a batch of _build_batches spans are records, and the browser put the
\* live ones in the write that its META begins: a write that puts a record has
\* written a META before it (MetaBeforeRecords), which ends the batch.
THEOREM BatchesKeepApart == LsSpec => []OneWriteBatch
<1>1. ASSUME LsInv, WroteInv PROVE OneWriteBatch
  <2> SUFFICES ASSUME NEW s \in DOMAIN batches, NEW e \in Written,
                      e.seq \in s + 1 .. batches[s].end, e.live,
                      NEW v \in wrote, ~(v <= s \/ v > e.seq)
               PROVE  FALSE
    BY <1>1, SpanIsRecords DEF OneWriteBatch
  <2>1. PICK w \in Nat, batch \in WriteBatches : WrittenIn(e, w, batch)
    BY <1>1 DEF WroteInv
  <2>2. PICK i \in DOMAIN batch : /\ e.seq = w + i
                                  /\ e.key = batch[i].key /\ e.live = batch[i].live
    BY <2>1 DEF WrittenIn
  <2>3. Meaning[batch[i].key].kind = "record" BY <1>1, <2>2, SpanIsRecords
  <2>4. PICK j \in DOMAIN batch : j < i /\ Meaning[batch[j].key].kind # "record"
    BY <2>2, <2>3, MetaBeforeRecords
  <2>5. PICK o \in Written : o.seq = w + j /\ o.key = batch[j].key
    BY <2>1 DEF WrittenIn
  <2>6. v <= w + 1 \/ v > w + Len(batch) BY <2>1 DEF WrittenIn
  <2>7. /\ Len(batch) \in Nat /\ i \in 1..Len(batch) /\ j \in 1..Len(batch)
        /\ s \in Nat /\ batches[s].end \in Nat /\ v \in Nat
    BY <1>1, BatchLength DEF LsInv, LsTypes
  <2>8. o.seq \in s + 1 .. batches[s].end BY <2>2, <2>4, <2>5, <2>6, <2>7
  <2> QED BY <1>1, <2>4, <2>5, <2>8, SpanIsRecords
<1>2. LsInit => WroteInv
  <2> SUFFICES ASSUME LsInit PROVE WroteInv OBVIOUS
  <2>1. content = [f \in Files |-> {}] /\ logs = {1} /\ log = 1 /\ wrote = {}
    BY DEF LsInit, Init
  <2>2. 1 \in Files BY DbConstants DEF Files
  <2>3. Written = {} BY <2>1, <2>2 DEF Written, EntriesOf
  <2> QED BY <2>1, <2>3 DEF WroteInv
<1>3. LsInv /\ WroteInv /\ [LsNext]_lsVars => WroteInv' BY NextWrote DEF LsInv
<1> QED BY <1>1, <1>2, <1>3, LsCorrect, PTL DEF LsSpec

\* find_batch gives the batch of every record in one, and nothing for a
\* sequence number that no batch covers.
THEOREM FindBatchRight == LsSpec => []FindsBatchOfRecord
<1>1. ASSUME LsInv PROVE FindsBatchOfRecord
  <2>1. /\ DOMAIN batches \subseteq Nat
        /\ \A s \in DOMAIN batches : batches[s].end \in Nat /\ batches[s].start = s
        /\ \A s, t \in DOMAIN batches : s < t => batches[s].end < t
    BY <1>1 DEF LsInv, LsTypes, RunInv, Disjoint
  <2>2. ASSUME NEW s \in DOMAIN batches, NEW n \in s + 1 .. batches[s].end
        PROVE  FindBatch(n) = batches[s]
    <3> DEFINE below == {t \in DOMAIN batches : t < n}
               found == CHOOSE t \in below : \A o \in below : o <= t
    <3>1. s \in Nat /\ n \in Nat /\ s < n /\ n <= batches[s].end BY <2>1
    <3>2. s \in below BY <3>1
    <3>3. \A t \in below : t <= s BY <2>1, <3>1
    <3>4. \A t \in below : (\A o \in below : o <= t) => t = s BY <2>1, <3>2, <3>3
    <3>5. found = s BY <3>2, <3>3, <3>4
    <3> QED BY <2>1, <3>1, <3>2, <3>5 DEF FindBatch
  <2>3. ASSUME NEW n \in Nat, \A s \in DOMAIN batches : n < s \/ n > batches[s].end
        PROVE  FindBatch(n) = NoBatch
    <3> DEFINE below == {t \in DOMAIN batches : t < n}
               found == CHOOSE t \in below : \A o \in below : o <= t
    <3>1. CASE below = {} BY <3>1 DEF FindBatch
    <3>2. CASE below # {}
      <4>1. below \in SUBSET Nat /\ \A t \in below : t <= n BY <2>1
      <4>2. \E m \in below : \A o \in below : o <= m BY <3>2, <4>1, Greatest
      <4>3. found \in below BY <4>2
      <4> HIDE DEF found
      <4>4. ~(batches[found].start <= n /\ n <= batches[found].end)
        BY <2>1, <2>3, <4>3
      <4> QED BY <3>2, <4>4 DEF FindBatch, found
    <3> QED BY <3>1, <3>2
  <2>4. 0..seq + 1 \subseteq Nat OBVIOUS
  <2> QED BY <2>2, <2>3, <2>4 DEF FindsBatchOfRecord
<1> QED BY <1>1, LsCorrect, PTL

(***************************************************************************)
(* What was read is there                                                  *)
(***************************************************************************)
Early == {"new", "scan", "open"}
Late == {"batches", "ready"}

\* A step reads a record, begins to read, opens files, or moves neither what
\* was read nor what the directory held.
LEMMA Moves ==
  ASSUME [LsNext]_lsVars
  PROVE  \/ Ingest
         \/ IngestRaises
         \/ /\ phase = "ingest" /\ pc = "open" /\ pc' = "iter" /\ yielded' = <<>>
            /\ UNCHANGED reader
         \/ /\ pc \in {"new", "scan"} /\ pc' \in {"scan", "open", "failed"}
            /\ yielded' = yielded /\ UNCHANGED reader
         \/ IngestDone
         \/ /\ UNCHANGED <<yielded, snap>>
            /\ pc' = pc \/ (phase = "ready" /\ pc' = "closed")
            /\ VisitItem \/ BatchesDone \/ Aside
<1>1. CASE VisitItem BY <1>1 DEF VisitItem, vars
<1>2. CASE BatchesDone BY <1>2 DEF BatchesDone, vars
<1>3. CASE Writes /\ UNCHANGED reader
  BY <1>3 DEF Writes, Write, handles, iteration, Aside
<1>4. CASE Maintain /\ UNCHANGED reader
  BY <1>4 DEF Maintain, Rotate, Begin, Install, Unlink, Stop, handles, iteration, Aside
<1>5. CASE Open /\ UNCHANGED reader
  BY <1>5 DEF Open, List, CheckEntry, OpenEntry, Constructed, handles, iteration
<1>6. CASE phase = "ingest" /\ pc = "open" /\ Iterate(FALSE) /\ UNCHANGED reader
  BY <1>6 DEF Iterate
<1>7. CASE NextFile /\ UNCHANGED reader BY <1>7 DEF NextFile, handles, Aside
<1>8. CASE phase = "ready" /\ Close /\ UNCHANGED reader
  BY <1>8 DEF Close, handles, iteration, Aside
<1>9. CASE UNCHANGED lsVars BY <1>9 DEF lsVars, vars, reader, Aside
<1> QED BY <1>1, <1>2, <1>3, <1>4, <1>5, <1>6, <1>7, <1>8, <1>9
        DEF LsNext, Build, Use

\* The items are what was made of the records yielded.
Gathered ==
  /\ pc \in Early => phase = "ingest" /\ flat = <<>>
  /\ phase \in Late => pc \in {"done", "closed"}
  /\ \A e \in Yielded : IsRecord(e) => RecordItem(e) \in Items
  /\ \A x \in Items : \E e \in Yielded : From(x, e)
  /\ recByKey = {x \in Items : ~x.meta}

\* A record that is ingested, and all that _ingest makes of it.
LEMMA IngestOne ==
  ASSUME ReadInv, LsTypes, Ingest
  PROVE  \E e \in rest :
           /\ Yielded' = Yielded \cup {e}
           /\ IngestMeta(e) \/ IngestRecord(e) \/ SkipEntry(e)
           /\ e \in Entry
<1>1. PICK e \in rest : rest' = rest \ {e} /\ Yielded' = Yielded \cup {e}
  BY YieldStep DEF ReadInv, BrowserInv, Ingest
<1>2. \E o \in rest \ rest' : IngestMeta(o) \/ IngestRecord(o) \/ SkipEntry(o)
  BY DEF Ingest
<1>3. rest \ rest' = {e} BY <1>1
<1> QED BY <1>1, <1>2, <1>3 DEF ReadInv, BrowserInv, TypeInv, TypeOK

\* Appending an item adds it to the items.
LEMMA Added ==
  ASSUME LsTypes, NEW x \in Item, flat' = Append(flat, x)
  PROVE  /\ Items' = Items \cup {x}
         /\ Len(flat) \in Nat /\ DOMAIN flat = 1..Len(flat)
         /\ DOMAIN flat' = 1..Len(flat) + 1
         /\ \A i \in 1..Len(flat) : flat'[i] = flat[i]
         /\ flat'[Len(flat) + 1] = x
<1>1. flat \in Seq(Item) /\ Len(flat) \in Nat /\ DOMAIN flat = 1..Len(flat)
  BY LenProperties DEF LsTypes
<1>2. /\ flat' \in Seq(Item) /\ Len(flat') = Len(flat) + 1
      /\ \A i \in 1..Len(flat) : flat'[i] = flat[i]
      /\ flat'[Len(flat) + 1] = x
  BY <1>1, AppendProperties
<1>3. DOMAIN flat' = 1..Len(flat) + 1 BY <1>1, <1>2, LenProperties
<1>4. DOMAIN flat' = DOMAIN flat \cup {Len(flat) + 1} BY <1>1, <1>3
<1>5. Items' = Items \cup {x} BY <1>1, <1>2, <1>4 DEF Items
<1> QED BY <1>1, <1>2, <1>3, <1>5

LEMMA NextGathered ==
  ReadInv /\ LsTypes /\ Stems /\ Gathered /\ [LsNext]_lsVars => Gathered'
<1> SUFFICES ASSUME ReadInv, LsTypes, Stems, Gathered, [LsNext]_lsVars PROVE Gathered'
  OBVIOUS
<1>1. CASE Ingest
  <2>1. PICK e \in rest : /\ Yielded' = Yielded \cup {e}
                          /\ IngestMeta(e) \/ IngestRecord(e) \/ SkipEntry(e)
                          /\ e \in Entry
    BY <1>1, IngestOne
  <2>2. pc = "iter" /\ pc' = "iter" /\ phase = "ingest" /\ phase' = "ingest"
    BY <1>1 DEF Ingest, YieldRecord
  <2>3. MetaItem(e) \in Item /\ RecordItem(e) \in Item
        /\ MetaItem(e).meta /\ ~RecordItem(e).meta
        /\ RecordItem(e).seq = e.seq
    BY <2>1, ItemTypes DEF MetaItem, RecordItem
  <2>4. IsMeta(e) => ~IsRecord(e) BY DEF IsMeta, IsRecord
  <2>5. CASE SkipEntry(e)
    <3>1. UNCHANGED <<recByKey, flat>> /\ ~IsMeta(e) /\ ~IsRecord(e)
      BY <2>5 DEF SkipEntry
    <3> QED BY <2>1, <2>2, <3>1 DEF Gathered, Items, Early
  <2>6. CASE IngestMeta(e)
    <3>1. IsMeta(e) /\ flat' = Append(flat, MetaItem(e)) /\ recByKey' = recByKey
      BY <2>6 DEF IngestMeta
    <3>2. Items' = Items \cup {MetaItem(e)} BY <2>3, <3>1, Added
    <3>3. \A x \in Items' : \E o \in Yielded' : From(x, o)
      BY <2>1, <3>1, <3>2 DEF Gathered, From
    <3> QED BY <2>1, <2>2, <2>3, <2>4, <3>1, <3>2, <3>3 DEF Gathered, Early
  <2>7. CASE IngestRecord(e)
    <3> DEFINE new == RecordItem(e)
    <3>1. /\ IsRecord(e) /\ flat' = Append(flat, new)
          /\ recByKey' = {r \in recByKey : \/ r.host # new.host
                                           \/ r.script # new.script
                                           \/ r.seq # new.seq} \cup {new}
      BY <2>7 DEF IngestRecord
    <3>2. Items' = Items \cup {new} BY <2>3, <3>1, Added
    <3>3. \A x \in Items' : \E o \in Yielded' : From(x, o)
      BY <2>1, <3>1, <3>2 DEF Gathered, From
    <3>4. ASSUME NEW r \in recByKey, r.seq = new.seq PROVE r = new
      <4>1. PICK i \in DOMAIN flat : r = flat[i] BY DEF Gathered, Items
      <4>2. PICK o \in EntriesOf(Files) : From(r, o) BY <4>1 DEF Stems
      <4>3. o.seq = e.seq BY <2>3, <3>4, <4>2 DEF From, MetaItem, RecordItem
      <4>4. o = e BY <4>3, OneEntry DEF Stems, ReadInv
      <4> QED BY <2>4, <3>1, <4>2, <4>4 DEF From
    <3>5. recByKey' = recByKey \cup {new} BY <3>1, <3>4
    <3>6. recByKey' = {x \in Items' : ~x.meta}
      BY <2>3, <3>2, <3>5 DEF Gathered
    <3>7. \A o \in Yielded' : IsRecord(o) => RecordItem(o) \in Items'
      BY <2>1, <3>2 DEF Gathered
    <3> QED BY <2>2, <3>3, <3>6, <3>7 DEF Gathered, Early
  <2> QED BY <2>1, <2>5, <2>6, <2>7
<1>2. ASSUME yielded' = <<>>, pc = "open", pc' = "iter", UNCHANGED reader PROVE Gathered'
  <2>1. Yielded' = {} BY <1>2 DEF Yielded
  <2>2. flat = <<>> /\ phase = "ingest" BY <1>2 DEF Gathered, Early
  <2>3. Items' = {} /\ Items = {} BY <1>2, <2>2 DEF Items, reader
  <2> QED BY <1>2, <2>1, <2>2, <2>3 DEF Gathered, reader, Early
<1>3. ASSUME UNCHANGED <<yielded, flat, recByKey>> 
      PROVE  UNCHANGED <<Yielded, Items, recByKey, flat>>
  BY <1>3 DEF Yielded, Items
<1>4. ASSUME yielded' = yielded, pc \in {"new", "scan"}, pc' \in {"scan", "open", "failed"},
             UNCHANGED reader
      PROVE  Gathered'
  BY <1>3, <1>4 DEF Gathered, reader, Early
<1>5. CASE IngestDone
  <2>1. /\ UNCHANGED <<yielded, flat, recByKey>> /\ pc' = "done" /\ phase' = "batches"
    BY <1>5 DEF IngestDone, Exhausted, iteration
  <2> QED BY <1>3, <2>1 DEF Gathered, Early, Late
<1>6. ASSUME yielded' = yielded, pc' = pc \/ (phase = "ready" /\ pc' = "closed"),
             VisitItem \/ BatchesDone \/ Aside
      PROVE  Gathered'
  <2>1. UNCHANGED <<yielded, flat, recByKey>>
    BY <1>6 DEF VisitItem, BatchesDone, Aside, reader
  <2>2. phase' = phase \/ (phase \in Late /\ phase' \in Late /\ pc' = pc)
    BY <1>6 DEF VisitItem, BatchesDone, Aside, reader, vars, Late
  <2> QED BY <1>3, <1>6, <2>1, <2>2 DEF Gathered, Early, Late
<1>7. CASE IngestRaises
  <2>1. PICK e \in rest : rest' = rest \ {e} /\ Yielded' = Yielded \cup {e}
    BY <1>7, YieldStep DEF ReadInv, BrowserInv, IngestRaises
  <2>2. /\ Overflows(e) /\ phase' = "failed" /\ UNCHANGED <<recByKey, flat>>
        /\ pc' = "iter"
    BY <1>7, <2>1 DEF IngestRaises, YieldRecord
  <2>3. ~IsRecord(e) BY <2>2 DEF Overflows, IsRecord
  <2> QED BY <2>1, <2>2, <2>3 DEF Gathered, Items, Early, Late
<1> QED BY <1>1, <1>2, <1>4, <1>5, <1>6, <1>7, Moves

\* Once all is read of what a stopped browser left, the newest record of a key
\* is what the key had.
Settled ==
  phase \in Late /\ ~LiveBrowser =>
    \A k \in Keys : \A e \in NewestOf(snap, k) : e.live => e \in NewestOf(Yielded, k)

LEMMA NextSettled ==
  NewestIsCurrent' /\ Gathered /\ Settled /\ [LsNext]_lsVars => Settled'
<1> SUFFICES ASSUME NewestIsCurrent', Gathered, Settled, [LsNext]_lsVars PROVE Settled'
  OBVIOUS
<1>1. CASE phase' \in {"ingest", "failed"} BY <1>1 DEF Settled, Late
<1>2. CASE IngestDone
  <2>1. pc' = "done" BY <1>2 DEF IngestDone, Exhausted
  <2>2. ASSUME ~LiveBrowser, NEW k \in Keys, NEW e \in NewestOf(snap, k)', e.live
        PROVE  e \in NewestOf(Yielded, k)'
    BY <2>1, <2>2 DEF NewestIsCurrent
  <2> QED BY <2>2 DEF Settled
<1>3. CASE phase \in Late /\ UNCHANGED <<yielded, snap>>
  <2>1. UNCHANGED <<Yielded, snap>> BY <1>3 DEF Yielded
  <2> QED BY <1>3, <2>1 DEF Settled, NewestOf
<1>4. CASE phase \notin Late /\ UNCHANGED reader BY <1>4 DEF reader, Settled
<1>5. CASE Ingest \/ IngestRaises BY <1>1, <1>5 DEF Ingest, IngestRaises
<1>6. phase \in Late => pc \notin {"new", "scan"} BY DEF Gathered
<1>7. ASSUME VisitItem \/ BatchesDone \/ Aside, UNCHANGED <<yielded, snap>> PROVE Settled'
  <2>1. phase \notin Late => UNCHANGED reader
    BY <1>7 DEF VisitItem, BatchesDone, Aside, Late
  <2> QED BY <1>3, <1>4, <1>7, <2>1
<1> QED BY <1>2, <1>4, <1>5, <1>6, <1>7, Moves DEF Late

(***************************************************************************)
(* Batches are whole                                                       *)
(***************************************************************************)
Clean == ~LiveBrowser /\ Obsolete = {}

\* The directory of a stopped browser stays clean or not, from the time it is
\* listed.
LEMMA CleanStays ==
  ASSUME ReadInv, [LsNext]_lsVars, Clean'
  PROVE  pc = "new" \/ Clean
<1>1. CASE UNCHANGED browser BY <1>1 DEF browser, Clean, Obsolete, Version
<1>2. CASE AnyWrite \/ Maintain
  <2>1. up BY <1>2, BrowserStep DEF ReadInv
  <2> QED BY <2>1 DEF ReadInv, Quiet, Clean
<1>3. UNCHANGED vars => UNCHANGED browser BY DEF vars, browser
<1> QED BY <1>1, <1>2, <1>3, LsAny, ReaderPassive DEF AnyNext

\* Without obsolete files no item comes twice.
Distinct ==
  Clean => \A i, j \in DOMAIN flat : flat[i].seq = flat[j].seq => i = j

LEMMA NextDistinct ==
  ReadInv /\ LsTypes /\ Stems /\ Gathered /\ Distinct /\ [LsNext]_lsVars => Distinct'
<1> SUFFICES ASSUME ReadInv, LsTypes, Stems, Gathered, Distinct, [LsNext]_lsVars, Clean'
             PROVE  \A i, j \in DOMAIN flat' : flat'[i].seq = flat'[j].seq => i = j
  BY DEF Distinct
<1>1. CASE flat' = flat
  <2>1. CASE Clean BY <1>1, <2>1 DEF Distinct
  <2>2. CASE pc = "new"
    <3>1. DOMAIN flat' = {} BY <1>1, <2>2 DEF Gathered, Early
    <3> QED BY <3>1
  <2> QED BY <2>1, <2>2, CleanStays
<1>2. CASE Ingest
  <2>1. PICK e \in rest : /\ Yielded' = Yielded \cup {e}
                          /\ IngestMeta(e) \/ IngestRecord(e) \/ SkipEntry(e)
                          /\ e \in Entry
    BY <1>2, IngestOne
  <2>2. pc = "iter" BY <1>2 DEF Ingest, YieldRecord
  <2>3. Clean BY <2>2, CleanStays
  <2>4. Once /\ Yielded \subseteq EntriesOf(Files)
    BY <2>2, <2>3 DEF ReadInv, Quiet, AllRead, Clean, EntriesOf, BrowserInv, TypeInv, TypeOK
  <2>5. e \notin Yielded /\ e \in EntriesOf(Files) BY <2>4 DEF Once, Stems
  <2>6. ASSUME NEW i \in DOMAIN flat PROVE flat[i].seq # e.seq
    <3>1. PICK o \in Yielded : From(flat[i], o) BY DEF Gathered, Items
    <3>2. flat[i].seq = o.seq BY <3>1 DEF From, MetaItem, RecordItem
    <3> QED BY <2>4, <2>5, <3>2, OneEntry DEF ReadInv
  <2>7. CASE flat' # flat
    <3>1. PICK x \in Item : flat' = Append(flat, x) /\ x.seq = e.seq
      BY <2>1, <2>7, ItemTypes DEF IngestMeta, IngestRecord, SkipEntry, MetaItem, RecordItem
    <3>2. /\ Len(flat) \in Nat /\ DOMAIN flat = 1..Len(flat)
          /\ DOMAIN flat' = 1..Len(flat) + 1
          /\ \A i \in 1..Len(flat) : flat'[i] = flat[i]
          /\ flat'[Len(flat) + 1] = x
      BY <3>1, Added
    <3>3. DOMAIN flat' = DOMAIN flat \cup {Len(flat) + 1} BY <3>2
    <3> QED BY <2>3, <2>6, <3>1, <3>2, <3>3 DEF Distinct
  <2> QED BY <1>1, <2>7
<1> QED BY <1>1, <1>2, Moves
        DEF IngestRaises, IngestDone, VisitItem, BatchesDone, Aside, reader

\* The items that _build_batches has visited come before those it has not, and
\* the batch being built ends with the last of them.
Visited == DOMAIN flat \ rem

Passed ==
  phase = "batches" =>
    /\ \A i \in Visited, j \in rem : flat[i].seq <= flat[j].seq
    /\ current # NoMeta =>
         /\ \E i \in Visited : flat[i].seq = currentEnd
         /\ \A i \in Visited : flat[i].seq <= currentEnd

\* No record of the host follows the number.
Ended(host, end) == \A x \in Items : ~x.meta /\ x.host = host => x.seq # end + 1

Whole == Clean => \A s \in DOMAIN batches : Ended(batches[s].host, batches[s].end)

LEMMA VisitWhole ==
  ASSUME ReadInv, LsTypes, RunInv, Distinct, Passed, Whole, VisitItem
  PROVE  Passed' /\ Whole'
<1>1. PICK i \in rem :
        /\ \A j \in rem : Comes(i, j)
        /\ rem' = rem \ {i}
        /\ \/ StartBatch(flat[i])
           \/ Ignore(flat[i])
           \/ EndBatch(flat[i])
           \/ ExtendBatch(flat[i])
        /\ phase = "batches" /\ phase' = phase /\ flat' = flat
        /\ UNCHANGED vars
  BY DEF VisitItem
<1> DEFINE item == flat[i]
<1>2. /\ i \in DOMAIN flat /\ item \in Items
      /\ \A j \in DOMAIN flat : flat[j].seq \in Nat
      /\ \A j \in rem : item.seq <= flat[j].seq
  <2>1. i \in DOMAIN flat /\ rem \subseteq DOMAIN flat /\ flat \in Seq(Item) BY DEF LsTypes
  <2>2. \A j \in DOMAIN flat : flat[j] \in Item BY <2>1, ElementOfSeq, LenProperties
  <2>3. \A j \in DOMAIN flat : flat[j].seq \in Nat BY <2>2 DEF Item
  <2>4. \A j \in rem : flat[i].seq <= flat[j].seq BY <1>1, <2>1, <2>3 DEF Comes
  <2> QED BY <2>1, <2>3, <2>4 DEF Items
<1>3. Visited' = Visited \cup {i} /\ i \notin Visited
  BY <1>1, <1>2 DEF Visited
<1>4. \A j \in Visited : flat[j].seq <= item.seq BY <1>1 DEF Passed
<1>5. current # NoMeta => currentEnd \in Nat /\ current.seq \in Nat
  BY DEF LsTypes, Meta
<1>6. Items' = Items /\ Clean' = Clean
  BY <1>1 DEF Items, Clean, Obsolete, Version, vars
<1>7. ASSUME Clean, current # NoMeta, NEW x \in Items, x.seq = currentEnd + 1
      PROVE  x = item
  <2>1. PICK j \in DOMAIN flat : x = flat[j] BY DEF Items
  <2>2. PICK v \in Visited : flat[v].seq = currentEnd BY <1>1, <1>7 DEF Passed
  <2>3. j \notin Visited BY <1>1, <1>2, <1>5, <1>7, <2>1 DEF Passed
  <2>4. item.seq <= x.seq BY <1>2, <2>1, <2>3 DEF Visited
  <2>5. currentEnd <= item.seq /\ v # i /\ v \in DOMAIN flat
    BY <1>3, <1>4, <2>2 DEF Visited
  <2>6. item.seq # currentEnd BY <1>2, <1>7, <2>2, <2>5 DEF Distinct
  <2>7. item.seq = x.seq BY <1>2, <1>5, <1>7, <2>1, <2>4, <2>5, <2>6
  <2> QED BY <1>2, <1>7, <2>1, <2>7 DEF Distinct
<1> HIDE DEF item
<1>8. ASSUME Clean, current # NoMeta, item.meta \/ ~Continues(item)
      PROVE  Ended(current.host, currentEnd)
  <2> SUFFICES ASSUME NEW x \in Items, ~x.meta, x.host = current.host,
                      x.seq = currentEnd + 1
               PROVE  FALSE
    BY DEF Ended
  <2>1. x = item BY <1>7, <1>8
  <2> QED BY <1>5, <1>8, <2>1 DEF Continues
<1>9. ASSUME Clean, current # NoMeta, item.meta \/ ~Continues(item)
      PROVE  \A s \in DOMAIN WithBuilt : Ended(WithBuilt[s].host, WithBuilt[s].end)
  BY <1>8, <1>9 DEF Whole, WithBuilt, Built
<1>10. Whole'
  <2>1. ASSUME Clean PROVE \A s \in DOMAIN batches' : Ended(batches'[s].host, batches'[s].end)
    <3>1. batches' = batches \/ /\ batches' = WithBuilt /\ current # NoMeta
                                /\ item.meta \/ ~Continues(item)
      BY <1>1 DEF StartBatch, Ignore, EndBatch, ExtendBatch, item
    <3> QED BY <1>9, <2>1, <3>1 DEF Whole
  <2> QED BY <1>6, <2>1 DEF Whole, Ended
<1>11. \A v \in Visited', j \in rem' : flat[v].seq <= flat[j].seq
  BY <1>1, <1>2, <1>3 DEF Passed, item
<1>12. current' = NoMeta \/ currentEnd' = item.seq
  BY <1>1 DEF StartBatch, Ignore, EndBatch, ExtendBatch, item
<1>13. (\E v \in Visited' : flat[v].seq = item.seq) /\ \A v \in Visited' : flat[v].seq <= item.seq
  BY <1>2, <1>3, <1>4 DEF item
<1>14. Passed' BY <1>1, <1>11, <1>12, <1>13 DEF Passed
<1> QED BY <1>10, <1>14

LEMMA NextWhole ==
  ReadInv /\ LsTypes /\ RunInv /\ Gathered /\ Distinct /\ Passed /\ Whole
    /\ [LsNext]_lsVars => Passed' /\ Whole'
<1> SUFFICES ASSUME ReadInv, LsTypes, RunInv, Gathered, Distinct, Passed, Whole,
                    [LsNext]_lsVars
             PROVE  Passed' /\ Whole'
  OBVIOUS
<1>1. CASE phase' \in {"ingest", "failed"}
  <2>1. UNCHANGED batches /\ phase \in {"ingest", "failed"}
    BY <1>1, LsCases
       DEF Ingest, IngestRaises, IngestDone, VisitItem, BatchesDone, Aside, reader
  <2>2. DOMAIN batches' = {} BY <2>1 DEF RunInv
  <2> QED BY <1>1, <2>2 DEF Passed, Whole
<1>2. CASE IngestDone
  <2>1. phase = "ingest" /\ UNCHANGED <<flat, current, batches>> /\ rem' = DOMAIN flat
    BY <1>2 DEF IngestDone
  <2>2. DOMAIN batches' = {} /\ current' = NoMeta BY <2>1 DEF RunInv
  <2>3. Visited' = {} BY <2>1 DEF Visited
  <2> QED BY <2>2, <2>3 DEF Passed, Whole, NoMeta
<1>3. CASE VisitItem BY <1>3, VisitWhole
<1>4. CASE BatchesDone
  <2>1. /\ phase = "batches" /\ rem = {} /\ phase' = "ready"
        /\ batches' = IF current = NoMeta THEN batches ELSE WithBuilt
        /\ UNCHANGED <<flat, vars>>
    BY <1>4 DEF BatchesDone
  <2>2. Items' = Items /\ Clean' = Clean
    BY <2>1 DEF Items, Clean, Obsolete, Version, vars
  <2>3. ASSUME current # NoMeta PROVE Ended(current.host, currentEnd)
    <3>1. \A i \in DOMAIN flat : flat[i].seq <= currentEnd
      BY <2>1, <2>3 DEF Passed, Visited
    <3>2. \A i \in DOMAIN flat : flat[i] \in Item
      BY ElementOfSeq, LenProperties DEF LsTypes
    <3>3. \A i \in DOMAIN flat : flat[i].seq \in Nat BY <3>2 DEF Item
    <3>4. currentEnd \in Nat BY DEF LsTypes
    <3> QED BY <3>1, <3>3, <3>4 DEF Ended, Items
  <2>4. ASSUME Clean PROVE \A s \in DOMAIN batches' : Ended(batches'[s].host, batches'[s].end)
    BY <2>1, <2>3, <2>4 DEF Whole, WithBuilt, Built
  <2> QED BY <2>1, <2>2, <2>4 DEF Passed, Whole, Ended
<1>5. CASE Aside /\ phase' \notin {"ingest", "failed"}
  <2>1. UNCHANGED <<phase, flat, rem, current, currentEnd, batches>>
    BY <1>5 DEF Aside, reader
  <2>2. pc # "new" BY <1>5, <2>1 DEF Gathered, Early
  <2>3. Clean' => Clean BY <2>2, CleanStays
  <2>4. Items' = Items /\ Visited' = Visited BY <2>1 DEF Items, Visited
  <2>5. Whole' BY <2>1, <2>3, <2>4 DEF Whole, Ended
  <2>6. Passed' BY <2>1, <2>4 DEF Passed, NoMeta
  <2> QED BY <2>5, <2>6
<1>6. Ingest \/ IngestRaises => phase' \in {"ingest", "failed"}
  BY DEF Ingest, IngestRaises
<1> QED BY <1>1, <1>2, <1>3, <1>4, <1>5, <1>6, LsCases

LsReadInv == ReadInv /\ Gathered /\ Settled /\ Distinct /\ Passed /\ Whole

LEMMA LsReadCorrect == LsSpec => [](LsInv /\ LsReadInv)
<1>1. LsSpec => []ReadInv BY LsInitTypes, InitRead, NextRead, LsAny, PTL DEF LsSpec
<1>2. LsSpec => []NewestIsCurrent BY <1>1, NewestNow, PTL
<1>3. LsInit => Gathered /\ Settled /\ Distinct /\ Passed /\ Whole
  BY DEF LsInit, Init, Gathered, Settled, Distinct, Passed, Whole, Early, Late,
         Items, Yielded
<1>4. /\ ReadInv /\ LsInv /\ NewestIsCurrent' /\ [LsNext]_lsVars
      /\ Gathered /\ Settled /\ Distinct /\ Passed /\ Whole
      => (Gathered /\ Settled /\ Distinct /\ Passed /\ Whole)'
  BY NextGathered, NextSettled, NextDistinct, NextWhole DEF LsInv
<1> QED BY <1>1, <1>2, <1>3, <1>4, LsCorrect, PTL DEF LsSpec, LsReadInv

\* What a key of localStorage had when the browser stopped is among the records
\* that records() gives of its storage key and script key, and none of them has
\* a higher sequence number: whatever was merged, dropped or left behind, and
\* whatever an entry of _rec_by_key replaced.
THEOREM CurrentAlwaysVisible == LsSpec => []CurrentVisible
<1>1. ASSUME LsReadInv PROVE CurrentVisible
  <2> SUFFICES ASSUME phase = "ready", ~LiveBrowser, NEW k \in Keys,
                      NEW e \in NewestOf(snap, k), e.live, IsRecord(e)
               PROVE  LET mine == Records({Meaning[k].host}, {Meaning[k].script}, TRUE)
                      IN  /\ RecordItem(e) \in mine
                          /\ \A r \in mine : r.seq <= e.seq
    BY DEF CurrentVisible
  <2>1. e \in Yielded /\ e.key = k /\ \A o \in Yielded : o.key = k => o.seq <= e.seq
    BY <1>1 DEF LsReadInv, Settled, NewestOf, Late
  <2>2. recByKey = {x \in Items : ~x.meta} /\ RecordItem(e) \in Items
    BY <1>1, <2>1 DEF LsReadInv, Gathered
  <2>3. RecordItem(e) \in Records({Meaning[k].host}, {Meaning[k].script}, TRUE)
    BY <2>1, <2>2 DEF Records, RecordItem
  <2>4. ASSUME NEW r \in Records({Meaning[k].host}, {Meaning[k].script}, TRUE)
        PROVE  r.seq <= e.seq
    <3>1. /\ r \in Items /\ ~r.meta /\ r.host = Meaning[k].host
          /\ r.script = Meaning[k].script
      BY <2>2 DEF Records
    <3>2. PICK o \in Yielded : From(r, o) BY <1>1, <3>1 DEF LsReadInv, Gathered
    <3>3. /\ IsRecord(o) /\ r.seq = o.seq
          /\ Meaning[o.key].host = Meaning[k].host /\ Meaning[o.key].script = Meaning[k].script
      BY <3>1, <3>2 DEF From, MetaItem, RecordItem
    <3>4. o.key \in Keys
      <4>1. yielded \in Seq(Entry)
        BY <1>1 DEF LsReadInv, ReadInv, BrowserInv, TypeInv, TypeOK
      <4>2. \A i \in DOMAIN yielded : yielded[i] \in Entry
        BY <4>1, ElementOfSeq, LenProperties
      <4> QED BY <4>2 DEF Yielded, Entry
    <3>5. Meaning[o.key].kind = "record" /\ Meaning[k].kind = "record"
      BY <2>1, <3>3 DEF IsRecord
    <3>6. Meaning[o.key] = Meaning[k] BY <3>3, <3>4, <3>5, LocalStorageConstants
    <3>7. o.key = k BY <3>4, <3>5, <3>6, LocalStorageConstants
    <3> QED BY <2>1, <3>3, <3>7
  <2> QED BY <2>3, <2>4
<1> QED BY <1>1, LsReadCorrect, PTL

\* Of a stopped browser's directory without obsolete files, no batch of
\* _build_batches ends before a record of its storage key at the next number:
\* nothing the browser wrote in one batch after its META is left out.
THEOREM BatchesWhole == LsSpec => []WholeRunIfClean
<1>1. ASSUME LsReadInv PROVE WholeRunIfClean
  BY <1>1 DEF LsReadInv, Whole, Clean, Ended, Gathered, WholeRunIfClean, WholeRun
<1> QED BY <1>1, LsReadCorrect, PTL
=============================================================================
