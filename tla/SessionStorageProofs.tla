------------------------- MODULE SessionStorageProofs -------------------------
(***************************************************************************)
(* What holds of SessionStorage for every set of namespaces, storage keys, *)
(* maps and script keys: its types, and that a datum is never shown under  *)
(* an origin other than the one that stored it.                            *)
(***************************************************************************)
EXTENDS SessionStorage, RawLevelDbProofs

(***************************************************************************)
(* The batches of the browser                                              *)
(***************************************************************************)
LEMMA NamespaceKeys ==
  ASSUME NEW ns \in Namespaces, NEW h \in Hosts
  PROVE  LET k == NamespaceKey(ns, h)
         IN  k \in Keys /\ Meaning[k].kind = "namespace" /\ Meaning[k].host = h
<1> DEFINE x == [kind |-> "namespace", ns |-> ns, host |-> h]
<1>1. \E k \in Keys : Meaning[k] = x
  BY SessionStorageConstants DEF NamespaceMeaning
<1>2. NamespaceKey(ns, h) \in Keys /\ Meaning[NamespaceKey(ns, h)] = x
  BY <1>1 DEF NamespaceKey
<1>3. x.kind = "namespace" /\ x.host = h OBVIOUS
<1> QED BY <1>2, <1>3

LEMMA MapKeys ==
  ASSUME NEW m \in MapIds, NEW s \in Scripts
  PROVE  LET k == MapKey(m, s)
         IN  k \in Keys /\ Meaning[k].kind = "map"
<1> DEFINE x == [kind |-> "map", map |-> m, script |-> s]
<1>1. \E k \in Keys : Meaning[k] = x BY SessionStorageConstants DEF MapMeaning
<1>2. MapKey(m, s) \in Keys /\ Meaning[MapKey(m, s)] = x BY <1>1 DEF MapKey
<1>3. x.kind = "map" OBVIOUS
<1> QED BY <1>2, <1>3

\* What the kind of a key says of its parts.
LEMMA Kinds ==
  ASSUME NEW k \in Keys
  PROVE  /\ Meaning[k].kind = "namespace" =>
              Meaning[k].ns \in Namespaces /\ Meaning[k].host \in Hosts
         /\ Meaning[k].kind = "map" =>
              Meaning[k].map \in MapIds /\ Meaning[k].script \in Scripts
BY SessionStorageConstants DEF NamespaceMeaning, MapMeaning

LEMMA OpTypes ==
  ASSUME NEW k \in Keys
  PROVE  /\ \A v \in Values : Put(k, v) \in Op
         /\ Delete(k) \in Op
BY SessionStorageConstants DEF Put, Delete, Op

IsBinding(e) == Meaning[e.key].kind = "namespace" /\ e.live
HostOf(e) == Meaning[e.key].host

\* A binding is of a map, and all those of a map are of one storage key.
OneHost ==
  /\ \A e \in Written : IsBinding(e) => e.value \in MapIds
  /\ \A e, o \in Written :
       IsBinding(e) /\ IsBinding(o) /\ e.value = o.value => HostOf(e) = HostOf(o)

\* A batch binds a map to the storage key it was bound to before, or binds a
\* map that is new to one storage key.
Rebinds(o) ==
  \E e \in Written : IsBinding(e) /\ e.value = o.value /\ HostOf(e) = HostOf(o)

Safe(batch) ==
  /\ batch \in Seq(Op)
  /\ \A i \in DOMAIN batch : IsBinding(batch[i]) =>
       Rebinds(batch[i]) \/ batch[i].value \in NewMaps
  /\ \A i, j \in DOMAIN batch :
       IsBinding(batch[i]) /\ IsBinding(batch[j]) /\ batch[i].value = batch[j].value
         => Rebinds(batch[i]) \/ HostOf(batch[i]) = HostOf(batch[j])

\* A set of operations none of which binds a map is safe to write, and so is
\* one whose bindings are all of maps bound before.
LEMMA SafeSet ==
  ASSUME NEW S \in SUBSET Op, IsFiniteSet(S), \A o \in S : IsBinding(o) => Rebinds(o)
  PROVE  Safe(SetToSeq(S))
BY Listed DEF Safe

LEMMA SafeOne ==
  ASSUME NEW o \in Op, IsBinding(o) => Rebinds(o) \/ o.value \in NewMaps
  PROVE  Safe(<<o>>)
BY DEF Safe

\* A map that a look-up finds was bound to the storage key looked up.
LEMMA BoundWritten ==
  ASSUME BrowserInv, OneHost, NEW ns \in Namespaces, NEW h \in Hosts, NEW m \in Bound(ns, h)
  PROVE  /\ m \in MapIds /\ m \in Values
         /\ \E e \in Written : /\ IsBinding(e) /\ e.value = m /\ HostOf(e) = h
                               /\ e.key = NamespaceKey(ns, h)
<1>1. PICK e \in Written : e.live /\ e.key = NamespaceKey(ns, h) /\ e.value = m
  BY DEF Bound, Lookup, NewestOf
<1>2. IsBinding(e) /\ HostOf(e) = h BY <1>1, NamespaceKeys DEF IsBinding, HostOf
<1> QED BY <1>1, <1>2, SessionStorageConstants DEF OneHost

LEMMA DataWritten ==
  ASSUME BrowserInv, NEW m, NEW e \in Data(m)
  PROVE  /\ e \in Written /\ e.key \in Keys /\ e.value \in Values
         /\ Meaning[e.key].kind = "map" /\ Meaning[e.key].script \in Scripts
<1>1. PICK k \in KeysOf(m) : e \in Lookup(k) BY DEF Data
<1>2. e \in Written /\ e.key = k /\ k \in Keys /\ Meaning[k].kind = "map"
  BY <1>1 DEF Lookup, NewestOf, KeysOf
<1>3. e \in Entry BY <1>2, WrittenTypes
<1> QED BY <1>2, <1>3, Kinds DEF Entry

\* CloneNamespace binds the maps of a namespace to the storage keys they have.
LEMMA CloneSafe ==
  ASSUME BrowserInv, OneHost, NEW from \in Namespaces, NEW to \in Namespaces
  PROVE  Safe(SetToSeq(UNION {{Put(NamespaceKey(to, h), m) : m \in Bound(from, h)} :
                                 h \in Areas(from)}))
<1> DEFINE S == UNION {{Put(NamespaceKey(to, h), m) : m \in Bound(from, h)} :
                         h \in Areas(from)}
           B == {e \in Written : IsBinding(e)}
           f == [e \in B |-> Put(NamespaceKey(to, HostOf(e)), e.value)]
<1>1. ASSUME NEW o \in S PROVE o \in Op /\ Rebinds(o) /\ o \in {f[e] : e \in B}
  <2>1. PICK h \in Areas(from) : \E m \in Bound(from, h) : o = Put(NamespaceKey(to, h), m)
    OBVIOUS
  <2>2. PICK m \in Bound(from, h) : o = Put(NamespaceKey(to, h), m) BY <2>1
  <2>3. h \in Hosts BY DEF Areas
  <2>4. m \in Values BY <2>3, BoundWritten
  <2>5. PICK e \in Written : IsBinding(e) /\ e.value = m /\ HostOf(e) = h
    BY <2>3, BoundWritten
  <2>6. NamespaceKey(to, h) \in Keys /\ Meaning[NamespaceKey(to, h)].host = h
    BY <2>3, NamespaceKeys
  <2>7. o \in Op BY <2>2, <2>4, <2>6, OpTypes
  <2>8. o.key = NamespaceKey(to, h) /\ o.value = m BY <2>2 DEF Put
  <2>9. Rebinds(o) BY <2>5, <2>6, <2>8 DEF Rebinds, HostOf
  <2>10. e \in B /\ f[e] = o BY <2>2, <2>5
  <2> QED BY <2>7, <2>9, <2>10
<1>2. IsFiniteSet(B) BY WrittenFinite, FS_Subset
<1>3. IsFiniteSet({f[e] : e \in B})
  <2> HIDE DEF B
  <2>1. f = [e \in B |-> f[e]] OBVIOUS
  <2> HIDE DEF f
  <2> QED BY <1>2, <2>1, FiniteImage
<1> HIDE DEF S, f, B
<1>4. S \in SUBSET Op /\ IsFiniteSet(S) BY <1>1, <1>3, FS_Subset
<1>5. Safe(SetToSeq(S)) BY <1>1, <1>4, SafeSet
<1> QED BY <1>5 DEF S

\* ForkMap binds a new map and copies data.
LEMMA ForkSafe ==
  ASSUME BrowserInv, OneHost, NEW ns \in Namespaces, NEW h \in Hosts, NEW m,
         NewMaps # {}
  PROVE  Safe(SetToSeq({Put(NamespaceKey(ns, h), NewMap)} \cup
           {Put(MapKey(NewMap, Meaning[e.key].script), e.value) : e \in Data(m)}))
<1> DEFINE D == Data(m)
           f == [e \in D |-> Put(MapKey(NewMap, Meaning[e.key].script), e.value)]
           bind == Put(NamespaceKey(ns, h), NewMap)
           S == {bind} \cup {f[e] : e \in D}
<1>1. NewMap \in NewMaps BY DEF NewMap
<1>2. NewMap \in MapIds /\ NewMap \in Values
  BY <1>1, SessionStorageConstants DEF NewMaps
<1>3. bind \in Op /\ bind.value = NewMap /\ bind.key = NamespaceKey(ns, h)
  BY <1>2, NamespaceKeys, OpTypes DEF Put
<1>4. ASSUME NEW e \in D PROVE f[e] \in Op /\ ~IsBinding(f[e])
  <2> DEFINE k == MapKey(NewMap, Meaning[e.key].script)
  <2>1. e.value \in Values /\ Meaning[e.key].script \in Scripts BY DataWritten
  <2>2. k \in Keys /\ Meaning[k].kind = "map" BY <1>2, <2>1, MapKeys
  <2>3. f[e] = Put(k, e.value) OBVIOUS
  <2>4. f[e] \in Op /\ f[e].key = k BY <2>1, <2>2, <2>3, OpTypes DEF Put
  <2> QED BY <2>2, <2>4 DEF IsBinding
<1>5. D \subseteq Written BY DataWritten
<1>6. IsFiniteSet(D)
  <2> HIDE DEF D
  <2> QED BY <1>5, WrittenFinite, FS_Subset
<1>7. IsFiniteSet({f[e] : e \in D})
  <2> HIDE DEF D
  <2>1. f = [e \in D |-> f[e]] OBVIOUS
  <2> HIDE DEF f
  <2> QED BY <1>6, <2>1, FiniteImage
<1>8. S = {bind} \cup {Put(MapKey(NewMap, Meaning[e.key].script), e.value) : e \in D}
  OBVIOUS
<1> HIDE DEF f, D, bind
<1>9. S \in SUBSET Op /\ IsFiniteSet(S)
  <2>1. IsFiniteSet({f[e] : e \in D} \cup {bind}) BY <1>7, FS_AddElement
  <2> QED BY <1>3, <1>4, <2>1
<1>10. \A o \in S : IsBinding(o) => o = bind BY <1>4
<1> HIDE DEF S
<1>11. Safe(SetToSeq(S)) BY <1>1, <1>3, <1>9, <1>10, Listed DEF Safe
<1> QED BY <1>8, <1>11 DEF bind, D

\* DeleteNamespace only deletes what was written.
LEMMA DeleteSafe ==
  ASSUME BrowserInv, NEW S, \A o \in S : \E e \in Written : o = Delete(e.key)
  PROVE  Safe(SetToSeq(S))
<1> DEFINE f == [e \in Written |-> Delete(e.key)]
<1>1. f = [e \in Written |-> f[e]] OBVIOUS
<1>2. S \subseteq {f[e] : e \in Written} OBVIOUS
<1>3. IsFiniteSet(S)
  <2> HIDE DEF f
  <2>1. IsFiniteSet({f[e] : e \in Written}) BY <1>1, WrittenFinite, FiniteImage
  <2> QED BY <1>2, <2>1, FS_Subset
<1>4. ASSUME NEW o \in S PROVE o \in Op /\ ~IsBinding(o)
  <2>1. PICK e \in Written : o = Delete(e.key) OBVIOUS
  <2>2. e.key \in Keys BY WrittenTypes DEF Entry
  <2> QED BY <2>1, <2>2, OpTypes DEF IsBinding, Delete
<1> QED BY <1>3, <1>4, SafeSet

\* Every batch that Browse writes is safe.
LEMMA BrowseSafe ==
  ASSUME BrowserInv, OneHost, Browse
  PROVE  \E batch : Safe(batch) /\ Write(batch)
<1> DEFINE Goal == \E batch : Safe(batch) /\ Write(batch)
<1>1. ASSUME NEW ns \in Namespaces, DeleteNamespace(ns) PROVE Goal
  <2> DEFINE alone == {m \in UNION {Bound(ns, h) : h \in Areas(ns)} : ~Shared(m)}
             data == UNION {Data(m) : m \in alone}
             S == {Delete(NamespaceKey(ns, h)) : h \in Areas(ns)}
                    \cup {Delete(e.key) : e \in data}
  <2>1. Write(SetToSeq(S)) BY <1>1 DEF DeleteNamespace
  <2>2. \A h \in Areas(ns) : \E e \in Written : e.key = NamespaceKey(ns, h)
    BY DEF Areas, Bound, Lookup, NewestOf
  <2>3. data \subseteq Written BY DataWritten
  <2>4. \A o \in S : \E e \in Written : o = Delete(e.key) BY <2>2, <2>3
  <2> HIDE DEF S
  <2> QED BY <2>1, <2>4, DeleteSafe
<1>2. ASSUME NEW from \in Namespaces, NEW to \in Namespaces, CloneNamespace(from, to)
      PROVE  Goal
  BY <1>2, CloneSafe DEF CloneNamespace
<1>3. ASSUME NEW ns \in Namespaces, NEW h \in Hosts, OpenArea(ns, h) PROVE Goal
  <2> DEFINE o == Put(NamespaceKey(ns, h), NewMap)
  <2>1. Write(<<o>>) /\ NewMap \in NewMaps BY <1>3 DEF OpenArea, NewMap
  <2>2. NewMap \in Values BY <2>1, SessionStorageConstants DEF NewMaps
  <2>3. o \in Op /\ o.value = NewMap BY <2>2, NamespaceKeys, OpTypes DEF Put
  <2> HIDE DEF o
  <2> QED BY <2>1, <2>3, SafeOne
<1>4. ASSUME NEW ns \in Namespaces, NEW h \in Hosts, ForkMap(ns, h) PROVE Goal
  BY <1>4, ForkSafe DEF ForkMap
<1>5. ASSUME NEW ns \in Namespaces, NEW h \in Hosts, NEW s \in Scripts, NEW m \in Bound(ns, h),
             NEW o \in Op, o.key = MapKey(m, s), Write(<<o>>)
      PROVE  Goal
  <2>1. Meaning[o.key].kind = "map" BY <1>5, BoundWritten, MapKeys
  <2>2. ~IsBinding(o) BY <2>1 DEF IsBinding
  <2> QED BY <1>5, <2>2, SafeOne
<1>6. ASSUME NEW ns \in Namespaces, NEW h \in Hosts, NEW s \in Scripts, NEW m \in Bound(ns, h)
      PROVE  /\ MapKey(m, s) \in Keys
             /\ Delete(MapKey(m, s)) \in Op /\ Delete(MapKey(m, s)).key = MapKey(m, s)
             /\ \A v \in Values : /\ Put(MapKey(m, s), v) \in Op
                                  /\ Put(MapKey(m, s), v).key = MapKey(m, s)
  <2>1. MapKey(m, s) \in Keys BY BoundWritten, MapKeys
  <2> QED BY <2>1, OpTypes DEF Put, Delete
<1>7. ASSUME NEW ns \in Namespaces, NEW h \in Hosts, NEW s \in Scripts, RemoveItem(ns, h, s)
      PROVE  Goal
  <2>1. PICK m \in Bound(ns, h) : Write(<<Delete(MapKey(m, s))>>) BY <1>7 DEF RemoveItem
  <2> QED BY <1>5, <1>6, <2>1
<1>8. ASSUME NEW ns \in Namespaces, NEW h \in Hosts, NEW s \in Scripts,
             NEW v \in Values \ MapIds, SetItem(ns, h, s, v)
      PROVE  Goal
  <2>1. PICK m \in Bound(ns, h) : Write(<<Put(MapKey(m, s), v)>>) BY <1>8 DEF SetItem
  <2> QED BY <1>5, <1>6, <2>1
<1> QED BY <1>1, <1>2, <1>3, <1>4, <1>7, <1>8 DEF Browse

\* SessionStorageReader and its browser do to the directory what RawLevelDb
\* and a browser that writes any batches do.
LEMMA SsStep == BrowserInv /\ OneHost /\ [SsNext]_ssVars => [AnyNext]_vars
<1> SUFFICES ASSUME BrowserInv, OneHost, [SsNext]_ssVars PROVE [AnyNext]_vars OBVIOUS
<1>1. CASE Browse BY <1>1, BrowseSafe DEF Safe, AnyNext, AnyWrite
<1>2. CASE Writes BY <1>2, DbConstants DEF Writes, AnyNext, AnyWrite
<1>3. CASE Ingest BY <1>3 DEF Ingest, AnyNext, Read
<1>4. CASE Maintain \/ Open \/ NextFile \/ Exhausted \/ Close BY <1>4 DEF AnyNext, Read
<1>5. CASE Iterate(FALSE) BY <1>5 DEF AnyNext, Read
<1>6. CASE UNCHANGED ssVars BY <1>6 DEF ssVars
<1> QED BY <1>1, <1>2, <1>3, <1>4, <1>5, <1>6 DEF SsNext

(***************************************************************************)
(* A map has one storage key                                               *)
(***************************************************************************)
LEMMA SafeHost ==
  ASSUME BrowserInv, LogsInv, OneHost, NEW batch, Safe(batch), Write(batch)
  PROVE  OneHost'
<1> DEFINE entry(i) == [key |-> batch[i].key, live |-> batch[i].live,
                        value |-> batch[i].value, seq |-> seq + i]
           new == {entry(i) : i \in DOMAIN batch}
<1>3. Written' = Written \cup new BY BatchWritten
<1>4. \A i \in DOMAIN batch : /\ entry(i).key = batch[i].key
                              /\ entry(i).value = batch[i].value
                              /\ entry(i).live = batch[i].live
  OBVIOUS
<1>5. \A e \in new : \E i \in DOMAIN batch : e = entry(i) OBVIOUS
<1> HIDE DEF entry, new
<1>6. ASSUME NEW e \in new
      PROVE  \E i \in DOMAIN batch : /\ e.value = batch[i].value
                                     /\ IsBinding(e) <=> IsBinding(batch[i])
                                     /\ HostOf(e) = HostOf(batch[i])
                                     /\ Rebinds(e) <=> Rebinds(batch[i])
  BY <1>4, <1>5 DEF IsBinding, HostOf, Rebinds
<1>7. ASSUME NEW e \in new, IsBinding(e) PROVE Rebinds(e) \/ e.value \in NewMaps
  BY <1>6, <1>7 DEF Safe, Rebinds
<1>8. ASSUME NEW e \in Written', IsBinding(e) PROVE e.value \in MapIds
  BY <1>3, <1>7, <1>8 DEF OneHost, Rebinds, NewMaps
<1>9. ASSUME NEW e \in Written', NEW o \in Written',
             IsBinding(e), IsBinding(o), e.value = o.value
      PROVE  HostOf(e) = HostOf(o)
  <2>1. ASSUME NEW x \in Written, IsBinding(x) PROVE x.value \notin NewMaps
    BY <2>1 DEF NewMaps, IsBinding
  <2>2. ASSUME NEW x \in Written, IsBinding(x), NEW y \in new, IsBinding(y),
               x.value = y.value
        PROVE  HostOf(x) = HostOf(y)
    <3>1. Rebinds(y) BY <1>7, <2>1, <2>2
    <3> QED BY <2>2, <3>1 DEF Rebinds, OneHost
  <2>3. CASE e \in Written /\ o \in Written BY <1>9, <2>3 DEF OneHost
  <2>4. CASE e \in Written /\ o \in new BY <1>9, <2>2, <2>4
  <2>5. CASE e \in new /\ o \in Written BY <1>9, <2>2, <2>5
  <2>6. CASE e \in new /\ o \in new
    <3>1. PICK i \in DOMAIN batch : /\ e.value = batch[i].value
                                    /\ IsBinding(e) <=> IsBinding(batch[i])
                                    /\ HostOf(e) = HostOf(batch[i])
                                    /\ Rebinds(e) <=> Rebinds(batch[i])
      BY <1>6, <2>6
    <3>2. PICK j \in DOMAIN batch : /\ o.value = batch[j].value
                                    /\ IsBinding(o) <=> IsBinding(batch[j])
                                    /\ HostOf(o) = HostOf(batch[j])
                                    /\ Rebinds(o) <=> Rebinds(batch[j])
      BY <1>6, <2>6
    <3>3. Rebinds(e) \/ HostOf(e) = HostOf(o) BY <1>9, <3>1, <3>2 DEF Safe
    <3>4. ASSUME Rebinds(e) PROVE HostOf(e) = HostOf(o)
      <4>1. Rebinds(o) /\ Rebinds(e)
        <5>1. PICK x \in Written : IsBinding(x) /\ x.value = e.value BY <3>4 DEF Rebinds
        <5>2. Rebinds(o) BY <1>7, <1>9, <2>1, <2>6, <5>1
        <5> QED BY <3>4, <5>2
      <4> QED BY <1>9, <4>1 DEF Rebinds, OneHost
    <3> QED BY <3>3, <3>4
  <2> QED BY <1>3, <2>3, <2>4, <2>5, <2>6
<1> QED BY <1>8, <1>9 DEF OneHost, IsBinding, HostOf

LEMMA NextOneHost ==
  BrowserInv /\ LogsInv /\ OneHost /\ [SsNext]_ssVars => OneHost'
<1> SUFFICES ASSUME BrowserInv, LogsInv, OneHost, [SsNext]_ssVars PROVE OneHost' OBVIOUS
<1>1. CASE Browse BY <1>1, BrowseSafe, SafeHost
<1>2. CASE Writes
  <2>1. PICK batch \in WriteBatches : Write(batch) BY <1>2 DEF Writes
  <2>2. batch \in Seq(Op) BY DbConstants
  <2>3. \A i \in DOMAIN batch : Meaning[batch[i].key].kind = "other"
    BY SessionStorageConstants
  <2>4. Safe(batch) BY <2>2, <2>3 DEF Safe, IsBinding
  <2> QED BY <2>1, <2>4, SafeHost
<1>3. ASSUME Maintain \/ Open \/ Read \/ Close \/ UNCHANGED vars PROVE OneHost'
  <2>1. Written' \subseteq Written BY <1>3, NothingWritten
  <2> QED BY <2>1 DEF OneHost, IsBinding, HostOf
<1>4. Ingest \/ Iterate(FALSE) \/ NextFile \/ Exhausted => Read BY DEF Ingest, Read
<1>5. CASE UNCHANGED ssVars BY <1>3, <1>5 DEF ssVars
<1> QED BY <1>1, <1>2, <1>3, <1>4, <1>5 DEF SsNext

(***************************************************************************)
(* The reader                                                              *)
(***************************************************************************)
SsTypes ==
  /\ DOMAIN mapToHost \subseteq Values
  /\ \A m \in DOMAIN mapToHost : mapToHost[m] \in Hosts \X Namespaces
  /\ pending \in Seq(PendingEntry)

\* What _map_to_host holds of a map is one of its bindings.
FromBindings ==
  /\ rest \subseteq EntriesOf(Files)
  /\ \A m \in DOMAIN mapToHost : \E e \in Written :
       /\ IsBinding(e) /\ e.value = m
       /\ mapToHost[m] = <<HostOf(e), Meaning[e.key].ns>>

LEMMA IngestCases ==
  ASSUME BrowserInv, Ingest
  PROVE  \E e \in rest : /\ e \in Entry
                         /\ IngestNamespace(e) \/ IngestMap(e) \/ SkipEntry(e)
BY DEF Ingest, BrowserInv, TypeInv, TypeOK

LEMMA SsAside ==
  ASSUME [SsNext]_ssVars
  PROVE  Ingest \/ UNCHANGED <<mapToHost, pending>>
BY DEF SsNext, ssVars, reader

LEMMA NextSsTypes == BrowserInv /\ SsTypes /\ [SsNext]_ssVars => SsTypes'
<1> SUFFICES ASSUME BrowserInv, SsTypes, [SsNext]_ssVars PROVE SsTypes' OBVIOUS
<1>1. CASE UNCHANGED <<mapToHost, pending>> BY <1>1 DEF SsTypes
<1>2. ASSUME NEW e \in Entry, IngestNamespace(e) PROVE SsTypes'
  <2>1. Meaning[e.key].host \in Hosts /\ Meaning[e.key].ns \in Namespaces
    BY <1>2, Kinds DEF IngestNamespace, Entry
  <2>2. e.value \in Values BY DEF Entry
  <2> QED BY <1>2, <2>1, <2>2 DEF IngestNamespace, SsTypes
<1>3. ASSUME NEW e \in Entry, IngestMap(e) PROVE SsTypes'
  <2> DEFINE p == [map |-> Meaning[e.key].map, script |-> Meaning[e.key].script,
                   value |-> e.value, live |-> e.live, seq |-> e.seq]
  <2>1. p \in PendingEntry BY <1>3, Kinds DEF IngestMap, Entry, PendingEntry
  <2>2. pending' = Append(pending, p) /\ mapToHost' = mapToHost BY <1>3 DEF IngestMap
  <2> HIDE DEF p
  <2>3. pending' \in Seq(PendingEntry) BY <2>1, <2>2, AppendProperties DEF SsTypes
  <2> QED BY <2>2, <2>3 DEF SsTypes
<1>4. ASSUME NEW e, SkipEntry(e) PROVE SsTypes' BY <1>1, <1>4 DEF SkipEntry
<1>5. CASE Ingest BY <1>2, <1>3, <1>4, <1>5, IngestCases
<1> QED BY <1>1, <1>5, SsAside

LEMMA NextFromBindings ==
  BrowserInv /\ LogsInv /\ LogsInv' /\ BrowserInv' /\ OneHost /\ FromBindings
    /\ [SsNext]_ssVars => FromBindings'
<1> SUFFICES ASSUME BrowserInv, LogsInv, LogsInv', BrowserInv', OneHost, FromBindings,
                    [SsNext]_ssVars
             PROVE  FromBindings'
  OBVIOUS
<1>1. [AnyNext]_vars BY SsStep
<1>2. rest' \subseteq EntriesOf(Files)' BY <1>1, RestInFiles DEF FromBindings
<1>3. EntriesOf(Files)' = Written'
  BY DEF BrowserInv, TypeInv, TypeOK, LogsInv, FromLogs, EntriesOf, Written
<1>4. Written \subseteq Written' BY <1>1, <1>3, FilesWritten, FilesGrow
<1> DEFINE From(m, p) == \E e \in Written : /\ IsBinding(e) /\ e.value = m
                                            /\ p = <<HostOf(e), Meaning[e.key].ns>>
<1>5. ASSUME \A m \in DOMAIN mapToHost' : From(m, mapToHost'[m]) PROVE FromBindings'
  BY <1>2, <1>4, <1>5 DEF FromBindings, IsBinding, HostOf
<1>6. \A m \in DOMAIN mapToHost : From(m, mapToHost[m]) BY DEF FromBindings
<1>7. CASE UNCHANGED mapToHost BY <1>5, <1>6, <1>7
<1>8. ASSUME NEW e \in rest, IngestNamespace(e), e.live PROVE FromBindings'
  <2>1. e \in Written BY FilesWritten DEF FromBindings
  <2>2. IsBinding(e) BY <1>8 DEF IngestNamespace, IsBinding
  <2> DEFINE pair == <<HostOf(e), Meaning[e.key].ns>>
  <2>3. From(e.value, pair) BY <2>1, <2>2
  <2>4. mapToHost' = [m \in DOMAIN mapToHost \cup {e.value} |->
                        IF m = e.value THEN pair ELSE mapToHost[m]]
    BY <1>8 DEF IngestNamespace, HostOf
  <2> HIDE DEF From, pair
  <2>5. \A m \in DOMAIN mapToHost' : From(m, mapToHost'[m]) BY <1>6, <2>3, <2>4
  <2> QED BY <1>5, <2>5
<1>9. ASSUME NEW e \in rest, IngestNamespace(e), ~e.live PROVE FromBindings'
  BY <1>7, <1>9 DEF IngestNamespace
<1>10. ASSUME NEW e, IngestMap(e) \/ SkipEntry(e) PROVE FromBindings'
  BY <1>7, <1>10 DEF IngestMap, SkipEntry
<1>11. CASE Ingest BY <1>8, <1>9, <1>10, <1>11, IngestCases
<1> QED BY <1>7, <1>11, SsAside

SsInv == BrowserInv /\ LogsInv /\ OneHost /\ SsTypes /\ FromBindings

LEMMA SsCorrect == SsSpec => []SsInv
<1>1. SsInit => SsInv
  <2> SUFFICES ASSUME SsInit PROVE SsInv OBVIOUS
  <2>1. BrowserInv /\ LogsInv
    BY InitTypes, InitFiles, InitLogs DEF SsInit, BrowserInv
  <2>2. Written = {}
    <3>1. 1 \in Files /\ logs = {1} /\ content = [f \in Files |-> {}]
      BY DbConstants DEF SsInit, Init, Files
    <3> QED BY <3>1 DEF Written, EntriesOf
  <2>3. OneHost BY <2>2 DEF OneHost
  <2>4. mapToHost = [m \in {} |-> <<>>] /\ pending = <<>> /\ rest = {}
    BY DEF SsInit, Init
  <2>5. SsTypes /\ FromBindings BY <2>4, EmptySeq DEF SsTypes, FromBindings
  <2> QED BY <2>1, <2>3, <2>5 DEF SsInv
<1>2. SsInv /\ [SsNext]_ssVars => SsInv'
  <2> SUFFICES ASSUME SsInv, [SsNext]_ssVars PROVE SsInv' OBVIOUS
  <2> USE DEF SsInv
  <2>1. [AnyNext]_vars BY SsStep
  <2>2. BrowserInv' BY <2>1, NextTypes, NextFiles, NextSeqs DEF BrowserInv
  <2>3. LogsInv' BY <2>1, NextLogs
  <2> QED BY <2>2, <2>3, NextOneHost, NextSsTypes, NextFromBindings
<1> QED BY <1>1, <1>2, PTL DEF SsSpec

\* Every variable of SessionStorageReader keeps its type: _map_to_host names a
\* storage key and a namespace for every map it has.
THEOREM SsTypeCorrect == SsSpec => []SsTypeOK
<1>1. SsInv => SsTypeOK BY DEF SsInv, BrowserInv, TypeInv, SsTypes, SsTypeOK
<1> QED BY <1>1, SsCorrect, PTL

\* _materialise attributes a datum to the one storage key its map ever had and
\* to a namespace that had the map, in whatever order _ingest saw the bindings
\* and whichever of them were deleted since.
THEOREM HostAlwaysRight == SsSpec => []HostRight
<1>1. ASSUME SsInv PROVE HostRight
  <2> SUFFICES ASSUME NEW r \in AllRecords(TRUE)
               PROVE  /\ \A e \in BindingsOf(Written, r.map) : Meaning[e.key].host = r.host
                      /\ \E e \in BindingsOf(Written, r.map) : Meaning[e.key].ns = r.ns
    BY DEF HostRight
  <2>1. PICK i \in DOMAIN pending : Materialised(pending[i]) /\ r = RecordOf(pending[i])
    BY DEF AllRecords, Records
  <2> DEFINE m == pending[i].map
  <2>2. m \in DOMAIN mapToHost BY <2>1 DEF Materialised
  <2>3. r.map = m /\ r.host = mapToHost[m][1] /\ r.ns = mapToHost[m][2]
    BY <2>1 DEF RecordOf
  <2> HIDE DEF m
  <2>4. PICK e \in Written : /\ IsBinding(e) /\ e.value = m
                             /\ mapToHost[m] = <<HostOf(e), Meaning[e.key].ns>>
    BY <1>1, <2>2 DEF SsInv, FromBindings
  <2>5. e \in BindingsOf(Written, r.map) /\ Meaning[e.key].ns = r.ns
    BY <2>3, <2>4 DEF BindingsOf, IsBinding
  <2>6. ASSUME NEW o \in BindingsOf(Written, r.map) PROVE Meaning[o.key].host = r.host
    BY <1>1, <2>3, <2>4 DEF SsInv, OneHost, BindingsOf, IsBinding, HostOf
  <2> QED BY <2>5, <2>6
<1> QED BY <1>1, SsCorrect, PTL

(***************************************************************************)
(* What was read is there                                                  *)
(***************************************************************************)
\* The entry of _pending_maps that _ingest makes of a record.
PendingOf(e) ==
  [map |-> Meaning[e.key].map, script |-> Meaning[e.key].script,
   value |-> e.value, live |-> e.live, seq |-> e.seq]

IsDatum(e) == Meaning[e.key].kind = "map"
Pending == {pending[i] : i \in DOMAIN pending}

\* Every binding and every datum yielded is kept, and nothing else is.
Kept ==
  /\ pc \in {"new", "scan", "open"} => Pending = {}
  /\ \A e \in Yielded : IsBinding(e) => e.value \in DOMAIN mapToHost
  /\ \A e \in Yielded : IsDatum(e) => PendingOf(e) \in Pending
  /\ \A p \in Pending : \E e \in Written : IsDatum(e) /\ p = PendingOf(e)

LEMMA AppendPending ==
  ASSUME SsTypes, NEW p \in PendingEntry, pending' = Append(pending, p)
  PROVE  Pending' = Pending \cup {p}
<1>1. pending \in Seq(PendingEntry) /\ Len(pending) \in Nat /\ DOMAIN pending = 1..Len(pending)
  BY LenProperties DEF SsTypes
<1>2. /\ pending' \in Seq(PendingEntry) /\ Len(pending') = Len(pending) + 1
      /\ \A i \in 1..Len(pending) : pending'[i] = pending[i]
      /\ pending'[Len(pending) + 1] = p
  BY <1>1, AppendProperties
<1>3. DOMAIN pending' = DOMAIN pending \cup {Len(pending) + 1}
  BY <1>1, <1>2, LenProperties
<1> QED BY <1>1, <1>2, <1>3 DEF Pending

LEMMA IngestKept ==
  ASSUME ReadInv, SsTypes, FromBindings, Kept, Ingest
  PROVE  Kept'
<1>1. PICK e \in rest : rest' = rest \ {e} /\ Yielded' = Yielded \cup {e}
  BY YieldStep DEF ReadInv, BrowserInv, Ingest
<1>2. rest \ rest' = {e} BY <1>1
<1>3. /\ IngestNamespace(e) \/ IngestMap(e) \/ SkipEntry(e)
      /\ e \in Entry /\ e \in Written
  BY <1>2, FilesWritten
  DEF Ingest, FromBindings, ReadInv, BrowserInv, TypeInv, TypeOK
<1>4. pc = "iter" /\ pc' = "iter" /\ Written' = Written
  BY DEF Ingest, YieldRecord, browser, Written, EntriesOf
<1>5. CASE IngestNamespace(e)
  <2>1. /\ Meaning[e.key].kind = "namespace" /\ Pending' = Pending
        /\ DOMAIN mapToHost' = DOMAIN mapToHost \cup (IF e.live THEN {e.value} ELSE {})
    BY <1>5 DEF IngestNamespace, Pending
  <2> QED BY <1>1, <1>4, <2>1 DEF Kept, IsBinding, IsDatum, PendingOf
<1>6. CASE IngestMap(e)
  <2>1. IsDatum(e) /\ ~IsBinding(e) /\ mapToHost' = mapToHost
        /\ pending' = Append(pending, PendingOf(e))
    BY <1>6 DEF IngestMap, IsDatum, IsBinding, PendingOf
  <2>2. PendingOf(e) \in PendingEntry
    BY <1>3, <2>1, Kinds DEF IsDatum, Entry, PendingEntry, PendingOf
  <2>3. Pending' = Pending \cup {PendingOf(e)} BY <2>1, <2>2, AppendPending
  <2> QED BY <1>1, <1>3, <1>4, <2>1, <2>3 DEF Kept, IsBinding, IsDatum, PendingOf
<1>7. CASE SkipEntry(e)
  <2>1. /\ Meaning[e.key].kind = "other" /\ Pending' = Pending /\ mapToHost' = mapToHost
    BY <1>7 DEF SkipEntry, Pending
  <2> QED BY <1>1, <1>4, <2>1 DEF Kept, IsBinding, IsDatum, PendingOf
<1> QED BY <1>3, <1>5, <1>6, <1>7

LEMMA NextKept ==
  ReadInv /\ ReadInv' /\ OneHost /\ SsTypes /\ FromBindings /\ Kept /\ [SsNext]_ssVars
    => Kept'
<1> SUFFICES ASSUME ReadInv, ReadInv', OneHost, SsTypes, FromBindings, Kept,
                    [SsNext]_ssVars
             PROVE  Kept'
  OBVIOUS
<1>1. Written \subseteq Written'
  <2>1. [AnyNext]_vars BY SsStep DEF ReadInv
  <2>2. EntriesOf(Files)' = Written'
    BY DEF ReadInv, BrowserInv, TypeInv, TypeOK, LogsInv, FromLogs, EntriesOf, Written
  <2> QED BY <2>1, <2>2, FilesWritten, FilesGrow DEF ReadInv
<1>2. ASSUME UNCHANGED reader, yielded' = yielded,
             pc' \in {"new", "scan", "open"} => pc \in {"new", "scan", "open"}
      PROVE  Kept'
  <2>1. UNCHANGED <<Yielded, Pending, mapToHost>> BY <1>2 DEF Yielded, Pending, reader
  <2> QED BY <1>1, <1>2, <2>1 DEF Kept, IsBinding, IsDatum, PendingOf
<1>3. CASE Browse /\ UNCHANGED reader
  <2>1. AnyWrite BY <1>3, BrowseSafe DEF ReadInv, Safe, AnyWrite
  <2> QED BY <1>2, <1>3, <2>1, BrowserStep DEF ReadInv
<1>4. CASE (Writes \/ Maintain) /\ UNCHANGED reader
  <2>1. AnyWrite \/ Maintain BY <1>4, DbConstants DEF Writes, AnyWrite
  <2> QED BY <1>2, <1>4, <2>1, BrowserStep DEF ReadInv
<1>5. CASE Open /\ UNCHANGED reader
  BY <1>2, <1>5 DEF Open, List, CheckEntry, OpenEntry, Constructed, handles, iteration
<1>6. CASE pc = "open" /\ Iterate(FALSE) /\ UNCHANGED reader
  <2>1. yielded' = <<>> /\ pc' = "iter" BY <1>6 DEF Iterate
  <2>2. Yielded' = {} /\ Pending' = Pending /\ Pending = {}
    BY <1>6, <2>1 DEF Yielded, Pending, reader, Kept
  <2> QED BY <2>1, <2>2 DEF Kept
<1>7. CASE (NextFile \/ Exhausted \/ Close) /\ UNCHANGED reader
  BY <1>2, <1>7 DEF NextFile, Exhausted, Close, iteration
<1>8. CASE Ingest BY <1>8, IngestKept
<1>9. CASE UNCHANGED ssVars BY <1>2, <1>9 DEF ssVars, vars, reader
<1> QED BY <1>3, <1>4, <1>5, <1>6, <1>7, <1>8, <1>9 DEF SsNext

SsReadInv == ReadInv /\ LiveKept /\ Kept

LEMMA SsReadCorrect == SsSpec => [](SsInv /\ SsReadInv)
<1>1. SsInv /\ [SsNext]_ssVars => [AnyNext]_vars BY SsStep DEF SsInv
<1>2. SsInit => Init /\ Kept
  BY DEF SsInit, Init, Kept, Pending, Yielded
<1>3. SsSpec => []ReadInv BY <1>1, <1>2, SsCorrect, InitRead, NextRead, PTL DEF SsSpec
<1>4. ReadInv => BrowserInv /\ LogsInv BY DEF ReadInv
<1>5. SsSpec => []LiveKept
  BY <1>1, <1>2, <1>3, <1>4, SsCorrect, InitLive, NextLive, PTL DEF SsSpec
<1>6. SsInv => OneHost /\ SsTypes /\ FromBindings BY DEF SsInv
<1>7. SsSpec => []Kept
  BY <1>2, <1>3, <1>6, SsCorrect, NextKept, PTL DEF SsSpec
<1> QED BY <1>3, <1>5, <1>7, SsCorrect, PTL DEF SsReadInv

\* What a tab had in sessionStorage when the browser stopped is among the
\* records that _materialise makes, under the tab's storage key, and none of
\* its map and script key has a higher sequence number: although the data of a
\* map are read before its bindings and though several tabs share the map.
THEOREM SsCurrentAlwaysVisible == SsSpec => []CurrentVisible
<1>1. ASSUME SsInv, SsReadInv PROVE CurrentVisible
  <2> DEFINE Mine(m, e) == {r \in AllRecords(TRUE) :
                              r.map = m /\ r.script = Meaning[e.key].script}
             Shown(h, m, e) ==
               /\ \E r \in Mine(m, e) : r.host = h /\ r.live /\ r.value = e.value
                                        /\ r.seq = e.seq
               /\ \A r \in Mine(m, e) : r.seq <= e.seq
  <2> SUFFICES ASSUME pc = "done", ~LiveBrowser
               PROVE  \A ns \in Namespaces, h \in Hosts :
                        \A m \in Bound(ns, h) : \A e \in Data(m) :
                          Meaning[e.key].script \in Decodable /\ e.value \in Decodable =>
                            Shown(h, m, e)
    BY DEF CurrentVisible
  <2> TAKE ns \in Namespaces, h \in Hosts
  <2> TAKE m \in Bound(ns, h)
  <2> TAKE e \in Data(m)
  <2> HAVE Meaning[e.key].script \in Decodable /\ e.value \in Decodable
  <2>1. Yielded = EntriesOf(dir) /\ Version \subseteq dir
    BY <1>1 DEF SsReadInv, ReadInv, AllRead, BrowserInv, FileInv
  <2>2. ASSUME NEW k \in Keys, NEW o \in Lookup(k)
        PROVE  o \in Yielded /\ o \in Written /\ o.live /\ o.key = k
               /\ \A x \in Written : x.key = k => x.seq <= o.seq
    BY <1>1, <2>1, <2>2 DEF Lookup, NewestOf, SsReadInv, LiveKept, EntriesOf
  <2>3. PICK b \in Lookup(NamespaceKey(ns, h)) : b.value = m BY DEF Bound
  <2>4. b \in Yielded /\ b \in Written /\ IsBinding(b) /\ HostOf(b) = h
    BY <2>2, <2>3, NamespaceKeys DEF IsBinding, HostOf
  <2>5. m \in DOMAIN mapToHost BY <1>1, <2>3, <2>4 DEF SsReadInv, Kept
  <2>6. mapToHost[m][1] = h
    <3>1. PICK o \in Written : /\ IsBinding(o) /\ o.value = m
                               /\ mapToHost[m] = <<HostOf(o), Meaning[o.key].ns>>
      BY <1>1, <2>5 DEF SsInv, FromBindings
    <3> QED BY <1>1, <2>3, <2>4, <3>1 DEF SsInv, OneHost
  <2>7. PICK k \in KeysOf(m) : e \in Lookup(k) BY DEF Data
  <2>8. k \in Keys /\ Meaning[k].kind = "map" /\ Meaning[k].map = m BY DEF KeysOf
  <2>9. /\ e \in Yielded /\ e \in Written /\ e.live /\ e.key = k
        /\ \A x \in Written : x.key = k => x.seq <= e.seq
    BY <2>2, <2>7, <2>8
  <2> DEFINE p == PendingOf(e)
             mine == Mine(m, e)
  <2>10. p \in Pending BY <1>1, <2>8, <2>9 DEF SsReadInv, Kept, IsDatum
  <2>11. /\ p.map = m /\ p.script = Meaning[e.key].script /\ p.value = e.value
         /\ p.live /\ p.seq = e.seq
    BY <2>8, <2>9 DEF PendingOf
  <2>12. Meaning[e.key].script \in Scripts BY <2>8, <2>9, Kinds
  <2> HIDE DEF p
  <2>13. \E r \in mine : r.host = h /\ r.live /\ r.value = e.value /\ r.seq = e.seq
    <3>1. Materialised(p) BY <2>5, <2>11 DEF Materialised
    <3> DEFINE r == RecordOf(p)
    <3>2. /\ r.host = h /\ r.map = m /\ r.script = p.script /\ r.live /\ r.value = e.value
          /\ r.seq = e.seq
      BY <2>6, <2>11 DEF RecordOf
    <3>3. r \in {RecordOf(pending[i]) : i \in {i \in DOMAIN pending : Materialised(pending[i])}}
      BY <2>10, <3>1 DEF Pending
    <3> HIDE DEF r
    <3>4. r \in AllRecords(TRUE) BY <2>11, <2>12, <3>2, <3>3 DEF AllRecords, Records
    <3> QED BY <2>11, <3>2, <3>4
  <2>14. ASSUME NEW r \in mine PROVE r.seq <= e.seq
    <3>1. r \in AllRecords(TRUE) /\ r.map = m /\ r.script = Meaning[k].script BY <2>9
    <3>2. PICK i \in DOMAIN pending : r = RecordOf(pending[i])
      BY <3>1 DEF AllRecords, Records
    <3>3. PICK o \in Written : IsDatum(o) /\ pending[i] = PendingOf(o)
      BY <1>1, <3>2 DEF SsReadInv, Kept, Pending
    <3>4. r.map = Meaning[o.key].map /\ r.script = Meaning[o.key].script /\ r.seq = o.seq
      BY <3>2, <3>3 DEF RecordOf, PendingOf
    <3>5. o.key \in Keys BY <1>1, WrittenTypes DEF SsInv, Entry
    <3>6. Meaning[o.key] \in MapMeaning /\ Meaning[k] \in MapMeaning
      BY <2>8, <3>3, <3>5, SessionStorageConstants DEF IsDatum, NamespaceMeaning, MapMeaning
    <3>7. Meaning[o.key] = Meaning[k]
      <4>1. \A x, y \in MapMeaning : x.map = y.map /\ x.script = y.script => x = y
        BY DEF MapMeaning
      <4> QED BY <2>8, <3>1, <3>4, <3>6, <4>1
    <3>8. o.key = k BY <2>8, <3>5, <3>7, SessionStorageConstants
    <3> QED BY <2>9, <3>4, <3>8
  <2> QED BY <2>13, <2>14
<1> QED BY <1>1, SsReadCorrect, PTL
=============================================================================
