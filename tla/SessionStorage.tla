---------------------------- MODULE SessionStorage ----------------------------
(***************************************************************************)
(* chromium_reader.sessionstorage.SessionStorageReader over RawLevelDb:    *)
(* the constructor keeps a binding for every map and the raw entries of    *)
(* the maps, and each records() joins the two.                             *)
(*                                                                         *)
(* To the browser a namespace is a tab.  namespace-<ns>-<storage key>      *)
(* holds the id of the map with the tab's data, map-<id>-<script key> a    *)
(* datum.  A tab opened from another shares its maps until either writes.  *)
(***************************************************************************)
EXTENDS RawLevelDb, SequencesExt

CONSTANTS
  Namespaces,   (* namespace ids: they hold no dash                        *)
  Hosts,        (* storage keys                                            *)
  MapIds,       (* map ids                                                 *)
  Scripts,      (* script keys                                             *)
  Meaning,      (* what each user key splits into                          *)
  Decodable     (* the script keys and values that decode_value decodes    *)

NamespaceMeaning == [kind : {"namespace"}, ns : Namespaces, host : Hosts]
MapMeaning == [kind : {"map"}, map : MapIds, script : Scripts]

\* every namespace and storage key, and every map and script key, has its own key
ASSUME SessionStorageConstants ==
  /\ MapIds \subseteq Values /\ Decodable \subseteq Scripts \cup Values
  /\ Values \ MapIds # {}
  /\ Meaning \in [Keys -> NamespaceMeaning \cup MapMeaning \cup [kind : {"other"}]]
  /\ \A x \in NamespaceMeaning \cup MapMeaning : \E k \in Keys : Meaning[k] = x
  /\ \A k, l \in Keys : Meaning[k] = Meaning[l] /\ Meaning[k].kind = "map" => k = l
  /\ \A batch \in WriteBatches : \A i \in DOMAIN batch :
       Meaning[batch[i].key].kind = "other"

VARIABLES
  mapToHost,  (* _map_to_host                                              *)
  pending     (* _pending_maps                                             *)

ssVars == <<vars, mapToHost, pending>>

SsInit == Init /\ mapToHost = [m \in {} |-> <<>>] /\ pending = <<>>

(***************************************************************************)
(* The browser's session storage (external)                                *)
(***************************************************************************)
NamespaceKey(ns, h) ==
  CHOOSE k \in Keys : Meaning[k] = [kind |-> "namespace", ns |-> ns, host |-> h]

MapKey(m, s) == CHOOSE k \in Keys : Meaning[k] = [kind |-> "map", map |-> m, script |-> s]

Put(k, v) == [key |-> k, live |-> TRUE, value |-> v]
Delete(k) ==
  [key |-> k, live |-> FALSE, value |-> CHOOSE v \in Values \ MapIds : TRUE]

\* the entry a look-up in the database finds
Lookup(k) == {e \in NewestOf(Written, k) : e.live}

Bound(ns, h) == {e.value : e \in Lookup(NamespaceKey(ns, h))}

KeysOf(m) == {k \in Keys : Meaning[k].kind = "map" /\ Meaning[k].map = m}
Data(m) == UNION {Lookup(k) : k \in KeysOf(m)}

Areas(ns) == {h \in Hosts : Bound(ns, h) # {}}
Sharers(m) == {p \in Namespaces \X Hosts : m \in Bound(p[1], p[2])}
Shared(m) == Cardinality(Sharers(m)) > 1

\* map ids are numbered, and not used again
NewMaps ==
  {m \in MapIds : \A e \in Written : Meaning[e.key].kind = "namespace" => e.value # m}

NewMap == CHOOSE m \in NewMaps : TRUE

OpenArea(ns, h) ==
  /\ Bound(ns, h) = {} /\ NewMaps # {}
  /\ Write(<<Put(NamespaceKey(ns, h), NewMap)>>)

CloneNamespace(from, to) ==
  /\ Areas(from) # {} /\ Areas(to) = {}
  /\ Write(SetToSeq(UNION {{Put(NamespaceKey(to, h), m) : m \in Bound(from, h)} :
                             h \in Areas(from)}))

SetItem(ns, h, s, v) ==
  \E m \in Bound(ns, h) : ~Shared(m) /\ Write(<<Put(MapKey(m, s), v)>>)

RemoveItem(ns, h, s) ==
  \E m \in Bound(ns, h) :
    /\ ~Shared(m) /\ Lookup(MapKey(m, s)) # {}
    /\ Write(<<Delete(MapKey(m, s))>>)

\* A tab that writes to a shared map first gets a map of its own.
ForkMap(ns, h) ==
  /\ NewMaps # {}
  /\ \E m \in Bound(ns, h) :
       /\ Shared(m)
       /\ Write(SetToSeq({Put(NamespaceKey(ns, h), NewMap)} \cup
            {Put(MapKey(NewMap, Meaning[e.key].script), e.value) : e \in Data(m)}))

\* Closing a tab deletes the maps that only it had.
DeleteNamespace(ns) ==
  LET alone == {m \in UNION {Bound(ns, h) : h \in Areas(ns)} : ~Shared(m)}
      data  == UNION {Data(m) : m \in alone}
  IN  /\ Areas(ns) # {}
      /\ Write(SetToSeq({Delete(NamespaceKey(ns, h)) : h \in Areas(ns)}
                          \cup {Delete(e.key) : e \in data}))

Browse ==
  /\ up /\ seq < MaxSeq
  /\ \E ns \in Namespaces :
       \/ DeleteNamespace(ns)
       \/ \E to \in Namespaces : CloneNamespace(ns, to)
       \/ \E h \in Hosts : OpenArea(ns, h) \/ ForkMap(ns, h)
       \/ \E h \in Hosts, s \in Scripts :
            RemoveItem(ns, h, s) \/ \E v \in Values \ MapIds : SetItem(ns, h, s, v)

(***************************************************************************)
(* SessionStorageReader.__init__: _ingest every record                     *)
(***************************************************************************)
\* Mutant: storage key and namespace are swapped.
IngestNamespaceSwapped(e) ==
  /\ Meaning[e.key].kind = "namespace"
  /\ mapToHost' =
       IF ~e.live THEN mapToHost
       ELSE [m \in DOMAIN mapToHost \cup {e.value} |->
               IF m = e.value THEN <<Meaning[e.key].ns, Meaning[e.key].host>>
               ELSE mapToHost[m]]
  /\ UNCHANGED pending

\* Mutant: a binding is taken for one of all the maps of its namespace.
IngestNamespaceWide(e) ==
  /\ Meaning[e.key].kind = "namespace"
  /\ LET new == <<Meaning[e.key].host, Meaning[e.key].ns>>
     IN  mapToHost' =
           IF ~e.live THEN mapToHost
           ELSE [m \in DOMAIN mapToHost \cup {e.value} |->
                   IF m = e.value THEN new
                   ELSE IF mapToHost[m][2] = new[2] THEN new ELSE mapToHost[m]]
  /\ UNCHANGED pending

\* Mutant: a deleted binding takes the maps bound by it with it.
IngestNamespaceUnbinds(e) ==
  /\ Meaning[e.key].kind = "namespace"
  /\ LET pair == <<Meaning[e.key].host, Meaning[e.key].ns>>
     IN  mapToHost' =
           IF ~e.live
           THEN [m \in {m \in DOMAIN mapToHost : mapToHost[m] # pair} |-> mapToHost[m]]
           ELSE [m \in DOMAIN mapToHost \cup {e.value} |->
                   IF m = e.value THEN pair ELSE mapToHost[m]]
  /\ UNCHANGED pending

\* The latest binding read replaces the one of the map before it; a deleted
\* one replaces nothing.
IngestNamespace(e) ==
  /\ Meaning[e.key].kind = "namespace"
  /\ mapToHost' =
       IF ~e.live THEN mapToHost
       ELSE [m \in DOMAIN mapToHost \cup {e.value} |->
               IF m = e.value THEN <<Meaning[e.key].host, Meaning[e.key].ns>>
               ELSE mapToHost[m]]
  /\ UNCHANGED pending

IngestMap(e) ==
  /\ Meaning[e.key].kind = "map"
  /\ pending' = Append(pending,
       [map |-> Meaning[e.key].map, script |-> Meaning[e.key].script,
        value |-> e.value, live |-> e.live, seq |-> e.seq])
  /\ UNCHANGED mapToHost

SkipEntry(e) ==
  Meaning[e.key].kind = "other" /\ UNCHANGED <<mapToHost, pending>>

Ingest ==
  /\ YieldRecord
  /\ \E e \in rest \ rest' : IngestNamespace(e) \/ IngestMap(e) \/ SkipEntry(e)

(***************************************************************************)
(* _materialise, and records(host=h in hs, script_key=s in ss,             *)
(* include_deletions=d): one record at most for each pending entry         *)
(***************************************************************************)
Materialised(p) ==
  /\ p.map \in DOMAIN mapToHost
  /\ p.script \in Decodable
  /\ p.live => p.value \in Decodable

\* the value of a deleted one is None, whatever stands here
RecordOf(p) ==
  [host |-> mapToHost[p.map][1], ns |-> mapToHost[p.map][2], map |-> p.map,
   script |-> p.script, value |-> p.value, seq |-> p.seq, live |-> p.live]

Records(hs, ss, d) ==
  {r \in {RecordOf(pending[i]) : i \in {i \in DOMAIN pending : Materialised(pending[i])}} :
     r.host \in hs /\ r.script \in ss /\ (r.live \/ d)}

(***************************************************************************)
(* Specification                                                           *)
(***************************************************************************)
reader == <<mapToHost, pending>>

\* VERSION is written into an empty database
SsNext ==
  \/ Ingest
  \/ Browse /\ UNCHANGED reader
  \/ seq = 0 /\ Writes /\ UNCHANGED reader
  \/ Maintain /\ UNCHANGED reader
  \/ Open /\ UNCHANGED reader
  \/ pc = "open" /\ Iterate(FALSE) /\ UNCHANGED reader
  \/ NextFile /\ UNCHANGED reader
  \/ Exhausted /\ UNCHANGED reader
  \/ pc = "done" /\ Close /\ UNCHANGED reader

SsSpec == SsInit /\ [][SsNext]_ssVars

(***************************************************************************)
(* Properties                                                              *)
(***************************************************************************)
PendingEntry ==
  [map : MapIds, script : Scripts, value : Values, live : BOOLEAN, seq : Nat]

\* Every variable has its type.
SsTypeOK ==
  /\ TypeOK
  /\ DOMAIN mapToHost \subseteq Values
  /\ \A m \in DOMAIN mapToHost : mapToHost[m] \in Hosts \X Namespaces
  /\ pending \in Seq(PendingEntry)

\* Every live binding of map m in S.
BindingsOf(S, m) ==
  {e \in S : Meaning[e.key].kind = "namespace" /\ e.live /\ e.value = m}

AllRecords(d) == Records(Hosts, Scripts, d)

\* A datum is never shown under another origin than the one that stored it,
\* whichever of a map's bindings was read last, and it is shown under a tab
\* that did have the map.
HostRight ==
  \A r \in AllRecords(TRUE) :
    /\ \A e \in BindingsOf(Written, r.map) : Meaning[e.key].host = r.host
    /\ \E e \in BindingsOf(Written, r.map) : Meaning[e.key].ns = r.ns

\* What a tab had in sessionStorage when the browser stopped is among the
\* records under its origin, with the highest sequence number of its map and
\* script key, though map- keys are read before the bindings in a table.
CurrentVisible ==
  pc = "done" /\ ~LiveBrowser =>
    \A ns \in Namespaces, h \in Hosts : \A m \in Bound(ns, h) : \A e \in Data(m) :
      Meaning[e.key].script \in Decodable /\ e.value \in Decodable =>
        LET mine == {r \in AllRecords(TRUE) :
                       r.map = m /\ r.script = Meaning[e.key].script}
        IN  /\ \E r \in mine : r.host = h /\ r.live /\ r.value = e.value /\ r.seq = e.seq
            /\ \A r \in mine : r.seq <= e.seq
=============================================================================
