---------------------------- MODULE V8Deserializer ----------------------------
(***************************************************************************)
(* chromium_reader._v8_deserializer.Deserializer.read_value: the recursion *)
(* of _read_object and its handlers as a stack of frames, over the bytes   *)
(* that V8's ValueSerializer writes for a graph of JavaScript values.      *)
(*                                                                         *)
(* V8 numbers every object it writes, and an object met again is written   *)
(* as a reference to its number.  The reader keeps a table of its own, in  *)
(* which it puts containers only.                                          *)
(***************************************************************************)
EXTENDS Varints, FiniteSets, SequencesExt

CONSTANTS
  Primitives,  (* the primitive values the script stores                   *)
  Leaves,      (* the kinds of objects without members                     *)
  Containers,  (* the kinds of objects with members                        *)
  Depth,       (* fewer calls of handlers in one another surely fit Python's stack *)
  Memory,      (* the length of a list there surely is memory for          *)
  MaxValues,   (* bound: values written, members included                  *)
  MaxLength    (* bound: the length of an array                            *)

\* _Tag
Tag ==
  [UNDEFINED |-> 95, NULL |-> 48, TRUE |-> 84, FALSE |-> 70, INT32 |-> 73,
   UINT32 |-> 85, DOUBLE |-> 78, BIG_INT |-> 90, UTF8_STRING |-> 83,
   ONE_BYTE_STRING |-> 34, TWO_BYTE_STRING |-> 99, PADDING |-> 0,
   VERIFY_OBJECT_COUNT |-> 63, DATE |-> 68, TRUE_OBJECT |-> 121,
   FALSE_OBJECT |-> 120, NUMBER_OBJECT |-> 110, BIG_INT_OBJECT |-> 122,
   STRING_OBJECT |-> 115, REGEXP |-> 82, ARRAY_BUFFER |-> 66,
   ARRAY_BUFFER_VIEW |-> 86, SHARED_ARRAY_BUFFER |-> 117,
   ARRAY_BUFFER_TRANSFER |-> 116, END_DENSE_ARRAY |-> 36,
   OBJECT_REFERENCE |-> 94, HOST_OBJECT |-> 92, ERROR |-> 114]

BeginTag == [object |-> 111, sparse |-> 97, dense |-> 65, map |-> 59, set |-> 39]
EndTag == [object |-> 123, sparse |-> 64, map |-> 58, set |-> 44]

ContainerKinds == DOMAIN BeginTag
Arrays == {"dense", "sparse"}
Keyed == {"object", "map", "sparse"}

\* The primitives and leaf objects of JavaScript, as V8 writes them and as
\* Python values.
Date == <<0, 0, 0, 0, 0, 0, 89, 64>>
NaN == <<0, 0, 0, 0, 0, 0, 248, 127>>
Encoding ==
  [undefined |-> <<95>>, null |-> <<48>>, true |-> <<84>>, one |-> <<73, 2>>,
   narrow |-> <<34, 1, 97>>, wide |-> <<99, 2, 97, 1>>, lone |-> <<99, 2, 0, 216>>,
   date |-> <<68>> \o Date, invalid |-> <<68>> \o NaN, wrapper |-> <<121>>,
   string |-> <<115, 34, 1, 97>>, regexp |-> <<82, 34, 1, 97, 2>>,
   error |-> <<114, 109, 34, 1, 97, 46>>, errorc |-> <<114, 109, 34, 3, 99, 2, 97, 46>>,
   buffer |-> <<66, 1, 7>>, host |-> <<92, 105, 0>>]
None == <<"none">>
Python ==
  [undefined |-> None, null |-> None, true |-> <<"bool", 1>>, one |-> <<"int", 1>>,
   narrow |-> <<"str", <<97>>>>, wide |-> <<"str", <<353>>>>,
   lone |-> <<"str", <<55296>>>>, date |-> <<"date", Date>>, invalid |-> <<"date", NaN>>,
   wrapper |-> <<"bool", 1>>, string |-> <<"str", <<97>>>>,
   regexp |-> <<"regexp", <<97>>, 2>>, error |-> <<"error">>, errorc |-> <<"error">>,
   buffer |-> <<"bytes", <<7>>>>, host |-> <<"host", <<>>>>]

ASSUME V8Constants ==
  /\ Primitives \subseteq {"undefined", "null", "true", "one", "narrow", "wide", "lone"}
  /\ Leaves \subseteq {"date", "invalid", "wrapper", "string", "regexp", "error", "errorc",
                      "buffer", "host"}
  /\ Containers \subseteq ContainerKinds
  /\ MaxValues \in 0..8191 /\ MaxLength \in 2..16383
  /\ Depth \in Nat /\ Memory \in Nat

VARIABLES
  bytes,     (* what V8 wrote, as far as it survived                       *)
  graph,     (* the objects written, by number: kind, length and members   *)
  open,      (* those being written, and the key a member is written for   *)
  root,      (* the value stored                                           *)
  count,     (* values written                                             *)
  referred,  (* history: the objects written a second time                 *)
  padded,    (* history: a key or a member of a set came after padding     *)
  deepest,   (* history: the most objects being written at once            *)
  cut,       (* bytes are lost at the end                                  *)
  pc,        (* V8 writes, the reader reads, returns a value, or ended     *)
  pos,       (* bytes read                                                 *)
  stack,     (* the calls of _r_* handlers that are not back yet           *)
  heap,      (* the Python containers made, which _objects lists           *)
  val,       (* the value a call returns                                   *)
  raised     (* the exception that ended the reader                        *)

writer == <<graph, open, root, count, referred, padded, deepest, cut>>
vars == <<bytes, writer, pc, pos, stack, heap, val, raised>>

NoValue == <<>>

Init ==
  /\ bytes = <<>> /\ graph = <<>> /\ open = <<>> /\ root = NoValue /\ count = 0
  /\ referred = {} /\ padded = FALSE /\ deepest = 0 /\ cut = FALSE
  /\ pc = "write" /\ pos = 0 /\ stack = <<>> /\ heap = <<>> /\ val = NoValue
  /\ raised = "no"

(***************************************************************************)
(* v8::internal::ValueSerializer (external)                                *)
(***************************************************************************)
\* a value: a primitive by name, or an object by number
Prim(p) == <<"prim", p>>
Obj(id) == <<"object", id>>

\* The object o's innermost is written for: the next value is its key, or a
\* member of it.
Into(g, o) == g[Last(o).id]
WantsKey(g, o) == o # <<>> /\ Into(g, o).kind \in Keyed /\ Last(o).key = NoValue
KeysOf(n) == {n.items[i][1] : i \in DOMAIN n.items}

\* The keys of an object are strings or indices, those of a sparse array
\* indices; no key or member comes twice.
MayFollow(v) ==
  IF open = <<>> THEN root = NoValue
  ELSE LET n == Into(graph, open)
       IN  /\ n.kind = "dense" => Len(n.items) < n.len
           /\ n.kind = "set" => v \notin {n.items[i] : i \in DOMAIN n.items}
           /\ WantsKey(graph, open) =>
                /\ v \notin KeysOf(n)
                /\ n.kind = "object" => v \in {Prim("one"), Prim("narrow"), Prim("wide")}
                /\ n.kind = "sparse" => v = Prim("one")

\* v is a key or a member of the innermost of the objects o, in the graph g.
WithKey(v, g, o) ==
  IF o = <<>> THEN o
  ELSE [o EXCEPT ![Len(o)].key = IF WantsKey(g, o) THEN v ELSE NoValue]
WithMember(v, g, o) ==
  IF o = <<>> \/ WantsKey(g, o) THEN g
  ELSE [g EXCEPT ![Last(o).id].items =
          Append(@, IF Into(g, o).kind \in Keyed THEN <<Last(o).key, v>> ELSE v)]

Takes(v, g, o) ==
  /\ graph' = WithMember(v, g, o) /\ open' = WithKey(v, g, o)
  /\ root' = IF o = <<>> THEN v ELSE root

\* v is the next value, and begins with the bytes b.
Emit(v, b) ==
  /\ pc = "write" /\ count < MaxValues /\ MayFollow(v)
  /\ count' = count + 1
  /\ bytes' = bytes \o b
  /\ UNCHANGED <<cut, pc, pos, stack, heap, val, raised>>

\* The two-byte characters of a string start at an even offset.
Pad(p) == IF p \in {"wide", "lone"} /\ Len(bytes) % 2 = 1 THEN <<Tag.PADDING>> ELSE <<>>
WritePrimitive(p) ==
  /\ Emit(Prim(p), Pad(p) \o Encoding[p]) /\ Takes(Prim(p), graph, open)
  /\ padded' = (padded \/ (Pad(p) # <<>> /\ (WantsKey(graph, open)
                                           \/ (open # <<>> /\ Into(graph, open).kind = "set"))))
  /\ UNCHANGED <<referred, deepest>>

Node(kind, len) == [kind |-> kind, len |-> len, items |-> <<>>]

\* the object numbered next
Made(kind, len) == Append(graph, Node(kind, len))
New == Len(graph) + 1

WriteLeaf(l) ==
  /\ Emit(Obj(New), Encoding[l]) /\ Takes(Obj(New), Made(l, 0), open)
  /\ UNCHANGED <<referred, padded, deepest>>

BeginObject(c, len) ==
  /\ Emit(Obj(New), <<BeginTag[c]>> \o (IF c \in Arrays THEN EncodeVarint(len) ELSE <<>>))
  /\ graph' = Made(c, len) /\ open' = Append(open, [id |-> New, key |-> NoValue])
  /\ deepest' = IF Len(open') > deepest THEN Len(open') ELSE deepest
  /\ UNCHANGED <<root, referred, padded>>

WriteReference(id) ==
  /\ Emit(Obj(id), <<Tag.OBJECT_REFERENCE>> \o EncodeVarint(id - 1))
  /\ Takes(Obj(id), graph, open)
  /\ referred' = referred \cup {id}
  /\ UNCHANGED <<padded, deepest>>

\* the end of an object: two numbers for an array, one for any other
Trailer(n) ==
  LET size == EncodeVarint(Len(n.items))
  IN  CASE n.kind = "dense" -> <<Tag.END_DENSE_ARRAY, 0>> \o EncodeVarint(n.len)
        [] n.kind = "sparse" -> <<EndTag.sparse>> \o size \o EncodeVarint(n.len)
        [] n.kind = "map" -> <<EndTag.map>> \o EncodeVarint(2 * Len(n.items))
        [] n.kind \in {"object", "set"} -> <<EndTag[n.kind]>> \o size

EndObject ==
  /\ pc = "write" /\ open # <<>> /\ Last(open).key = NoValue
  /\ LET n == Into(graph, open)
     IN  /\ n.kind = "dense" => Len(n.items) = n.len
         /\ bytes' = bytes \o Trailer(n)
  /\ Takes(Obj(Last(open).id), graph, Front(open))
  /\ UNCHANGED <<count, referred, padded, deepest, cut, pc, pos, stack, heap, val, raised>>

\* The value is stored, and a crash may leave n bytes of it.
Deliver(n) ==
  /\ pc = "write" /\ root # NoValue /\ open = <<>>
  /\ bytes' = SubSeq(bytes, 1, n) /\ cut' = (n < Len(bytes))
  /\ pc' = "read"
  /\ UNCHANGED <<graph, open, root, count, referred, padded, deepest, pos, stack, heap, val, raised>>

Write ==
  \/ \E p \in Primitives : WritePrimitive(p)
  \/ \E l \in Leaves : WriteLeaf(l)
  \/ \E c \in Containers \ Arrays : BeginObject(c, 0)
  \/ \E c \in Containers \cap {"dense"}, n \in 0..MaxLength : BeginObject(c, n)
  \/ \E c \in Containers \cap {"sparse"}, n \in 2..MaxLength : BeginObject(c, n)
  \/ \E id \in DOMAIN graph : WriteReference(id)
  \/ EndObject
  \/ \E n \in 0..Len(bytes) : Deliver(n)

(***************************************************************************)
(* Reading bytes                                                           *)
(***************************************************************************)
\* the varint at p, and where what follows it begins
VarLen(p) == VarintLen(Drop(bytes, p), 10)
VarVal(p) == VarintValue(Drop(bytes, p), 10)
AfterVar(p) == p + VarLen(p)

\* A primitive is its tag and a payload: none, a varint, eight bytes, or as
\* many bytes as a varint says.
Bare == {Tag.UNDEFINED, Tag.NULL, Tag.TRUE, Tag.FALSE, Tag.TRUE_OBJECT, Tag.FALSE_OBJECT}
OneVarint == {Tag.INT32, Tag.UINT32, Tag.SHARED_ARRAY_BUFFER, Tag.ARRAY_BUFFER_TRANSFER}
EightBytes == {Tag.DOUBLE, Tag.NUMBER_OBJECT, Tag.DATE}
Strings == {Tag.UTF8_STRING, Tag.ONE_BYTE_STRING, Tag.TWO_BYTE_STRING}
BigInts == {Tag.BIG_INT, Tag.BIG_INT_OBJECT}
Prefixed == Strings \cup BigInts \cup {Tag.ARRAY_BUFFER, Tag.HOST_OBJECT}
Atoms == Bare \cup OneVarint \cup EightBytes \cup Prefixed

PayloadAt(tag, p) == IF tag \in Prefixed THEN AfterVar(p) ELSE p
PayloadEnd(tag, p) ==
  CASE tag \in Bare -> p
    [] tag \in OneVarint -> AfterVar(p)
    [] tag \in EightBytes -> p + 8
    [] tag \in BigInts -> AfterVar(p) + (VarVal(p) \div 2)
    [] OTHER -> AfterVar(p) + VarVal(p)

\* _read_varint, _read_double and _read_raw raise at the end of the stream.
Truncated(tag, p) ==
  \/ tag \in OneVarint \cup Prefixed /\ VarLen(p) = 0
  \/ PayloadEnd(tag, p) > Len(bytes)

\* _blink_host_object_reader takes a length and as many bytes, and raises an
\* exception of its own.
Refusal(tag) == IF tag = Tag.HOST_OBJECT THEN "BlinkError" ELSE "V8Error"

\* the code units of two-byte characters, and half a surrogate pair among them
Units(s) == [i \in 1..Len(s) \div 2 |-> s[2 * i - 1] + 256 * s[2 * i]]
LoneSurrogate(s) ==
  \E i \in DOMAIN Units(s) :
    LET High(j) == j \in DOMAIN Units(s) /\ Units(s)[j] \in 55296..56319
        Low(j)  == j \in DOMAIN Units(s) /\ Units(s)[j] \in 56320..57343
    IN  (High(i) /\ ~Low(i + 1)) \/ (Low(i) /\ ~High(i - 1))

\* decode() and fromtimestamp() raise what is not a V8Error.  No byte that
\* V8 writes here continues a UTF-8 character.
Unconvertible(tag, payload) ==
  \/ tag = Tag.TWO_BYTE_STRING /\ (Len(payload) % 2 = 1 \/ LoneSurrogate(payload))
  \/ tag = Tag.UTF8_STRING /\ \E i \in DOMAIN payload : payload[i] >= 128
  \/ tag = Tag.DATE /\ payload = NaN

ZigZag(u) == IF u % 2 = 0 THEN u \div 2 ELSE -(u \div 2) - 1
BigInt(u, s) ==
  LET high[i \in 1..Len(s) + 1] == IF i > Len(s) THEN 0 ELSE s[i] + 256 * high[i + 1]
  IN  IF u % 2 = 1 THEN -high[1] ELSE high[1]

AtomValue(tag, p) ==
  LET payload == SubSeq(bytes, PayloadAt(tag, p) + 1, PayloadEnd(tag, p))
  IN  CASE tag \in {Tag.UNDEFINED, Tag.NULL} -> None
        [] tag \in {Tag.TRUE, Tag.TRUE_OBJECT} -> <<"bool", 1>>
        [] tag \in {Tag.FALSE, Tag.FALSE_OBJECT} -> <<"bool", 0>>
        [] tag = Tag.INT32 -> <<"int", ZigZag(VarVal(p))>>
        [] tag = Tag.UINT32 -> <<"int", VarVal(p)>>
        [] tag \in BigInts -> <<"int", BigInt(VarVal(p), payload)>>
        [] tag \in {Tag.DOUBLE, Tag.NUMBER_OBJECT} -> <<"float", payload>>
        [] tag = Tag.DATE -> <<"date", payload>>
        [] tag = Tag.TWO_BYTE_STRING -> <<"str", Units(payload)>>
        [] tag \in Strings \ {Tag.TWO_BYTE_STRING} -> <<"str", payload>>
        [] tag = Tag.ARRAY_BUFFER -> <<"bytes", payload>>
        [] tag \in {Tag.SHARED_ARRAY_BUFFER, Tag.ARRAY_BUFFER_TRANSFER} -> <<"bytes", <<>>>>
        [] tag = Tag.HOST_OBJECT -> <<"host", payload>>

(***************************************************************************)
(* _read_object, _dispatch and the handlers                                *)
(***************************************************************************)
Frame(kind, id, left) == [kind |-> kind, id |-> id, key |-> NoValue, left |-> left]
TopKind == IF stack = <<>> THEN "none" ELSE Last(stack).kind
AtEnd == pos >= Len(bytes)
Next1 == IF AtEnd THEN 256 ELSE bytes[pos + 1]

\* The loop of a container reads the tag of a key or a member itself and
\* hands it to _dispatch; everything else is read by _read_object.
Looping == TopKind = "set" \/ (TopKind \in Keyed /\ Last(stack).key = NoValue)
ElementsDone == TopKind = "dense" /\ Last(stack).left = 0
ReadingTag == pc = "read" /\ TopKind # "error" /\ ~ElementsDone

Returns(v, p, calls) ==
  /\ pc' = "return" /\ val' = v /\ pos' = p /\ stack' = calls
  /\ UNCHANGED <<bytes, writer, heap, raised>>

Raises(exception) ==
  /\ pc' = "raised" /\ raised' = exception
  /\ UNCHANGED <<bytes, writer, pos, stack, heap, val>>

Calls(frame, p) ==
  /\ stack' = Append(stack, frame) /\ pos' = p
  /\ UNCHANGED <<bytes, writer, pc, val, raised>>

Skips(p) ==
  /\ pos' = p
  /\ UNCHANGED <<bytes, writer, pc, stack, heap, val, raised>>

\* Mutant: padding is a tag like any other.
SkipPaddingNot ==
  /\ ReadingTag /\ ~Looping /\ Next1 = Tag.PADDING
  /\ Raises("V8Error")

\* The loop of _read_object: padding and the object counts of old writers.
SkipPadding ==
  /\ ReadingTag /\ ~Looping /\ Next1 \in {Tag.PADDING, Tag.VERIFY_OBJECT_COUNT}
  /\ Next1 = Tag.VERIFY_OBJECT_COUNT => VarLen(pos + 1) > 0
  /\ Skips(IF Next1 = Tag.PADDING THEN pos + 1 ELSE AfterVar(pos + 1))

ReadAtom ==
  /\ ReadingTag /\ Next1 \in Atoms /\ ~Truncated(Next1, pos + 1)
  /\ LET from == PayloadAt(Next1, pos + 1)
         to   == PayloadEnd(Next1, pos + 1)
     IN  IF Unconvertible(Next1, SubSeq(bytes, from + 1, to))
         THEN Raises("ValueError")
         ELSE Returns(AtomValue(Next1, pos + 1), to, stack)

\* _r_string_object and _r_regexp read another value, _r_error its fields.
BeginWrapped ==
  /\ ReadingTag /\ Next1 \in {Tag.STRING_OBJECT, Tag.REGEXP, Tag.ERROR}
  /\ Calls(Frame(CASE Next1 = Tag.STRING_OBJECT -> "string"
                   [] Next1 = Tag.REGEXP -> "regexp"
                   [] Next1 = Tag.ERROR -> "error", 0, 0), pos + 1)
  /\ UNCHANGED heap

\* Mutant: the container that is filled is the last one there was before.
BeginContainerBefore(c) ==
  /\ ReadingTag /\ Next1 = BeginTag[c]
  /\ c \in Arrays => VarLen(pos + 1) > 0
  /\ LET len == IF c \in Arrays THEN VarVal(pos + 1) ELSE 0
     IN  /\ heap' = Append(heap, [kind |-> c, items |-> [i \in 1..len |-> None]])
         /\ Calls(Frame(c, Len(heap), len),
                  IF c \in Arrays THEN AfterVar(pos + 1) ELSE pos + 1)

\* The container is in _objects before its members are read.
BeginContainer(c) ==
  /\ ReadingTag /\ Next1 = BeginTag[c]
  /\ c \in Arrays => VarLen(pos + 1) > 0
  /\ LET len == IF c \in Arrays THEN VarVal(pos + 1) ELSE 0
     IN  /\ heap' = Append(heap, [kind |-> c, items |-> [i \in 1..len |-> None]])
         /\ Calls(Frame(c, Len(heap) + 1, len),
                  IF c \in Arrays THEN AfterVar(pos + 1) ELSE pos + 1)

\* [None] * length: the list is made as long as the bytes say.
TooLong(c) ==
  /\ ReadingTag /\ Next1 = BeginTag[c] /\ c \in Arrays
  /\ VarLen(pos + 1) > 0 /\ VarVal(pos + 1) > Memory
  /\ Raises("MemoryError")

\* _read_object, _dispatch and the handlers call one another for every value
\* inside another.
TooDeep ==
  /\ pc = "read" /\ Len(stack) >= Depth
  /\ Raises("RecursionError")

\* Mutant: references count from one.
ReadReferenceFromOne ==
  /\ ReadingTag /\ Next1 = Tag.OBJECT_REFERENCE
  /\ VarLen(pos + 1) > 0
  /\ IF VarVal(pos + 1) \in 1..Len(heap)
     THEN Returns(<<"obj", VarVal(pos + 1)>>, AfterVar(pos + 1), stack)
     ELSE Raises("V8Error")

\* Mutant: the number is not looked at before the table is.
ReadReferenceUnchecked ==
  /\ ReadingTag /\ Next1 = Tag.OBJECT_REFERENCE
  /\ VarLen(pos + 1) > 0
  /\ IF VarVal(pos + 1) < Len(heap)
     THEN Returns(<<"obj", VarVal(pos + 1) + 1>>, AfterVar(pos + 1), stack)
     ELSE Raises("IndexError")

ReadReference ==
  /\ ReadingTag /\ Next1 = Tag.OBJECT_REFERENCE
  /\ VarLen(pos + 1) > 0
  /\ IF VarVal(pos + 1) < Len(heap)
     THEN Returns(<<"obj", VarVal(pos + 1) + 1>>, AfterVar(pos + 1), stack)
     ELSE Raises("V8Error")

\* An array ends in two varints, any other container in one.  The loop of a
\* dense array has read no end tag: the first of its varints is that tag.
EndContainer ==
  LET after == IF ElementsDone THEN pos ELSE pos + 1
      last  == IF TopKind \in Arrays THEN AfterVar(after) ELSE after
  IN  /\ pc = "read"
      /\ \/ ElementsDone
         \/ Looping /\ ~AtEnd /\ Next1 = EndTag[TopKind]
      /\ IF VarLen(after) = 0 \/ VarLen(last) = 0
         THEN Raises("V8Error")
         ELSE Returns(<<"obj", Last(stack).id>>, AfterVar(last), Front(stack))

\* Mutant: the loop is left by the terminator only.
ReadErrorFieldForever ==
  /\ pc = "read" /\ TopKind = "error"
  /\ IF Next1 = 46 THEN Returns(<<"error">>, pos + 1, Front(stack))
     ELSE Skips(IF AtEnd THEN pos ELSE pos + 1)

\* One turn of the loop of _r_error: the end of the stream ends it too.
ReadErrorField ==
  /\ pc = "read" /\ TopKind = "error"
  /\ LET text == Next1 \in {77, 83, 99}
     IN  \/ /\ AtEnd
           /\ Returns(<<"error">>, pos, Front(stack))
        \/ /\ ~AtEnd /\ Next1 = 46
           /\ Returns(<<"error">>, pos + 1, Front(stack))
        \/ /\ ~AtEnd /\ text /\ Truncated(Tag.UTF8_STRING, pos + 1)
           /\ Raises("V8Error")
        \/ /\ ~AtEnd /\ text /\ ~Truncated(Tag.UTF8_STRING, pos + 1)
           /\ LET from == PayloadAt(Tag.UTF8_STRING, pos + 1)
                  to   == PayloadEnd(Tag.UTF8_STRING, pos + 1)
              IN  IF Unconvertible(Tag.UTF8_STRING, SubSeq(bytes, from + 1, to))
                  THEN Raises("ValueError") ELSE Skips(to)
        \/ /\ ~AtEnd /\ ~text /\ Next1 # 46
           /\ Skips(pos + 1)

Known ==
  Atoms \cup {BeginTag[c] : c \in ContainerKinds}
    \cup {Tag.STRING_OBJECT, Tag.REGEXP, Tag.ERROR, Tag.OBJECT_REFERENCE}
    \cup (IF Looping THEN IF TopKind \in DOMAIN EndTag THEN {EndTag[TopKind]} ELSE {}
          ELSE {Tag.PADDING, Tag.VERIFY_OBJECT_COUNT})

\* The stream ends, the tag is unknown or not supported, or its varint or
\* payload is cut.
Malformed ==
  /\ pc = "read" /\ TopKind # "error" /\ ~ElementsDone
  /\ \/ Next1 \notin Known
     \/ Next1 \in Atoms /\ Truncated(Next1, pos + 1)
     \/ /\ VarLen(pos + 1) = 0
        /\ Next1 \in {Tag.OBJECT_REFERENCE} \cup {BeginTag[c] : c \in Arrays}
                       \cup (IF Looping THEN {} ELSE {Tag.VERIFY_OBJECT_COUNT})
  /\ Raises(Refusal(Next1))

(***************************************************************************)
(* What the caller does with the value                                     *)
(***************************************************************************)
Top == Last(stack)
Items == heap[Top.id].items

Hashable(v) == v[1] \notin {"obj", "error"}

\* Python has True == 1, and a dictionary keeps the key it has.
Canon(v) == IF v[1] = "bool" THEN <<"int", v[2]>> ELSE v
Same(v, w) == Canon(v) = Canon(w)

\* The reader goes on with the frame f on top and the members items.
Continues(f, items) ==
  /\ pc' = "read" /\ val' = NoValue
  /\ stack' = [stack EXCEPT ![Len(stack)] = f]
  /\ heap' = [heap EXCEPT ![f.id].items = items]
  /\ UNCHANGED <<bytes, writer, pos, raised>>

StoreKey ==
  /\ pc = "return" /\ TopKind \in Keyed /\ Top.key = NoValue
  /\ Continues([Top EXCEPT !.key = val], Items)

\* out[key] = value in _r_object and _r_map
StoreValue ==
  /\ pc = "return" /\ TopKind \in {"object", "map"} /\ Top.key # NoValue
  /\ LET old == {i \in DOMAIN Items : Same(Items[i][1], Top.key)}
     IN  IF ~Hashable(Top.key) THEN Raises("TypeError")
         ELSE Continues([Top EXCEPT !.key = NoValue],
                IF old = {} THEN Append(Items, <<Top.key, val>>)
                ELSE [i \in DOMAIN Items |-> IF i \in old THEN <<Items[i][1], val>> ELSE Items[i]])

\* _r_sparse_array: a key that is no index of the array is left out.
StoreSparse ==
  /\ pc = "return" /\ TopKind = "sparse" /\ Top.key # NoValue
  /\ Continues([Top EXCEPT !.key = NoValue],
       [i \in DOMAIN Items |->
          IF Top.key[1] \in {"int", "bool"} /\ Top.key[2] = i - 1 THEN val ELSE Items[i]])

StoreElement ==
  /\ pc = "return" /\ TopKind = "dense"
  /\ Continues([Top EXCEPT !.left = @ - 1],
               [Items EXCEPT ![Len(Items) - Top.left + 1] = val])

AddMember ==
  /\ pc = "return" /\ TopKind = "set"
  /\ IF ~Hashable(val) THEN Raises("TypeError")
     ELSE Continues(Top, IF \E i \in DOMAIN Items : Same(Items[i], val) THEN Items
                         ELSE Append(Items, val))

\* The flags of a RegExp are read before its pattern is looked at.
ReturnWrapped ==
  /\ pc = "return" /\ TopKind \in {"string", "regexp"}
  /\ IF val[1] # "str" \/ (TopKind = "regexp" /\ VarLen(pos) = 0)
     THEN Raises("V8Error")
     ELSE IF TopKind = "string" THEN Returns(val, pos, Front(stack))
     ELSE Returns(<<"regexp", val[2], VarVal(pos)>>, AfterVar(pos), Front(stack))

ReturnRoot ==
  /\ pc = "return" /\ stack = <<>>
  /\ pc' = "done"
  /\ UNCHANGED <<bytes, writer, pos, stack, heap, val, raised>>

Read ==
  \/ SkipPadding \/ ReadAtom \/ BeginWrapped
  \/ \E c \in ContainerKinds : BeginContainer(c) \/ TooLong(c)
  \/ TooDeep \/ ReadReference \/ EndContainer \/ ReadErrorField \/ Malformed
  \/ StoreKey \/ StoreValue \/ StoreSparse \/ StoreElement \/ AddMember
  \/ ReturnWrapped \/ ReturnRoot

Next == Write \/ Read

\* read_value is one call of one thread: it goes on until it returns.
Spec == Init /\ [][Next]_vars /\ WF_vars(Read)

(***************************************************************************)
(* Properties                                                              *)
(***************************************************************************)
PythonValue ==
  {None} \cup ({"bool"} \X {0, 1}) \cup ({"int"} \X Int) \cup ({"str"} \X Seq(Nat))
    \cup ({"date", "bytes", "float", "host"} \X Seq(Byte))
    \cup ({"regexp"} \X Seq(Nat) \X Nat) \cup {<<"error">>} \cup ({"obj"} \X Nat)

\* Every variable has its type, and a reference names a container there is.
TypeOK ==
  /\ bytes \in Seq(Byte) /\ pos \in Nat
  /\ pc \in {"write", "read", "return", "done", "raised"}
  /\ (raised # "no") = (pc = "raised")
  /\ val \in PythonValue \cup {NoValue}
  /\ val # NoValue /\ val[1] = "obj" => val[2] \in DOMAIN heap
  /\ pc \in {"return", "done"} => val # NoValue
  /\ \A i \in DOMAIN stack :
       stack[i].kind \in ContainerKinds =>
         stack[i].id \in DOMAIN heap /\ heap[stack[i].id].kind = stack[i].kind
  /\ pos <= Len(bytes)

\* What the graph is in Python: the containers in the order V8 numbered them.
IsContainer(id) == graph[id].kind \in ContainerKinds
Rank(id) == Cardinality({j \in 1..id : IsContainer(j)})

AsPython(v) ==
  IF v[1] = "prim" THEN Python[v[2]]
  ELSE IF IsContainer(v[2]) THEN <<"obj", Rank(v[2])>>
  ELSE Python[graph[v[2]].kind]

ItemsAsPython(n) ==
  CASE n.kind \in {"object", "map"} ->
         [i \in DOMAIN n.items |-> <<AsPython(n.items[i][1]), AsPython(n.items[i][2])>>]
    [] n.kind = "sparse" ->
         [i \in 1..n.len |->
            IF i = 2 /\ n.items # <<>> THEN AsPython(n.items[1][2]) ELSE None]
    [] n.kind \in {"dense", "set"} -> [i \in DOMAIN n.items |-> AsPython(n.items[i])]

HeapAsWritten ==
  /\ Len(heap) = Rank(Len(graph))
  /\ \A id \in DOMAIN graph : IsContainer(id) =>
       heap[Rank(id)] = [kind |-> graph[id].kind, items |-> ItemsAsPython(graph[id])]

\* what stands for a key of a dictionary or a member of a set
KeysWritten(n) ==
  IF n.kind \in Keyed THEN [i \in DOMAIN n.items |-> n.items[i][1]]
  ELSE IF n.kind = "set" THEN n.items ELSE <<>>
ValuesWritten ==
  {root} \cup UNION {LET n == graph[id]
                    IN  IF n.kind \in Keyed
                        THEN UNION {{n.items[i][1], n.items[i][2]} : i \in DOMAIN n.items}
                        ELSE {n.items[i] : i \in DOMAIN n.items} : id \in DOMAIN graph}
KindsWritten == {graph[id].kind : id \in DOMAIN graph}

\* The reader's numbers are V8's as far as references reach.
ReferencesAgree == \A id \in referred : \A j \in 1..id : IsContainer(j)
\* The byte an inner dense array leaves unread is read as a tag.
DenseOnlyAtRoot == \A id \in DOMAIN graph : graph[id].kind = "dense" => root = Obj(id)
KeysHashable ==
  \A id \in DOMAIN graph : graph[id].kind # "sparse" =>
    \A i \in DOMAIN KeysWritten(graph[id]) : Hashable(AsPython(KeysWritten(graph[id])[i]))
KeysDiffer ==
  \A id \in DOMAIN graph :
    LET keys == KeysWritten(graph[id])
    IN  \A i, j \in DOMAIN keys : i # j => ~Same(AsPython(keys[i]), AsPython(keys[j]))
Convertible == Prim("lone") \notin ValuesWritten /\ "invalid" \notin KindsWritten

\* Nothing is written that the reader leaves bytes of, or takes too many.
Aligned == DenseOnlyAtRoot /\ {"errorc", "host"} \cap KindsWritten = {}

\* What the reader is made for.
Supported ==
  /\ ReferencesAgree /\ Aligned /\ KeysHashable /\ KeysDiffer /\ Convertible /\ ~padded

\* Every array is one there is memory for, and no value is in so many others
\* that reading it could fill Python's stack.
ArraysFit == \A id \in DOMAIN graph : graph[id].kind \in Arrays => graph[id].len <= Memory
CallsFit == deepest + 2 <= Depth

\* A value that is whole, fits, and has none of the shapes above is read:
\* nothing in it raises, references, padding and ends of containers are all
\* where the reader expects them (_read_object, _dispatch and the container
\* handlers).
Recovered == pc = "raised" => cut \/ ~Supported \/ ~ArraysFit \/ ~CallsFit

\* What read_value returns is the graph that was stored, shared and cyclic
\* containers included; of a value cut anywhere the reader never returns
\* another one, or one with its end missing.
RightOrNothing ==
  pc = "done" /\ Supported => val = AsPython(root) /\ HeapAsWritten

\* Wherever what is stored is cut, what is not a V8Error comes of one thing
\* each: a key that cannot be hashed; text and dates that Python does not
\* have; values nested too deep; an array too long; or the reader is not where
\* V8 was, or met an object of Blink's own.  The callers catch only BlinkError
\* and V8Error (deserialize, IndexedDbReader._decode_value).
V8ErrorOnly ==
  /\ raised = "TypeError" => ~KeysHashable \/ ~ReferencesAgree \/ ~Aligned
  /\ raised = "ValueError" => ~Convertible \/ ~Aligned
  /\ raised = "BlinkError" => ~Aligned
  /\ raised = "RecursionError" => ~CallsFit \/ ~Aligned
  /\ raised = "MemoryError" => ~ArraysFit \/ ~Aligned
  /\ raised \in {"no", "V8Error", "BlinkError", "TypeError", "ValueError",
                 "RecursionError", "MemoryError"}

\* The loops of the handlers end, wherever the bytes do.
Ends == pc = "read" ~> pc \in {"done", "raised"}
=============================================================================
