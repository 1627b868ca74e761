------------------------------ MODULE MCIndexedDb ------------------------------
(* IndexedDb for TLC: ids of databases of one byte and of two bytes,         *)
(* a database and a store whose name Python cannot decode, and the user keys *)
(* numbered in byte order.                                                   *)
EXTENDS IndexedDb

\* an origin with no zero byte, and one in ASCII
WideOrigin == <<257>>
AsciiOrigin == <<97>>

\* 55296 is a surrogate without a partner
SmallDbNames == {<< 100 >>, << 55296 >>}
SmallStoreNames == {<< 115 >>, << 116 >>, << 55296 >>}
SmallIdbKeys == {<<1>>}

\* key 1 holds the version of the schema
SmallUserKey ==
  <<<<0, 0, 0, 0, 0>>, NameKey(<< 100 >>), NameKey(<< 55296 >>),
    StoreKey(127, 1), StoreKey(127, 2), RecordKey(127, 1, <<1>>), RecordKey(127, 2, <<1>>),
    StoreKey(128, 1), StoreKey(128, 2), RecordKey(128, 1, <<1>>), RecordKey(128, 2, <<1>>)>>

\* behind the headers: I 2 is the number 1, ; begins a map with an object for
\* a key, which Python cannot hash
SmallReadValue(body) ==
  IF body = <<73, 2>> THEN Outcome("value", "one")
  ELSE IF body # <<>> /\ Head(body) = 59 THEN Raised("TypeError") ELSE Raised("V8Error")

\* behind a version and Blink's header, V8's header alone, and one that Python
\* cannot hold
SmallPayloads ==
  {[bytes |-> <<2, 255, 17, 255, 13, 73, 2>>, value |-> "one"],
   [bytes |-> <<255, 13, 73, 2>>, value |-> "one"],
   [bytes |-> <<2, 255, 13, 59, 111>>, value |-> "none"]}

SmallValues ==
  {<<>>, <<127>>, <<128>>} \cup {EncodeString(n) : n \in SmallStoreNames}
    \cup {p.bytes : p \in SmallPayloads}

VersionBatch == {<<[key |-> 1, live |-> TRUE, value |-> <<127>>]>>}
=============================================================================
