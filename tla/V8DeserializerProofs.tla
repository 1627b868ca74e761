------------------------- MODULE V8DeserializerProofs -------------------------
(***************************************************************************)
(* What holds of V8Deserializer for all values its constants allow: the    *)
(* variables keep their types, what is read is what was stored, a whole    *)
(* value of a supported shape that fits Python's stack and memory is read, *)
(* and every exception that is not a V8Error has its cause.                *)
(*                                                                         *)
(* The bytes keep no record of how they came to be, so the proofs give     *)
(* them one: a story T, a sequence of moments of the writer, with the      *)
(* bytes of one token between each two.  Tells says that T is the story of *)
(* the bytes, Writing that there is one while V8 writes, and Written that  *)
(* there is one afterwards, of which the bytes that survived are the       *)
(* first.  TypeInv adds to it the types that the reader's steps need.      *)
(*                                                                         *)
(* IInv says that the reader is always in some chapter of the story, from  *)
(* a moment s to the next one t: in front of its token, behind padding,    *)
(* inside an object that wraps another, with its value in hand, or at an   *)
(* exception that has its reason.  The frames stand for the open objects   *)
(* of s, and the containers hold what its graph has.  It says so only of   *)
(* values that are Aligned: after an array inside another object the       *)
(* reader is a byte behind, and what it reads there is anything.           *)
(***************************************************************************)
EXTENDS V8Deserializer, SequenceTheorems, FiniteSetTheorems, WellFoundedInduction, TLAPS

\* A number below n is its own remainder.
LEMMA SmallRemainder == \A x \in Nat, n \in Nat : x < n => x % n = x
OBVIOUS

\* Bytes are numbers below 256.
LEMMA ByteRange == \A x \in Byte : x \in Nat /\ x < 256
BY DEF Byte

\* What is left of a byte string without its first n bytes.
LEMMA Dropped ==
  ASSUME NEW s \in Seq(Byte), NEW n \in 0..Len(s)
  PROVE  /\ Drop(s, n) \in Seq(Byte) /\ Len(Drop(s, n)) = Len(s) - n
         /\ \A i \in 1..Len(s) - n : Drop(s, n)[i] = s[n + i]
<1>1. Len(s) \in Nat /\ n \in Nat /\ n <= Len(s) BY LenProperties
<1>2. \A i \in n + 1..Len(s) : s[i] \in Byte BY <1>1, ElementOfSeq
<1>3. /\ SubSeq(s, n + 1, Len(s)) \in Seq(Byte)
      /\ Len(SubSeq(s, n + 1, Len(s))) = IF n + 1 <= Len(s) THEN Len(s) - (n + 1) + 1 ELSE 0
      /\ \A i \in 1..Len(s) - (n + 1) + 1 : SubSeq(s, n + 1, Len(s))[i] = s[n + 1 + i - 1]
  BY <1>1, <1>2, SubSeqProperties
<1>4. \A i \in 1..Len(s) - n : SubSeq(s, n + 1, Len(s))[i] = s[n + i] BY <1>1, <1>3
<1> QED BY <1>1, <1>3, <1>4 DEF Drop

(***************************************************************************)
(* Varints of one byte and of two                                          *)
(***************************************************************************)
\* Any number that has a property is no smaller than the least.
LEMMA Least ==
  ASSUME NEW T \in SUBSET Nat, T # {}
  PROVE  \E m \in T : \A n \in T : m <= n
<1> DEFINE R == OpToRel(<, Nat)
<1>1. IsWellFoundedOn(R, Nat) BY NatLessThanWellFounded
<1>2. PICK x \in T : \A y \in T : <<y, x>> \notin R
  <2> HIDE DEF R
  <2> QED BY <1>1, WFMin, Zenon
<1>3. \A y \in T : ~(y < x) BY <1>2 DEF OpToRel
<1> QED BY <1>3

\* A varint whose first byte has no continuation bit is that byte.
LEMMA OneByte ==
  ASSUME NEW s \in Seq(Byte), NEW cap \in Nat, cap >= 1, Len(s) >= 1, s[1] < 128
  PROVE  VarintLen(s, cap) = 1 /\ VarintValue(s, cap) = s[1]
<1>1. Len(s) \in Nat /\ DOMAIN s = 1..Len(s) /\ s[1] \in Byte BY LenProperties, ElementOfSeq
<1>2. VarintLen(s, cap) = 1
  <2> DEFINE ends == {i \in DOMAIN s : i <= cap /\ s[i] < 128}
  <2>1. 1 \in ends /\ \A j \in ends : j \in Nat /\ 1 <= j BY <1>1
  <2>2. \A i \in ends : (\A j \in ends : i <= j) => i = 1 BY <2>1
  <2>3. ends # {} BY <2>1
  <2>4. VarintLen(s, cap) = CHOOSE i \in ends : \A j \in ends : i <= j
    BY <2>3 DEF VarintLen
  <2> HIDE DEF ends
  <2> QED BY <2>1, <2>2, <2>4
<1> DEFINE R(f) == [i \in 1..1 + 1 |-> IF i > 1 THEN 0 ELSE (s[i] % 128) + 128 * f[i + 1]]
           v == CHOOSE f : f = R(f)
           w == [i \in 1..2 |-> IF i = 2 THEN 0 ELSE s[1]]
<1>3. VarintValue(s, cap) = v[1] BY <1>2 DEF VarintValue
<1>r. s[1] % 128 = s[1]
  <2>1. s[1] \in Nat BY <1>1, ByteRange
  <2> QED BY <2>1, SmallRemainder
<1>4. w = R(w)
  <2>1. /\ w[1] = s[1] /\ w[2] = 0 OBVIOUS
  <2>a. R(w)[1] = (s[1] % 128) + 128 * w[2] OBVIOUS
  <2>2. R(w)[1] = s[1]
    <3>1. \A x \in Nat : \A y : y = 0 => x + 128 * y = x OBVIOUS
    <3>2. s[1] \in Nat BY <1>1, ByteRange
    <3> HIDE DEF R, w
    <3> QED BY <1>r, <2>1, <2>a, <3>1, <3>2
  <2>3. R(w)[2] = 0 OBVIOUS
  <2>4. 1..2 = {1, 2} /\ 1..1 + 1 = {1, 2} OBVIOUS
  <2>5. w = [i \in {1, 2} |-> w[i]] BY <2>4
  <2>6. R(w) = [i \in {1, 2} |-> R(w)[i]] BY <2>4
  <2> HIDE DEF w, R
  <2> QED BY <2>1, <2>2, <2>3, <2>5, <2>6
<1>5. v = R(v)
  <2> HIDE DEF w, R
  <2> QED BY <1>4
<1> HIDE DEF v
<1>6. v[2] = 0 BY <1>5
<1>7. v[1] = (s[1] % 128) + 128 * v[2] BY <1>5
<1> QED BY <1>1, <1>2, <1>3, <1>r, <1>6, <1>7, ByteRange

\* A varint of two bytes.
LEMMA TwoBytes ==
  ASSUME NEW s \in Seq(Byte), NEW cap \in Nat, cap >= 2, Len(s) >= 2,
         s[1] >= 128, s[2] < 128
  PROVE  VarintLen(s, cap) = 2 /\ VarintValue(s, cap) = (s[1] % 128) + 128 * s[2]
<1>1. Len(s) \in Nat /\ DOMAIN s = 1..Len(s) /\ s[1] \in Byte /\ s[2] \in Byte
  BY LenProperties, ElementOfSeq
<1>2. VarintLen(s, cap) = 2
  <2> DEFINE ends == {i \in DOMAIN s : i <= cap /\ s[i] < 128}
  <2>1. 2 \in ends /\ \A j \in ends : j \in Nat /\ 2 <= j
    <3>1. ASSUME NEW j \in ends PROVE j \in Nat /\ 2 <= j
      <4>1. j \in 1..Len(s) /\ s[j] < 128 BY <1>1
      <4>2. j # 1 BY <1>1, <4>1, ByteRange
      <4> QED BY <1>1, <4>1, <4>2
    <3> QED BY <1>1, <3>1
  <2>2. \A i \in ends : (\A j \in ends : i <= j) => i = 2 BY <2>1
  <2>3. ends # {} BY <2>1
  <2>4. VarintLen(s, cap) = CHOOSE i \in ends : \A j \in ends : i <= j
    BY <2>3 DEF VarintLen
  <2> HIDE DEF ends
  <2> QED BY <2>1, <2>2, <2>4
<1> DEFINE R(f) == [i \in 1..2 + 1 |-> IF i > 2 THEN 0 ELSE (s[i] % 128) + 128 * f[i + 1]]
           v == CHOOSE f : f = R(f)
           w == [i \in 1..3 |-> IF i = 3 THEN 0 ELSE
                                IF i = 2 THEN s[2] ELSE (s[1] % 128) + 128 * s[2]]
<1>3. VarintValue(s, cap) = v[1] BY <1>2 DEF VarintValue
<1>r. s[2] % 128 = s[2]
  <2>1. s[2] \in Nat BY <1>1, ByteRange
  <2> QED BY <2>1, SmallRemainder
<1>4. w = R(w)
  <2>1. w[1] = (s[1] % 128) + 128 * s[2] /\ w[2] = s[2] /\ w[3] = 0 OBVIOUS
  <2>a. R(w)[1] = (s[1] % 128) + 128 * w[2] /\ R(w)[2] = (s[2] % 128) + 128 * w[3] OBVIOUS
  <2>2. R(w)[1] = w[1] /\ R(w)[2] = w[2]
    <3> HIDE DEF R, w
    <3> QED BY <1>1, <1>r, <2>1, <2>a, ByteRange
  <2>3. R(w)[3] = 0 OBVIOUS
  <2>4. 1..3 = {1, 2, 3} /\ 1..2 + 1 = {1, 2, 3} OBVIOUS
  <2>5. w = [i \in {1, 2, 3} |-> w[i]] BY <2>4
  <2>6. R(w) = [i \in {1, 2, 3} |-> R(w)[i]] BY <2>4
  <2> HIDE DEF w, R
  <2> QED BY <2>1, <2>2, <2>3, <2>5, <2>6
<1>5. v = R(v)
  <2> HIDE DEF w, R
  <2> QED BY <1>4
<1> HIDE DEF v
<1>6. v[3] = 0 BY <1>5
<1>7. v[2] = (s[2] % 128) + 128 * v[3] BY <1>5
<1>8. v[1] = (s[1] % 128) + 128 * v[2] BY <1>5
<1>9. v[2] = s[2] BY <1>1, <1>r, <1>6, <1>7, ByteRange
<1> QED BY <1>2, <1>3, <1>8, <1>9

\* The bytes end within the varint.
LEMMA NoVarint ==
  ASSUME NEW s \in Seq(Byte), NEW cap \in Nat, \A i \in 1..Len(s) : s[i] >= 128
  PROVE  VarintLen(s, cap) = 0
<1>1. DOMAIN s = 1..Len(s) /\ \A i \in 1..Len(s) : s[i] \in Byte
  BY LenProperties, ElementOfSeq
<1>2. {i \in DOMAIN s : i <= cap /\ s[i] < 128} = {} BY <1>1, ByteRange
<1> QED BY <1>2 DEF VarintLen

\* The two groups of seven bits of a number.
LEMMA Halves ==
  ASSUME NEW n \in TwoByte
  PROVE  /\ n \in Nat /\ n % 128 \in Nat /\ n % 128 < 128
         /\ n \div 128 \in Nat /\ n \div 128 < 128
         /\ (128 + (n % 128)) % 128 = n % 128
         /\ n = (n % 128) + (128 * (n \div 128))
         /\ n >= 128 => n \div 128 >= 1
<1>1. \A x \in Nat : x < 128 => (128 + x) % 128 = x OBVIOUS
<1>0. n \in Nat /\ n < 16384 BY DEF TwoByte
<1>2. n % 128 \in Nat /\ n % 128 < 128 BY <1>0
<1>3. n \div 128 \in Nat /\ n \div 128 < 128 BY <1>0
<1>4. n = (n % 128) + (128 * (n \div 128)) BY <1>0
<1>5. n >= 128 => n \div 128 >= 1 BY <1>0
<1>6. (128 + (n % 128)) % 128 = n % 128 BY <1>1, <1>2
<1> QED BY <1>0, <1>2, <1>3, <1>4, <1>5, <1>6

\* The bytes of EncodeVarint.
LEMMA EncodedBytes ==
  ASSUME NEW n \in TwoByte
  PROVE  LET v == EncodeVarint(n)
         IN  /\ v \in Seq(Byte)
             /\ n < 128 => Len(v) = 1 /\ v[1] = n
             /\ n >= 128 => Len(v) = 2 /\ v[1] = 128 + (n % 128) /\ v[2] = n \div 128
<1> DEFINE v == EncodeVarint(n)
<1>0. n \in Nat BY Halves
<1>1. \A x \in Nat : x < 256 => x \in Byte BY DEF Byte
<1>2. CASE n < 128
  <2>1. v = <<n>> BY <1>2 DEF EncodeVarint
  <2>2. n \in Byte BY <1>0, <1>1, <1>2
  <2> QED BY <1>0, <1>2, <2>1, <2>2
<1>3. CASE n >= 128
  <2> DEFINE x == 128 + (n % 128)
             y == n \div 128
  <2>1. v = <<x, y>> BY <1>0, <1>3 DEF EncodeVarint
  <2>2. x \in Nat /\ x < 256 /\ y \in Nat /\ y < 256 BY Halves
  <2>3. x \in Byte /\ y \in Byte BY <1>1, <2>2
  <2> HIDE DEF x, y
  <2>4. v \in Seq(Byte) /\ Len(v) = 2 /\ v[1] = x /\ v[2] = y BY <2>1, <2>3
  <2> QED BY <1>0, <1>3, <2>4 DEF x, y
<1> QED BY <1>0, <1>2, <1>3

\* The bytes of a number lie in b behind p, as far as b goes.
LEMMA NumberAt ==
  ASSUME NEW b \in Seq(Byte), NEW p \in Nat, p <= Len(b), NEW n \in TwoByte,
         \A i \in 1..Len(EncodeVarint(n)) : p + i <= Len(b) => b[p + i] = EncodeVarint(n)[i]
  PROVE  IF p + Len(EncodeVarint(n)) <= Len(b)
         THEN /\ VarintLen(Drop(b, p), 10) = Len(EncodeVarint(n))
              /\ VarintValue(Drop(b, p), 10) = n
         ELSE VarintLen(Drop(b, p), 10) = 0
<1> DEFINE v == EncodeVarint(n)
           u == Drop(b, p)
<1>0. n \in Nat /\ Len(b) \in Nat BY Halves, LenProperties
<1>1. v \in Seq(Byte) BY EncodedBytes
<1>2. n < 128 => Len(v) = 1 /\ v[1] = n BY EncodedBytes
<1>3. n >= 128 => Len(v) = 2 /\ v[1] = 128 + (n % 128) /\ v[2] = n \div 128 BY EncodedBytes
<1>4. p \in 0..Len(b) BY <1>0
<1>5. u \in Seq(Byte) /\ Len(u) = Len(b) - p /\ \A i \in 1..Len(b) - p : u[i] = b[p + i]
  BY <1>4, Dropped
<1>6. \A i \in 1..Len(v) : p + i <= Len(b) => b[p + i] = v[i] OBVIOUS
<1> HIDE DEF v, u
<1>7. CASE n < 128
  <2>1. CASE p + 1 <= Len(b)
    <3>1. Len(u) >= 1 /\ u[1] = b[p + 1] BY <1>0, <1>5, <2>1
    <3>b. Len(v) = 1 /\ v[1] = n BY <1>2, <1>7
    <3>a. 1 \in 1..Len(v) BY <3>b
    <3>2. u[1] = n BY <1>6, <2>1, <3>1, <3>a, <3>b
    <3>3. VarintLen(u, 10) = 1 /\ VarintValue(u, 10) = n BY <1>5, <1>7, <3>1, <3>2, OneByte
    <3> QED BY <1>2, <1>7, <2>1, <3>3 DEF u, v
  <2>2. CASE ~(p + 1 <= Len(b))
    <3>1. Len(u) = 0 BY <1>0, <1>5, <2>2
    <3>0. (\A i \in 1..Len(u) : u[i] >= 128) /\ 10 \in Nat BY <3>1
    <3>2. VarintLen(u, 10) = 0 BY <1>5, <3>0, NoVarint, Zenon
    <3> QED BY <1>2, <1>7, <2>2, <3>2 DEF u, v
  <2> QED BY <2>1, <2>2
<1>8. CASE n >= 128
  <2>h. n % 128 \in Nat /\ n \div 128 < 128 /\ n = (n % 128) + (128 * (n \div 128))
        /\ (128 + (n % 128)) % 128 = n % 128 BY Halves
  <2>a. Len(v) = 2 /\ v[1] = 128 + (n % 128) /\ v[2] = n \div 128 BY <1>3, <1>8
  <2>1. CASE p + 2 <= Len(b)
    <3>1. Len(u) >= 2 /\ u[1] = b[p + 1] /\ u[2] = b[p + 2] BY <1>0, <1>5, <2>1
    <3>2. u[1] = v[1] /\ u[2] = v[2] BY <1>6, <2>1, <2>a, <3>1
    <3>3. u[1] >= 128 /\ u[2] < 128 BY <2>a, <2>h, <3>2
    <3>4. VarintLen(u, 10) = 2 /\ VarintValue(u, 10) = (u[1] % 128) + 128 * u[2]
      BY <1>5, <3>1, <3>3, TwoBytes
    <3>5. VarintValue(u, 10) = n BY <2>a, <2>h, <3>2, <3>4
    <3> QED BY <2>a, <2>1, <3>4, <3>5 DEF u, v
  <2>2. CASE ~(p + 2 <= Len(b))
    <3>1. \A i \in 1..Len(u) : u[i] >= 128
      <4>1. SUFFICES ASSUME NEW i \in 1..Len(u) PROVE u[i] >= 128 OBVIOUS
      <4>2. i = 1 /\ p + 1 <= Len(b) /\ u[1] = b[p + 1] BY <1>0, <1>5, <2>2
      <4>3. u[1] = v[1] BY <1>6, <2>a, <4>2
      <4> QED BY <2>a, <2>h, <4>2, <4>3
    <3>2. VarintLen(u, 10) = 0 BY <1>5, <3>1, NoVarint
    <3> QED BY <2>a, <2>2, <3>2 DEF u, v
  <2> QED BY <2>1, <2>2
<1> QED BY <1>0, <1>7, <1>8

\* A varint that ends, ends within the bytes.
LEMMA VarintEnds ==
  ASSUME NEW b \in Seq(Byte), NEW p \in Nat, p <= Len(b)
  PROVE  /\ VarintLen(Drop(b, p), 10) \in Nat
         /\ p + VarintLen(Drop(b, p), 10) <= Len(b)
<1> DEFINE u == Drop(b, p)
           ends == {i \in DOMAIN u : i <= 10 /\ u[i] < 128}
<1>1. Len(b) \in Nat /\ p \in 0..Len(b) BY LenProperties
<1>2. u \in Seq(Byte) /\ Len(u) = Len(b) - p BY <1>1, Dropped
<1> HIDE DEF u
<1>3. DOMAIN u = 1..Len(u) BY <1>2, LenProperties
<1>4. CASE ends = {}
  <2>1. VarintLen(u, 10) = 0 BY <1>4 DEF VarintLen
  <2> QED BY <1>1, <2>1 DEF u
<1>5. CASE ends # {}
  <2> DEFINE P(i) == \A j \in ends : i <= j
  <2>1. VarintLen(u, 10) = CHOOSE i \in ends : P(i) BY <1>5 DEF VarintLen
  <2>2. ends \subseteq 1..10 BY <1>3
  <2>3. \E i \in ends : P(i)
    <3>1. ends \in SUBSET Nat BY <2>2
    <3> HIDE DEF ends
    <3> QED BY <1>5, <3>1, Least
  <2>4. VarintLen(u, 10) \in ends
    <3> HIDE DEF ends, P
    <3> QED BY <2>1, <2>3
  <2>5. VarintLen(u, 10) \in 1..Len(u) BY <1>3, <2>4
  <2> QED BY <1>1, <1>2, <2>5 DEF u
<1> QED BY <1>4, <1>5

(***************************************************************************)
(* What the writer does                                                    *)
(***************************************************************************)
Values == ({"prim"} \X Primitives) \cup ({"object"} \X Nat)
Entries == Values \cup (Values \X Values)
Nodes == [kind : Leaves \cup Containers, len : Nat, items : Seq(Entries)]
Opened == [id : Nat, key : Values \cup {NoValue}]

\* A moment of the writer: the bytes written, the graph, the open objects
\* and the root.
Moments == [at : Nat, graph : Seq(Nodes), open : Seq(Opened), root : Values \cup {NoValue}]
Moment(at, g, o, r) == [at |-> at, graph |-> g, open |-> o, root |-> r]

\* The kinds of objects, and what tells values apart.
LEMMA KindsApart ==
  /\ Leaves \cap ContainerKinds = {} /\ Containers \subseteq ContainerKinds
  /\ ContainerKinds = {"object", "sparse", "dense", "map", "set"}
  /\ Keyed \subseteq ContainerKinds /\ Arrays \subseteq ContainerKinds
  /\ MaxValues \in Nat /\ MaxValues <= 8191 /\ MaxLength \in 2..16383
BY V8Constants DEF ContainerKinds, BeginTag, Keyed, Arrays

\* Primitives and objects are values, and apart.
LEMMA ValueForms ==
  /\ NoValue \notin Values
  /\ \A p \in Primitives : Prim(p) \in Values
  /\ \A id \in Nat : Obj(id) \in Values
  /\ \A id : \A p : Obj(id) # Prim(p)
  /\ \A i, j : Obj(i) = Obj(j) => i = j
BY DEF Values, NoValue, Prim, Obj

\* The last of a sequence is the one at its length.
LEMMA LastIs == \A o : o # <<>> => Last(o) = o[Len(o)]
BY DEF Last

\* The length of a sequence, and the last of one that is not empty.
LEMMA NonEmpty ==
  ASSUME NEW S, NEW o \in Seq(S)
  PROVE  /\ Len(o) \in Nat /\ DOMAIN o = 1..Len(o)
         /\ o # <<>> <=> Len(o) >= 1
         /\ o # <<>> => Len(o) \in 1..Len(o) /\ o[Len(o)] \in S
<1>1. Len(o) \in Nat /\ DOMAIN o = 1..Len(o) BY LenProperties
<1>2. o = <<>> => Len(o) = 0 OBVIOUS
<1>3. o # <<>> => Len(o) \in Nat \ {0} BY EmptySeq
<1>4. Len(o) >= 1 => Len(o) \in 1..Len(o) BY <1>1
<1>5. \A i \in 1..Len(o) : o[i] \in S BY ElementOfSeq
<1> QED BY <1>1, <1>2, <1>3, <1>4, <1>5

Item(g, o, v) == IF Into(g, o).kind \in Keyed THEN <<Last(o).key, v>> ELSE v

\* The value v is taken by the innermost of the objects o.
LEMMA MemberTaken ==
  ASSUME NEW g \in Seq(Nodes), NEW o \in Seq(Opened), NEW v \in Values,
         o # <<>> => Last(o).id \in 1..Len(g)
  PROVE  LET h == WithMember(v, g, o)
             id == Last(o).id
         IN  /\ h \in Seq(Nodes) /\ Len(h) = Len(g)
             /\ \A i \in 1..Len(g) : h[i].kind = g[i].kind /\ h[i].len = g[i].len
             /\ \A i \in 1..Len(g) :
                  h[i].items = IF o # <<>> /\ ~WantsKey(g, o) /\ i = id
                               THEN Append(g[i].items, Item(g, o, v)) ELSE g[i].items
<1> DEFINE h == WithMember(v, g, o)
           id == Last(o).id
<1>1. CASE o = <<>> \/ WantsKey(g, o)
  <2>1. h = g BY <1>1 DEF WithMember
  <2> QED BY <1>1, <2>1
<1>2. CASE o # <<>> /\ ~WantsKey(g, o)
  <2> DEFINE n == g[id]
             m == [n EXCEPT !.items = Append(@, Item(g, o, v))]
  <2>1. id \in 1..Len(g) BY <1>2
  <2>2. n \in Nodes BY <2>1, ElementOfSeq
  <2>3. Item(g, o, v) \in Entries
    <3>1. Last(o) \in Opened BY <1>2, LastIs, NonEmpty
    <3>2. CASE Into(g, o).kind \in Keyed
      <4>1. Last(o).key # NoValue BY <1>2, <3>2 DEF WantsKey
      <4>2. Last(o).key \in Values BY <3>1, <4>1 DEF Opened
      <4> QED BY <3>2, <4>2 DEF Item, Entries
    <3>3. CASE Into(g, o).kind \notin Keyed BY <3>3 DEF Item, Entries
    <3> QED BY <3>2, <3>3
  <2>4. h = [g EXCEPT ![id] = m] BY <1>2 DEF WithMember, Item
  <2> HIDE DEF id, n
  <2>5. n.items \in Seq(Entries) BY <2>2 DEF Nodes
  <2>6. Append(n.items, Item(g, o, v)) \in Seq(Entries) BY <2>3, <2>5, AppendProperties
  <2>7. /\ m.kind = n.kind /\ m.len = n.len /\ m.items = Append(n.items, Item(g, o, v))
        /\ m \in Nodes
    BY <2>2, <2>6 DEF Nodes
  <2> HIDE DEF m
  <2>8. /\ h \in Seq(Nodes) /\ Len(h) = Len(g)
        /\ \A j \in 1..Len(g) : h[j] = IF j = id THEN m ELSE g[j]
    BY <2>1, <2>4, <2>7, ExceptSeq
  <2> HIDE DEF h
  <2> QED BY <1>2, <2>7, <2>8 DEF h, id, n
<1> QED BY <1>1, <1>2

\* What a value that is next makes of the open objects.
LEMMA KeyTaken ==
  ASSUME NEW g, NEW o \in Seq(Opened), NEW v \in Values
  PROVE  LET q == WithKey(v, g, o)
         IN  /\ q \in Seq(Opened) /\ Len(q) = Len(o)
             /\ \A i \in 1..Len(o) : q[i].id = o[i].id
             /\ \A i \in 1..Len(o) :
                  q[i].key = IF i < Len(o) THEN o[i].key
                             ELSE IF WantsKey(g, o) THEN v ELSE NoValue
             /\ \A i \in 1..Len(o) : i < Len(o) => q[i] = o[i]
<1> DEFINE q == WithKey(v, g, o)
           k == IF WantsKey(g, o) THEN v ELSE NoValue
           n == Len(o)
<1>0. Len(o) \in Nat BY LenProperties
<1>1. CASE o = <<>>
  <2>1. q = o BY <1>1 DEF WithKey
  <2>2. \A i \in 1..Len(o) : FALSE BY <1>1
  <2> HIDE DEF q
  <2>3. q \in Seq(Opened) /\ Len(q) = Len(o) BY <2>1
  <2> QED BY <2>2, <2>3 DEF q
<1>2. CASE o # <<>>
  <2>1. n \in 1..Len(o) /\ o[n] \in Opened BY <1>2, NonEmpty
  <2> DEFINE m == [o[n] EXCEPT !.key = k]
  <2>2. q = [o EXCEPT ![n] = m] BY <1>2 DEF WithKey
  <2>3. k \in Values \cup {NoValue} OBVIOUS
  <2> HIDE DEF k, n
  <2>4. m.id = o[n].id /\ m.key = k /\ m \in Opened BY <2>1, <2>3 DEF Opened
  <2> HIDE DEF m
  <2>5. /\ q \in Seq(Opened) /\ Len(q) = Len(o)
        /\ \A j \in 1..Len(o) : q[j] = IF j = n THEN m ELSE o[j]
    BY <2>1, <2>2, <2>4, ExceptSeq
  <2> HIDE DEF q
  <2>6. \A i \in 1..Len(o) : i < Len(o) <=> i # n BY <1>0 DEF n
  <2> QED BY <2>4, <2>5, <2>6 DEF q, k
<1> QED BY <1>1, <1>2

\* The objects open without the innermost one.
LEMMA FrontIs ==
  ASSUME NEW o \in Seq(Opened), o # <<>>
  PROVE  /\ Front(o) \in Seq(Opened) /\ Len(Front(o)) = Len(o) - 1
         /\ \A i \in 1..Len(o) - 1 : Front(o)[i] = o[i]
<1>1. Len(o) \in Nat /\ Len(o) >= 1 BY NonEmpty
<1>2. Front(o) = SubSeq(o, 1, Len(o) - 1) BY DEF Front
<1>3. \A i \in 1..Len(o) - 1 : o[i] \in Opened BY <1>1, ElementOfSeq
<1>4. 1 \in Int /\ Len(o) - 1 \in Int BY <1>1
<1> DEFINE n == Len(o) - 1
           w == SubSeq(o, 1, n)
<1>5. /\ w \in Seq(Opened) /\ Len(w) = IF 1 <= n THEN n - 1 + 1 ELSE 0
      /\ \A i \in 1..n - 1 + 1 : w[i] = o[1 + i - 1]
  BY <1>3, <1>4, SubSeqProperties
<1>6. n \in Nat /\ w = Front(o) BY <1>1, <1>2
<1> HIDE DEF n, w
<1>7. Len(w) = n /\ \A i \in 1..n : w[i] = o[i] BY <1>5, <1>6
<1> QED BY <1>5, <1>6, <1>7 DEF n

NodeSound(n) ==
  /\ n.len <= MaxLength
  /\ n.kind = "sparse" =>
       2 <= n.len /\ \A j \in 1..Len(n.items) : n.items[j][1] = Prim("one")
  /\ n.kind = "dense" => Len(n.items) <= n.len

\* Frame i of the open objects, and what it still takes.
FrameSound(g, o, i) ==
  LET n == g[o[i].id]
  IN  /\ o[i].id \in 1..Len(g) /\ n.kind \in Containers
      /\ o[i].key # NoValue => n.kind \in Keyed
      /\ n.kind = "sparse" /\ o[i].key # NoValue => o[i].key = Prim("one") /\ n.items = <<>>
      /\ i < Len(o) => /\ n.kind = "dense" => Len(n.items) < n.len
                       /\ n.kind = "sparse" => o[i].key # NoValue

\* Objects are opened in the order of their numbers, and a dense array that
\* is not open any more has all its elements.
Increasing(o) == \A i, j \in 1..Len(o) : i < j => o[i].id < o[j].id
Closed(g, o) ==
  \A id \in 1..Len(g) :
    g[id].kind = "dense" /\ (\A i \in 1..Len(o) : o[i].id # id) => Len(g[id].items) = g[id].len

Shape(g, o) ==
  /\ g \in Seq(Nodes) /\ o \in Seq(Opened)
  /\ \A id \in 1..Len(g) : NodeSound(g[id])
  /\ \A i \in 1..Len(o) : FrameSound(g, o, i)
  /\ Increasing(o) /\ Closed(g, o)

\* The innermost object takes one more value, and v if it is a key.
Room(g, o) ==
  o # <<>> =>
    LET n == Into(g, o)
    IN  /\ n.kind = "dense" => Len(n.items) < n.len
        /\ n.kind = "sparse" /\ WantsKey(g, o) => n.items = <<>>
KeyFits(g, o, v) == WantsKey(g, o) /\ Into(g, o).kind = "sparse" => v = Prim("one")

\* The innermost open object is in the graph.
LEMMA TopIs ==
  ASSUME NEW g, NEW o, Shape(g, o), o # <<>>
  PROVE  /\ Len(o) \in 1..Len(o) /\ Len(o) \in Nat
         /\ Last(o) = o[Len(o)] /\ o[Len(o)] \in Opened
         /\ Last(o).id \in 1..Len(g) /\ Into(g, o) = g[o[Len(o)].id] /\ Into(g, o) \in Nodes
<1>1. Len(o) \in 1..Len(o) /\ Len(o) \in Nat /\ o[Len(o)] \in Opened BY NonEmpty DEF Shape
<1>2. Last(o) = o[Len(o)] BY LastIs
<1>3. Last(o).id \in 1..Len(g) BY <1>1, <1>2 DEF Shape, FrameSound
<1> QED BY <1>1, <1>2, <1>3, ElementOfSeq DEF Shape, Into

\* The fields of an object.
LEMMA NodeFields == \A n \in Nodes :
  n.kind \in Leaves \cup Containers /\ n.len \in Nat /\ n.items \in Seq(Entries)
  /\ Len(n.items) \in Nat
BY LenProperties DEF Nodes

\* A graph and open objects keep their shape when a value follows.
LEMMA TakenShape ==
  ASSUME NEW g, NEW o, NEW v \in Values, Shape(g, o), Room(g, o), KeyFits(g, o, v)
  PROVE  Shape(WithMember(v, g, o), WithKey(v, g, o))
<1> DEFINE h == WithMember(v, g, o)
           q == WithKey(v, g, o)
           top == Last(o).id
<1>1. g \in Seq(Nodes) /\ o \in Seq(Opened) BY DEF Shape
<1>2. o # <<>> => top \in 1..Len(g) BY TopIs
<1>3. /\ h \in Seq(Nodes) /\ Len(h) = Len(g)
      /\ \A i \in 1..Len(g) : h[i].kind = g[i].kind /\ h[i].len = g[i].len
      /\ \A i \in 1..Len(g) :
           h[i].items = IF o # <<>> /\ ~WantsKey(g, o) /\ i = top
                        THEN Append(g[i].items, Item(g, o, v)) ELSE g[i].items
  BY <1>1, <1>2, MemberTaken
<1>4. /\ q \in Seq(Opened) /\ Len(q) = Len(o)
      /\ \A i \in 1..Len(o) : q[i].id = o[i].id
      /\ \A i \in 1..Len(o) : q[i].key = IF i < Len(o) THEN o[i].key
                                         ELSE IF WantsKey(g, o) THEN v ELSE NoValue
  BY <1>1, KeyTaken
<1> HIDE DEF h, q
<1>5. Len(g) \in Nat /\ Len(o) \in Nat BY <1>1, LenProperties
<1>6. \A id \in 1..Len(g) : g[id] \in Nodes /\ h[id] \in Nodes BY <1>1, <1>3, ElementOfSeq
<1>7. ASSUME o # <<>>, ~WantsKey(g, o)
      PROVE  /\ h[top].items = Append(g[top].items, Item(g, o, v))
             /\ Len(h[top].items) = Len(g[top].items) + 1
             /\ \A j \in 1..Len(g[top].items) : h[top].items[j] = g[top].items[j]
             /\ h[top].items[Len(g[top].items) + 1] = Item(g, o, v)
  <2>1. h[top].items = Append(g[top].items, Item(g, o, v)) BY <1>2, <1>3, <1>7
  <2>2. g[top].items \in Seq(Entries) BY <1>2, <1>6, <1>7 DEF Nodes
  <2>3. h[top].items \in Seq(Entries) BY <1>2, <1>6, <1>7 DEF Nodes
  <2>4. Item(g, o, v) \in Entries
    <3>1. Last(o) \in Opened BY <1>7, TopIs
    <3>2. CASE Into(g, o).kind \in Keyed
      <4>1. Last(o).key # NoValue BY <1>7, <3>2 DEF WantsKey
      <4>2. Last(o).key \in Values BY <3>1, <4>1 DEF Opened
      <4> QED BY <3>2, <4>2 DEF Item, Entries
    <3>3. CASE Into(g, o).kind \notin Keyed BY <3>3 DEF Item, Entries
    <3> QED BY <3>2, <3>3
  <2> QED BY <2>1, <2>2, <2>4, AppendProperties
<1>8. \A id \in 1..Len(g) : o = <<>> \/ WantsKey(g, o) \/ id # top => h[id].items = g[id].items
  BY <1>3
<1>9. \A id \in 1..Len(g) : NodeSound(g[id]) BY DEF Shape
<1>10. ASSUME NEW id \in 1..Len(g) PROVE NodeSound(h[id])
  <2>1. CASE o # <<>> /\ ~WantsKey(g, o) /\ id = top
    <3>1. g[top].kind = "dense" => Len(h[top].items) <= g[top].len
      <4>1. g[top].kind = "dense" => Len(g[top].items) < g[top].len
        BY <2>1 DEF Room, Into
      <4> QED BY <1>6, <1>7, <2>1, <4>1, NodeFields
    <3>2. g[top].kind = "sparse" => Item(g, o, v)[1] = Prim("one")
      <4>1. SUFFICES ASSUME g[top].kind = "sparse" PROVE Item(g, o, v)[1] = Prim("one") OBVIOUS
      <4>2. Into(g, o).kind \in Keyed BY <4>1 DEF Into, Keyed
      <4>3. Last(o).key # NoValue BY <2>1, <4>2 DEF WantsKey
      <4>4. Last(o).key = Prim("one") BY <2>1, <4>1, <4>3, TopIs DEF Shape, FrameSound
      <4> QED BY <4>2, <4>4 DEF Item
    <3>3. g[top].kind = "sparse" =>
            \A j \in 1..Len(h[top].items) : h[top].items[j][1] = Prim("one")
      <4>1. SUFFICES ASSUME g[top].kind = "sparse", NEW j \in 1..Len(h[top].items)
                     PROVE  h[top].items[j][1] = Prim("one") OBVIOUS
      <4>2. Len(g[top].items) \in Nat BY <1>6, <2>1, NodeFields
      <4>3. j \in 1..Len(g[top].items) \/ j = Len(g[top].items) + 1 BY <1>7, <2>1, <4>2
      <4>4. CASE j \in 1..Len(g[top].items)
        <5>1. g[top].items[j][1] = Prim("one") BY <1>9, <2>1, <4>1, <4>4 DEF NodeSound
        <5> QED BY <1>7, <2>1, <4>4, <5>1
      <4>5. CASE j = Len(g[top].items) + 1 BY <1>7, <2>1, <3>2, <4>1, <4>5
      <4> QED BY <4>3, <4>4, <4>5
    <3> QED BY <1>3, <1>9, <2>1, <3>1, <3>3 DEF NodeSound
  <2>2. CASE ~(o # <<>> /\ ~WantsKey(g, o) /\ id = top)
    <3>1. h[id].items = g[id].items BY <1>8, <2>2
    <3> QED BY <1>3, <1>9, <3>1 DEF NodeSound
  <2> QED BY <2>1, <2>2
<1>11. ASSUME NEW i \in 1..Len(o) PROVE FrameSound(h, q, i)
  <2>0. FrameSound(g, o, i) BY DEF Shape
  <2>1. o[i].id \in 1..Len(g) /\ g[o[i].id].kind \in Containers BY <2>0 DEF FrameSound
  <2>2. CASE i < Len(o)
    <3>1. o # <<>> /\ Len(o) \in 1..Len(o) /\ top = o[Len(o)].id
      <4>1. Len(o) >= 1 BY <1>5, <2>2
      <4>2. o # <<>> BY <1>1, <4>1, NonEmpty
      <4> QED BY <4>2, TopIs
    <3>2. o[i].id < top BY <2>2, <3>1 DEF Shape, Increasing
    <3>3. o[i].id # top BY <1>2, <1>5, <2>1, <3>1, <3>2
    <3>4. h[o[i].id].items = g[o[i].id].items BY <1>8, <2>1, <3>3
    <3> QED BY <1>3, <1>4, <2>0, <2>1, <2>2, <3>4 DEF FrameSound
  <2>3. CASE ~(i < Len(o))
    <3>1. i = Len(o) /\ o # <<>> /\ top = o[i].id
      <4>1. i = Len(o) BY <1>5, <2>3
      <4>2. o # <<>> BY <1>1, <1>5, NonEmpty
      <4> QED BY <4>1, <4>2, TopIs
    <3>2. CASE WantsKey(g, o)
      <4>1. q[i].key = v /\ h[o[i].id].items = g[o[i].id].items BY <1>4, <1>8, <2>1, <2>3, <3>2
      <4>2. Into(g, o) = g[o[i].id] BY <3>1 DEF Into
      <4>3. g[o[i].id].kind \in Keyed BY <3>2, <4>2 DEF WantsKey
      <4>4. g[o[i].id].kind = "sparse" => v = Prim("one") /\ g[o[i].id].items = <<>>
        BY <3>1, <3>2, <4>2 DEF KeyFits, Room
      <4> QED BY <1>3, <1>4, <2>1, <2>3, <4>1, <4>3, <4>4 DEF FrameSound
    <3>3. CASE ~WantsKey(g, o)
      <4>1. q[i].key = NoValue BY <1>4, <2>3, <3>3
      <4> QED BY <1>3, <1>4, <2>1, <2>3, <4>1 DEF FrameSound
    <3> QED BY <3>2, <3>3
  <2> QED BY <2>2, <2>3
<1>12. Increasing(q)
  <2>1. Increasing(o) BY DEF Shape
  <2> QED BY <1>4, <2>1 DEF Increasing
<1>13. Closed(h, q)
  <2>1. SUFFICES ASSUME NEW id \in 1..Len(g), g[id].kind = "dense",
                        \A i \in 1..Len(o) : o[i].id # id
                 PROVE  Len(h[id].items) = g[id].len
    BY <1>3, <1>4 DEF Closed
  <2>2. o # <<>> => id # top BY <2>1, TopIs
  <2>3. h[id].items = g[id].items BY <1>8, <2>2
  <2> QED BY <2>1, <2>3 DEF Shape, Closed
<1>14. \A id \in 1..Len(h) : NodeSound(h[id]) BY <1>3, <1>10
<1>15. \A i \in 1..Len(q) : FrameSound(h, q, i) BY <1>4, <1>11
<1> QED BY <1>3, <1>4, <1>12, <1>13, <1>14, <1>15 DEF Shape, h, q

\* A new object at the end of the graph.
LEMMA GrownIs ==
  ASSUME NEW g \in Seq(Nodes), NEW kind \in Leaves \cup Containers, NEW len \in Nat
  PROVE  LET h == Append(g, Node(kind, len))
         IN  /\ h \in Seq(Nodes) /\ Len(h) = Len(g) + 1 /\ Len(g) \in Nat
             /\ \A i \in 1..Len(g) : h[i] = g[i]
             /\ h[Len(g) + 1] = Node(kind, len) /\ h[Len(g) + 1].kind = kind
             /\ h[Len(g) + 1].len = len /\ h[Len(g) + 1].items = <<>>
<1>1. Node(kind, len) \in Nodes BY DEF Node, Nodes
<1>2. Len(g) \in Nat BY LenProperties
<1>3. Node(kind, len).kind = kind /\ Node(kind, len).len = len /\ Node(kind, len).items = <<>>
  BY DEF Node
<1> QED BY <1>1, <1>2, <1>3, AppendProperties

\* They keep it when an object without members is made,
LEMMA GrownShape ==
  ASSUME NEW g, NEW o, Shape(g, o), NEW kind \in Leaves, NEW len \in Nat, len <= MaxLength
  PROVE  Shape(Append(g, Node(kind, len)), o)
<1> DEFINE h == Append(g, Node(kind, len))
<1>1. g \in Seq(Nodes) /\ o \in Seq(Opened) BY DEF Shape
<1>2. /\ h \in Seq(Nodes) /\ Len(h) = Len(g) + 1 /\ Len(g) \in Nat
      /\ \A i \in 1..Len(g) : h[i] = g[i]
      /\ h[Len(g) + 1].kind = kind
      /\ h[Len(g) + 1].len = len /\ h[Len(g) + 1].items = <<>>
  BY <1>1, GrownIs
<1> HIDE DEF h
<1>3. \A id \in 1..Len(h) : id \in 1..Len(g) \/ id = Len(g) + 1 BY <1>2
<1>4. kind # "dense" /\ kind # "sparse" BY KindsApart
<1>5. \A id \in 1..Len(h) : NodeSound(h[id])
  <2>1. NodeSound(h[Len(g) + 1]) BY <1>2, <1>4 DEF NodeSound
  <2> QED BY <1>2, <1>3, <2>1 DEF Shape
<1>6. \A i \in 1..Len(o) : FrameSound(h, o, i)
  <2>1. SUFFICES ASSUME NEW i \in 1..Len(o) PROVE FrameSound(h, o, i) OBVIOUS
  <2>2. FrameSound(g, o, i) BY DEF Shape
  <2>3. o[i].id \in 1..Len(g) BY <2>2 DEF FrameSound
  <2>4. h[o[i].id] = g[o[i].id] /\ o[i].id \in 1..Len(h) BY <1>2, <2>3
  <2> QED BY <2>2, <2>4 DEF FrameSound
<1>7. Closed(h, o)
  <2>1. \A id \in 1..Len(h) : h[id].kind = "dense" => id \in 1..Len(g) /\ h[id] = g[id]
    BY <1>2, <1>3, <1>4
  <2> QED BY <2>1 DEF Closed, Shape
<1> QED BY <1>1, <1>2, <1>5, <1>6, <1>7 DEF Shape, h

\* An object is opened.
Push(g, o) == Append(o, [id |-> Len(g) + 1, key |-> NoValue])
\* What one more open object makes of the others.
LEMMA PushIs ==
  ASSUME NEW g \in Seq(Nodes), NEW o \in Seq(Opened)
  PROVE  /\ Push(g, o) \in Seq(Opened) /\ Len(Push(g, o)) = Len(o) + 1 /\ Len(o) \in Nat
         /\ \A i \in 1..Len(o) : Push(g, o)[i] = o[i]
         /\ Push(g, o)[Len(o) + 1].id = Len(g) + 1 /\ Push(g, o)[Len(o) + 1].key = NoValue
<1>1. Len(g) + 1 \in Nat BY LenProperties
<1> DEFINE f == [id |-> Len(g) + 1, key |-> NoValue]
<1>2. f \in Opened /\ f.id = Len(g) + 1 /\ f.key = NoValue BY <1>1 DEF Opened
<1>3. Push(g, o) = Append(o, f) BY DEF Push
<1> HIDE DEF f
<1> QED BY <1>2, <1>3, AppendProperties, LenProperties

\* and when an object is opened.
LEMMA OpenedShape ==
  ASSUME NEW g, NEW o, Shape(g, o), Room(g, o), NEW kind \in Containers, NEW len \in Nat,
         len <= MaxLength, kind = "sparse" => 2 <= len,
         ~(WantsKey(g, o) /\ Into(g, o).kind = "sparse")
  PROVE  Shape(Append(g, Node(kind, len)), Push(g, o))
<1> DEFINE h == Append(g, Node(kind, len))
           q == Push(g, o)
<1>1. g \in Seq(Nodes) /\ o \in Seq(Opened) BY DEF Shape
<1>2. /\ h \in Seq(Nodes) /\ Len(h) = Len(g) + 1 /\ Len(g) \in Nat
      /\ \A i \in 1..Len(g) : h[i] = g[i]
      /\ h[Len(g) + 1].kind = kind
      /\ h[Len(g) + 1].len = len /\ h[Len(g) + 1].items = <<>>
  BY <1>1, GrownIs
<1>3. /\ q \in Seq(Opened) /\ Len(q) = Len(o) + 1 /\ Len(o) \in Nat
      /\ \A i \in 1..Len(o) : q[i] = o[i]
      /\ q[Len(o) + 1].id = Len(g) + 1 /\ q[Len(o) + 1].key = NoValue
  BY <1>1, PushIs
<1> HIDE DEF h, q
<1>4. \A id \in 1..Len(h) : id \in 1..Len(g) \/ id = Len(g) + 1 BY <1>2
<1>5. \A i \in 1..Len(q) : i \in 1..Len(o) \/ i = Len(o) + 1 BY <1>3
<1>6. q[Len(o) + 1].id = Len(g) + 1 /\ q[Len(o) + 1].key = NoValue BY <1>3
<1>7. \A id \in 1..Len(h) : NodeSound(h[id])
  <2>1. Len(h[Len(g) + 1].items) = 0 BY <1>2
  <2>2. NodeSound(h[Len(g) + 1]) BY <1>2, <2>1 DEF NodeSound
  <2> QED BY <1>2, <1>4, <2>2 DEF Shape
<1>8. ASSUME NEW i \in 1..Len(o) PROVE FrameSound(h, q, i)
  <2>1. FrameSound(g, o, i) BY DEF Shape
  <2>2. o[i].id \in 1..Len(g) BY <2>1 DEF FrameSound
  <2>3. h[o[i].id] = g[o[i].id] /\ o[i].id \in 1..Len(h) /\ q[i] = o[i] BY <1>2, <1>3, <2>2
  <2>4. /\ g[o[i].id].kind = "dense" => Len(g[o[i].id].items) < g[o[i].id].len
        /\ g[o[i].id].kind = "sparse" => o[i].key # NoValue
    <3>1. CASE i < Len(o) BY <2>1, <3>1 DEF FrameSound
    <3>2. CASE ~(i < Len(o))
      <4>1. o # <<>> BY <1>1, <1>3, NonEmpty
      <4>2. Into(g, o) = g[o[i].id] /\ Last(o) = o[i] BY <1>3, <3>2, <4>1, TopIs
      <4> QED BY <4>1, <4>2 DEF Room, WantsKey, Keyed
    <3> QED BY <3>1, <3>2
  <2> QED BY <2>1, <2>3, <2>4 DEF FrameSound
<1>9. FrameSound(h, q, Len(o) + 1)
  <2>1. ~(Len(o) + 1 < Len(q)) BY <1>3
  <2>2. Len(g) + 1 \in 1..Len(h) BY <1>2
  <2> QED BY <1>2, <1>6, <2>1, <2>2 DEF FrameSound
<1>10. Increasing(q)
  <2>1. SUFFICES ASSUME NEW i \in 1..Len(q), NEW j \in 1..Len(q), i < j
                 PROVE  q[i].id < q[j].id
    BY DEF Increasing
  <2>2. i \in 1..Len(o) BY <1>3, <2>1
  <2>3. CASE j \in 1..Len(o) BY <1>3, <2>1, <2>2, <2>3 DEF Shape, Increasing
  <2>4. CASE j = Len(o) + 1
    <3>1. o[i].id \in 1..Len(g) BY <2>2 DEF Shape, FrameSound
    <3> QED BY <1>2, <1>3, <1>6, <2>2, <2>4, <3>1
  <2> QED BY <1>5, <2>3, <2>4
<1>11. Closed(h, q)
  <2>1. SUFFICES ASSUME NEW id \in 1..Len(h), h[id].kind = "dense",
                        \A i \in 1..Len(q) : q[i].id # id
                 PROVE  Len(h[id].items) = h[id].len
    BY DEF Closed
  <2>2. Len(o) + 1 \in 1..Len(q) BY <1>3
  <2>3. id \in 1..Len(g) BY <1>4, <1>6, <2>1, <2>2
  <2>4. \A i \in 1..Len(o) : i \in 1..Len(q) /\ q[i] = o[i] BY <1>3
  <2>5. \A i \in 1..Len(o) : o[i].id # id BY <2>1, <2>4
  <2> QED BY <1>2, <2>1, <2>3, <2>5 DEF Shape, Closed
<1>12. \A i \in 1..Len(q) : FrameSound(h, q, i) BY <1>5, <1>8, <1>9
<1> QED BY <1>2, <1>3, <1>7, <1>10, <1>11, <1>12 DEF Shape, h, q

\* The innermost object is closed: what is open around it has room for it.
LEMMA FrontShape ==
  ASSUME NEW g, NEW o, Shape(g, o), o # <<>>,
         Into(g, o).kind = "dense" => Len(Into(g, o).items) = Into(g, o).len
  PROVE  /\ Shape(g, Front(o)) /\ Room(g, Front(o))
         /\ \A v : KeyFits(g, Front(o), v)
         /\ Front(o) = <<>> => Last(o).id = o[1].id
         /\ Front(o) # <<>> => Front(o)[1] = o[1]
<1> DEFINE q == Front(o)
<1>1. g \in Seq(Nodes) /\ o \in Seq(Opened) BY DEF Shape
<1>2. Len(o) \in 1..Len(o) /\ Len(o) \in Nat /\ Last(o) = o[Len(o)] BY TopIs
<1>3. /\ q \in Seq(Opened) /\ Len(q) = Len(o) - 1
      /\ \A i \in 1..Len(o) - 1 : q[i] = o[i]
  BY <1>1, FrontIs
<1> HIDE DEF q
<1>4. \A i \in 1..Len(q) : i \in 1..Len(o) /\ i < Len(o) /\ q[i] = o[i] BY <1>2, <1>3
<1>5. \A i \in 1..Len(q) : FrameSound(g, q, i)
  <2>1. SUFFICES ASSUME NEW i \in 1..Len(q) PROVE FrameSound(g, q, i) OBVIOUS
  <2>2. FrameSound(g, o, i) /\ q[i] = o[i] /\ i < Len(o) BY <1>4 DEF Shape
  <2> QED BY <2>2 DEF FrameSound
<1>6. Increasing(q) BY <1>4 DEF Shape, Increasing
<1>7. Closed(g, q)
  <2>1. SUFFICES ASSUME NEW id \in 1..Len(g), g[id].kind = "dense",
                        \A i \in 1..Len(q) : q[i].id # id
                 PROVE  Len(g[id].items) = g[id].len
    BY DEF Closed
  <2>2. CASE id = Last(o).id BY <2>1, <2>2 DEF Into
  <2>3. CASE id # Last(o).id
    <3>1. \A i \in 1..Len(o) : i \in 1..Len(q) \/ i = Len(o) BY <1>2, <1>3
    <3>2. \A i \in 1..Len(o) : o[i].id # id BY <1>2, <1>4, <2>1, <2>3, <3>1
    <3> QED BY <2>1, <3>2 DEF Shape, Closed
  <2> QED BY <2>2, <2>3
<1>8. Shape(g, q) BY <1>1, <1>3, <1>5, <1>6, <1>7 DEF Shape
<1>9. ASSUME q # <<>> PROVE Room(g, q) /\ ~(WantsKey(g, q) /\ Into(g, q).kind = "sparse")
  <2>1. Len(q) \in 1..Len(q) /\ Last(q) = q[Len(q)] /\ Into(g, q) = g[q[Len(q)].id]
    BY <1>8, <1>9, TopIs
  <2>2. FrameSound(g, o, Len(q)) /\ q[Len(q)] = o[Len(q)] /\ Len(q) < Len(o)
    BY <1>4, <2>1 DEF Shape
  <2>3. /\ Into(g, q).kind = "dense" => Len(Into(g, q).items) < Into(g, q).len
        /\ Into(g, q).kind = "sparse" => Last(q).key # NoValue
    BY <2>1, <2>2 DEF FrameSound
  <2> QED BY <2>3 DEF Room, WantsKey
<1>10. q = <<>> => Len(o) = 1 BY <1>2, <1>3
<1>11. q # <<>> => q[1] = o[1]
  <2>1. q # <<>> => 1 \in 1..Len(q) BY <1>3, NonEmpty
  <2> QED BY <1>4, <2>1
<1>12. q = <<>> => Room(g, q) /\ ~WantsKey(g, q) BY DEF Room, WantsKey
<1> QED BY <1>2, <1>8, <1>9, <1>10, <1>11, <1>12 DEF KeyFits, q

\* e is written in b behind the first p bytes.
Lies(b, p, e) == p + Len(e) <= Len(b) /\ \A i \in 1..Len(e) : b[p + i] = e[i]

\* A moment that the writer can be at: nothing is stored before the outermost
\* object is complete, which has number one.
Rooted(s) ==
  /\ s.open # <<>> => s.root = NoValue /\ s.open[1].id = 1
  /\ s.open = <<>> /\ s.root = NoValue => s.graph = <<>>
  /\ \A id \in Nat : s.root = Obj(id) => id = 1
Sound(s) == s \in Moments /\ Shape(s.graph, s.open) /\ Rooted(s)

\* s takes the value v, having the graph g and the open objects o by then.
Taken(s, at, g, o, v) ==
  Moment(at, WithMember(v, g, o), WithKey(v, g, o), IF o = <<>> THEN v ELSE s.root)

\* The value v may follow.
Ready(s, v) ==
  /\ Room(s.graph, s.open) /\ KeyFits(s.graph, s.open, v)
  /\ s.open = <<>> => s.root = NoValue

\* a key, or a member of a set
InLoop(s) ==
  WantsKey(s.graph, s.open) \/ (s.open # <<>> /\ Into(s.graph, s.open).kind = "set")

PrimitiveToken(b, P, s, t, p, pad) ==
  /\ Ready(s, Prim(p)) /\ (pad = 1 /\ InLoop(s) => P)
  /\ pad = 1 => Lies(b, s.at, <<0>>)
  /\ Lies(b, s.at + pad, Encoding[p])
  /\ t = Taken(s, s.at + pad + Len(Encoding[p]), s.graph, s.open, Prim(p))

Grown(s, kind, len) == Append(s.graph, Node(kind, len))
Number(s) == Len(s.graph) + 1

LeafToken(b, s, t, l) ==
  /\ Ready(s, Obj(Number(s))) /\ Lies(b, s.at, Encoding[l])
  /\ t = Taken(s, s.at + Len(Encoding[l]), Grown(s, l, 0), s.open, Obj(Number(s)))

Header(c, len) == <<BeginTag[c]>> \o (IF c \in Arrays THEN EncodeVarint(len) ELSE <<>>)
BeginToken(b, s, t, c, len) ==
  /\ Ready(s, Obj(Number(s))) /\ (c = "sparse" => 2 <= len) /\ (c \notin Arrays => len = 0)
  /\ Lies(b, s.at, Header(c, len))
  /\ t = Moment(s.at + Len(Header(c, len)), Grown(s, c, len), Push(s.graph, s.open), s.root)

Reference(id) == <<94>> \o EncodeVarint(id - 1)
ReferenceToken(b, R, s, t, id) ==
  /\ Ready(s, Obj(id)) /\ id \in DOMAIN s.graph /\ id \in R /\ id <= MaxValues
  /\ Lies(b, s.at, Reference(id))
  /\ t = Taken(s, s.at + Len(Reference(id)), s.graph, s.open, Obj(id))

EndToken(b, s, t) ==
  /\ s.open # <<>> /\ Last(s.open).key = NoValue
  /\ LET n == Into(s.graph, s.open)
     IN  /\ n.kind = "dense" => Len(n.items) = n.len
         /\ Len(n.items) <= MaxValues
         /\ Lies(b, s.at, Trailer(n))
         /\ t = Taken(s, s.at + Len(Trailer(n)), s.graph, Front(s.open), Obj(Last(s.open).id))

\* The writer goes from s to t, R is referred to and P says whether a key is
\* padded.
Token(b, R, P, s, t) ==
  \/ \E p \in Primitives, pad \in {0, 1} : PrimitiveToken(b, P, s, t, p, pad)
  \/ \E l \in Leaves : LeafToken(b, s, t, l)
  \/ \E c \in Containers, len \in 0..MaxLength : BeginToken(b, s, t, c, len)
  \/ \E id \in Nat : ReferenceToken(b, R, s, t, id)
  \/ EndToken(b, s, t)

\* Every token completes a value or opens an object.
Completes(s, t, g, o, v) ==
  /\ t.at \in Nat /\ t = Taken(s, t.at, g, o, v) /\ v \in Values
  /\ Shape(g, o) /\ Room(g, o) /\ KeyFits(g, o, v)
  /\ o = <<>> => s.root = NoValue \/ s.open # <<>>
  /\ o = <<>> => \A id \in Nat : v = Obj(id) => id = 1
  /\ g = s.graph \/ \E l \in Leaves : g = Append(s.graph, Node(l, 0))
  /\ o = s.open \/ (s.open # <<>> /\ Last(s.open).key = NoValue /\ o = Front(s.open))
Opens(s, t, c, len) ==
  /\ t.at \in Nat /\ t = Moment(t.at, Grown(s, c, len), Push(s.graph, s.open), s.root)
  /\ c \in Containers /\ len \in 0..MaxLength /\ (c = "sparse" => 2 <= len)
  /\ Ready(s, Obj(Number(s)))

\* The fields of a moment.
LEMMA MomentIs == \A at, g, o, r :
  /\ Moment(at, g, o, r).at = at /\ Moment(at, g, o, r).graph = g
  /\ Moment(at, g, o, r).open = o /\ Moment(at, g, o, r).root = r
BY DEF Moment

\* Moments, and the types of their fields.
LEMMA MomentIn ==
  /\ \A at \in Nat, g \in Seq(Nodes), o \in Seq(Opened), r \in Values \cup {NoValue} :
       Moment(at, g, o, r) \in Moments
  /\ \A s \in Moments :
       /\ s.at \in Nat /\ s.graph \in Seq(Nodes) /\ s.open \in Seq(Opened)
       /\ s.root \in Values \cup {NoValue} /\ s = Moment(s.at, s.graph, s.open, s.root)
BY DEF Moment, Moments

\* The length of a sequence is a number.
LEMMA LenNat ==
  ASSUME NEW S, NEW e \in Seq(S)
  PROVE  Len(e) \in Nat
BY LenProperties

\* Everything that the writer writes are bytes.
LEMMA EncodingIs ==
  /\ Encoding["undefined"] = <<95>> /\ Encoding["null"] = <<48>> /\ Encoding["true"] = <<84>>
  /\ Encoding["one"] = <<73, 2>> /\ Encoding["narrow"] = <<34, 1, 97>>
  /\ Encoding["wide"] = <<99, 2, 97, 1>> /\ Encoding["lone"] = <<99, 2, 0, 216>>
  /\ Encoding["date"] = <<68>> \o Date /\ Encoding["invalid"] = <<68>> \o NaN
  /\ Encoding["wrapper"] = <<121>> /\ Encoding["string"] = <<115, 34, 1, 97>>
  /\ Encoding["regexp"] = <<82, 34, 1, 97, 2>>
  /\ Encoding["error"] = <<114, 109, 34, 1, 97, 46>>
  /\ Encoding["errorc"] = <<114, 109, 34, 3, 99, 2, 97, 46>>
  /\ Encoding["buffer"] = <<66, 1, 7>> /\ Encoding["host"] = <<92, 105, 0>>
BY DEF Encoding

\* Every primitive and every object without members has bytes.
LEMMA EncodingBytes ==
  /\ \A p \in Primitives \cup Leaves : Encoding[p] \in Seq(Byte) /\ Len(Encoding[p]) >= 1
<1>1. SUFFICES ASSUME NEW p \in Primitives \cup Leaves
               PROVE  Encoding[p] \in Seq(Byte) /\ Len(Encoding[p]) >= 1
  OBVIOUS
<1>2. p \in {"undefined", "null", "true", "one", "narrow", "wide", "lone", "date", "invalid",
             "wrapper",
             "string", "regexp", "error", "errorc", "buffer", "host"}
  BY V8Constants
<1>3. \A x \in Nat : x < 256 => x \in Byte BY DEF Byte
<1>4. Date = <<0, 0, 0, 0, 0, 0, 89, 64>> /\ NaN = <<0, 0, 0, 0, 0, 0, 248, 127>> BY DEF Date, NaN
<1>5. Date \in Seq(Byte) /\ NaN \in Seq(Byte) /\ Len(Date) = 8 /\ Len(NaN) = 8
  BY <1>3, <1>4
<1>6. CASE p \in {"date", "invalid"}
  <2>1. PICK w \in {Date, NaN} : Encoding[p] = <<68>> \o w BY <1>6, EncodingIs
  <2>2. <<68>> \in Seq(Byte) /\ Len(<<68>>) = 1 BY <1>3
  <2> QED BY <1>5, <2>1, <2>2, ConcatProperties
<1>7. \A x \in Byte : <<x>> \in Seq(Byte) /\ Len(<<x>>) = 1 OBVIOUS
<1>8. \A x, y \in Byte : <<x, y>> \in Seq(Byte) /\ Len(<<x, y>>) = 2 OBVIOUS
<1>9. \A x, y, z \in Byte : <<x, y, z>> \in Seq(Byte) /\ Len(<<x, y, z>>) = 3 OBVIOUS
<1>10. \A u, x, y, z \in Byte : <<u, x, y, z>> \in Seq(Byte) /\ Len(<<u, x, y, z>>) = 4 OBVIOUS
<1>11. \A u, v, x, y, z \in Byte :
         <<u, v, x, y, z>> \in Seq(Byte) /\ Len(<<u, v, x, y, z>>) = 5 OBVIOUS
<1>12. \A u, v, w, x, y, z \in Byte :
         <<u, v, w, x, y, z>> \in Seq(Byte) /\ Len(<<u, v, w, x, y, z>>) = 6 OBVIOUS
<1>32. \A u, v, w, x, y, z, i, j \in Byte :
         <<u, v, w, x, y, z, i, j>> \in Seq(Byte) /\ Len(<<u, v, w, x, y, z, i, j>>) = 8
  OBVIOUS
<1>13. {0, 1, 2, 3, 7, 34, 46, 48, 66, 73, 82, 84, 92, 95, 97, 99, 105, 109, 114, 115, 121, 216}
         \subseteq Byte
  BY <1>3
<1>14. CASE p = "undefined" BY <1>7, <1>13, <1>14, EncodingIs
<1>15. CASE p = "null" BY <1>7, <1>13, <1>15, EncodingIs
<1>16. CASE p = "true" BY <1>7, <1>13, <1>16, EncodingIs
<1>17. CASE p = "wrapper" BY <1>7, <1>13, <1>17, EncodingIs
<1>18. CASE p = "one" BY <1>8, <1>13, <1>18, EncodingIs
<1>19. CASE p = "narrow" BY <1>9, <1>13, <1>19, EncodingIs
<1>20. CASE p = "buffer" BY <1>9, <1>13, <1>20, EncodingIs
<1>21. CASE p = "host" BY <1>9, <1>13, <1>21, EncodingIs
<1>22. CASE p = "wide" BY <1>10, <1>13, <1>22, EncodingIs
<1>23. CASE p = "lone" BY <1>10, <1>13, <1>23, EncodingIs
<1>24. CASE p = "string" BY <1>10, <1>13, <1>24, EncodingIs
<1>25. CASE p = "regexp" BY <1>11, <1>13, <1>25, EncodingIs
<1>26. CASE p = "error" BY <1>12, <1>13, <1>26, EncodingIs
<1>27. CASE p = "errorc" BY <1>32, <1>13, <1>27, EncodingIs
<1> QED BY <1>2, <1>6, <1>14, <1>15, <1>16, <1>17, <1>18, <1>19, <1>20, <1>21,
          <1>22, <1>23, <1>24, <1>25, <1>26, <1>27

\* The tags, by number.
LEMMA TagIs ==
  /\ Tag.UNDEFINED = 95 /\ Tag.NULL = 48 /\ Tag.TRUE = 84 /\ Tag.FALSE = 70 /\ Tag.INT32 = 73
  /\ Tag.UINT32 = 85 /\ Tag.DOUBLE = 78 /\ Tag.BIG_INT = 90 /\ Tag.UTF8_STRING = 83
  /\ Tag.ONE_BYTE_STRING = 34 /\ Tag.TWO_BYTE_STRING = 99 /\ Tag.PADDING = 0
  /\ Tag.VERIFY_OBJECT_COUNT = 63 /\ Tag.DATE = 68 /\ Tag.TRUE_OBJECT = 121
  /\ Tag.FALSE_OBJECT = 120 /\ Tag.NUMBER_OBJECT = 110 /\ Tag.BIG_INT_OBJECT = 122
  /\ Tag.STRING_OBJECT = 115 /\ Tag.REGEXP = 82 /\ Tag.ARRAY_BUFFER = 66
  /\ Tag.ARRAY_BUFFER_VIEW = 86 /\ Tag.SHARED_ARRAY_BUFFER = 117
  /\ Tag.ARRAY_BUFFER_TRANSFER = 116 /\ Tag.END_DENSE_ARRAY = 36
  /\ Tag.OBJECT_REFERENCE = 94 /\ Tag.HOST_OBJECT = 92 /\ Tag.ERROR = 114
BY DEF Tag

\* The tags that containers begin and end with.
LEMMA BeginEnd ==
  /\ BeginTag["object"] = 111 /\ BeginTag["sparse"] = 97 /\ BeginTag["dense"] = 65
  /\ BeginTag["map"] = 59 /\ BeginTag["set"] = 39
  /\ EndTag["object"] = 123 /\ EndTag["sparse"] = 64 /\ EndTag["map"] = 58 /\ EndTag["set"] = 44
  /\ DOMAIN EndTag = {"object", "sparse", "map", "set"}
  /\ ContainerKinds = {"object", "sparse", "dense", "map", "set"}
BY DEF BeginTag, EndTag, ContainerKinds

\* The bounds on values and lengths, and the numbers a varint of two bytes
\* holds.
LEMMA Bounds ==
  /\ MaxValues \in Nat /\ MaxValues <= 8191
  /\ MaxLength \in Nat /\ 2 <= MaxLength /\ MaxLength <= 16383
  /\ \A c \in Containers : c \in {"object", "sparse", "dense", "map", "set"}
  /\ \A n \in Nat : n <= 16383 => n \in TwoByte
<1>1. \A c \in Containers : c \in {"object", "sparse", "dense", "map", "set"}
  <2>1. Containers \subseteq ContainerKinds BY V8Constants
  <2> QED BY <2>1, BeginEnd
<1>2. \A n \in Nat : n <= 16383 => n \in TwoByte BY DEF TwoByte
<1> QED BY <1>1, <1>2, V8Constants

\* A byte alone is a byte string.
LEMMA OneIs == \A x \in Nat : x < 256 => <<x>> \in Seq(Byte) /\ Len(<<x>>) = 1 /\ <<x>>[1] = x
BY DEF Byte

\* The varint of a number below 16384 has one byte or two.
LEMMA EncodedLen ==
  \A n \in TwoByte : EncodeVarint(n) \in Seq(Byte) /\ Len(EncodeVarint(n)) \in {1, 2}
<1>1. SUFFICES ASSUME NEW n \in TwoByte
               PROVE  EncodeVarint(n) \in Seq(Byte) /\ Len(EncodeVarint(n)) \in {1, 2} OBVIOUS
<1>2. n \in Nat BY Halves
<1> QED BY <1>2, EncodedBytes

\* Where a concatenation lies, its parts lie one behind the other.
LEMMA LiesParts ==
  ASSUME NEW b \in Seq(Byte), NEW p \in Nat, NEW d \in Seq(Byte), NEW e \in Seq(Byte)
  PROVE  /\ d \o e \in Seq(Byte) /\ Len(d \o e) = Len(d) + Len(e)
         /\ Lies(b, p, d \o e) <=> Lies(b, p, d) /\ Lies(b, p + Len(d), e)
<1>1. Len(d) \in Nat /\ Len(e) \in Nat /\ Len(b) \in Nat BY LenProperties
<1> DEFINE f == d \o e
<1>2. /\ f \in Seq(Byte) /\ Len(f) = Len(d) + Len(e)
      /\ \A i \in 1..Len(d) + Len(e) : f[i] = IF i <= Len(d) THEN d[i] ELSE e[i - Len(d)]
  BY ConcatProperties
<1> HIDE DEF f
<1>3. \A i \in 1..Len(d) : i \in 1..Len(f) /\ f[i] = d[i] BY <1>1, <1>2
<1>4. \A i \in 1..Len(e) :
        Len(d) + i \in 1..Len(f) /\ f[Len(d) + i] = e[i] /\ p + Len(d) + i = p + (Len(d) + i)
  <2>1. SUFFICES ASSUME NEW i \in 1..Len(e)
                 PROVE  Len(d) + i \in 1..Len(f) /\ f[Len(d) + i] = e[i]
                        /\ p + Len(d) + i = p + (Len(d) + i) OBVIOUS
  <2>2. Len(d) + i \in 1..Len(d) + Len(e) /\ ~(Len(d) + i <= Len(d)) /\ Len(d) + i - Len(d) = i
    BY <1>1
  <2> QED BY <1>1, <1>2, <2>2
<1>5. \A i \in 1..Len(f) :
        i \in 1..Len(d) \/ (i - Len(d) \in 1..Len(e) /\ i = Len(d) + (i - Len(d)))
  BY <1>1, <1>2
<1>6. Lies(b, p, f) => Lies(b, p, d) /\ Lies(b, p + Len(d), e)
  BY <1>1, <1>2, <1>3, <1>4 DEF Lies
<1>7. ASSUME Lies(b, p, d), Lies(b, p + Len(d), e) PROVE Lies(b, p, f)
  <2>1. p + Len(f) <= Len(b) BY <1>1, <1>2, <1>7 DEF Lies
  <2>2. \A i \in 1..Len(d) : b[p + i] = f[i] BY <1>3, <1>7 DEF Lies
  <2>3. \A i \in 1..Len(e) : b[p + (Len(d) + i)] = f[Len(d) + i] BY <1>4, <1>7 DEF Lies
  <2>4. ASSUME NEW i \in 1..Len(f) PROVE b[p + i] = f[i]
    <3>1. CASE i \in 1..Len(d) BY <2>2, <3>1
    <3>2. CASE i - Len(d) \in 1..Len(e) /\ i = Len(d) + (i - Len(d))
      <4> DEFINE j == i - Len(d)
      <4>1. b[p + (Len(d) + j)] = f[Len(d) + j] BY <2>3, <3>2
      <4> QED BY <3>2, <4>1
    <3> QED BY <1>5, <3>1, <3>2
  <2> QED BY <2>1, <2>4 DEF Lies
<1> QED BY <1>2, <1>6, <1>7 DEF f

\* Where a single byte lies.
LEMMA LiesOne ==
  \A b \in Seq(Byte), p \in Nat, x \in Nat :
    Lies(b, p, <<x>>) <=> p + 1 <= Len(b) /\ b[p + 1] = x
BY DEF Lies

\* No bytes are a byte string.
LEMMA Empty == <<>> \in Seq(Byte) /\ Len(<<>>) = 0
OBVIOUS

\* What a container begins with.
LEMMA HeaderIs ==
  ASSUME NEW c \in ContainerKinds, NEW len \in TwoByte
  PROVE  /\ <<BeginTag[c]>> \in Seq(Byte) /\ BeginTag[c] \in Nat /\ BeginTag[c] < 256
         /\ EncodeVarint(len) \in Seq(Byte)
         /\ c \in Arrays => Header(c, len) = <<BeginTag[c]>> \o EncodeVarint(len)
         /\ c \notin Arrays => Header(c, len) = <<BeginTag[c]>>
         /\ Header(c, len) \in Seq(Byte) /\ Len(Header(c, len)) >= 1
<1> DEFINE x == BeginTag[c]
           e == EncodeVarint(len)
<1>1. x \in Nat /\ x < 256 BY BeginEnd
<1>2. <<x>> \in Seq(Byte) /\ Len(<<x>>) = 1 /\ <<x>>[1] = x BY <1>1, OneIs
<1>3. e \in Seq(Byte) /\ Len(e) \in {1, 2} BY EncodedLen
<1>4. CASE c \in Arrays
  <2>1. Header(c, len) = <<x>> \o e BY <1>4 DEF Header
  <2> HIDE DEF x, e
  <2>2. <<x>> \o e \in Seq(Byte) /\ Len(<<x>> \o e) = 1 + Len(e)
    BY <1>2, <1>3, ConcatProperties
  <2> QED BY <1>1, <1>2, <1>3, <1>4, <2>1, <2>2 DEF x, e
<1>5. CASE c \notin Arrays
  <2>1. Header(c, len) = <<x>> \o <<>> BY <1>5 DEF Header
  <2>2. <<x>> \o <<>> = <<x>> BY <1>2, ConcatEmptySeq
  <2> QED BY <1>1, <1>2, <1>3, <1>5, <2>1, <2>2
<1> QED BY <1>4, <1>5

\* The numbers that end an object take two bytes at most.
LEMMA TrailerIs ==
  ASSUME NEW n \in Nodes, n.kind \in Containers, n.len <= MaxLength, Len(n.items) <= MaxValues
  PROVE  /\ n.kind = "dense" => Trailer(n) = <<36, 0>> \o EncodeVarint(n.len)
         /\ n.kind = "sparse" =>
              Trailer(n) = <<64>> \o EncodeVarint(Len(n.items)) \o EncodeVarint(n.len)
         /\ n.kind = "map" => Trailer(n) = <<58>> \o EncodeVarint(2 * Len(n.items))
         /\ n.kind \in {"object", "set"} =>
              Trailer(n) = <<EndTag[n.kind]>> \o EncodeVarint(Len(n.items))
         /\ n.len \in TwoByte /\ Len(n.items) \in TwoByte /\ 2 * Len(n.items) \in TwoByte
         /\ Trailer(n) \in Seq(Byte) /\ Len(Trailer(n)) >= 2
<1>1. n.len \in Nat /\ Len(n.items) \in Nat BY NodeFields
<1>2. n.kind \in {"object", "sparse", "dense", "map", "set"} BY Bounds
<1>3. n.len \in TwoByte /\ Len(n.items) \in TwoByte /\ 2 * Len(n.items) \in TwoByte
  BY <1>1, Bounds
<1>4. n.kind = "dense" => Trailer(n) = <<36, 0>> \o EncodeVarint(n.len) BY TagIs DEF Trailer
<1>5. n.kind = "sparse" => Trailer(n) = <<64>> \o EncodeVarint(Len(n.items)) \o EncodeVarint(n.len)
  BY BeginEnd DEF Trailer
<1>6. n.kind = "map" => Trailer(n) = <<58>> \o EncodeVarint(2 * Len(n.items))
  BY BeginEnd DEF Trailer
<1>7. n.kind \in {"object", "set"} => Trailer(n) = <<EndTag[n.kind]>> \o EncodeVarint(Len(n.items))
  BY DEF Trailer
<1>8. Trailer(n) \in Seq(Byte) /\ Len(Trailer(n)) >= 2
  <2>1. <<36, 0>> \in Seq(Byte) /\ Len(<<36, 0>>) = 2 BY DEF Byte
  <2>2. \A d, e \in Seq(Byte) : d \o e \in Seq(Byte) /\ Len(d \o e) = Len(d) + Len(e)
    BY ConcatProperties
  <2>3. \A e \in Seq(Byte) : Len(e) \in Nat BY LenProperties
  <2>4. \A m \in TwoByte : EncodeVarint(m) \in Seq(Byte) /\ Len(EncodeVarint(m)) >= 1
    <3>1. \A x \in {1, 2} : x >= 1 OBVIOUS
    <3> QED BY <3>1, EncodedLen
  <2>5. n.kind # "dense" => EndTag[n.kind] \in {123, 64, 58, 44} BY <1>2, BeginEnd
  <2>6. n.kind # "dense" => <<EndTag[n.kind]>> \in Seq(Byte) /\ Len(<<EndTag[n.kind]>>) = 1
    BY <2>5, OneIs
  <2>7. CASE n.kind = "dense"
    <3> DEFINE d == <<36, 0>>
               e == EncodeVarint(n.len)
    <3>1. d \in Seq(Byte) /\ Len(d) = 2 /\ e \in Seq(Byte) /\ Trailer(n) = d \o e
      BY <1>3, <1>4, <2>1, <2>4, <2>7
    <3> HIDE DEF d, e
    <3>2. d \o e \in Seq(Byte) /\ Len(d \o e) = 2 + Len(e) /\ Len(e) \in Nat
      BY <2>2, <2>3, <3>1
    <3> QED BY <3>1, <3>2
  <2>8. CASE n.kind = "sparse"
    <3>1. EndTag[n.kind] = 64 BY <2>8, BeginEnd
    <3> DEFINE d == <<64>>
               e == EncodeVarint(Len(n.items))
               f == EncodeVarint(n.len)
    <3>2. /\ d \in Seq(Byte) /\ Len(d) = 1 /\ e \in Seq(Byte) /\ Len(e) >= 1
          /\ f \in Seq(Byte) /\ Len(f) >= 1
      BY <1>3, <2>4, <2>6, <2>8, <3>1
    <3>3. Trailer(n) = d \o e \o f BY <1>5, <2>8
    <3> HIDE DEF d, e, f
    <3>4. d \o e \in Seq(Byte) /\ Len(d \o e) = 1 + Len(e) BY <2>2, <3>2
    <3>5. d \o e \o f \in Seq(Byte) /\ Len(d \o e \o f) = 1 + Len(e) + Len(f) BY <2>2, <3>2, <3>4
    <3>6. Len(e) \in Nat /\ Len(f) \in Nat BY <2>3, <3>2
    <3> QED BY <3>2, <3>3, <3>5, <3>6
  <2>9. CASE n.kind \in {"object", "map", "set"}
    <3>1. PICK m \in TwoByte : Trailer(n) = <<EndTag[n.kind]>> \o EncodeVarint(m)
        <4>1. CASE n.kind = "map"
        <5>1. EndTag[n.kind] = 58 BY <4>1, BeginEnd
        <5> QED BY <1>3, <1>6, <4>1, <5>1
      <4>2. CASE n.kind # "map" BY <1>3, <1>7, <2>9, <4>2
      <4> QED BY <4>1, <4>2
    <3>2. n.kind # "dense" BY <2>9
    <3> DEFINE d == <<EndTag[n.kind]>>
               e == EncodeVarint(m)
    <3>3. d \in Seq(Byte) /\ Len(d) = 1 /\ e \in Seq(Byte) /\ Len(e) >= 1 BY <2>4, <2>6, <3>2
    <3> HIDE DEF d, e
    <3>4. d \o e \in Seq(Byte) /\ Len(d \o e) = 1 + Len(e) BY <2>2, <3>3
    <3>5. Len(e) \in Nat BY <2>3, <3>3
    <3> QED BY <3>1, <3>3, <3>4, <3>5 DEF d, e
  <2> QED BY <1>2, <2>7, <2>8, <2>9
<1> QED BY <1>3, <1>4, <1>5, <1>6, <1>7, <1>8

\* What a sound moment has.
LEMMA SoundIs ==
  ASSUME NEW s, Sound(s)
  PROVE  /\ s \in Moments /\ s.at \in Nat /\ s.graph \in Seq(Nodes) /\ s.open \in Seq(Opened)
         /\ s.root \in Values \cup {NoValue} /\ Shape(s.graph, s.open) /\ Rooted(s)
         /\ Len(s.graph) \in Nat /\ Len(s.open) \in Nat
         /\ \A i \in 1..Len(s.open) :
              /\ s.open[i].id \in 1..Len(s.graph) /\ s.open[i] \in Opened
              /\ s.graph[s.open[i].id].kind \in Containers
         /\ \A id \in 1..Len(s.graph) : s.graph[id] \in Nodes
<1>1. s \in Moments /\ Shape(s.graph, s.open) /\ Rooted(s) BY DEF Sound
<1>2. /\ s.at \in Nat /\ s.graph \in Seq(Nodes) /\ s.open \in Seq(Opened)
      /\ s.root \in Values \cup {NoValue}
  BY <1>1, MomentIn
<1>3. Len(s.graph) \in Nat /\ Len(s.open) \in Nat BY <1>2, LenProperties
<1>4. \A i \in 1..Len(s.open) :
        s.open[i].id \in 1..Len(s.graph) /\ s.graph[s.open[i].id].kind \in Containers
  BY <1>1 DEF Shape, FrameSound
<1>5. \A i \in 1..Len(s.open) : s.open[i] \in Opened BY <1>2, ElementOfSeq
<1>6. \A id \in 1..Len(s.graph) : s.graph[id] \in Nodes BY <1>2, ElementOfSeq
<1> QED BY <1>1, <1>2, <1>3, <1>4, <1>5, <1>6

\* A leaf object is numbered and taken.
LEMMA LeafTaken ==
  ASSUME NEW s, Sound(s), NEW l \in Leaves, Ready(s, Obj(Number(s)))
  PROVE  LET g == Append(s.graph, Node(l, 0))
         IN  /\ Shape(g, s.open) /\ Room(g, s.open) /\ KeyFits(g, s.open, Obj(Number(s)))
             /\ Number(s) \in Nat /\ (s.open = <<>> => Number(s) = 1)
<1> DEFINE g == Append(s.graph, Node(l, 0))
<1>1. 0 \in Nat /\ 0 <= MaxLength BY Bounds
<1>2. Shape(g, s.open) BY <1>1, SoundIs, GrownShape
<1>3. l \in Leaves \cup Containers OBVIOUS
<1>4. /\ Len(s.graph) \in Nat /\ \A i \in 1..Len(s.graph) : g[i] = s.graph[i]
  BY <1>1, <1>3, SoundIs, GrownIs
<1>5. s.open # <<>> => Into(g, s.open) = Into(s.graph, s.open)
  BY <1>4, SoundIs, TopIs DEF Into
<1> HIDE DEF g
<1>6. WantsKey(g, s.open) = WantsKey(s.graph, s.open) BY <1>5 DEF WantsKey
<1>7. Room(g, s.open) /\ KeyFits(g, s.open, Obj(Number(s)))
  <2>1. s.open # <<>> => KeyFits(g, s.open, Obj(Number(s))) BY <1>5, <1>6 DEF Ready, KeyFits
  <2>2. s.open = <<>> => ~WantsKey(g, s.open) BY DEF WantsKey
  <2>3. s.open = <<>> => KeyFits(g, s.open, Obj(Number(s))) BY <2>2 DEF KeyFits
  <2>4. Room(g, s.open) BY <1>5, <1>6 DEF Ready, Room
  <2> QED BY <2>1, <2>3, <2>4
<1>8. s.open = <<>> => Number(s) = 1
  <2>1. SUFFICES ASSUME s.open = <<>> PROVE Number(s) = 1 OBVIOUS
  <2>2. s.graph = <<>> BY <2>1, SoundIs DEF Ready, Rooted
  <2> QED BY <2>2 DEF Number
<1> QED BY <1>2, <1>4, <1>7, <1>8 DEF g, Number

\* What each token completes or opens.
LEMMA PrimitiveForm ==
  ASSUME NEW b \in Seq(Byte), NEW P, NEW s, Sound(s), NEW t,
         NEW p \in Primitives, NEW pad \in {0, 1}, PrimitiveToken(b, P, s, t, p, pad)
  PROVE  /\ Completes(s, t, s.graph, s.open, Prim(p)) /\ s.at < t.at /\ t.at <= Len(b)
         /\ t.at = s.at + pad + Len(Encoding[p])
<1>0. /\ s.at \in Nat /\ Shape(s.graph, s.open) /\ Rooted(s) /\ s.open \in Seq(Opened)
      /\ Len(s.graph) \in Nat /\ Len(b) \in Nat
  BY SoundIs, LenProperties
<1>1. Encoding[p] \in Seq(Byte) /\ Len(Encoding[p]) >= 1 BY EncodingBytes
<1>2. Len(Encoding[p]) \in Nat BY <1>1, LenProperties
<1>3. t.at = s.at + pad + Len(Encoding[p]) /\ t = Taken(s, t.at, s.graph, s.open, Prim(p))
  BY MomentIs DEF PrimitiveToken, Taken
<1>4. t.at <= Len(b) /\ t.at \in Nat /\ s.at < t.at
  BY <1>0, <1>1, <1>2, <1>3 DEF PrimitiveToken, Lies
<1>5. Prim(p) \in Values /\ \A id \in Nat : Prim(p) # Obj(id) BY ValueForms
<1> QED BY <1>0, <1>3, <1>4, <1>5 DEF PrimitiveToken, Completes, Ready

\* The token of an object without members completes it.
LEMMA LeafForm ==
  ASSUME NEW b \in Seq(Byte), NEW s, Sound(s), NEW t,
         NEW l \in Leaves, LeafToken(b, s, t, l)
  PROVE  /\ Completes(s, t, Append(s.graph, Node(l, 0)), s.open, Obj(Number(s)))
         /\ s.at < t.at /\ t.at <= Len(b) /\ t.at = s.at + Len(Encoding[l])
<1>0. /\ s.at \in Nat /\ Shape(s.graph, s.open) /\ Rooted(s) /\ s.open \in Seq(Opened)
      /\ Len(s.graph) \in Nat /\ Len(b) \in Nat
  BY SoundIs, LenProperties
<1> DEFINE g == Append(s.graph, Node(l, 0))
           v == Obj(Number(s))
<1>1. Encoding[l] \in Seq(Byte) /\ Len(Encoding[l]) >= 1 BY EncodingBytes
<1>2. Len(Encoding[l]) \in Nat BY <1>1, LenProperties
<1>3. t.at = s.at + Len(Encoding[l]) /\ t = Taken(s, t.at, g, s.open, v)
  BY MomentIs DEF LeafToken, Taken, Grown
<1>4. t.at <= Len(b) /\ t.at \in Nat /\ s.at < t.at
  BY <1>0, <1>1, <1>2, <1>3 DEF LeafToken, Lies
<1>5. /\ Shape(g, s.open) /\ Room(g, s.open) /\ KeyFits(g, s.open, v)
      /\ Number(s) \in Nat /\ (s.open = <<>> => Number(s) = 1)
  BY LeafTaken DEF LeafToken
<1>6. v \in Values /\ \A id \in Nat : v = Obj(id) => id = Number(s) BY <1>5, ValueForms
<1> QED BY <1>0, <1>3, <1>4, <1>5, <1>6 DEF LeafToken, Completes, Ready

\* The token that begins a container opens it.
LEMMA BeginForm ==
  ASSUME NEW b \in Seq(Byte), NEW s, Sound(s), NEW t,
         NEW c \in Containers, NEW len \in 0..MaxLength, BeginToken(b, s, t, c, len)
  PROVE  /\ Opens(s, t, c, len) /\ s.at < t.at /\ t.at <= Len(b)
         /\ t.at = s.at + Len(Header(c, len))
<1>0. /\ s.at \in Nat /\ Shape(s.graph, s.open) /\ Rooted(s) /\ s.open \in Seq(Opened)
      /\ Len(s.graph) \in Nat /\ Len(b) \in Nat
  BY SoundIs, LenProperties
<1>1. c \in ContainerKinds /\ len \in TwoByte BY Bounds, BeginEnd
<1>2. Header(c, len) \in Seq(Byte) /\ Len(Header(c, len)) >= 1 BY <1>1, HeaderIs
<1>3. Len(Header(c, len)) \in Nat BY <1>2, LenProperties
<1>4. /\ t.at = s.at + Len(Header(c, len))
      /\ t = Moment(t.at, Grown(s, c, len), Push(s.graph, s.open), s.root)
  BY MomentIs DEF BeginToken
<1>5. t.at <= Len(b) /\ t.at \in Nat /\ s.at < t.at
  BY <1>0, <1>2, <1>3, <1>4 DEF BeginToken, Lies
<1> QED BY <1>4, <1>5 DEF BeginToken, Opens

\* A reference completes the object it names.
LEMMA ReferenceForm ==
  ASSUME NEW b \in Seq(Byte), NEW R, NEW s, Sound(s), NEW t,
         NEW id \in Nat, ReferenceToken(b, R, s, t, id)
  PROVE  /\ Completes(s, t, s.graph, s.open, Obj(id)) /\ s.at < t.at /\ t.at <= Len(b)
         /\ t.at = s.at + Len(Reference(id))
<1>0. /\ s.at \in Nat /\ Shape(s.graph, s.open) /\ Rooted(s) /\ s.open \in Seq(Opened)
      /\ Len(s.graph) \in Nat /\ Len(b) \in Nat
  BY SoundIs, LenProperties
<1>1. id \in 1..Len(s.graph) /\ id - 1 \in TwoByte
  <2>1. id \in DOMAIN s.graph /\ id <= MaxValues BY DEF ReferenceToken
  <2>2. id \in 1..Len(s.graph) BY <2>1, SoundIs, LenProperties
  <2>3. id - 1 \in Nat /\ id - 1 <= 16383 BY <1>0, <2>1, <2>2, Bounds
  <2> QED BY <2>2, <2>3, Bounds
<1>2. Reference(id) \in Seq(Byte) /\ Len(Reference(id)) >= 1
  <2>1. <<94>> \in Seq(Byte) /\ Len(<<94>>) = 1 BY OneIs
  <2>2. EncodeVarint(id - 1) \in Seq(Byte) BY <1>1, EncodedLen
  <2>3. Len(EncodeVarint(id - 1)) \in Nat BY <2>2, LenProperties
  <2> HIDE DEF EncodeVarint
  <2> QED BY <2>1, <2>2, <2>3, ConcatProperties DEF Reference
<1>3. Len(Reference(id)) \in Nat BY <1>2, LenProperties
<1>4. t.at = s.at + Len(Reference(id)) /\ t = Taken(s, t.at, s.graph, s.open, Obj(id))
  BY MomentIs DEF ReferenceToken, Taken
<1>5. t.at <= Len(b) /\ t.at \in Nat /\ s.at < t.at
  BY <1>0, <1>2, <1>3, <1>4 DEF ReferenceToken, Lies
<1>6. Obj(id) \in Values /\ \A j \in Nat : Obj(id) = Obj(j) => j = id BY ValueForms
<1>7. s.open # <<>>
  <2>1. s.open = <<>> => s.graph = <<>> BY <1>0, <1>4 DEF ReferenceToken, Ready, Rooted
  <2>2. s.graph # <<>> BY <1>1
  <2> QED BY <2>1, <2>2
<1> QED BY <1>0, <1>4, <1>5, <1>6, <1>7 DEF ReferenceToken, Completes, Ready

\* The token that ends a container completes it.
LEMMA EndForm ==
  ASSUME NEW b \in Seq(Byte), NEW s, Sound(s), NEW t, EndToken(b, s, t)
  PROVE  /\ Completes(s, t, s.graph, Front(s.open), Obj(Last(s.open).id))
         /\ s.at < t.at /\ t.at <= Len(b) /\ t.at = s.at + Len(Trailer(Into(s.graph, s.open)))
<1>0. /\ s.at \in Nat /\ Shape(s.graph, s.open) /\ Rooted(s) /\ s.open \in Seq(Opened)
      /\ Len(s.graph) \in Nat /\ Len(b) \in Nat
  BY SoundIs, LenProperties
<1> DEFINE n == Into(s.graph, s.open)
           v == Obj(Last(s.open).id)
<1>1. s.open # <<>> BY DEF EndToken
<1>2. Last(s.open).id \in 1..Len(s.graph) /\ n \in Nodes /\ n.kind \in Containers
      /\ n = s.graph[Last(s.open).id]
  <2>1. Last(s.open) = s.open[Len(s.open)] /\ Len(s.open) \in 1..Len(s.open)
    BY <1>0, <1>1, TopIs
  <2> QED BY <2>1, SoundIs DEF Into
<1>3. n.len <= MaxLength BY <1>0, <1>2 DEF Shape, NodeSound
<1>4. Len(n.items) <= MaxValues /\ (n.kind = "dense" => Len(n.items) = n.len)
  BY DEF EndToken
<1> HIDE DEF n
<1>5. Trailer(n) \in Seq(Byte) /\ Len(Trailer(n)) >= 2 BY <1>2, <1>3, <1>4, TrailerIs
<1>6. Len(Trailer(n)) \in Nat BY <1>5, LenProperties
<1>7. t.at = s.at + Len(Trailer(n)) /\ t = Taken(s, t.at, s.graph, Front(s.open), v)
      /\ Lies(b, s.at, Trailer(n))
  BY MomentIs DEF EndToken, Taken, n
<1>8. t.at <= Len(b) /\ t.at \in Nat /\ s.at < t.at BY <1>0, <1>5, <1>6, <1>7 DEF Lies
<1>9. /\ Shape(s.graph, Front(s.open)) /\ Room(s.graph, Front(s.open))
      /\ KeyFits(s.graph, Front(s.open), v)
      /\ Front(s.open) = <<>> => Last(s.open).id = s.open[1].id
  BY <1>0, <1>1, <1>4, FrontShape DEF n
<1>10. Last(s.open).id \in Nat BY <1>0, <1>2
<1>11. v \in Values /\ \A j \in Nat : v = Obj(j) => j = Last(s.open).id BY <1>10, ValueForms
<1>12. Front(s.open) = <<>> => \A j \in Nat : v = Obj(j) => j = 1
  BY <1>0, <1>1, <1>9, <1>11 DEF Rooted
<1>13. Last(s.open).key = NoValue BY DEF EndToken
<1>14. t.at = s.at + Len(Trailer(Into(s.graph, s.open))) BY <1>7 DEF n
<1> QED BY <1>1, <1>7, <1>8, <1>9, <1>11, <1>12, <1>13, <1>14 DEF Completes

\* Every token completes a value or opens an object, and has bytes.
LEMMA FormOf ==
  ASSUME NEW b \in Seq(Byte), NEW R, NEW P, NEW s, Sound(s), NEW t, Token(b, R, P, s, t)
  PROVE  /\ \/ \E g, o, v : Completes(s, t, g, o, v)
            \/ \E c, len : Opens(s, t, c, len)
         /\ s.at < t.at /\ t.at <= Len(b)
<1>1. CASE \E p \in Primitives, pad \in {0, 1} : PrimitiveToken(b, P, s, t, p, pad)
  BY <1>1, PrimitiveForm
<1>2. CASE \E l \in Leaves : LeafToken(b, s, t, l) BY <1>2, LeafForm
<1>3. CASE \E c \in Containers, len \in 0..MaxLength : BeginToken(b, s, t, c, len)
  BY <1>3, BeginForm
<1>4. CASE \E id \in Nat : ReferenceToken(b, R, s, t, id) BY <1>4, ReferenceForm
<1>5. CASE EndToken(b, s, t) BY <1>5, EndForm
<1> QED BY <1>1, <1>2, <1>3, <1>4, <1>5 DEF Token

\* The value v is taken: which frame and which object change.
LEMMA CompletesIs ==
  ASSUME NEW s, Sound(s), NEW t, NEW g, NEW o, NEW v, Completes(s, t, g, o, v)
  PROVE  /\ g \in Seq(Nodes) /\ o \in Seq(Opened) /\ Len(g) \in Nat /\ Len(o) \in Nat
         /\ Len(s.graph) <= Len(g) /\ \A i \in 1..Len(s.graph) : g[i] = s.graph[i]
         /\ Len(o) <= Len(s.open) /\ \A i \in 1..Len(o) : o[i] = s.open[i]
         /\ \A i \in 1..Len(s.open) : s.open[i].key # NoValue => i <= Len(o)
         /\ o # <<>> => Last(o) = o[Len(o)] /\ Len(o) \in 1..Len(o) /\ Last(o).id \in 1..Len(g)
         /\ t.graph = WithMember(v, g, o) /\ t.open = WithKey(v, g, o)
         /\ t.root = IF o = <<>> THEN v ELSE s.root
<1>0. g \in Seq(Nodes) /\ o \in Seq(Opened) /\ Len(g) \in Nat /\ Len(o) \in Nat
  BY LenProperties DEF Completes, Shape
<1>1. Len(s.graph) <= Len(g) /\ \A i \in 1..Len(s.graph) : g[i] = s.graph[i]
  <2>1. CASE g = s.graph BY <1>0, <2>1
  <2>2. CASE \E l \in Leaves : g = Append(s.graph, Node(l, 0))
    <3>1. PICK l \in Leaves : g = Append(s.graph, Node(l, 0)) BY <2>2
    <3>2. l \in Leaves \cup Containers /\ 0 \in Nat OBVIOUS
    <3> QED BY <3>1, <3>2, SoundIs, GrownIs
  <2> QED BY <2>1, <2>2 DEF Completes
<1>2. /\ Len(o) <= Len(s.open) /\ \A i \in 1..Len(o) : o[i] = s.open[i]
      /\ \A i \in 1..Len(s.open) : s.open[i].key # NoValue => i <= Len(o)
  <2>1. CASE o = s.open BY <1>0, <2>1
  <2>2. CASE s.open # <<>> /\ Last(s.open).key = NoValue /\ o = Front(s.open)
    <3>1. Len(o) = Len(s.open) - 1 /\ \A i \in 1..Len(s.open) - 1 : o[i] = s.open[i]
      BY <2>2, SoundIs, FrontIs
    <3>2. Last(s.open) = s.open[Len(s.open)] BY <2>2, LastIs
    <3>3. Len(s.open) \in Nat BY SoundIs
    <3>4. \A i \in 1..Len(s.open) : i # Len(s.open) => i <= Len(o) BY <3>1, <3>3
    <3>5. Len(o) <= Len(s.open) /\ \A i \in 1..Len(o) : i \in 1..Len(s.open) - 1 BY <3>1, <3>3
    <3>6. s.open[Len(s.open)].key = NoValue BY <2>2, <3>2
    <3> QED BY <2>2, <3>1, <3>4, <3>5, <3>6
  <2> QED BY <2>1, <2>2 DEF Completes
<1>3. o # <<>> => Last(o) = o[Len(o)] /\ Len(o) \in 1..Len(o) /\ Last(o).id \in 1..Len(g)
  BY TopIs DEF Completes
<1>4. /\ t.graph = WithMember(v, g, o) /\ t.open = WithKey(v, g, o)
      /\ t.root = IF o = <<>> THEN v ELSE s.root
  <2>1. t = Taken(s, t.at, g, o, v) BY DEF Completes
  <2> QED BY <2>1, MomentIs DEF Taken
<1> QED BY <1>0, <1>1, <1>2, <1>3, <1>4

\* A moment after a sound one at which a value is complete is sound.
LEMMA CompletesSound ==
  ASSUME NEW s, Sound(s), NEW t, NEW g, NEW o, NEW v, Completes(s, t, g, o, v)
  PROVE  Sound(t)
<1>1. /\ g \in Seq(Nodes) /\ o \in Seq(Opened) /\ Len(g) \in Nat /\ Len(o) \in Nat
      /\ Len(o) <= Len(s.open) /\ \A i \in 1..Len(o) : o[i] = s.open[i]
      /\ o # <<>> => Last(o) = o[Len(o)] /\ Len(o) \in 1..Len(o) /\ Last(o).id \in 1..Len(g)
      /\ t.graph = WithMember(v, g, o) /\ t.open = WithKey(v, g, o)
      /\ t.root = IF o = <<>> THEN v ELSE s.root
  BY CompletesIs
<1>2. v \in Values /\ Shape(g, o) /\ Room(g, o) /\ KeyFits(g, o, v) /\ t.at \in Nat
  BY DEF Completes
<1>3. Shape(t.graph, t.open) BY <1>1, <1>2, TakenShape
<1>4. s.root \in Values \cup {NoValue} /\ Rooted(s) BY SoundIs
<1>5. t \in Moments
  <2>1. t.graph \in Seq(Nodes) /\ t.open \in Seq(Opened) BY <1>3 DEF Shape
  <2>2. t.root \in Values \cup {NoValue} BY <1>1, <1>2, <1>4
  <2>3. t = Moment(t.at, t.graph, t.open, t.root)
    <3>1. t = Taken(s, t.at, g, o, v) BY DEF Completes
    <3> QED BY <1>1, <3>1 DEF Taken
  <2> QED BY <1>2, <2>1, <2>2, <2>3, MomentIn
<1>6. /\ Len(t.open) = Len(o) /\ t.open \in Seq(Opened)
      /\ \A i \in 1..Len(o) : t.open[i].id = o[i].id
  <2>1. o \in Seq(Opened) /\ v \in Values /\ t.open = WithKey(v, g, o) BY <1>1, <1>2
  <2>2. LET q == WithKey(v, g, o)
        IN  q \in Seq(Opened) /\ Len(q) = Len(o) /\ \A i \in 1..Len(o) : q[i].id = o[i].id
    BY <2>1, KeyTaken
  <2> QED BY <2>1, <2>2
<1>7. Rooted(t)
  <2>1. CASE o = <<>>
    <3>1. t.root = v /\ v # NoValue BY <1>1, <1>2, <2>1, ValueForms
    <3>2. t.open = <<>> BY <1>6, <1>1, <2>1, EmptySeq, NonEmpty
    <3> QED BY <2>1, <3>1, <3>2 DEF Rooted, Completes
  <2>2. CASE o # <<>>
    <3>1. 1 \in 1..Len(o) /\ 1 \in 1..Len(s.open) /\ s.open # <<>> BY <1>1, <2>2, SoundIs, NonEmpty
    <3>2. t.open # <<>> BY <1>1, <1>6, <2>2, NonEmpty
    <3>3. s.root = NoValue /\ s.open[1].id = 1 BY <1>4, <3>1 DEF Rooted
    <3>4. t.root = NoValue /\ t.open[1].id = 1 BY <1>1, <1>6, <2>2, <3>1, <3>3
    <3>5. \A id \in Nat : t.root # Obj(id) BY <3>4, ValueForms
    <3> QED BY <3>2, <3>4, <3>5 DEF Rooted
  <2> QED BY <2>1, <2>2
<1> QED BY <1>3, <1>5, <1>7 DEF Sound

\* What a moment has at which an object is opened.
LEMMA OpensIs ==
  ASSUME NEW s, Sound(s), NEW t, NEW c, NEW len, Opens(s, t, c, len)
  PROVE  /\ len \in Nat /\ t.at \in Nat /\ t.graph = Append(s.graph, Node(c, len))
         /\ t.open = Push(s.graph, s.open) /\ t.root = s.root
         /\ t.graph \in Seq(Nodes) /\ Len(t.graph) = Len(s.graph) + 1
         /\ \A i \in 1..Len(s.graph) : t.graph[i] = s.graph[i]
         /\ t.graph[Len(s.graph) + 1].kind = c
         /\ t.graph[Len(s.graph) + 1].len = len /\ t.graph[Len(s.graph) + 1].items = <<>>
         /\ t.open \in Seq(Opened) /\ Len(t.open) = Len(s.open) + 1
         /\ \A i \in 1..Len(s.open) : t.open[i] = s.open[i]
         /\ t.open[Len(s.open) + 1].id = Len(s.graph) + 1 /\ t.open[Len(s.open) + 1].key = NoValue
<1>1. len \in Nat /\ c \in Leaves \cup Containers BY Bounds DEF Opens
<1>2. /\ t.graph = Append(s.graph, Node(c, len)) /\ t.open = Push(s.graph, s.open)
      /\ t.root = s.root /\ t.at \in Nat
  <2>1. PICK at : t = Moment(at, Append(s.graph, Node(c, len)), Push(s.graph, s.open), s.root)
    BY DEF Opens, Grown
  <2>2. t.at \in Nat BY DEF Opens
  <2>3. /\ t.graph = Append(s.graph, Node(c, len)) /\ t.open = Push(s.graph, s.open)
        /\ t.root = s.root
    <3> DEFINE g == Append(s.graph, Node(c, len))
               o == Push(s.graph, s.open)
    <3>1. t = Moment(at, g, o, s.root) BY <2>1
    <3> HIDE DEF g, o
    <3>2. t.graph = g /\ t.open = o /\ t.root = s.root BY <3>1, MomentIs
    <3> QED BY <3>2 DEF g, o
  <2> QED BY <2>2, <2>3
<1>3. s.graph \in Seq(Nodes) /\ s.open \in Seq(Opened) BY SoundIs
<1>4. /\ t.graph \in Seq(Nodes) /\ Len(t.graph) = Len(s.graph) + 1
      /\ \A i \in 1..Len(s.graph) : t.graph[i] = s.graph[i]
      /\ t.graph[Len(s.graph) + 1].kind = c
      /\ t.graph[Len(s.graph) + 1].len = len /\ t.graph[Len(s.graph) + 1].items = <<>>
  BY <1>1, <1>2, <1>3, GrownIs
<1>5. /\ t.open \in Seq(Opened) /\ Len(t.open) = Len(s.open) + 1
      /\ \A i \in 1..Len(s.open) : t.open[i] = s.open[i]
      /\ t.open[Len(s.open) + 1].id = Len(s.graph) + 1 /\ t.open[Len(s.open) + 1].key = NoValue
  <2> DEFINE q == Push(s.graph, s.open)
  <2>1. /\ q \in Seq(Opened) /\ Len(q) = Len(s.open) + 1
        /\ \A i \in 1..Len(s.open) : q[i] = s.open[i]
        /\ q[Len(s.open) + 1].id = Len(s.graph) + 1 /\ q[Len(s.open) + 1].key = NoValue
    BY <1>3, PushIs
  <2>2. t.open = q BY <1>2
  <2> HIDE DEF q
  <2> QED BY <2>1, <2>2
<1> QED BY <1>1, <1>2, <1>4, <1>5

\* It is sound.
LEMMA OpensSound ==
  ASSUME NEW s, Sound(s), NEW t, NEW c, NEW len, Opens(s, t, c, len)
  PROVE  Sound(t)
<1>1. /\ len \in Nat /\ t.at \in Nat /\ t.graph = Append(s.graph, Node(c, len))
      /\ t.open = Push(s.graph, s.open) /\ t.root = s.root
      /\ t.open \in Seq(Opened) /\ Len(t.open) = Len(s.open) + 1 /\ t.graph \in Seq(Nodes)
      /\ \A i \in 1..Len(s.open) : t.open[i] = s.open[i]
      /\ t.open[Len(s.open) + 1].id = Len(s.graph) + 1
  BY OpensIs
<1>2. /\ Shape(s.graph, s.open) /\ Rooted(s) /\ s.open \in Seq(Opened) /\ Len(s.open) \in Nat
      /\ s.root \in Values \cup {NoValue}
  BY SoundIs
<1>3. /\ c \in Containers /\ len <= MaxLength /\ (c = "sparse" => 2 <= len)
      /\ Ready(s, Obj(Number(s)))
  BY Bounds DEF Opens
<1>4. ~(WantsKey(s.graph, s.open) /\ Into(s.graph, s.open).kind = "sparse")
  BY <1>3, ValueForms DEF Ready, KeyFits
<1>5. Shape(t.graph, t.open) BY <1>1, <1>2, <1>3, <1>4, OpenedShape DEF Ready
<1>6. t \in Moments
  <2>1. t = Moment(t.at, t.graph, t.open, t.root) BY <1>1 DEF Opens, Grown
  <2>2. t.root \in Values \cup {NoValue} BY <1>1, <1>2
  <2>3. Moment(t.at, t.graph, t.open, t.root) \in Moments BY <1>1, <2>2, MomentIn
  <2> QED BY <2>1, <2>3
<1>7. t.root = NoValue BY <1>1, <1>2, <1>3 DEF Ready, Rooted
<1>8. t.open[1].id = 1
  <2>1. CASE s.open = <<>>
    <3>1. s.graph = <<>> BY <1>2, <1>3, <2>1 DEF Ready, Rooted
    <3>2. Len(s.open) = 0 /\ Len(s.graph) = 0 BY <2>1, <3>1
    <3> QED BY <1>1, <3>2
  <2>2. CASE s.open # <<>>
    <3>1. 1 \in 1..Len(s.open) BY <1>2, <2>2, NonEmpty
    <3> QED BY <1>1, <1>2, <2>2, <3>1 DEF Rooted
  <2> QED BY <2>1, <2>2
<1>9. t.open # <<>> BY <1>1, <1>2, NonEmpty
<1>10. \A id \in Nat : t.root # Obj(id) BY <1>7, ValueForms
<1> QED BY <1>5, <1>6, <1>7, <1>8, <1>9, <1>10 DEF Sound, Rooted

\* What was written by the moment s is still there at t.
Kept(s, t) ==
  /\ Len(s.graph) <= Len(t.graph)
  /\ \A id \in 1..Len(s.graph) :
       /\ s.graph[id].kind = t.graph[id].kind /\ s.graph[id].len = t.graph[id].len
       /\ Len(s.graph[id].items) <= Len(t.graph[id].items)
       /\ \A j \in 1..Len(s.graph[id].items) : s.graph[id].items[j] = t.graph[id].items[j]
  /\ s.root # NoValue => t.root = s.root

\* A key whose member is still to come, or came next.
KeyKept(s, t) ==
  \A i \in 1..Len(s.open) : s.open[i].key # NoValue =>
    LET id == s.open[i].id
        at == Len(s.graph[id].items)
    IN  \/ Len(t.graph[id].items) > at /\ t.graph[id].items[at + 1][1] = s.open[i].key
        \/ i \in 1..Len(t.open) /\ t.open[i] = s.open[i] /\ Len(t.graph[id].items) = at

\* A moment keeps what it has.
LEMMA KeptSelf ==
  ASSUME NEW s, Sound(s)
  PROVE  Kept(s, s) /\ KeyKept(s, s)
<1>1. /\ Len(s.graph) \in Nat /\ Len(s.open) \in Nat
      /\ \A i \in 1..Len(s.open) : s.open[i].id \in 1..Len(s.graph)
      /\ \A id \in 1..Len(s.graph) : s.graph[id] \in Nodes
  BY SoundIs
<1>2. \A id \in 1..Len(s.graph) : Len(s.graph[id].items) \in Nat BY <1>1, NodeFields
<1> QED BY <1>1, <1>2 DEF Kept, KeyKept

\* What is kept from s to t and from t to u is kept from s to u.
LEMMA KeptTransitive ==
  ASSUME NEW s, Sound(s), NEW t, Sound(t), NEW u, Sound(u), Kept(s, t), Kept(t, u)
  PROVE  Kept(s, u)
<1>1. Len(s.graph) \in Nat /\ Len(t.graph) \in Nat /\ Len(u.graph) \in Nat BY SoundIs
<1>2. Len(s.graph) <= Len(u.graph) BY <1>1 DEF Kept
<1>3. s.root # NoValue => u.root = s.root BY DEF Kept
<1>4. ASSUME NEW id \in 1..Len(s.graph)
      PROVE  /\ s.graph[id].kind = u.graph[id].kind /\ s.graph[id].len = u.graph[id].len
             /\ Len(s.graph[id].items) <= Len(u.graph[id].items)
             /\ \A j \in 1..Len(s.graph[id].items) : s.graph[id].items[j] = u.graph[id].items[j]
  <2>1. id \in 1..Len(t.graph) /\ id \in 1..Len(u.graph) BY <1>1 DEF Kept
  <2>2. /\ Len(s.graph[id].items) \in Nat /\ Len(t.graph[id].items) \in Nat
        /\ Len(u.graph[id].items) \in Nat
    BY <2>1, SoundIs, NodeFields
  <2>3. /\ s.graph[id].kind = t.graph[id].kind /\ s.graph[id].len = t.graph[id].len
        /\ Len(s.graph[id].items) <= Len(t.graph[id].items)
        /\ \A j \in 1..Len(s.graph[id].items) : s.graph[id].items[j] = t.graph[id].items[j]
    BY DEF Kept
  <2>4. /\ t.graph[id].kind = u.graph[id].kind /\ t.graph[id].len = u.graph[id].len
        /\ Len(t.graph[id].items) <= Len(u.graph[id].items)
        /\ \A j \in 1..Len(t.graph[id].items) : t.graph[id].items[j] = u.graph[id].items[j]
    BY <2>1 DEF Kept
  <2>5. Len(s.graph[id].items) <= Len(u.graph[id].items)
    <3>1. \A x, y, z \in Nat : x <= y /\ y <= z => x <= z OBVIOUS
    <3> QED BY <2>2, <2>3, <2>4, <3>1, Zenon
  <2>6. ASSUME NEW j \in 1..Len(s.graph[id].items)
        PROVE  s.graph[id].items[j] = u.graph[id].items[j]
    <3>1. j \in 1..Len(t.graph[id].items) BY <2>2, <2>3
    <3> QED BY <2>3, <2>4, <3>1
  <2> QED BY <2>3, <2>4, <2>5, <2>6
<1> QED BY <1>2, <1>3, <1>4 DEF Kept

\* A value that is complete leaves what there is.
LEMMA CompletesKept ==
  ASSUME NEW s, Sound(s), NEW t, NEW g, NEW o, NEW v, Completes(s, t, g, o, v)
  PROVE  Kept(s, t)
<1>1. /\ g \in Seq(Nodes) /\ o \in Seq(Opened) /\ Len(g) \in Nat /\ Len(o) \in Nat
      /\ Len(s.graph) <= Len(g) /\ \A i \in 1..Len(s.graph) : g[i] = s.graph[i]
      /\ o # <<>> => Last(o) = o[Len(o)] /\ Len(o) \in 1..Len(o) /\ Last(o).id \in 1..Len(g)
      /\ t.graph = WithMember(v, g, o) /\ t.open = WithKey(v, g, o)
      /\ t.root = IF o = <<>> THEN v ELSE s.root
      /\ Len(o) <= Len(s.open)
  BY CompletesIs
<1>2. v \in Values /\ (o = <<>> => s.root = NoValue \/ s.open # <<>>) BY DEF Completes
<1>3. /\ t.graph \in Seq(Nodes) /\ Len(t.graph) = Len(g)
      /\ \A i \in 1..Len(g) : t.graph[i].kind = g[i].kind /\ t.graph[i].len = g[i].len
      /\ \A i \in 1..Len(g) :
           t.graph[i].items = IF o # <<>> /\ ~WantsKey(g, o) /\ i = Last(o).id
                              THEN Append(g[i].items, Item(g, o, v)) ELSE g[i].items
  BY <1>1, <1>2, MemberTaken
<1>4. s.root # NoValue => t.root = s.root BY <1>1, <1>2, SoundIs DEF Rooted
<1>5. Len(s.graph) \in Nat BY SoundIs
<1>6. ASSUME NEW id \in 1..Len(s.graph)
      PROVE  /\ Len(s.graph[id].items) <= Len(t.graph[id].items)
             /\ \A j \in 1..Len(s.graph[id].items) : s.graph[id].items[j] = t.graph[id].items[j]
  <2>1. id \in 1..Len(g) /\ g[id] = s.graph[id] BY <1>1, <1>5
  <2>2. g[id].items \in Seq(Entries) /\ Len(g[id].items) \in Nat
    BY <1>1, <2>1, ElementOfSeq, NodeFields
  <2>3. CASE t.graph[id].items = g[id].items BY <2>1, <2>2, <2>3
  <2>4. CASE t.graph[id].items # g[id].items
    <3>1. o # <<>> /\ ~WantsKey(g, o) /\ t.graph[id].items = Append(g[id].items, Item(g, o, v))
      BY <1>3, <2>1, <2>4
    <3>2. Item(g, o, v) \in Entries
      <4>1. o[Len(o)] \in Opened BY <1>1, <3>1, ElementOfSeq
      <4>2. CASE Into(g, o).kind \in Keyed
        <5>1. Last(o).key # NoValue BY <3>1, <4>2 DEF WantsKey
        <5>2. Last(o) = o[Len(o)] BY <1>1, <3>1
        <5>3. Last(o).key \in Values BY <4>1, <5>1, <5>2 DEF Opened
        <5> QED BY <1>2, <4>2, <5>3 DEF Item, Entries
      <4>3. CASE Into(g, o).kind \notin Keyed BY <1>2, <4>3 DEF Item, Entries
      <4> QED BY <4>2, <4>3
    <3>3. /\ Len(t.graph[id].items) = Len(g[id].items) + 1
          /\ \A j \in 1..Len(g[id].items) : t.graph[id].items[j] = g[id].items[j]
      <4> DEFINE d == g[id].items
                 e == Item(g, o, v)
      <4>1. d \in Seq(Entries) /\ e \in Entries /\ t.graph[id].items = Append(d, e)
        BY <2>2, <3>1, <3>2
      <4> HIDE DEF d, e
      <4>2. Len(Append(d, e)) = Len(d) + 1 /\ \A j \in 1..Len(d) : Append(d, e)[j] = d[j]
        BY <4>1, AppendProperties
      <4> QED BY <4>1, <4>2 DEF d
    <3>4. PICK d : d = g[id].items OBVIOUS
    <3>5. s.graph[id].items = d BY <2>1, <3>4
    <3>6. Len(d) \in Nat /\ Len(t.graph[id].items) = Len(d) + 1
      BY <2>2, <3>3, <3>4, Zenon
    <3>7. Len(d) <= Len(t.graph[id].items) BY <3>6
    <3>8. \A j \in 1..Len(d) : t.graph[id].items[j] = d[j] BY <3>3, <3>4, Zenon
    <3> QED BY <3>5, <3>7, <3>8, Zenon
  <2> QED BY <2>3, <2>4
<1>7. \A id \in 1..Len(s.graph) : id \in 1..Len(g) BY <1>1, <1>5
<1> QED BY <1>1, <1>3, <1>4, <1>6, <1>7 DEF Kept

\* An object that is opened leaves what there is,
LEMMA OpensKept ==
  ASSUME NEW s, Sound(s), NEW t, NEW c, NEW len, Opens(s, t, c, len)
  PROVE  Kept(s, t)
<1>1. /\ Len(t.graph) = Len(s.graph) + 1
      /\ \A i \in 1..Len(s.graph) : t.graph[i] = s.graph[i]
      /\ t.root = s.root
  BY OpensIs
<1>2. Len(s.graph) \in Nat /\ \A id \in 1..Len(s.graph) : Len(s.graph[id].items) \in Nat
  BY SoundIs, NodeFields
<1> QED BY <1>1, <1>2 DEF Kept

\* A key stays until its member has come.
LEMMA CompletesKey ==
  ASSUME NEW s, Sound(s), NEW x, Sound(x), NEW t, NEW g, NEW o, NEW v, Completes(x, t, g, o, v),
         Kept(s, x), KeyKept(s, x)
  PROVE  KeyKept(s, t)
<1>0. Kept(x, t) /\ Sound(t) BY CompletesKept, CompletesSound
<1>1. /\ g \in Seq(Nodes) /\ o \in Seq(Opened) /\ Len(g) \in Nat /\ Len(o) \in Nat
      /\ Len(x.graph) <= Len(g) /\ \A i \in 1..Len(x.graph) : g[i] = x.graph[i]
      /\ Len(o) <= Len(x.open) /\ \A i \in 1..Len(o) : o[i] = x.open[i]
      /\ \A i \in 1..Len(x.open) : x.open[i].key # NoValue => i <= Len(o)
      /\ o # <<>> => Last(o) = o[Len(o)] /\ Len(o) \in 1..Len(o) /\ Last(o).id \in 1..Len(g)
      /\ t.graph = WithMember(v, g, o) /\ t.open = WithKey(v, g, o)
  BY CompletesIs
<1>2. v \in Values /\ Shape(g, o) BY DEF Completes
<1>3. /\ Len(t.graph) = Len(g)
      /\ \A i \in 1..Len(g) :
           t.graph[i].items = IF o # <<>> /\ ~WantsKey(g, o) /\ i = Last(o).id
                              THEN Append(g[i].items, Item(g, o, v)) ELSE g[i].items
  <2>1. LET h == WithMember(v, g, o)
        IN  /\ h \in Seq(Nodes) /\ Len(h) = Len(g)
            /\ \A i \in 1..Len(g) :
                 h[i].items = IF o # <<>> /\ ~WantsKey(g, o) /\ i = Last(o).id
                              THEN Append(g[i].items, Item(g, o, v)) ELSE g[i].items
    BY <1>1, <1>2, MemberTaken
  <2> QED BY <1>1, <2>1
<1>4. /\ Len(t.open) = Len(o)
      /\ \A i \in 1..Len(o) : i < Len(o) => t.open[i] = o[i]
  <2>1. LET q == WithKey(v, g, o)
        IN  Len(q) = Len(o) /\ \A i \in 1..Len(o) : i < Len(o) => q[i] = o[i]
    BY <1>1, <1>2, KeyTaken
  <2> QED BY <1>1, <2>1
<1>5. SUFFICES ASSUME NEW i \in 1..Len(s.open), s.open[i].key # NoValue
               PROVE  \/ /\ Len(t.graph[s.open[i].id].items) > Len(s.graph[s.open[i].id].items)
                         /\ t.graph[s.open[i].id].items[Len(s.graph[s.open[i].id].items) + 1][1]
                              = s.open[i].key
                      \/ /\ i \in 1..Len(t.open) /\ t.open[i] = s.open[i]
                         /\ Len(t.graph[s.open[i].id].items) = Len(s.graph[s.open[i].id].items)
  BY DEF KeyKept
<1> DEFINE id == s.open[i].id
           at == Len(s.graph[id].items)
<1>6. /\ id \in 1..Len(s.graph) /\ id \in 1..Len(x.graph) /\ id \in 1..Len(g)
      /\ Len(x.graph) \in Nat
  <2>1. id \in 1..Len(s.graph) /\ Len(s.graph) \in Nat /\ Len(x.graph) \in Nat BY SoundIs
  <2>2. Len(s.graph) <= Len(x.graph) BY DEF Kept
  <2> QED BY <1>1, <2>1, <2>2
<1>7. at \in Nat /\ Len(x.graph[id].items) \in Nat /\ Len(t.graph[id].items) \in Nat
  <2>1. id \in 1..Len(t.graph) BY <1>3, <1>6
  <2> QED BY <1>0, <1>6, <2>1, SoundIs, NodeFields
<1> HIDE DEF id, at
<1>8. CASE Len(x.graph[id].items) > at /\ x.graph[id].items[at + 1][1] = s.open[i].key
  <2>1. Len(x.graph[id].items) <= Len(t.graph[id].items) BY <1>0, <1>6 DEF Kept
  <2>2. at + 1 \in 1..Len(x.graph[id].items) BY <1>7, <1>8
  <2>3. t.graph[id].items[at + 1] = x.graph[id].items[at + 1] BY <1>0, <1>6, <2>2 DEF Kept
  <2>4. Len(t.graph[id].items) > at BY <1>7, <1>8, <2>1
  <2> QED BY <1>8, <2>3, <2>4 DEF id, at
<1>9. CASE i \in 1..Len(x.open) /\ x.open[i] = s.open[i] /\ Len(x.graph[id].items) = at
  <2>1. i <= Len(o) /\ i \in 1..Len(o) BY <1>1, <1>5, <1>9
  <2>2. o[i] = s.open[i] /\ o[i].id = id BY <1>1, <1>9, <2>1 DEF id
  <2>3. o # <<>> BY <1>1, <2>1, NonEmpty
  <2>4. CASE i < Len(o)
    <3>1. id # Last(o).id
      <4>1. o[i].id < o[Len(o)].id BY <1>1, <1>2, <2>1, <2>3, <2>4 DEF Shape, Increasing
      <4> QED BY <1>1, <1>6, <2>2, <2>3, <4>1
    <3>2. t.graph[id].items = g[id].items BY <1>3, <1>6, <3>1
    <3>3. g[id] = x.graph[id] BY <1>1, <1>6
    <3>4. t.open[i] = s.open[i] /\ i \in 1..Len(t.open) BY <1>4, <2>1, <2>2, <2>4
    <3>5. Len(t.graph[id].items) = at BY <1>9, <3>2, <3>3
    <3> QED BY <3>4, <3>5 DEF id, at
  <2>5. CASE ~(i < Len(o))
    <3>1. i = Len(o) /\ Last(o) = o[i] /\ Last(o).id = id BY <1>1, <2>1, <2>2, <2>3, <2>5
    <3>2. ~WantsKey(g, o) BY <1>5, <2>2, <3>1 DEF WantsKey
    <3>3. t.graph[id].items = Append(g[id].items, Item(g, o, v)) BY <1>3, <1>6, <2>3, <3>1, <3>2
    <3>4. Into(g, o).kind \in Keyed
      <4>1. FrameSound(g, o, i) BY <1>2, <2>1 DEF Shape
      <4> QED BY <1>5, <2>2, <3>1, <4>1 DEF FrameSound, Into
    <3>5. Item(g, o, v) = <<s.open[i].key, v>> BY <2>2, <3>1, <3>4 DEF Item
    <3>6. Item(g, o, v) \in Entries
      <4>1. o[i] \in Opened BY <1>1, <2>1, ElementOfSeq
      <4>2. s.open[i].key \in Values BY <1>5, <2>2, <4>1 DEF Opened
      <4> QED BY <1>2, <3>5, <4>2 DEF Entries
    <3>7. g[id].items \in Seq(Entries) BY <1>1, <1>6, ElementOfSeq, NodeFields
    <3>8. Len(g[id].items) = at BY <1>1, <1>6, <1>9
    <3>9. Len(t.graph[id].items) = at + 1 /\ t.graph[id].items[at + 1] = Item(g, o, v)
      BY <3>3, <3>6, <3>7, <3>8, AppendProperties
    <3>10. Len(t.graph[id].items) > at BY <1>7, <3>9
    <3>11. t.graph[id].items[at + 1][1] = s.open[i].key BY <3>5, <3>9
    <3> QED BY <3>10, <3>11 DEF id, at
  <2> QED BY <2>4, <2>5
<1> QED BY <1>5, <1>8, <1>9 DEF KeyKept, id, at

\* and the keys whose members are to come.
LEMMA OpensKey ==
  ASSUME NEW s, Sound(s), NEW x, Sound(x), NEW t, NEW c, NEW len, Opens(x, t, c, len),
         Kept(s, x), KeyKept(s, x)
  PROVE  KeyKept(s, t)
<1>1. /\ Len(t.graph) = Len(x.graph) + 1 /\ Len(t.open) = Len(x.open) + 1
      /\ \A i \in 1..Len(x.graph) : t.graph[i] = x.graph[i]
      /\ \A i \in 1..Len(x.open) : t.open[i] = x.open[i]
  BY OpensIs
<1>2. /\ \A i \in 1..Len(s.open) : s.open[i].id \in 1..Len(s.graph)
      /\ Len(x.graph) \in Nat /\ Len(x.open) \in Nat /\ Len(s.graph) \in Nat
  BY SoundIs
<1>3. Len(s.graph) <= Len(x.graph) BY DEF Kept
<1>4. \A i \in 1..Len(s.open) : t.graph[s.open[i].id] = x.graph[s.open[i].id]
  <2>1. \A i \in 1..Len(s.open) : s.open[i].id \in 1..Len(x.graph) BY <1>2, <1>3
  <2> QED BY <1>1, <2>1
<1>5. \A i \in 1..Len(x.open) : i \in 1..Len(t.open) BY <1>1, <1>2
<1> QED BY <1>1, <1>4, <1>5 DEF KeyKept

\* A token leads from one moment to another, and nothing is lost.
LEMMA TokenStep ==
  ASSUME NEW b \in Seq(Byte), NEW R, NEW P, NEW x, Sound(x), NEW t, Token(b, R, P, x, t)
  PROVE  /\ Sound(t) /\ Kept(x, t) /\ x.at < t.at /\ t.at <= Len(b)
         /\ \A s : Sound(s) /\ Kept(s, x) /\ KeyKept(s, x) => Kept(s, t) /\ KeyKept(s, t)
<1>1. /\ \/ \E g, o, v : Completes(x, t, g, o, v)
         \/ \E c, len : Opens(x, t, c, len)
      /\ x.at < t.at /\ t.at <= Len(b)
  BY FormOf
<1>2. CASE \E g, o, v : Completes(x, t, g, o, v)
  <2>1. PICK g, o, v : Completes(x, t, g, o, v) BY <1>2
  <2>2. Sound(t) /\ Kept(x, t) BY <2>1, CompletesSound, CompletesKept
  <2>3. ASSUME NEW s, Sound(s), Kept(s, x), KeyKept(s, x) PROVE Kept(s, t) /\ KeyKept(s, t)
    BY <2>1, <2>2, <2>3, KeptTransitive, CompletesKey
  <2> QED BY <1>1, <2>2, <2>3
<1>3. CASE \E c, len : Opens(x, t, c, len)
  <2>1. PICK c, len : Opens(x, t, c, len) BY <1>3
  <2>2. Sound(t) /\ Kept(x, t) BY <2>1, OpensSound, OpensKept
  <2>3. ASSUME NEW s, Sound(s), Kept(s, x), KeyKept(s, x) PROVE Kept(s, t) /\ KeyKept(s, t)
    BY <2>1, <2>2, <2>3, KeptTransitive, OpensKey
  <2> QED BY <1>1, <2>2, <2>3
<1> QED BY <1>1, <1>2, <1>3

(***************************************************************************)
(* The story of what was written                                           *)
(***************************************************************************)
\* What lies in b lies in a longer byte string that begins like b.
LEMMA LiesLonger ==
  ASSUME NEW b \in Seq(Byte), NEW f \in Seq(Byte), NEW p \in Nat, NEW e \in Seq(Byte),
         Lies(b, p, e)
  PROVE  Lies(b \o f, p, e)
<1>1. Len(b) \in Nat /\ Len(f) \in Nat /\ Len(e) \in Nat BY LenProperties
<1> DEFINE c == b \o f
<1>2. Len(c) = Len(b) + Len(f) /\ \A i \in 1..Len(b) + Len(f) : i <= Len(b) => c[i] = b[i]
  BY ConcatProperties
<1> HIDE DEF c
<1>3. p + Len(e) <= Len(b) /\ \A i \in 1..Len(e) : b[p + i] = e[i] BY DEF Lies
<1>4. \A i \in 1..Len(e) : p + i \in 1..Len(b) + Len(f) /\ p + i <= Len(b) BY <1>1, <1>3
<1>5. Lies(c, p, e) BY <1>1, <1>2, <1>3, <1>4 DEF Lies
<1> QED BY <1>5 DEF c

\* A token stays one when bytes are added, references and padding.
LEMMA TokenLonger ==
  ASSUME NEW b \in Seq(Byte), NEW f \in Seq(Byte), NEW R, NEW Q, R \subseteq Q,
         NEW P \in BOOLEAN, NEW O \in BOOLEAN, P => O,
         NEW s, Sound(s), NEW t, Token(b, R, P, s, t)
  PROVE  Token(b \o f, Q, O, s, t)
<1> DEFINE c == b \o f
<1>0. /\ s.at \in Nat /\ s.open \in Seq(Opened) /\ Len(s.graph) \in Nat /\ Shape(s.graph, s.open)
      /\ s.graph \in Seq(Nodes)
  BY SoundIs
<1>1. \A p \in Nat, e \in Seq(Byte) : Lies(b, p, e) => Lies(c, p, e) BY LiesLonger
<1> HIDE DEF c
<1>2. ASSUME NEW p \in Primitives, NEW pad \in {0, 1}, PrimitiveToken(b, P, s, t, p, pad)
      PROVE  PrimitiveToken(c, O, s, t, p, pad)
  <2>1. Encoding[p] \in Seq(Byte) /\ <<0>> \in Seq(Byte) /\ s.at + pad \in Nat
    BY <1>0, EncodingBytes, OneIs
  <2> QED BY <1>0, <1>1, <1>2, <2>1 DEF PrimitiveToken
<1>3. ASSUME NEW l \in Leaves, LeafToken(b, s, t, l) PROVE LeafToken(c, s, t, l)
  BY <1>0, <1>1, <1>3, EncodingBytes DEF LeafToken
<1>4. ASSUME NEW d \in Containers, NEW len \in 0..MaxLength, BeginToken(b, s, t, d, len)
      PROVE  BeginToken(c, s, t, d, len)
  <2>1. d \in ContainerKinds /\ len \in TwoByte BY Bounds, BeginEnd
  <2>2. Header(d, len) \in Seq(Byte) BY <2>1, HeaderIs
  <2> QED BY <1>0, <1>1, <1>4, <2>2 DEF BeginToken
<1>5. ASSUME NEW id \in Nat, ReferenceToken(b, R, s, t, id) PROVE ReferenceToken(c, Q, s, t, id)
  <2>1. id \in 1..Len(s.graph) /\ id <= MaxValues BY <1>0, <1>5, NonEmpty DEF ReferenceToken
  <2>2. id - 1 \in Nat /\ id - 1 <= 16383 BY <1>0, <2>1, Bounds
  <2>3. EncodeVarint(id - 1) \in Seq(Byte) /\ <<94>> \in Seq(Byte)
    BY <2>2, Bounds, EncodedLen, OneIs
  <2>4. Reference(id) \in Seq(Byte) BY <2>3, ConcatProperties DEF Reference
  <2> QED BY <1>0, <1>1, <1>5, <2>4 DEF ReferenceToken
<1>6. ASSUME EndToken(b, s, t) PROVE EndToken(c, s, t)
  <2>1. s.open # <<>> /\ Len(Into(s.graph, s.open).items) <= MaxValues BY <1>6 DEF EndToken
  <2>2. Last(s.open) = s.open[Len(s.open)] /\ Len(s.open) \in 1..Len(s.open) BY <1>0, <2>1, TopIs
  <2>3. Into(s.graph, s.open) \in Nodes /\ Into(s.graph, s.open).kind \in Containers
    BY <2>2, SoundIs DEF Into
  <2>4. Into(s.graph, s.open).len <= MaxLength
    BY <1>0, <2>2, SoundIs DEF Shape, NodeSound, Into
  <2>5. Trailer(Into(s.graph, s.open)) \in Seq(Byte) BY <2>1, <2>3, <2>4, TrailerIs
  <2> QED BY <1>0, <1>1, <1>6, <2>5 DEF EndToken
<1>7. \/ \E p \in Primitives, pad \in {0, 1} : PrimitiveToken(b, P, s, t, p, pad)
      \/ \E l \in Leaves : LeafToken(b, s, t, l)
      \/ \E d \in Containers, len \in 0..MaxLength : BeginToken(b, s, t, d, len)
      \/ \E id \in Nat : ReferenceToken(b, R, s, t, id)
      \/ EndToken(b, s, t)
  BY DEF Token
<1>8. Token(c, Q, O, s, t) BY <1>2, <1>3, <1>4, <1>5, <1>6, <1>7 DEF Token
<1> QED BY <1>8 DEF c

\* T is what b tells: every moment of the writer.
Begin == Moment(0, <<>>, <<>>, NoValue)
Tells(b, T, R, P, last) ==
  /\ T \in Seq(Moments) /\ Len(T) >= 1 /\ T[1] = Begin /\ T[Len(T)] = last
  /\ \A k \in 1..Len(T) : Sound(T[k]) /\ Kept(T[k], last) /\ KeyKept(T[k], last)
  /\ \A k \in 1..Len(T) - 1 : Token(b, R, P, T[k], T[k + 1])

\* The writer begins at a sound moment.
LEMMA BeginSound == Sound(Begin)
<1>1. <<>> \in Seq(Nodes) /\ <<>> \in Seq(Opened) /\ Len(<<>>) = 0 OBVIOUS
<1>2. Begin.at = 0 /\ Begin.graph = <<>> /\ Begin.open = <<>> /\ Begin.root = NoValue
  BY MomentIs DEF Begin
<1>3. Begin \in Moments BY <1>1, MomentIn DEF Begin
<1>4. Shape(<<>>, <<>>)
  <2>1. \A i \in 1..0 : FALSE OBVIOUS
  <2> QED BY <1>1, <2>1 DEF Shape, Increasing, Closed
<1>5. Rooted(Begin) BY <1>2, ValueForms DEF Rooted
<1> QED BY <1>2, <1>3, <1>4, <1>5 DEF Sound

\* The story of no bytes is that moment.
LEMMA BeginTells == \A R, P : Tells(<<>>, <<Begin>>, R, P, Begin)
<1>1. SUFFICES ASSUME NEW R, NEW P PROVE Tells(<<>>, <<Begin>>, R, P, Begin) OBVIOUS
<1>2. Sound(Begin) /\ Begin \in Moments /\ Kept(Begin, Begin) /\ KeyKept(Begin, Begin)
  BY BeginSound, KeptSelf DEF Sound
<1> DEFINE T == <<Begin>>
<1>3. T \in Seq(Moments) /\ Len(T) = 1 /\ T[1] = Begin BY <1>2
<1> HIDE DEF T
<1>4. \A k \in 1..Len(T) : k = 1 BY <1>3
<1>5. \A k \in 1..Len(T) - 1 : FALSE BY <1>3
<1> QED BY <1>2, <1>3, <1>4, <1>5 DEF Tells, T

\* The next token is the next chapter.
LEMMA TellsMore ==
  ASSUME NEW b \in Seq(Byte), NEW f \in Seq(Byte), NEW R, NEW Q, R \subseteq Q,
         NEW P \in BOOLEAN, NEW O \in BOOLEAN, P => O,
         NEW T, NEW x, Tells(b, T, R, P, x), NEW t, Token(b \o f, Q, O, x, t)
  PROVE  Tells(b \o f, Append(T, t), Q, O, t) /\ Sound(t)
<1>0. b \o f \in Seq(Byte) BY ConcatProperties
<1>1. T \in Seq(Moments) /\ Len(T) \in Nat /\ Len(T) >= 1 /\ T[1] = Begin /\ T[Len(T)] = x
  BY LenProperties DEF Tells
<1>2. \A k \in 1..Len(T) : Sound(T[k]) /\ Kept(T[k], x) /\ KeyKept(T[k], x) BY DEF Tells
<1>3. Sound(x) BY <1>1, <1>2
<1>4. /\ Sound(t)
      /\ \A s : Sound(s) /\ Kept(s, x) /\ KeyKept(s, x) => Kept(s, t) /\ KeyKept(s, t)
  BY <1>0, <1>3, TokenStep
<1>5. t \in Moments BY <1>4, SoundIs
<1> DEFINE U == Append(T, t)
<1>6. /\ U \in Seq(Moments) /\ Len(U) = Len(T) + 1 /\ U[Len(T) + 1] = t
      /\ \A k \in 1..Len(T) : U[k] = T[k]
  BY <1>1, <1>5, AppendProperties
<1> HIDE DEF U
<1>7. \A k \in 1..Len(U) : k \in 1..Len(T) \/ k = Len(T) + 1 BY <1>1, <1>6
<1>8. \A k \in 1..Len(U) : Sound(U[k]) /\ Kept(U[k], t) /\ KeyKept(U[k], t)
  BY <1>2, <1>4, <1>6, <1>7, KeptSelf
<1>9. ASSUME NEW k \in 1..Len(U) - 1 PROVE Token(b \o f, Q, O, U[k], U[k + 1])
  <2>1. CASE k = Len(T)
    <3>1. k \in 1..Len(T) BY <1>1, <2>1
    <3>2. U[k] = x BY <1>1, <1>6, <2>1, <3>1
    <3> QED BY <1>6, <2>1, <3>2
  <2>2. CASE k # Len(T)
    <3>1. k \in 1..Len(T) - 1 /\ k \in 1..Len(T) /\ k + 1 \in 1..Len(T) BY <1>1, <1>6, <2>2
    <3>2. Token(b, R, P, T[k], T[k + 1]) /\ Sound(T[k]) BY <1>2, <3>1 DEF Tells
    <3>3. Token(b \o f, Q, O, T[k], T[k + 1]) BY <3>2, TokenLonger
    <3> QED BY <1>6, <3>1, <3>3
  <2> QED BY <2>1, <2>2
<1>10. 1 \in 1..Len(T) BY <1>1
<1> QED BY <1>1, <1>4, <1>6, <1>8, <1>9, <1>10 DEF Tells, U

Now == Moment(Len(bytes), graph, open, root)

\* No object has more members than values were written, those that are still
\* to be taken by the objects around them included.
Counts(g, o, n) ==
  /\ Len(g) <= n
  /\ \A id \in 1..Len(g) : Len(g[id].items) <= n
  /\ \A i \in 1..Len(o) : Len(g[o[i].id].items) + (Len(o) - i) <= n
Spare(g, o, n) ==
  /\ Len(g) <= n
  /\ \A id \in 1..Len(g) : Len(g[id].items) <= n
  /\ \A i \in 1..Len(o) : Len(g[o[i].id].items) + (Len(o) - i) + 1 <= n

\* A value taken by the innermost object uses up what is spare.
LEMMA TakenCounts ==
  ASSUME NEW g, NEW o, NEW v \in Values, Shape(g, o), NEW n \in Nat, Spare(g, o, n)
  PROVE  Counts(WithMember(v, g, o), WithKey(v, g, o), n)
<1> DEFINE h == WithMember(v, g, o)
           q == WithKey(v, g, o)
<1>1. g \in Seq(Nodes) /\ o \in Seq(Opened) /\ Len(g) \in Nat /\ Len(o) \in Nat
  BY LenProperties DEF Shape
<1>2. o # <<>> => /\ Last(o) = o[Len(o)] /\ Len(o) \in 1..Len(o) /\ Last(o).id \in 1..Len(g)
                  /\ o[Len(o)] \in Opened
  BY TopIs
<1>3. /\ Len(h) = Len(g)
      /\ \A i \in 1..Len(g) :
           h[i].items = IF o # <<>> /\ ~WantsKey(g, o) /\ i = Last(o).id
                        THEN Append(g[i].items, Item(g, o, v)) ELSE g[i].items
  BY <1>1, <1>2, MemberTaken
<1>4. Len(q) = Len(o) /\ \A i \in 1..Len(o) : q[i].id = o[i].id BY <1>1, KeyTaken
<1> HIDE DEF h, q
<1>5. \A id \in 1..Len(g) : g[id].items \in Seq(Entries) /\ Len(g[id].items) \in Nat
  BY <1>1, ElementOfSeq, NodeFields
<1>6. \A i \in 1..Len(o) : o[i].id \in 1..Len(g) BY DEF Shape, FrameSound
<1>7. ASSUME NEW id \in 1..Len(g)
      PROVE  /\ Len(h[id].items) = Len(g[id].items)
                \/ (o # <<>> /\ id = Last(o).id /\ Len(h[id].items) = Len(g[id].items) + 1)
  <2>1. CASE o # <<>> /\ ~WantsKey(g, o) /\ id = Last(o).id
    <3>1. h[id].items = Append(g[id].items, Item(g, o, v)) BY <1>3, <2>1
    <3>2. Item(g, o, v) \in Entries
      <4>1. CASE Into(g, o).kind \in Keyed
        <5>1. Last(o).key # NoValue BY <2>1, <4>1 DEF WantsKey
        <5>2. Last(o).key \in Values BY <1>2, <2>1, <5>1 DEF Opened
        <5> QED BY <4>1, <5>2 DEF Item, Entries
      <4>2. CASE Into(g, o).kind \notin Keyed BY <4>2 DEF Item, Entries
      <4> QED BY <4>1, <4>2
    <3> QED BY <1>5, <2>1, <3>1, <3>2, AppendProperties
  <2>2. CASE ~(o # <<>> /\ ~WantsKey(g, o) /\ id = Last(o).id) BY <1>3, <2>2
  <2> QED BY <2>1, <2>2
<1>8. ASSUME NEW id \in 1..Len(g) PROVE Len(h[id].items) <= n
  <2>1. Len(g[id].items) <= n BY DEF Spare
  <2>2. o # <<>> => Len(g[Last(o).id].items) + (Len(o) - Len(o)) + 1 <= n BY <1>2 DEF Spare
  <2> QED BY <1>1, <1>2, <1>5, <1>7, <2>1, <2>2
<1>9. ASSUME NEW i \in 1..Len(o) PROVE Len(h[o[i].id].items) + (Len(o) - i) <= n
  <2>1. Len(g[o[i].id].items) + (Len(o) - i) + 1 <= n BY DEF Spare
  <2>2. o[i].id \in 1..Len(g) /\ Len(g[o[i].id].items) \in Nat BY <1>5, <1>6
  <2>3. \/ Len(h[o[i].id].items) = Len(g[o[i].id].items)
        \/ Len(h[o[i].id].items) = Len(g[o[i].id].items) + 1
    BY <1>7, <2>2
  <2> QED BY <1>1, <2>1, <2>2, <2>3
<1>10. Len(g) <= n BY DEF Spare
<1> QED BY <1>3, <1>4, <1>8, <1>9, <1>10 DEF Counts, h, q

\* There is one to spare when an object is closed,
LEMMA FrontSpare ==
  ASSUME NEW g, NEW o, Shape(g, o), o # <<>>, NEW n \in Nat, Counts(g, o, n)
  PROVE  Spare(g, Front(o), n)
<1>1. o \in Seq(Opened) /\ Len(o) \in Nat BY LenProperties DEF Shape
<1>2. Len(Front(o)) = Len(o) - 1 /\ \A i \in 1..Len(o) - 1 : Front(o)[i] = o[i] BY <1>1, FrontIs
<1>3. ASSUME NEW i \in 1..Len(o) - 1
      PROVE  Len(g[Front(o)[i].id].items) + (Len(o) - 1 - i) + 1 <= n
  <2>1. i \in 1..Len(o) BY <1>1
  <2>2. Len(g[o[i].id].items) + (Len(o) - i) <= n BY <2>1 DEF Counts
  <2>3. o[i].id \in 1..Len(g) BY <2>1 DEF Shape, FrameSound
  <2>4. Len(g[o[i].id].items) \in Nat BY <2>3, ElementOfSeq, NodeFields DEF Shape
  <2> QED BY <1>1, <1>2, <2>2, <2>4
<1> QED BY <1>2, <1>3 DEF Spare, Counts

\* and when a value is counted.
LEMMA OneSpare ==
  ASSUME NEW g, NEW o, Shape(g, o), NEW n \in Nat, Counts(g, o, n)
  PROVE  Spare(g, o, n + 1)
<1>1. g \in Seq(Nodes) /\ Len(o) \in Nat /\ Len(g) \in Nat BY LenProperties DEF Shape
<1>2. \A i \in 1..Len(o) : o[i].id \in 1..Len(g) BY DEF Shape, FrameSound
<1>3. \A id \in 1..Len(g) : Len(g[id].items) \in Nat BY <1>1, ElementOfSeq, NodeFields
<1>4. ASSUME NEW i \in 1..Len(o) PROVE Len(g[o[i].id].items) + (Len(o) - i) + 1 <= n + 1
  <2>1. Len(g[o[i].id].items) \in Nat BY <1>2, <1>3
  <2>2. Len(g[o[i].id].items) + (Len(o) - i) <= n BY DEF Counts
  <2> QED BY <1>1, <2>1, <2>2
<1>5. Len(g) <= n + 1 BY <1>1 DEF Counts
<1>6. \A id \in 1..Len(g) : Len(g[id].items) <= n + 1 BY <1>3 DEF Counts
<1> QED BY <1>4, <1>5, <1>6 DEF Spare

\* A new object has no members yet.
LEMMA GrownSpare ==
  ASSUME NEW g, NEW o, Shape(g, o), NEW n \in Nat, Counts(g, o, n),
         NEW kind \in Leaves \cup Containers, NEW len \in Nat
  PROVE  Spare(Append(g, Node(kind, len)), o, n + 1)
<1> DEFINE h == Append(g, Node(kind, len))
<1>1. g \in Seq(Nodes) /\ Len(o) \in Nat /\ Len(g) \in Nat BY LenProperties DEF Shape
<1>2. /\ Len(h) = Len(g) + 1 /\ \A i \in 1..Len(g) : h[i] = g[i]
      /\ h[Len(g) + 1].items = <<>>
  BY <1>1, GrownIs
<1> HIDE DEF h
<1>3. Spare(g, o, n + 1) BY OneSpare
<1>4. \A i \in 1..Len(o) : o[i].id \in 1..Len(g) BY DEF Shape, FrameSound
<1>5. ASSUME NEW id \in 1..Len(h) PROVE Len(h[id].items) <= n + 1
  <2>1. CASE id \in 1..Len(g) BY <1>2, <1>3, <2>1 DEF Spare
  <2>2. CASE id = Len(g) + 1
    <3>1. Len(<<>>) = 0 OBVIOUS
    <3>2. Len(h[id].items) = 0 BY <1>2, <2>2, <3>1
    <3> QED BY <3>2
  <2> QED BY <1>1, <1>2, <2>1, <2>2
<1>6. Len(h) <= n + 1 BY <1>1, <1>2 DEF Counts
<1>7. \A i \in 1..Len(o) : Len(h[o[i].id].items) + (Len(o) - i) + 1 <= n + 1
  BY <1>2, <1>3, <1>4 DEF Spare
<1> QED BY <1>5, <1>6, <1>7 DEF Spare, h

\* An object that is opened is counted.
LEMMA OpenedCounts ==
  ASSUME NEW g, NEW o, Shape(g, o), NEW n \in Nat, Counts(g, o, n), NEW kind \in Containers,
         NEW len \in Nat
  PROVE  Counts(Append(g, Node(kind, len)), Push(g, o), n + 1)
<1> DEFINE h == Append(g, Node(kind, len))
           q == Push(g, o)
<1>1. /\ g \in Seq(Nodes) /\ o \in Seq(Opened) /\ Len(o) \in Nat /\ Len(g) \in Nat
      /\ kind \in Leaves \cup Containers
  BY LenProperties DEF Shape
<1>2. /\ Len(h) = Len(g) + 1 /\ h[Len(g) + 1].items = <<>> BY <1>1, GrownIs
<1>3. /\ Len(q) = Len(o) + 1 /\ \A i \in 1..Len(o) : q[i] = o[i]
      /\ q[Len(o) + 1].id = Len(g) + 1
  BY <1>1, PushIs
<1>4. Spare(h, o, n + 1) BY <1>1, GrownSpare
<1> HIDE DEF h, q
<1>5. Len(<<>>) = 0 OBVIOUS
<1>6. ASSUME NEW i \in 1..Len(q) PROVE Len(h[q[i].id].items) + (Len(q) - i) <= n + 1
  <2>1. CASE i = Len(o) + 1
    <3>1. Len(h[q[i].id].items) = 0 BY <1>2, <1>3, <1>5, <2>1
    <3> QED BY <1>1, <1>3, <2>1, <3>1
  <2>2. CASE i # Len(o) + 1
    <3>1. i \in 1..Len(o) BY <1>1, <1>3, <2>2
    <3>2. Len(h[o[i].id].items) + (Len(o) - i) + 1 <= n + 1 BY <1>4, <3>1 DEF Spare
    <3>3. Len(h[o[i].id].items) \in Nat
      <4>1. o[i].id \in 1..Len(g) BY <3>1 DEF Shape, FrameSound
      <4>2. h \in Seq(Nodes) BY <1>1, GrownIs DEF h
      <4>3. o[i].id \in 1..Len(h) BY <1>1, <1>2, <4>1
      <4> QED BY <4>2, <4>3, ElementOfSeq, NodeFields
    <3>4. Len(h[q[i].id].items) = Len(h[o[i].id].items) BY <1>3, <3>1
    <3> DEFINE m == Len(h[o[i].id].items)
    <3>5. m \in Nat /\ m + (Len(o) - i) + 1 <= n + 1 BY <3>2, <3>3
    <3> HIDE DEF m
    <3>6. m + (Len(o) + 1 - i) <= n + 1 BY <1>1, <3>1, <3>5
    <3>7. Len(q) = Len(o) + 1 /\ Len(h[q[i].id].items) = m BY <1>3, <3>4 DEF m
    <3> QED BY <3>6, <3>7
  <2> QED BY <2>1, <2>2
<1> QED BY <1>4, <1>6 DEF Spare, Counts, h, q

\* What is appended lies at the end.
LEMMA LiesEnd ==
  ASSUME NEW b \in Seq(Byte), NEW e \in Seq(Byte)
  PROVE  /\ b \o e \in Seq(Byte) /\ Len(b \o e) = Len(b) + Len(e) /\ Lies(b \o e, Len(b), e)
         /\ Len(b) \in Nat /\ Len(e) \in Nat
<1>1. Len(b) \in Nat /\ Len(e) \in Nat BY LenProperties
<1> DEFINE c == b \o e
<1>2. /\ c \in Seq(Byte) /\ Len(c) = Len(b) + Len(e)
      /\ \A i \in 1..Len(b) + Len(e) : c[i] = IF i <= Len(b) THEN b[i] ELSE e[i - Len(b)]
  BY ConcatProperties
<1> HIDE DEF c
<1>3. ASSUME NEW i \in 1..Len(e) PROVE c[Len(b) + i] = e[i]
  <2>1. Len(b) + i \in 1..Len(b) + Len(e) /\ ~(Len(b) + i <= Len(b)) /\ Len(b) + i - Len(b) = i
    BY <1>1
  <2> QED BY <1>2, <2>1
<1>4. Lies(c, Len(b), e) BY <1>1, <1>2, <1>3 DEF Lies
<1> QED BY <1>1, <1>2, <1>4 DEF c

\* No moment of T has more open objects than deepest.
Reaches(T) == deepest \in Nat /\ \A k \in 1..Len(T) : Len(T[k].open) <= deepest

\* What holds while V8 writes, T being the story so far.
Writing(T) ==
  /\ bytes \in Seq(Byte) /\ padded \in BOOLEAN
  /\ Tells(bytes, T, referred, padded, Now) /\ Reaches(T)
  /\ count \in Nat /\ count <= MaxValues /\ Counts(graph, open, count)

\* The moment the writer is at is sound.
LEMMA NowIs ==
  ASSUME NEW T, Writing(T)
  PROVE  /\ Sound(Now) /\ Now.at = Len(bytes) /\ Now.graph = graph /\ Now.open = open
         /\ Now.root = root
         /\ Shape(graph, open) /\ graph \in Seq(Nodes) /\ open \in Seq(Opened)
         /\ Len(graph) \in Nat /\ DOMAIN graph = 1..Len(graph) /\ Len(bytes) \in Nat
         /\ count + 1 \in Nat
<1>1. Len(T) >= 1 /\ T \in Seq(Moments) /\ T[Len(T)] = Now
      /\ \A k \in 1..Len(T) : Sound(T[k])
  BY DEF Writing, Tells
<1>2. Len(T) \in 1..Len(T) BY <1>1, LenProperties
<1>3. Sound(Now) BY <1>1, <1>2
<1>4. Now.at = Len(bytes) /\ Now.graph = graph /\ Now.open = open /\ Now.root = root
  BY MomentIs DEF Now
<1>5. Shape(graph, open) /\ graph \in Seq(Nodes) /\ open \in Seq(Opened) BY <1>3, <1>4, SoundIs
<1>6. Len(graph) \in Nat /\ DOMAIN graph = 1..Len(graph) BY <1>5, LenProperties
<1>7. Len(bytes) \in Nat /\ count + 1 \in Nat BY LenProperties DEF Writing
<1> QED BY <1>3, <1>4, <1>5, <1>6, <1>7

\* A value may follow what was written.
LEMMA Follows1 ==
  ASSUME NEW T, Writing(T), NEW v, MayFollow(v)
  PROVE  Ready(Now, v)
<1>1. /\ Now.graph = graph /\ Now.open = open /\ Now.root = root
      /\ Shape(graph, open) /\ graph \in Seq(Nodes)
  BY NowIs
<1>2. CASE open = <<>>
  <2>1. root = NoValue /\ ~WantsKey(graph, open) BY <1>2 DEF MayFollow, WantsKey
  <2> QED BY <1>1, <1>2, <2>1 DEF Ready, Room, KeyFits
<1>3. CASE open # <<>>
  <2> DEFINE n == Into(graph, open)
  <2>1. /\ n.kind = "dense" => Len(n.items) < n.len
        /\ WantsKey(graph, open) => v \notin KeysOf(n) /\ (n.kind = "sparse" => v = Prim("one"))
    BY <1>3 DEF MayFollow
  <2>2. ASSUME n.kind = "sparse", WantsKey(graph, open) PROVE n.items = <<>>
    <3>1. Last(open).id \in 1..Len(graph) /\ n \in Nodes BY <1>1, <1>3, TopIs
    <3>2. \A j \in 1..Len(n.items) : n.items[j][1] = Prim("one")
      BY <1>1, <2>2, <3>1 DEF Shape, NodeSound, Into
    <3>3. n.items \in Seq(Entries) BY <3>1, NodeFields
    <3>4. \A j \in 1..Len(n.items) : n.items[j][1] \in KeysOf(n)
      <4>1. DOMAIN n.items = 1..Len(n.items) BY <3>3, LenProperties
      <4> HIDE DEF n
      <4> QED BY <4>1 DEF KeysOf
    <3>5. \A j \in 1..Len(n.items) : FALSE BY <2>1, <2>2, <3>2, <3>4
    <3>6. n.items # <<>> => 1 \in 1..Len(n.items) BY <3>3, NonEmpty
    <3> QED BY <3>5, <3>6
  <2> HIDE DEF n
  <2>3. Room(graph, open) BY <2>1, <2>2 DEF Room, n
  <2>4. KeyFits(graph, open, v) BY <2>1 DEF KeyFits, n
  <2> QED BY <1>1, <1>3, <2>3, <2>4 DEF Ready
<1> QED BY <1>2, <1>3

\* The moment after a step of the writer.
LEMMA NowNext ==
  /\ Now' = Moment(Len(bytes'), graph', open', root')
  /\ Now'.at = Len(bytes') /\ Now'.graph = graph' /\ Now'.open = open' /\ Now'.root = root'
BY MomentIs DEF Now

\* As many objects are open as deepest says, or fewer.
Deepens == deepest' \in Nat /\ deepest <= deepest' /\ Len(open') <= deepest'

\* So it is when a value was completed,
LEMMA TakenDeepens ==
  ASSUME NEW T, Writing(T), NEW g, NEW v \in Values,
         NEW o, o = open \/ (open # <<>> /\ o = Front(open)),
         open' = WithKey(v, g, o), deepest' = deepest
  PROVE  Deepens
<1>1. open \in Seq(Opened) /\ Len(open) \in Nat BY NowIs, LenProperties
<1>2. o \in Seq(Opened) /\ Len(o) <= Len(open) /\ Len(o) \in Nat
  BY <1>1, FrontIs, LenProperties
<1>3. Len(open') = Len(o) BY <1>2, KeyTaken
<1>4. Len(open) <= deepest /\ deepest \in Nat
  <2>1. Len(T) >= 1 /\ T \in Seq(Moments) /\ T[Len(T)] = Now /\ Reaches(T)
    BY DEF Writing, Tells
  <2>2. Len(T) \in 1..Len(T) BY <2>1, LenProperties
  <2>3. Now.open = open BY NowIs
  <2> QED BY <2>1, <2>2, <2>3 DEF Reaches
<1> QED BY <1>1, <1>2, <1>3, <1>4 DEF Deepens

\* and when an object was opened.
LEMMA OpenedDeepens ==
  ASSUME NEW T, Writing(T), open' = Push(graph, open),
         deepest' = IF Len(open') > deepest THEN Len(open') ELSE deepest
  PROVE  Deepens
<1>1. open \in Seq(Opened) /\ graph \in Seq(Nodes) /\ deepest \in Nat
  BY NowIs DEF Writing, Reaches
<1>2. Len(open') \in Nat BY <1>1, PushIs, LenProperties
<1> QED BY <1>1, <1>2 DEF Deepens

\* The bytes f were added, and the story goes on.
Adds(f) ==
  /\ f \in Seq(Byte) /\ bytes' = bytes \o f
  /\ referred \subseteq referred' /\ padded' \in BOOLEAN /\ (padded => padded')
  /\ Token(bytes \o f, referred', padded', Now, Now')
  /\ count' \in Nat /\ count' <= MaxValues /\ Counts(graph', open', count')
  /\ Deepens

\* WritePrimitive adds a token,
LEMMA PrimitiveAdds ==
  ASSUME NEW T, Writing(T), NEW p \in Primitives, WritePrimitive(p)
  PROVE  \E f : Adds(f)
<1> DEFINE e == Encoding[p]
           f == Pad(p) \o e
           c == bytes \o f
           pad == IF Pad(p) = <<>> THEN 0 ELSE 1
<1>0. /\ Sound(Now) /\ Now.at = Len(bytes) /\ Now.graph = graph /\ Now.open = open
      /\ Now.root = root /\ Shape(graph, open) /\ Len(bytes) \in Nat /\ bytes \in Seq(Byte)
      /\ padded \in BOOLEAN /\ count \in Nat
  BY NowIs DEF Writing
<1>1. Pad(p) = <<>> \/ Pad(p) = <<0>> BY TagIs DEF Pad
<1>2. Pad(p) \in Seq(Byte) /\ Len(Pad(p)) = pad /\ pad \in {0, 1} /\ (pad = 1 => Pad(p) = <<0>>)
  <2>1. CASE Pad(p) = <<>> BY <2>1, Empty
  <2>2. CASE Pad(p) = <<0>>
    <3>1. <<0>> # <<>> OBVIOUS
    <3> QED BY <2>2, <3>1, OneIs
  <2> QED BY <1>1, <2>1, <2>2
<1>3. e \in Seq(Byte) /\ Len(e) \in Nat BY EncodingBytes, LenProperties
<1>4. f \in Seq(Byte) /\ Len(f) = pad + Len(e)
  <2> HIDE DEF e, pad
  <2> QED BY <1>2, <1>3, ConcatProperties
<1>5. bytes' = c /\ MayFollow(Prim(p)) /\ count < MaxValues /\ count' = count + 1
  BY DEF WritePrimitive, Emit
<1>6. /\ graph' = WithMember(Prim(p), graph, open) /\ open' = WithKey(Prim(p), graph, open)
      /\ root' = IF open = <<>> THEN Prim(p) ELSE root
      /\ referred' = referred
  BY DEF WritePrimitive, Takes
<1>7. padded' = (padded \/ (Pad(p) # <<>> /\ InLoop(Now)))
  BY <1>0 DEF WritePrimitive, InLoop
<1> HIDE DEF f
<1>8. /\ c \in Seq(Byte) /\ Len(c) = Len(bytes) + pad + Len(e) /\ Lies(c, Len(bytes), f)
  <2> HIDE DEF e, pad
  <2>1. c \in Seq(Byte) /\ Len(c) = Len(bytes) + Len(f) /\ Lies(c, Len(bytes), f)
    BY <1>0, <1>4, LiesEnd
  <2>2. pad \in Nat BY <1>2
  <2> QED BY <1>0, <1>3, <1>4, <2>1, <2>2
<1> HIDE DEF c, pad, e
<1>9. Lies(c, Len(bytes), Pad(p)) /\ Lies(c, Len(bytes) + pad, e)
  BY <1>0, <1>2, <1>3, <1>8, LiesParts DEF f
<1>10. Now' = Taken(Now, Now.at + pad + Len(e), Now.graph, Now.open, Prim(p))
  BY <1>0, <1>5, <1>6, <1>8, NowNext DEF Taken
<1>11. PrimitiveToken(c, padded', Now, Now', p, pad)
  <2>1. Ready(Now, Prim(p)) BY <1>5, Follows1
  <2>2. pad = 1 /\ InLoop(Now) => padded'
    <3>1. pad = 1 => Pad(p) # <<>> BY DEF pad
    <3> QED BY <1>7, <3>1, Zenon
  <2>3. pad = 1 => Lies(c, Now.at, <<0>>) BY <1>0, <1>2, <1>9
  <2> QED BY <1>0, <1>9, <1>10, <2>1, <2>2, <2>3 DEF PrimitiveToken, e
<1>12. Token(c, referred', padded', Now, Now') BY <1>2, <1>11 DEF Token
<1>13. Counts(graph', open', count')
  <2>1. Spare(graph, open, count + 1) BY <1>0, OneSpare DEF Writing
  <2>2. Prim(p) \in Values /\ count + 1 \in Nat BY <1>0, ValueForms
  <2> QED BY <1>0, <1>5, <1>6, <2>1, <2>2, TakenCounts
<1>14. count' \in Nat /\ count' <= MaxValues BY <1>0, <1>5, Bounds
<1>15. padded' \in BOOLEAN /\ (padded => padded') /\ referred \subseteq referred'
  BY <1>0, <1>6, <1>7
<1>16. Deepens
  <2>1. deepest' = deepest BY DEF WritePrimitive
  <2>2. Prim(p) \in Values BY ValueForms
  <2> QED BY <1>6, <2>1, <2>2, TakenDeepens
<1>17. Adds(f) BY <1>4, <1>5, <1>12, <1>13, <1>14, <1>15, <1>16 DEF Adds, c
<1> QED BY <1>17

\* WriteLeaf does,
LEMMA LeafAdds ==
  ASSUME NEW T, Writing(T), NEW l \in Leaves, WriteLeaf(l)
  PROVE  \E f : Adds(f)
<1> DEFINE f == Encoding[l]
           c == bytes \o f
           g == Append(graph, Node(l, 0))
           v == Obj(New)
<1>0. /\ Sound(Now) /\ Now.at = Len(bytes) /\ Now.graph = graph /\ Now.open = open
      /\ Now.root = root /\ Shape(graph, open) /\ Len(bytes) \in Nat /\ bytes \in Seq(Byte)
      /\ padded \in BOOLEAN /\ count \in Nat /\ Counts(graph, open, count)
      /\ Len(graph) \in Nat /\ graph \in Seq(Nodes)
  BY NowIs DEF Writing
<1>1. f \in Seq(Byte) /\ Len(f) \in Nat BY EncodingBytes, LenProperties
<1>2. bytes' = c /\ MayFollow(v) /\ count < MaxValues /\ count' = count + 1
  BY DEF WriteLeaf, Emit
<1>3. /\ graph' = WithMember(v, g, open) /\ open' = WithKey(v, g, open)
      /\ root' = (IF open = <<>> THEN v ELSE root)
      /\ referred' = referred /\ padded' = padded
  BY DEF WriteLeaf, Takes, Made
<1>4. New = Number(Now) /\ New \in Nat BY <1>0 DEF New, Number
<1> HIDE DEF f, g, v
<1>5. /\ c \in Seq(Byte) /\ Len(c) = Len(bytes) + Len(f) /\ Lies(c, Len(bytes), f)
  BY <1>0, <1>1, LiesEnd
<1>6. Ready(Now, v) BY <1>2, Follows1
<1> HIDE DEF c
<1>7. Now' = Taken(Now, Now.at + Len(f), g, Now.open, v)
  BY <1>0, <1>2, <1>3, <1>5, NowNext DEF Taken
<1>8. LeafToken(c, Now, Now', l)
  BY <1>0, <1>4, <1>5, <1>6, <1>7 DEF LeafToken, Grown, f, g, v
<1>9. Token(c, referred', padded', Now, Now') BY <1>8 DEF Token
<1>10. Counts(graph', open', count')
  <2>1. l \in Leaves \cup Containers /\ 0 \in Nat OBVIOUS
  <2>2. Spare(g, open, count + 1) BY <1>0, <2>1, GrownSpare DEF g
  <2>3. v \in Values /\ count + 1 \in Nat BY <1>0, <1>4, ValueForms DEF v
  <2>4. Shape(g, open) BY <1>0, <1>4, <1>6, LeafTaken DEF g, v
  <2> QED BY <1>0, <1>2, <1>3, <2>2, <2>3, <2>4, TakenCounts
<1>11. count' \in Nat /\ count' <= MaxValues BY <1>0, <1>2, Bounds
<1>12. Deepens
  <2>1. deepest' = deepest BY DEF WriteLeaf
  <2>2. v \in Values BY <1>0, <1>4, ValueForms DEF v
  <2> QED BY <1>3, <2>1, <2>2, TakenDeepens
<1>13. Adds(f) BY <1>0, <1>1, <1>2, <1>3, <1>9, <1>10, <1>11, <1>12 DEF Adds, c
<1> QED BY <1>13

\* BeginObject does,
LEMMA BeginAdds ==
  ASSUME NEW T, Writing(T), NEW d \in Containers, NEW len \in 0..MaxLength,
         d = "sparse" => 2 <= len, d \notin Arrays => len = 0, BeginObject(d, len)
  PROVE  \E f : Adds(f)
<1> DEFINE f == Header(d, len)
           c == bytes \o f
<1>0. /\ Sound(Now) /\ Now.at = Len(bytes) /\ Now.graph = graph /\ Now.open = open
      /\ Now.root = root /\ Shape(graph, open) /\ Len(bytes) \in Nat /\ bytes \in Seq(Byte)
      /\ padded \in BOOLEAN /\ count \in Nat /\ Counts(graph, open, count)
      /\ Len(graph) \in Nat /\ len \in Nat
  BY NowIs, Bounds DEF Writing
<1>1. f \in Seq(Byte) /\ Len(f) \in Nat
  <2>1. d \in ContainerKinds /\ len \in TwoByte BY Bounds, BeginEnd
  <2> QED BY <2>1, HeaderIs, LenProperties
<1>2. /\ bytes' = c /\ MayFollow(Obj(New)) /\ count < MaxValues /\ count' = count + 1
  BY DEF BeginObject, Emit, Header
<1>3. /\ graph' = Append(graph, Node(d, len)) /\ open' = Push(graph, open) /\ root' = root
      /\ referred' = referred /\ padded' = padded
  BY DEF BeginObject, Made, Push, New
<1>4. New = Number(Now) BY <1>0 DEF New, Number
<1> HIDE DEF f
<1>5. /\ c \in Seq(Byte) /\ Len(c) = Len(bytes) + Len(f) /\ Lies(c, Len(bytes), f)
  BY <1>0, <1>1, LiesEnd
<1>6. Ready(Now, Obj(New)) BY <1>2, Follows1
<1> HIDE DEF c
<1>7. Now' = Moment(Now.at + Len(f), Grown(Now, d, len), Push(Now.graph, Now.open), Now.root)
  BY <1>0, <1>2, <1>3, <1>5, NowNext DEF Grown
<1>8. BeginToken(c, Now, Now', d, len)
  BY <1>0, <1>4, <1>5, <1>6, <1>7 DEF BeginToken, f
<1>9. Token(c, referred', padded', Now, Now') BY <1>8 DEF Token
<1>10. Counts(graph', open', count') BY <1>0, <1>2, <1>3, OpenedCounts
<1>11. count' \in Nat /\ count' <= MaxValues BY <1>0, <1>2, Bounds
<1>12. Deepens BY <1>3, OpenedDeepens DEF BeginObject
<1>13. Adds(f) BY <1>0, <1>1, <1>2, <1>3, <1>9, <1>10, <1>11, <1>12 DEF Adds, c
<1> QED BY <1>13

\* WriteReference does,
LEMMA ReferenceAdds ==
  ASSUME NEW T, Writing(T), NEW id \in DOMAIN graph, WriteReference(id)
  PROVE  \E f : Adds(f)
<1> DEFINE f == Reference(id)
           c == bytes \o f
           v == Obj(id)
<1>0. /\ Sound(Now) /\ Now.at = Len(bytes) /\ Now.graph = graph /\ Now.open = open
      /\ Now.root = root /\ Shape(graph, open) /\ Len(bytes) \in Nat /\ bytes \in Seq(Byte)
      /\ padded \in BOOLEAN /\ count \in Nat /\ Counts(graph, open, count) /\ count <= MaxValues
      /\ Len(graph) \in Nat /\ id \in 1..Len(graph)
  BY NowIs DEF Writing
<1>1. id \in Nat /\ id <= MaxValues BY <1>0, Bounds DEF Counts
<1>2. f \in Seq(Byte) /\ Len(f) \in Nat
  <2>1. id - 1 \in Nat /\ id - 1 <= 16383 BY <1>0, <1>1, Bounds
  <2>2. EncodeVarint(id - 1) \in Seq(Byte) /\ <<94>> \in Seq(Byte)
    BY <2>1, Bounds, EncodedLen, OneIs
  <2> QED BY <2>2, ConcatProperties, LenProperties DEF Reference
<1>3. /\ bytes' = c /\ MayFollow(v) /\ count < MaxValues /\ count' = count + 1
  BY TagIs DEF WriteReference, Emit, Reference
<1>4. /\ graph' = WithMember(v, graph, open) /\ open' = WithKey(v, graph, open)
      /\ root' = (IF open = <<>> THEN v ELSE root)
      /\ referred' = referred \cup {id} /\ padded' = padded
  BY DEF WriteReference, Takes
<1> HIDE DEF f, v
<1>5. /\ c \in Seq(Byte) /\ Len(c) = Len(bytes) + Len(f) /\ Lies(c, Len(bytes), f)
  BY <1>0, <1>2, LiesEnd
<1>6. Ready(Now, v) BY <1>3, Follows1
<1> HIDE DEF c
<1>7. Now' = Taken(Now, Now.at + Len(f), Now.graph, Now.open, v)
  BY <1>0, <1>3, <1>4, <1>5, NowNext DEF Taken
<1>8. ReferenceToken(c, referred', Now, Now', id)
  BY <1>0, <1>1, <1>4, <1>5, <1>6, <1>7 DEF ReferenceToken, f, v
<1>9. Token(c, referred', padded', Now, Now') BY <1>1, <1>8 DEF Token
<1>10. Counts(graph', open', count')
  <2>1. Spare(graph, open, count + 1) BY <1>0, OneSpare
  <2>2. v \in Values /\ count + 1 \in Nat BY <1>0, <1>1, ValueForms DEF v
  <2> QED BY <1>0, <1>3, <1>4, <2>1, <2>2, TakenCounts
<1>11. count' \in Nat /\ count' <= MaxValues BY <1>0, <1>3, Bounds
<1>12. Deepens
  <2>1. deepest' = deepest BY DEF WriteReference
  <2>2. v \in Values BY <1>1, ValueForms DEF v
  <2> QED BY <1>4, <2>1, <2>2, TakenDeepens
<1>13. Adds(f) BY <1>0, <1>2, <1>3, <1>4, <1>9, <1>10, <1>11, <1>12 DEF Adds, c
<1> QED BY <1>13

\* and EndObject does.
LEMMA EndAdds ==
  ASSUME NEW T, Writing(T), EndObject
  PROVE  \E f : Adds(f)
<1> DEFINE n == Into(graph, open)
           f == Trailer(n)
           c == bytes \o f
           v == Obj(Last(open).id)
<1>0. /\ Sound(Now) /\ Now.at = Len(bytes) /\ Now.graph = graph /\ Now.open = open
      /\ Now.root = root /\ Shape(graph, open) /\ Len(bytes) \in Nat /\ bytes \in Seq(Byte)
      /\ padded \in BOOLEAN /\ count \in Nat /\ Counts(graph, open, count) /\ count <= MaxValues
      /\ Len(graph) \in Nat
  BY NowIs DEF Writing
<1>1. open # <<>> /\ Last(open).key = NoValue /\ (n.kind = "dense" => Len(n.items) = n.len)
      /\ bytes' = c
  BY DEF EndObject
<1>2. /\ graph' = WithMember(v, graph, Front(open)) /\ open' = WithKey(v, graph, Front(open))
      /\ root' = (IF Front(open) = <<>> THEN v ELSE root)
      /\ referred' = referred /\ padded' = padded /\ count' = count
  BY DEF EndObject, Takes
<1>3. /\ Last(open).id \in 1..Len(graph) /\ n \in Nodes /\ n.kind \in Containers
      /\ n.len <= MaxLength /\ Len(n.items) <= count
  <2>1. Last(open) = open[Len(open)] /\ Len(open) \in 1..Len(open) /\ n \in Nodes
        /\ Last(open).id \in 1..Len(graph)
    BY <1>0, <1>1, TopIs
  <2>2. FrameSound(graph, open, Len(open)) BY <1>0, <2>1 DEF Shape
  <2>3. n.kind \in Containers BY <2>1, <2>2 DEF FrameSound, Into
  <2>4. n.len <= MaxLength BY <1>0, <2>1 DEF Shape, NodeSound, Into
  <2>5. Len(n.items) <= count BY <1>0, <2>1 DEF Counts, Into
  <2> QED BY <2>1, <2>3, <2>4, <2>5
<1>4. Len(n.items) <= MaxValues
  <2>1. Len(n.items) \in Nat BY <1>3, NodeFields
  <2> HIDE DEF n
  <2> QED BY <1>0, <1>3, <2>1, Bounds
<1> HIDE DEF n
<1>5. f \in Seq(Byte) /\ Len(f) \in Nat BY <1>3, <1>4, TrailerIs, LenProperties
<1> HIDE DEF f, v
<1>6. /\ c \in Seq(Byte) /\ Len(c) = Len(bytes) + Len(f) /\ Lies(c, Len(bytes), f)
  BY <1>0, <1>5, LiesEnd
<1> HIDE DEF c
<1>7. Now' = Taken(Now, Now.at + Len(f), Now.graph, Front(Now.open), v)
  BY <1>0, <1>1, <1>2, <1>6, NowNext DEF Taken
<1>8. EndToken(c, Now, Now') BY <1>0, <1>1, <1>4, <1>6, <1>7 DEF EndToken, f, v, n
<1>9. Token(c, referred', padded', Now, Now') BY <1>8 DEF Token
<1>10. Counts(graph', open', count')
  <2>1. Spare(graph, Front(open), count) BY <1>0, <1>1, FrontSpare
  <2>2. Last(open).id \in Nat BY <1>0, <1>3
  <2>3. v \in Values BY <2>2, ValueForms DEF v
  <2>4. Shape(graph, Front(open)) BY <1>0, <1>1, FrontShape DEF n
  <2> QED BY <1>0, <1>2, <2>1, <2>3, <2>4, TakenCounts
<1>11. Deepens
  <2>1. deepest' = deepest BY DEF EndObject
  <2>2. v \in Values BY <1>0, <1>3, ValueForms DEF v
  <2> QED BY <1>1, <1>2, <2>1, <2>2, TakenDeepens
<1>12. Adds(f) BY <1>0, <1>1, <1>2, <1>5, <1>9, <1>10, <1>11 DEF Adds, c
<1> QED BY <1>12

\* Whatever is written, the story goes on.
LEMMA WritingGoesOn ==
  ASSUME NEW T, Writing(T), NEW f, Adds(f)
  PROVE  \E U : Writing(U)'
<1>0. PICK U : U = Append(T, Now') OBVIOUS
<1>1. /\ bytes \in Seq(Byte) /\ padded \in BOOLEAN /\ Tells(bytes, T, referred, padded, Now)
      /\ Reaches(T)
  BY DEF Writing
<1>2. /\ f \in Seq(Byte) /\ bytes' = bytes \o f
      /\ referred \subseteq referred' /\ padded' \in BOOLEAN /\ (padded => padded')
      /\ Token(bytes \o f, referred', padded', Now, Now')
      /\ count' \in Nat /\ count' <= MaxValues /\ Counts(graph', open', count')
      /\ Deepens
  BY DEF Adds
<1>3. bytes \o f \in Seq(Byte) BY <1>1, <1>2, ConcatProperties
<1>4. Tells(bytes \o f, U, referred', padded', Now') BY <1>0, <1>1, <1>2, TellsMore
<1>5. Reaches(U)'
  <2>1. T \in Seq(Moments) /\ U \in Seq(Moments) /\ Len(T) \in Nat
    BY <1>1, <1>4, LenProperties DEF Tells
  <2>2. Len(U) = Len(T) + 1 /\ U[Len(T) + 1] = Now' /\ \A k \in 1..Len(T) : U[k] = T[k]
    BY <1>0, <2>1
  <2>3. \A k \in 1..Len(T) : T[k].open \in Seq(Opened) /\ Len(T[k].open) \in Nat
    BY <1>1, SoundIs, LenProperties DEF Tells
  <2>4. Now'.open = open' BY NowNext
  <2>5. deepest \in Nat /\ \A k \in 1..Len(T) : Len(T[k].open) <= deepest BY <1>1 DEF Reaches
  <2>6. \A k \in 1..Len(T) : Len(U[k].open) <= deepest'
    BY <1>2, <2>2, <2>3, <2>5 DEF Deepens
  <2>7. Len(U[Len(T) + 1].open) <= deepest' BY <1>2, <2>2, <2>4 DEF Deepens
  <2>8. \A k \in 1..Len(U) : k \in 1..Len(T) \/ k = Len(T) + 1 BY <2>1, <2>2
  <2> QED BY <1>2, <2>6, <2>7, <2>8 DEF Reaches, Deepens
<1>6. Writing(U)' BY <1>2, <1>3, <1>4, <1>5 DEF Writing
<1> QED BY <1>6

\* What V8 has written has a story after every step of its.
LEMMA WriteStep ==
  ASSUME NEW T, Writing(T), Write, pc' = "write"
  PROVE  \E U : Writing(U)'
<1>1. \E f : Adds(f)
  <2>1. CASE \E p \in Primitives : WritePrimitive(p) BY <2>1, PrimitiveAdds
  <2>2. CASE \E l \in Leaves : WriteLeaf(l) BY <2>2, LeafAdds
  <2>3. CASE \E c \in Containers \ Arrays : BeginObject(c, 0)
    <3>1. PICK c \in Containers \ Arrays : BeginObject(c, 0) BY <2>3
    <3>2. 0 \in 0..MaxLength BY Bounds
    <3>3. c # "sparse" BY DEF Arrays
    <3> QED BY <3>1, <3>2, <3>3, BeginAdds
  <2>4. CASE \E c \in Containers \cap {"dense"}, n \in 0..MaxLength : BeginObject(c, n)
    <3>1. PICK n \in 0..MaxLength : "dense" \in Containers /\ BeginObject("dense", n) BY <2>4
    <3>2. "dense" \in Arrays /\ "dense" # "sparse" BY DEF Arrays
    <3> QED BY <3>1, <3>2, BeginAdds
  <2>5. CASE \E c \in Containers \cap {"sparse"}, n \in 2..MaxLength : BeginObject(c, n)
    <3>1. PICK n \in 2..MaxLength : "sparse" \in Containers /\ BeginObject("sparse", n) BY <2>5
    <3>2. "sparse" \in Arrays /\ n \in 0..MaxLength /\ 2 <= n BY Bounds DEF Arrays
    <3> QED BY <3>1, <3>2, BeginAdds
  <2>6. CASE \E id \in DOMAIN graph : WriteReference(id) BY <2>6, ReferenceAdds
  <2>7. CASE EndObject BY <2>7, EndAdds
  <2>8. CASE \E n \in 0..Len(bytes) : Deliver(n) BY <2>8 DEF Deliver
  <2> QED BY <2>1, <2>2, <2>3, <2>4, <2>5, <2>6, <2>7, <2>8 DEF Write
<1> QED BY <1>1, WritingGoesOn

(***************************************************************************)
(* Numbers read from any bytes                                             *)
(***************************************************************************)
\* Of digits c there is a function f that adds them up from the last one.
LEMMA AddedUp ==
  ASSUME NEW n \in Nat, NEW w \in Nat, NEW c \in [1..n -> Nat]
  PROVE  \E f \in [1..n + 1 -> Nat] :
           f[n + 1] = 0 /\ \A i \in 1..n : f[i] = c[i] + w * f[i + 1]
<1> DEFINE Good(m, f) == f \in [n + 1 - m..n + 1 -> Nat] /\ f[n + 1] = 0
                         /\ \A i \in n + 1 - m..n : f[i] = c[i] + w * f[i + 1]
           Bad == {m \in 0..n : ~\E f : Good(m, f)}
<1>1. SUFFICES ASSUME Bad # {} PROVE FALSE
  <2>1. n \in 0..n /\ n + 1 - n = 1 OBVIOUS
  <2>2. n \notin Bad => \E f : Good(n, f) BY <2>1
  <2>3. \A f : Good(n, f) => f \in [1..n + 1 -> Nat] /\ f[n + 1] = 0
                             /\ \A i \in 1..n : f[i] = c[i] + w * f[i + 1]
    BY <2>1
  <2> QED BY <1>1, <2>2, <2>3
<1>2. PICK m \in Bad : \A j \in Bad : m <= j
  <2>1. Bad \in SUBSET Nat OBVIOUS
  <2> HIDE DEF Bad
  <2> QED BY <1>1, <2>1, Least
<1>3. m \in 0..n /\ ~\E f : Good(m, f) OBVIOUS
<1>4. m # 0
  <2> DEFINE z == [i \in n + 1..n + 1 |-> 0]
  <2>1. z \in [n + 1..n + 1 -> Nat] /\ z[n + 1] = 0 /\ \A i \in n + 1..n : FALSE OBVIOUS
  <2> HIDE DEF z
  <2>2. n + 1 - 0 = n + 1 OBVIOUS
  <2>3. Good(0, z) BY <2>1, <2>2
  <2> QED BY <1>3, <2>3
<1>5. m - 1 \in 0..n /\ m - 1 \notin Bad
  <2>1. m - 1 \in 0..n /\ ~(m <= m - 1) BY <1>3, <1>4
  <2> HIDE DEF Bad
  <2> QED BY <1>2, <2>1
<1>6. PICK f : Good(m - 1, f) BY <1>5
<1> DEFINE k == n + 1 - m
           d == c[k] + w * f[k + 1]
           g == [i \in k..n + 1 |-> IF i = k THEN d ELSE f[i]]
<1>7. k \in 1..n /\ n + 1 - (m - 1) = k + 1 BY <1>3, <1>4
<1>8. f \in [k + 1..n + 1 -> Nat] /\ f[n + 1] = 0
      /\ \A i \in k + 1..n : f[i] = c[i] + w * f[i + 1]
  <2> HIDE DEF k
  <2> QED BY <1>6, <1>7
<1>9. d \in Nat
  <2> HIDE DEF k
  <2>1. k + 1 \in k + 1..n + 1 BY <1>7
  <2>2. f[k + 1] \in Nat /\ c[k] \in Nat BY <1>7, <1>8, <2>1
  <2>3. \A x, y \in Nat : x * y \in Nat OBVIOUS
  <2> QED BY <2>2, <2>3
<1> HIDE DEF k, d
<1>10. g \in [k..n + 1 -> Nat]
  <2>1. \A i \in k..n + 1 : i # k => i \in k + 1..n + 1 BY <1>7
  <2> QED BY <1>8, <1>9, <2>1
<1>11. g[n + 1] = 0 BY <1>7, <1>8
<1>12. ASSUME NEW i \in k..n PROVE g[i] = c[i] + w * g[i + 1]
  <2>1. i \in k..n + 1 /\ i + 1 \in k..n + 1 /\ i + 1 # k BY <1>7
  <2>2. g[i + 1] = f[i + 1] BY <2>1
  <2>3. CASE i = k BY <2>1, <2>2, <2>3 DEF d
  <2>4. CASE i # k
    <3>1. i \in k + 1..n BY <1>7, <2>4
    <3> QED BY <1>8, <2>1, <2>2, <2>4, <3>1
  <2> QED BY <2>3, <2>4
<1>13. Good(m, g)
  <2> HIDE DEF g
  <2> QED BY <1>10, <1>11, <1>12 DEF k
<1> QED BY <1>3, <1>13

\* A sum of digits, as _read_varint adds them up, is a number.
LEMMA SumNat ==
  ASSUME NEW n \in Nat, NEW w \in Nat, NEW c \in [1..n -> Nat], NEW v,
         \A i \in 1..n + 1 : v[i] = IF i > n THEN 0 ELSE c[i] + w * v[i + 1]
  PROVE  v[1] \in Nat
<1> DEFINE E == {m \in 0..n : v[n + 1 - m] \notin Nat}
<1>1. SUFFICES ASSUME E # {} PROVE FALSE
  <2>1. n \in 0..n /\ n + 1 - n = 1 OBVIOUS
  <2> QED BY <2>1
<1>2. PICK m \in E : \A j \in E : m <= j
  <2>1. E \in SUBSET Nat OBVIOUS
  <2> HIDE DEF E
  <2> QED BY <1>1, <2>1, Least
<1>3. m \in 0..n /\ v[n + 1 - m] \notin Nat OBVIOUS
<1>4. v[n + 1] = 0
  <2>1. n + 1 \in 1..n + 1 /\ n + 1 > n OBVIOUS
  <2> QED BY <2>1
<1>5. m # 0
  <2>1. n + 1 - 0 = n + 1 OBVIOUS
  <2> QED BY <1>3, <1>4, <2>1
<1> DEFINE k == n + 1 - m
<1>6. k \in 1..n /\ k \in 1..n + 1 /\ ~(k > n) /\ n + 1 - (m - 1) = k + 1 /\ m - 1 \in 0..n
  BY <1>3, <1>5
<1>7. v[k + 1] \in Nat
  <2>1. m - 1 \notin E
    <3>1. ~(m <= m - 1) BY <1>3
    <3> HIDE DEF E
    <3> QED BY <1>2, <3>1
  <2> QED BY <1>6, <2>1
<1> HIDE DEF k
<1>8. v[k] = c[k] + w * v[k + 1] BY <1>6
<1>9. c[k] \in Nat /\ \A x, y \in Nat : x * y \in Nat /\ x + y \in Nat BY <1>6
<1>10. v[k] \in Nat BY <1>7, <1>8, <1>9
<1> QED BY <1>3, <1>10 DEF k

\* The number in a varint.
LEMMA VarintNat ==
  ASSUME NEW b \in Seq(Byte), NEW cap \in Nat
  PROVE  VarintValue(b, cap) \in Nat
<1> DEFINE n == VarintLen(b, cap)
           c == [i \in 1..n |-> b[i] % 128]
           F(f) == [i \in 1..n + 1 |-> IF i > n THEN 0 ELSE (b[i] % 128) + 128 * f[i + 1]]
           v == CHOOSE f : f = F(f)
<1>0. VarintValue(b, cap) = v[1] BY DEF VarintValue
<1>1. n \in Nat /\ n <= Len(b) /\ Len(b) \in Nat
  <2> DEFINE ends == {i \in DOMAIN b : i <= cap /\ b[i] < 128}
             P(i) == \A j \in ends : i <= j
  <2>0. Len(b) \in Nat /\ DOMAIN b = 1..Len(b) BY LenProperties
  <2>1. CASE ends = {}
    <3>1. n = 0 BY <2>1 DEF VarintLen
    <3> HIDE DEF n
    <3> QED BY <2>0, <3>1
  <2>2. CASE ends # {}
    <3>1. ends \in SUBSET Nat BY <2>0
    <3>2. \E m \in ends : P(m)
      <4> HIDE DEF ends
      <4> QED BY <2>2, <3>1, Least
    <3>3. n = CHOOSE i \in ends : P(i) BY <2>2 DEF VarintLen
    <3>4. n \in ends BY <3>2, <3>3
    <3>5. \A i \in ends : i \in Nat /\ i <= Len(b) BY <2>0
    <3> HIDE DEF n, ends
    <3> QED BY <2>0, <3>4, <3>5
  <2> QED BY <2>1, <2>2
<1> HIDE DEF n
<1>2. \A i \in 1..n : b[i] % 128 \in Nat
  <2>1. \A i \in 1..n : b[i] \in Byte BY <1>1, ElementOfSeq
  <2>2. \A x \in Nat : x % 128 \in Nat OBVIOUS
  <2> QED BY <2>1, <2>2, ByteRange
<1>3. c \in [1..n -> Nat] /\ \A i \in 1..n : c[i] = b[i] % 128 BY <1>2
<1> HIDE DEF c
<1>4. \E f \in [1..n + 1 -> Nat] : f[n + 1] = 0 /\ \A i \in 1..n : f[i] = c[i] + 128 * f[i + 1]
  <2> HIDE DEF F, v
  <2>1. 128 \in Nat OBVIOUS
  <2> QED BY <1>1, <1>3, <2>1, AddedUp
<1>5. \E f : f = F(f)
  <2>1. PICK f \in [1..n + 1 -> Nat] :
          f[n + 1] = 0 /\ \A i \in 1..n : f[i] = c[i] + 128 * f[i + 1]
    BY <1>4
  <2>2. ASSUME NEW i \in 1..n + 1
        PROVE  f[i] = IF i > n THEN 0 ELSE (b[i] % 128) + 128 * f[i + 1]
    <3>1. i \in 1..n \/ (i = n + 1 /\ i > n) BY <1>1
    <3> QED BY <1>1, <1>3, <2>1, <3>1
  <2>3. f = F(f) BY <2>2
  <2> QED BY <2>3
<1>6. v = F(v) BY <1>5
<1> HIDE DEF v
<1>7. \A i \in 1..n + 1 : v[i] = IF i > n THEN 0 ELSE c[i] + 128 * v[i + 1]
  <2>1. ASSUME NEW i \in 1..n + 1 PROVE v[i] = IF i > n THEN 0 ELSE c[i] + 128 * v[i + 1]
    <3>1. v[i] = IF i > n THEN 0 ELSE (b[i] % 128) + 128 * v[i + 1] BY <1>6
    <3>2. i \in 1..n \/ i > n BY <1>1
    <3> QED BY <1>3, <3>1, <3>2
  <2> QED BY <2>1
<1>8. v[1] \in Nat
  <2>1. PICK w \in Nat : w = 128 OBVIOUS
  <2>2. \A i \in 1..n + 1 : v[i] = IF i > n THEN 0 ELSE c[i] + w * v[i + 1] BY <1>7, <2>1
  <2> HIDE DEF F
  <2>3. n \in Nat /\ c \in [1..n -> Nat] BY <1>1, <1>3
  <2> QED BY <2>2, <2>3, SumNat
<1> QED BY <1>0, <1>8

\* The number that the digits of a BigInt are.
LEMMA BigIntInt ==
  ASSUME NEW u \in Nat, NEW s \in Seq(Byte)
  PROVE  BigInt(u, s) \in Int
<1> DEFINE n == Len(s)
           c == [i \in 1..n |-> s[i]]
           F(f) == [i \in 1..n + 1 |-> IF i > n THEN 0 ELSE s[i] + 256 * f[i + 1]]
           v == CHOOSE f : f = F(f)
<1>0. BigInt(u, s) = IF u % 2 = 1 THEN -v[1] ELSE v[1] BY DEF BigInt
<1>1. n \in Nat BY LenProperties
<1>2. \A i \in 1..n : s[i] \in Nat BY ElementOfSeq, ByteRange
<1> HIDE DEF n
<1>3. c \in [1..n -> Nat] /\ \A i \in 1..n : c[i] = s[i] BY <1>2
<1> HIDE DEF c
<1>4. \E f \in [1..n + 1 -> Nat] : f[n + 1] = 0 /\ \A i \in 1..n : f[i] = c[i] + 256 * f[i + 1]
  <2> HIDE DEF F, v
  <2>1. 256 \in Nat OBVIOUS
  <2> QED BY <1>1, <1>3, <2>1, AddedUp
<1>5. \E f : f = F(f)
  <2>1. PICK f \in [1..n + 1 -> Nat] :
          f[n + 1] = 0 /\ \A i \in 1..n : f[i] = c[i] + 256 * f[i + 1]
    BY <1>4
  <2>2. ASSUME NEW i \in 1..n + 1
        PROVE  f[i] = IF i > n THEN 0 ELSE s[i] + 256 * f[i + 1]
    <3>1. i \in 1..n \/ (i = n + 1 /\ i > n) BY <1>1
    <3> QED BY <1>1, <1>3, <2>1, <3>1
  <2>3. f = F(f) BY <2>2
  <2> QED BY <2>3
<1>6. v = F(v) BY <1>5
<1> HIDE DEF v
<1>7. \A i \in 1..n + 1 : v[i] = IF i > n THEN 0 ELSE c[i] + 256 * v[i + 1]
  <2>1. ASSUME NEW i \in 1..n + 1 PROVE v[i] = IF i > n THEN 0 ELSE c[i] + 256 * v[i + 1]
    <3>1. v[i] = IF i > n THEN 0 ELSE s[i] + 256 * v[i + 1] BY <1>6
    <3>2. i \in 1..n \/ i > n BY <1>1
    <3> QED BY <1>3, <3>1, <3>2
  <2> QED BY <2>1
<1>8. v[1] \in Nat
  <2>1. PICK w \in Nat : w = 256 OBVIOUS
  <2>2. \A i \in 1..n + 1 : v[i] = IF i > n THEN 0 ELSE c[i] + w * v[i + 1] BY <1>7, <2>1
  <2> HIDE DEF F
  <2>3. n \in Nat /\ c \in [1..n -> Nat] BY <1>1, <1>3
  <2> QED BY <2>2, <2>3, SumNat
<1>9. -v[1] \in Int /\ v[1] \in Int BY <1>8
<1> QED BY <1>0, <1>9

\* A number in zigzag is an integer.
LEMMA ZigZagInt == \A u \in Nat : ZigZag(u) \in Int
BY DEF ZigZag

\* Two bytes for every character.
LEMMA UnitsNat ==
  ASSUME NEW s \in Seq(Byte)
  PROVE  Units(s) \in Seq(Nat)
<1> DEFINE n == Len(s) \div 2
<1>1. Len(s) \in Nat BY LenProperties
<1>2. n \in Nat /\ 2 * n <= Len(s) BY <1>1
<1>3. \A i \in 1..Len(s) : s[i] \in Nat BY ElementOfSeq, ByteRange
<1>4. Units(s) = [i \in 1..n |-> s[2 * i - 1] + 256 * s[2 * i]] BY DEF Units
<1> HIDE DEF n
<1>5. ASSUME NEW i \in 1..n PROVE s[2 * i - 1] + 256 * s[2 * i] \in Nat
  <2>1. 2 * i - 1 \in 1..Len(s) /\ 2 * i \in 1..Len(s) BY <1>1, <1>2
  <2> QED BY <1>3, <2>1
<1> QED BY <1>2, <1>4, <1>5, IsASeq

(***************************************************************************)
(* What the reader has, by type                                            *)
(***************************************************************************)
Members(kind) == IF kind \in {"object", "map"} THEN PythonValue \X PythonValue ELSE PythonValue
Cells == UNION {[kind : {kind}, items : Seq(Members(kind))] : kind \in ContainerKinds}
Frames == [kind : ContainerKinds \cup {"string", "regexp", "error"}, id : Nat,
           key : PythonValue \cup {NoValue}, left : Int]
Typed == TypeOK /\ heap \in Seq(Cells) /\ stack \in Seq(Frames)

\* The forms of Python values.
LEMMA PythonValues ==
  /\ None \in PythonValue /\ <<"bool", 0>> \in PythonValue /\ <<"bool", 1>> \in PythonValue
  /\ <<"error">> \in PythonValue
  /\ \A i \in Int : <<"int", i>> \in PythonValue
  /\ \A s \in Seq(Nat) : <<"str", s>> \in PythonValue
  /\ \A s \in Seq(Byte) : /\ <<"date", s>> \in PythonValue /\ <<"bytes", s>> \in PythonValue
                          /\ <<"float", s>> \in PythonValue /\ <<"host", s>> \in PythonValue
  /\ \A s \in Seq(Nat), n \in Nat : <<"regexp", s, n>> \in PythonValue
  /\ \A n \in Nat : <<"obj", n>> \in PythonValue
BY DEF PythonValue

\* There is no value that is none, and strings are sequences of numbers.
LEMMA PythonParts ==
  /\ NoValue \notin PythonValue
  /\ \A v \in PythonValue : v[1] = "str" => v[2] \in Seq(Nat)
<1>1. NoValue \notin PythonValue BY DEF PythonValue, NoValue, None
<1>2. ASSUME NEW v \in PythonValue, v[1] = "str" PROVE v[2] \in Seq(Nat)
  <2>1. v \in {"str"} \X Seq(Nat)
    BY <1>2 DEF PythonValue, None
  <2> QED BY <2>1
<1> QED BY <1>1, <1>2

\* A byte string is a sequence of numbers.
LEMMA ByteString == Seq(Byte) \subseteq Seq(Nat)
<1>1. SUFFICES ASSUME NEW s \in Seq(Byte) PROVE s \in Seq(Nat)
  OBVIOUS
<1>2. \A i \in 1..Len(s) : s[i] \in Nat BY ElementOfSeq, ByteRange
<1>3. Len(s) \in Nat /\ s = [i \in 1..Len(s) |-> s[i]] BY LenProperties
<1> QED BY <1>2, <1>3, IsASeq

\* A part of the bytes.
LEMMA PartOf ==
  ASSUME NEW b \in Seq(Byte), NEW m \in Nat, NEW n \in Nat, n <= Len(b)
  PROVE  SubSeq(b, m + 1, n) \in Seq(Byte)
<1>1. Len(b) \in Nat BY LenProperties
<1>2. \A i \in m + 1..n : b[i] \in Byte
  <2>1. \A i \in m + 1..n : i \in 1..Len(b) BY <1>1
  <2> QED BY <2>1, ElementOfSeq
<1>3. m + 1 \in Int /\ n \in Int OBVIOUS
<1> QED BY <1>2, <1>3, SubSeqProperties

\* The fields of a container, and of one with other members.
LEMMA CellIs ==
  /\ \A c \in Cells : c.kind \in ContainerKinds /\ c.items \in Seq(Members(c.kind))
  /\ \A c \in Cells : \A items \in Seq(Members(c.kind)) :
       [c EXCEPT !.items = items] \in Cells /\ [c EXCEPT !.items = items].kind = c.kind
       /\ [c EXCEPT !.items = items].items = items
<1>1. SUFFICES ASSUME NEW c \in Cells
               PROVE  /\ c.kind \in ContainerKinds /\ c.items \in Seq(Members(c.kind))
                      /\ \A items \in Seq(Members(c.kind)) :
                           /\ [c EXCEPT !.items = items] \in Cells
                           /\ [c EXCEPT !.items = items].kind = c.kind
                           /\ [c EXCEPT !.items = items].items = items
  OBVIOUS
<1>2. PICK kind \in ContainerKinds : c \in [kind : {kind}, items : Seq(Members(kind))]
  BY DEF Cells
<1>3. c.kind = kind /\ c.items \in Seq(Members(kind)) BY <1>2
<1>4. ASSUME NEW items \in Seq(Members(kind))
      PROVE  /\ [c EXCEPT !.items = items] \in [kind : {kind}, items : Seq(Members(kind))]
             /\ [c EXCEPT !.items = items].kind = c.kind
             /\ [c EXCEPT !.items = items].items = items
  BY <1>2
<1> QED BY <1>3, <1>4 DEF Cells

\* The frame on top, and its container.
LEMMA TopFrame ==
  ASSUME Typed, stack # <<>>
  PROVE  /\ Top = stack[Len(stack)] /\ Top \in Frames /\ TopKind = Top.kind
         /\ Len(stack) \in 1..Len(stack) /\ Len(stack) \in Nat /\ DOMAIN stack = 1..Len(stack)
         /\ Top.kind \in ContainerKinds =>
              /\ Top.id \in 1..Len(heap) /\ heap[Top.id] \in Cells
              /\ Items \in Seq(Members(Top.kind)) /\ heap[Top.id].kind = Top.kind
<1>1. Top = stack[Len(stack)] BY LastIs DEF Top
<1>2. Len(stack) \in 1..Len(stack) /\ stack[Len(stack)] \in Frames /\ Len(stack) \in Nat
      /\ DOMAIN stack = 1..Len(stack)
  BY NonEmpty DEF Typed
<1>3. TopKind = Top.kind BY DEF TopKind, Top
<1>4. DOMAIN heap = 1..Len(heap) BY LenProperties DEF Typed
<1>5. ASSUME Top.kind \in ContainerKinds
      PROVE  /\ Top.id \in 1..Len(heap) /\ heap[Top.id] \in Cells
             /\ Items \in Seq(Members(Top.kind)) /\ heap[Top.id].kind = Top.kind
  <2>1. Top.id \in 1..Len(heap) /\ heap[Top.id].kind = Top.kind
    BY <1>1, <1>2, <1>4, <1>5 DEF Typed, TypeOK
  <2>2. heap[Top.id] \in Cells BY <2>1, ElementOfSeq DEF Typed
  <2>3. Items \in Seq(Members(Top.kind)) BY <2>1, <2>2, CellIs DEF Items
  <2> QED BY <2>1, <2>2, <2>3
<1> QED BY <1>1, <1>2, <1>3, <1>5

\* The frames below the one on top.
LEMMA FrontFrames ==
  ASSUME NEW w \in Seq(Frames), w # <<>>
  PROVE  /\ Front(w) \in Seq(Frames) /\ Len(Front(w)) = Len(w) - 1
         /\ \A i \in 1..Len(w) - 1 : Front(w)[i] = w[i]
<1>1. Len(w) \in Nat /\ Len(w) >= 1 BY NonEmpty
<1> DEFINE n == Len(w) - 1
           u == SubSeq(w, 1, n)
<1>2. Front(w) = u BY DEF Front
<1>3. n \in Nat /\ \A i \in 1..n : w[i] \in Frames BY <1>1, ElementOfSeq
<1>4. /\ u \in Seq(Frames) /\ Len(u) = IF 1 <= n THEN n - 1 + 1 ELSE 0
      /\ \A i \in 1..n - 1 + 1 : u[i] = w[1 + i - 1]
  <2>1. 1 \in Int /\ n \in Int BY <1>3
  <2> HIDE DEF n
  <2> QED BY <1>3, <2>1, SubSeqProperties
<1> HIDE DEF n, u
<1>5. Len(u) = n /\ \A i \in 1..n : u[i] = w[i] BY <1>3, <1>4
<1> QED BY <1>2, <1>4, <1>5 DEF n

\* An exception keeps the types,
LEMMA RaisesTyped ==
  ASSUME Typed, NEW x, x # "no", Raises(x)
  PROVE  Typed'
BY DEF Typed, TypeOK, Raises, writer

\* and skipping bytes does,
LEMMA SkipsTyped ==
  ASSUME Typed, NEW p \in Nat, p <= Len(bytes), Skips(p)
  PROVE  Typed'
BY DEF Typed, TypeOK, Skips, writer

\* and returning a value does,
LEMMA ReturnsTyped ==
  ASSUME Typed, NEW v \in PythonValue, v[1] = "obj" => v[2] \in DOMAIN heap,
         NEW p \in Nat, p <= Len(bytes), NEW calls,
         calls = stack \/ (stack # <<>> /\ calls = Front(stack)), pc # "raised",
         Returns(v, p, calls)
  PROVE  Typed'
<1>1. /\ pc' = "return" /\ val' = v /\ pos' = p /\ stack' = calls
      /\ bytes' = bytes /\ heap' = heap /\ raised' = raised
  BY DEF Returns
<1>2. v # NoValue BY PythonParts
<1>3. stack' \in Seq(Frames) /\ \A i \in DOMAIN stack' : i \in DOMAIN stack /\ stack'[i] = stack[i]
  <2>0. stack \in Seq(Frames) BY DEF Typed
  <2>1. CASE calls = stack BY <1>1, <2>0, <2>1
  <2>2. CASE stack # <<>> /\ calls = Front(stack)
    <3>1. /\ calls \in Seq(Frames) /\ Len(calls) = Len(stack) - 1
          /\ \A i \in 1..Len(stack) - 1 : calls[i] = stack[i]
      BY <2>0, <2>2, FrontFrames
    <3>2. DOMAIN calls = 1..Len(stack) - 1 /\ DOMAIN stack = 1..Len(stack) /\ Len(stack) \in Nat
      BY <2>0, <3>1, LenProperties
    <3> QED BY <1>1, <3>1, <3>2
  <2> QED BY <2>1, <2>2
<1> QED BY <1>1, <1>2, <1>3 DEF Typed, TypeOK

\* and calling a handler that makes no container does.
LEMMA CallsTyped ==
  ASSUME Typed, NEW f \in Frames, f.kind \notin ContainerKinds, NEW p \in Nat, p <= Len(bytes),
         Calls(f, p), heap' = heap
  PROVE  Typed'
<1>1. /\ stack' = Append(stack, f) /\ pos' = p /\ bytes' = bytes /\ pc' = pc /\ val' = val
      /\ raised' = raised
  BY DEF Calls
<1>2. /\ stack' \in Seq(Frames) /\ Len(stack') = Len(stack) + 1 /\ Len(stack) \in Nat
      /\ \A i \in 1..Len(stack) : stack'[i] = stack[i]
      /\ stack'[Len(stack) + 1] = f
      /\ DOMAIN stack' = 1..Len(stack) + 1 /\ DOMAIN stack = 1..Len(stack)
  BY <1>1, AppendProperties, LenProperties DEF Typed
<1>3. \A i \in DOMAIN stack' : i \in DOMAIN stack \/ i = Len(stack) + 1 BY <1>2
<1> QED BY <1>1, <1>2, <1>3 DEF Typed, TypeOK

\* The container that is filled goes on.
LEMMA ContinuesTyped ==
  ASSUME Typed, stack # <<>>, Top.kind \in ContainerKinds, NEW f \in Frames,
         f.id = Top.id, f.kind = Top.kind,
         NEW items \in Seq(Members(Top.kind)), Continues(f, items),
         pc # "raised"
  PROVE  Typed'
<1>1. /\ pc' = "read" /\ val' = NoValue /\ stack' = [stack EXCEPT ![Len(stack)] = f]
      /\ heap' = [heap EXCEPT ![f.id].items = items]
      /\ bytes' = bytes /\ pos' = pos /\ raised' = raised
  BY DEF Continues
<1>2. /\ Top = stack[Len(stack)] /\ Len(stack) \in 1..Len(stack)
      /\ DOMAIN stack = 1..Len(stack) /\ Len(stack) \in Nat
      /\ Top.id \in 1..Len(heap) /\ heap[Top.id] \in Cells /\ heap[Top.id].kind = Top.kind
  BY TopFrame
<1> DEFINE c == [heap[f.id] EXCEPT !.items = items]
<1>3. c \in Cells /\ c.kind = heap[f.id].kind BY <1>2, CellIs
<1>4. heap' = [heap EXCEPT ![f.id] = c] BY <1>1
<1> HIDE DEF c
<1>5. /\ heap' \in Seq(Cells) /\ Len(heap') = Len(heap)
      /\ \A i \in 1..Len(heap) : heap'[i] = IF i = f.id THEN c ELSE heap[i]
  BY <1>2, <1>3, <1>4, ExceptSeq DEF Typed
<1>6. /\ stack' \in Seq(Frames) /\ Len(stack') = Len(stack)
      /\ \A i \in 1..Len(stack) : stack'[i] = IF i = Len(stack) THEN f ELSE stack[i]
  BY <1>1, <1>2, ExceptSeq DEF Typed
<1>7. DOMAIN heap = 1..Len(heap) /\ DOMAIN heap' = 1..Len(heap) /\ DOMAIN stack' = 1..Len(stack)
  BY <1>5, <1>6, LenProperties DEF Typed
<1>8. \A i \in 1..Len(heap) : heap'[i].kind = heap[i].kind BY <1>3, <1>5
<1>9. \A i \in DOMAIN stack' : stack'[i].kind \in ContainerKinds =>
        stack'[i].id \in DOMAIN heap' /\ heap'[stack'[i].id].kind = stack'[i].kind
  <2>1. SUFFICES ASSUME NEW i \in 1..Len(stack), stack'[i].kind \in ContainerKinds
                 PROVE  stack'[i].id \in 1..Len(heap) /\ heap'[stack'[i].id].kind = stack'[i].kind
    BY <1>7
  <2>2. stack'[i].id = stack[i].id /\ stack'[i].kind = stack[i].kind BY <1>2, <1>6
  <2>3. stack[i].id \in 1..Len(heap) /\ heap[stack[i].id].kind = stack[i].kind
    BY <1>2, <1>7, <2>1, <2>2 DEF Typed, TypeOK
  <2> QED BY <1>8, <2>2, <2>3
<1> QED BY <1>1, <1>5, <1>6, <1>9 DEF Typed, TypeOK

(***************************************************************************)
(* Every step of the reader keeps the types                                *)
(***************************************************************************)
LEMMA VarintAt ==
  ASSUME bytes \in Seq(Byte), NEW p \in Nat, p <= Len(bytes)
  PROVE  /\ VarLen(p) \in Nat /\ VarVal(p) \in Nat
         /\ AfterVar(p) \in Nat /\ p <= AfterVar(p) /\ AfterVar(p) <= Len(bytes)
         /\ AfterVar(p) = p + VarLen(p)
<1>1. VarLen(p) \in Nat /\ p + VarLen(p) <= Len(bytes) BY VarintEnds DEF VarLen
<1>2. p \in 0..Len(bytes) BY LenProperties
<1>3. Drop(bytes, p) \in Seq(Byte) BY <1>2, Dropped
<1>4. VarVal(p) \in Nat
  <2>1. PICK w \in Nat : w = 10 OBVIOUS
  <2> QED BY <1>3, <2>1, VarintNat DEF VarVal
<1> QED BY <1>1, <1>4 DEF AfterVar

\* The next byte is in front of the end.
LEMMA NextByte ==
  ASSUME bytes \in Seq(Byte), pos \in Nat, Next1 # 256
  PROVE  /\ pos < Len(bytes) /\ Len(bytes) \in Nat /\ pos + 1 \in Nat /\ pos + 1 <= Len(bytes)
         /\ Next1 = bytes[pos + 1] /\ Next1 \in Byte /\ ~AtEnd
<1>1. ~AtEnd /\ Next1 = bytes[pos + 1] BY DEF Next1
<1>2. Len(bytes) \in Nat BY LenProperties
<1>3. pos < Len(bytes) BY <1>1, <1>2 DEF AtEnd
<1>4. pos + 1 \in 1..Len(bytes) BY <1>2, <1>3
<1> QED BY <1>1, <1>2, <1>3, <1>4, ElementOfSeq

\* The tags of atoms, by their payload.
LEMMA AtomTags ==
  /\ Bare = {95, 48, 84, 70, 121, 120} /\ OneVarint = {73, 85, 117, 116}
  /\ EightBytes = {78, 110, 68} /\ Strings = {83, 34, 99} /\ BigInts = {90, 122}
  /\ Prefixed = {83, 34, 99, 90, 122, 66, 92}
  /\ Atoms = {95, 48, 84, 70, 121, 120, 73, 85, 117, 116, 78, 110, 68, 83, 34, 99, 90, 122, 66, 92}
BY TagIs DEF Bare, OneVarint, EightBytes, Strings, BigInts, Prefixed, Atoms

Payload(tag, p) == SubSeq(bytes, PayloadAt(tag, p) + 1, PayloadEnd(tag, p))

\* Where a payload begins and ends, by tag.
LEMMA PayloadForms ==
  ASSUME NEW tag, NEW p
  PROVE  /\ tag \in Bare => PayloadAt(tag, p) = p /\ PayloadEnd(tag, p) = p
         /\ tag \in OneVarint => PayloadAt(tag, p) = p /\ PayloadEnd(tag, p) = AfterVar(p)
         /\ tag \in EightBytes => PayloadAt(tag, p) = p /\ PayloadEnd(tag, p) = p + 8
         /\ tag \in BigInts => /\ PayloadAt(tag, p) = AfterVar(p)
                               /\ PayloadEnd(tag, p) = AfterVar(p) + (VarVal(p) \div 2)
         /\ tag \in {83, 34, 99, 66, 92} =>
              PayloadAt(tag, p) = AfterVar(p) /\ PayloadEnd(tag, p) = AfterVar(p) + VarVal(p)
<1>1. CASE tag \in Bare BY <1>1, AtomTags DEF PayloadAt, PayloadEnd
<1>2. CASE tag \in OneVarint BY <1>2, AtomTags DEF PayloadAt, PayloadEnd
<1>3. CASE tag \in EightBytes BY <1>3, AtomTags DEF PayloadAt, PayloadEnd
<1>4. CASE tag \in BigInts BY <1>4, AtomTags DEF PayloadAt, PayloadEnd
<1>5. CASE tag \in {83, 34, 99, 66, 92} BY <1>5, AtomTags DEF PayloadAt, PayloadEnd
<1> QED BY <1>1, <1>2, <1>3, <1>4, <1>5

\* The value of a primitive, by tag.
LEMMA AtomForms ==
  ASSUME NEW tag, NEW p
  PROVE  /\ tag \in {95, 48} => AtomValue(tag, p) = None
         /\ tag \in {84, 121} => AtomValue(tag, p) = <<"bool", 1>>
         /\ tag \in {70, 120} => AtomValue(tag, p) = <<"bool", 0>>
         /\ tag = 73 => AtomValue(tag, p) = <<"int", ZigZag(VarVal(p))>>
         /\ tag = 85 => AtomValue(tag, p) = <<"int", VarVal(p)>>
         /\ tag \in {90, 122} => AtomValue(tag, p) = <<"int", BigInt(VarVal(p), Payload(tag, p))>>
         /\ tag \in {78, 110} => AtomValue(tag, p) = <<"float", Payload(tag, p)>>
         /\ tag = 68 => AtomValue(tag, p) = <<"date", Payload(tag, p)>>
         /\ tag = 99 => AtomValue(tag, p) = <<"str", Units(Payload(tag, p))>>
         /\ tag \in {83, 34} => AtomValue(tag, p) = <<"str", Payload(tag, p)>>
         /\ tag = 66 => AtomValue(tag, p) = <<"bytes", Payload(tag, p)>>
         /\ tag \in {117, 116} => AtomValue(tag, p) = <<"bytes", <<>>>>
         /\ tag = 92 => AtomValue(tag, p) = <<"host", Payload(tag, p)>>
<1> DEFINE a == AtomValue(tag, p)
           q == Payload(tag, p)
<1>0. a = CASE tag \in {95, 48} -> None
            [] tag \in {84, 121} -> <<"bool", 1>>
            [] tag \in {70, 120} -> <<"bool", 0>>
            [] tag = 73 -> <<"int", ZigZag(VarVal(p))>>
            [] tag = 85 -> <<"int", VarVal(p)>>
            [] tag \in {90, 122} -> <<"int", BigInt(VarVal(p), q)>>
            [] tag \in {78, 110} -> <<"float", q>>
            [] tag = 68 -> <<"date", q>>
            [] tag = 99 -> <<"str", Units(q)>>
            [] tag \in {83, 34} -> <<"str", q>>
            [] tag = 66 -> <<"bytes", q>>
            [] tag \in {117, 116} -> <<"bytes", <<>>>>
            [] tag = 92 -> <<"host", q>>
  <2>1. Strings \ {99} = {83, 34} BY AtomTags
  <2> QED BY <2>1, AtomTags, TagIs, Zenon DEF AtomValue, Payload
<1> HIDE DEF a, q
<1>1. tag \in {95, 48} => a = None BY <1>0
<1>2. tag \in {84, 121} => a = <<"bool", 1>> BY <1>0
<1>3. tag \in {70, 120} => a = <<"bool", 0>> BY <1>0
<1>4. tag = 73 => a = <<"int", ZigZag(VarVal(p))>> BY <1>0
<1>5. tag = 85 => a = <<"int", VarVal(p)>> BY <1>0
<1>6. tag \in {90, 122} => a = <<"int", BigInt(VarVal(p), q)>> BY <1>0
<1>7. tag \in {78, 110} => a = <<"float", q>> BY <1>0
<1>8. tag = 68 => a = <<"date", q>> BY <1>0
<1>9. tag = 99 => a = <<"str", Units(q)>> BY <1>0
<1>10. tag \in {83, 34} => a = <<"str", q>> BY <1>0
<1>11. tag = 66 => a = <<"bytes", q>> BY <1>0
<1>12. tag \in {117, 116} => a = <<"bytes", <<>>>> BY <1>0
<1>13. tag = 92 => a = <<"host", q>> BY <1>0
<1> QED BY <1>1, <1>2, <1>3, <1>4, <1>5, <1>6, <1>7, <1>8, <1>9, <1>10, <1>11, <1>12, <1>13 DEF a, q

\* The payload of a primitive that is not cut is in the bytes,
LEMMA PayloadPlace ==
  ASSUME bytes \in Seq(Byte), NEW p \in Nat, p <= Len(bytes), NEW tag \in Atoms,
         ~Truncated(tag, p)
  PROVE  /\ PayloadAt(tag, p) \in Nat /\ PayloadEnd(tag, p) \in Nat
         /\ PayloadEnd(tag, p) <= Len(bytes) /\ Payload(tag, p) \in Seq(Byte)
<1>1. VarVal(p) \in Nat /\ AfterVar(p) \in Nat BY VarintAt
<1>2. VarVal(p) \div 2 \in Nat BY <1>1
<1>3. PayloadAt(tag, p) \in Nat /\ PayloadEnd(tag, p) \in Nat
  <2>1. CASE tag \in Bare BY <2>1, PayloadForms
  <2>2. CASE tag \in OneVarint BY <1>1, <2>2, PayloadForms
  <2>3. CASE tag \in EightBytes BY <2>3, PayloadForms
  <2>4. CASE tag \in BigInts BY <1>1, <1>2, <2>4, PayloadForms
  <2>5. CASE tag \in {83, 34, 99, 66, 92} BY <1>1, <2>5, PayloadForms
  <2> QED BY <2>1, <2>2, <2>3, <2>4, <2>5, AtomTags
<1>4. PayloadEnd(tag, p) <= Len(bytes) BY <1>3, LenProperties DEF Truncated
<1>5. Payload(tag, p) \in Seq(Byte) BY <1>3, <1>4, PartOf DEF Payload
<1> QED BY <1>3, <1>4, <1>5

\* and its value is one of Python, and no container.
LEMMA AtomTyped ==
  ASSUME bytes \in Seq(Byte), NEW p \in Nat, p <= Len(bytes), NEW tag \in Atoms,
         ~Truncated(tag, p)
  PROVE  AtomValue(tag, p) \in PythonValue /\ AtomValue(tag, p)[1] # "obj"
<1> DEFINE a == AtomValue(tag, p)
           q == Payload(tag, p)
<1>1. q \in Seq(Byte) BY PayloadPlace
<1>2. VarVal(p) \in Nat BY VarintAt
<1>3. q \in Seq(Nat) /\ Units(q) \in Seq(Nat) BY <1>1, ByteString, UnitsNat
<1>4. BigInt(VarVal(p), q) \in Int /\ ZigZag(VarVal(p)) \in Int /\ VarVal(p) \in Int
  BY <1>1, <1>2, BigIntInt, ZigZagInt
<1>5. <<>> \in Seq(Byte) OBVIOUS
<1> HIDE DEF q
<1>6. CASE tag \in {95, 48}
  <2>1. a = None BY <1>6, AtomForms
  <2> QED BY <2>1, PythonValues DEF None
<1>7. CASE tag \in {84, 121, 70, 120}
  <2>1. a = <<"bool", 1>> \/ a = <<"bool", 0>> BY <1>7, AtomForms
  <2> QED BY <2>1, PythonValues
<1>8. CASE tag \in {73, 85, 90, 122}
  <2>1. \E i \in Int : a = <<"int", i>> BY <1>4, <1>8, AtomForms DEF q
  <2> QED BY <2>1, PythonValues
<1>9. CASE tag \in {99, 83, 34}
  <2>1. \E s \in Seq(Nat) : a = <<"str", s>> BY <1>3, <1>9, AtomForms DEF q
  <2> QED BY <2>1, PythonValues
<1>10. CASE tag \in {78, 110, 68, 66, 92}
  <2>1. a = <<"float", q>> \/ a = <<"date", q>> \/ a = <<"bytes", q>> \/ a = <<"host", q>>
    BY <1>10, AtomForms DEF q
  <2>2. /\ <<"float", q>> \in PythonValue /\ <<"date", q>> \in PythonValue
        /\ <<"bytes", q>> \in PythonValue /\ <<"host", q>> \in PythonValue
    BY <1>1, PythonValues
  <2> QED BY <2>1, <2>2
<1>11. CASE tag \in {117, 116}
  <2>1. a = <<"bytes", <<>>>> BY <1>11, AtomForms
  <2>2. <<"bytes", <<>>>> \in PythonValue BY <1>5, PythonValues
  <2> QED BY <2>1, <2>2
<1> QED BY <1>6, <1>7, <1>8, <1>9, <1>10, <1>11, AtomTags

\* What the types say of the variables.
LEMMA TypedIs ==
  ASSUME Typed
  PROVE  /\ bytes \in Seq(Byte) /\ pos \in Nat /\ pos <= Len(bytes) /\ Len(bytes) \in Nat
         /\ heap \in Seq(Cells) /\ stack \in Seq(Frames) /\ Len(heap) \in Nat
         /\ DOMAIN heap = 1..Len(heap)
         /\ val \in PythonValue \cup {NoValue}
         /\ val # NoValue /\ val[1] = "obj" => val[2] \in 1..Len(heap)
         /\ pc = "return" => val # NoValue
BY LenProperties DEF Typed, TypeOK

\* Where there is a kind on top there is a frame.
LEMMA TopKinds ==
  /\ \A kind \in Keyed \cup {"set", "dense", "string", "regexp", "error"} :
       TopKind = kind => stack # <<>>
  /\ Looping => stack # <<>> /\ TopKind \in {"object", "map", "sparse", "set"}
  /\ ElementsDone => stack # <<>> /\ TopKind = "dense"
  /\ Keyed = {"object", "map", "sparse"} /\ Arrays = {"dense", "sparse"}
BY DEF TopKind, Looping, ElementsDone, Keyed, Arrays

\* SkipPadding keeps the types.
LEMMA SkipPaddingTyped ==
  ASSUME Typed, SkipPadding
  PROVE  Typed'
<1> DEFINE p == IF Next1 = Tag.PADDING THEN pos + 1 ELSE AfterVar(pos + 1)
<1>1. Next1 # 256 /\ Skips(p) BY TagIs DEF SkipPadding
<1>2. bytes \in Seq(Byte) /\ pos \in Nat BY TypedIs
<1>3. pos + 1 \in Nat /\ pos + 1 <= Len(bytes) BY <1>1, <1>2, NextByte
<1>4. p \in Nat /\ p <= Len(bytes) BY <1>2, <1>3, VarintAt
<1> HIDE DEF p
<1> QED BY <1>1, <1>4, SkipsTyped

\* ReadAtom keeps the types.
LEMMA ReadAtomTyped ==
  ASSUME Typed, ReadAtom
  PROVE  Typed'
<1> DEFINE to == PayloadEnd(Next1, pos + 1)
           a == AtomValue(Next1, pos + 1)
<1>1. /\ pc = "read" /\ Next1 \in Atoms /\ ~Truncated(Next1, pos + 1)
      /\ Raises("ValueError") \/ Returns(a, to, stack)
  BY DEF ReadAtom, ReadingTag
<1>2. Next1 # 256 BY <1>1, AtomTags
<1>3. bytes \in Seq(Byte) /\ pos \in Nat BY TypedIs
<1>4. pos + 1 \in Nat /\ pos + 1 <= Len(bytes) BY <1>2, <1>3, NextByte
<1>5. to \in Nat /\ to <= Len(bytes) BY <1>1, <1>3, <1>4, PayloadPlace
<1>6. a \in PythonValue /\ a[1] # "obj" BY <1>1, <1>3, <1>4, AtomTyped
<1> HIDE DEF to, a
<1>7. CASE Raises("ValueError") BY <1>7, RaisesTyped
<1>8. CASE Returns(a, to, stack) BY <1>1, <1>5, <1>6, <1>8, ReturnsTyped
<1> QED BY <1>1, <1>7, <1>8

\* BeginWrapped keeps the types.
LEMMA BeginWrappedTyped ==
  ASSUME Typed, BeginWrapped
  PROVE  Typed'
<1>1. /\ Next1 \in {115, 82, 114} /\ heap' = heap
      /\ \E k \in {"string", "regexp", "error"} : Calls(Frame(k, 0, 0), pos + 1)
  <2>1. Next1 \in {115, 82, 114} /\ heap' = heap BY TagIs DEF BeginWrapped
  <2>2. CASE Next1 = 115 BY <2>2, TagIs DEF BeginWrapped
  <2>3. CASE Next1 = 82 BY <2>3, TagIs DEF BeginWrapped
  <2>4. CASE Next1 = 114 BY <2>4, TagIs DEF BeginWrapped
  <2> QED BY <2>1, <2>2, <2>3, <2>4
<1>2. bytes \in Seq(Byte) /\ pos \in Nat BY TypedIs
<1>3. pos + 1 \in Nat /\ pos + 1 <= Len(bytes) BY <1>1, <1>2, NextByte
<1>4. PICK k \in {"string", "regexp", "error"} : Calls(Frame(k, 0, 0), pos + 1) BY <1>1
<1> DEFINE f == Frame(k, 0, 0)
<1>5. f \in Frames /\ f.kind \notin ContainerKinds
  BY KindsApart DEF Frame, Frames
<1>6. Calls(f, pos + 1) BY <1>4
<1> HIDE DEF f
<1> QED BY <1>1, <1>3, <1>5, <1>6, CallsTyped

\* A container is made and called.
LEMMA BeginContainerIs ==
  ASSUME Typed, NEW c \in ContainerKinds, BeginContainer(c)
  PROVE  \E len \in Nat, p \in Nat :
           LET cell == [kind |-> c, items |-> [i \in 1..len |-> None]]
               f == Frame(c, Len(heap) + 1, len)
           IN  /\ cell \in Cells /\ cell.kind = c
               /\ f \in Frames /\ f.kind = c /\ f.id = Len(heap) + 1
               /\ heap' = Append(heap, cell) /\ stack' = Append(stack, f)
               /\ pos' = p /\ p <= Len(bytes)
<1> DEFINE len == IF c \in Arrays THEN VarVal(pos + 1) ELSE 0
           p == IF c \in Arrays THEN AfterVar(pos + 1) ELSE pos + 1
           cell == [kind |-> c, items |-> [i \in 1..len |-> None]]
           f == Frame(c, Len(heap) + 1, len)
<1>1. /\ Next1 = BeginTag[c] /\ heap' = Append(heap, cell) /\ Calls(f, p)
  BY DEF BeginContainer
<1>2. Next1 # 256 BY <1>1, BeginEnd
<1>3. bytes \in Seq(Byte) /\ pos \in Nat /\ Len(heap) \in Nat BY TypedIs
<1>4. pos + 1 \in Nat /\ pos + 1 <= Len(bytes) BY <1>2, <1>3, NextByte
<1>5. len \in Nat /\ p \in Nat /\ p <= Len(bytes) BY <1>3, <1>4, VarintAt
<1>6. cell \in Cells /\ cell.kind = c
  <2>1. c \in {"object", "map"} => len = 0 BY BeginEnd DEF Arrays
  <2> DEFINE items == [i \in 1..len |-> None]
  <2> HIDE DEF len
  <2>2. \A i \in 1..len : None \in Members(c) BY <2>1, PythonValues DEF Members
  <2>3. items \in Seq(Members(c)) BY <1>5, <2>2, IsASeq
  <2> HIDE DEF items
  <2>4. [kind |-> c, items |-> items] \in [kind : {c}, items : Seq(Members(c))] BY <2>3
  <2> QED BY <2>4 DEF Cells, items
<1>7. f \in Frames /\ f.kind = c /\ f.id = Len(heap) + 1
  <2>1. len \in Int BY <1>5
  <2> HIDE DEF len
  <2> QED BY <1>3, <2>1 DEF Frame, Frames
<1>8. stack' = Append(stack, f) /\ pos' = p BY <1>1 DEF Calls
<1> HIDE DEF len, p, cell, f
<1> QED BY <1>1, <1>5, <1>6, <1>7, <1>8 DEF cell, f

\* BeginContainer keeps the types.
LEMMA BeginContainerTyped ==
  ASSUME Typed, NEW c \in ContainerKinds, BeginContainer(c)
  PROVE  Typed'
<1>1. PICK len \in Nat, p \in Nat :
           LET cell == [kind |-> c, items |-> [i \in 1..len |-> None]]
               f == Frame(c, Len(heap) + 1, len)
           IN  /\ cell \in Cells /\ cell.kind = c
               /\ f \in Frames /\ f.kind = c /\ f.id = Len(heap) + 1
               /\ heap' = Append(heap, cell) /\ stack' = Append(stack, f)
               /\ pos' = p /\ p <= Len(bytes)
  BY BeginContainerIs
<1> DEFINE cell == [kind |-> c, items |-> [i \in 1..len |-> None]]
           f == Frame(c, Len(heap) + 1, len)
<1>2. /\ cell \in Cells /\ cell.kind = c
      /\ f \in Frames /\ f.kind = c /\ f.id = Len(heap) + 1
      /\ heap' = Append(heap, cell) /\ stack' = Append(stack, f)
      /\ pos' = p /\ p <= Len(bytes)
  BY <1>1
<1>3. bytes' = bytes /\ pc' = pc /\ val' = val /\ raised' = raised
  BY DEF BeginContainer, Calls
<1> HIDE DEF cell, f
<1>4. /\ stack' \in Seq(Frames) /\ Len(stack') = Len(stack) + 1 /\ Len(stack) \in Nat
      /\ \A i \in 1..Len(stack) : stack'[i] = stack[i]
      /\ stack'[Len(stack) + 1] = f
      /\ DOMAIN stack' = 1..Len(stack) + 1 /\ DOMAIN stack = 1..Len(stack)
  BY <1>2, AppendProperties, LenProperties DEF Typed
<1>5. /\ heap' \in Seq(Cells) /\ Len(heap') = Len(heap) + 1 /\ Len(heap) \in Nat
      /\ \A i \in 1..Len(heap) : heap'[i] = heap[i]
      /\ heap'[Len(heap) + 1] = cell
      /\ DOMAIN heap' = 1..Len(heap) + 1 /\ DOMAIN heap = 1..Len(heap)
  BY <1>2, AppendProperties, LenProperties DEF Typed
<1>6. \A i \in DOMAIN stack' : stack'[i].kind \in ContainerKinds =>
        stack'[i].id \in DOMAIN heap' /\ heap'[stack'[i].id].kind = stack'[i].kind
  <2>1. SUFFICES ASSUME NEW i \in DOMAIN stack', stack'[i].kind \in ContainerKinds
                 PROVE  stack'[i].id \in DOMAIN heap' /\ heap'[stack'[i].id].kind = stack'[i].kind
    OBVIOUS
  <2>2. CASE i = Len(stack) + 1 BY <1>2, <1>4, <1>5, <2>2
  <2>3. CASE i # Len(stack) + 1
    <3>1. i \in DOMAIN stack /\ stack'[i] = stack[i] BY <1>4, <2>3
    <3>2. stack[i].id \in DOMAIN heap /\ heap[stack[i].id].kind = stack[i].kind
      BY <2>1, <3>1 DEF Typed, TypeOK
    <3> QED BY <1>5, <3>1, <3>2
  <2> QED BY <2>2, <2>3
<1>7. \A v : v \in DOMAIN heap => v \in DOMAIN heap' BY <1>5
<1> QED BY <1>2, <1>3, <1>4, <1>5, <1>6, <1>7 DEF Typed, TypeOK

\* ReadReference keeps the types.
LEMMA ReadReferenceTyped ==
  ASSUME Typed, ReadReference
  PROVE  Typed'
<1> DEFINE n == VarVal(pos + 1)
           p == AfterVar(pos + 1)
           v == <<"obj", n + 1>>
<1>1. /\ pc = "read" /\ Next1 = 94
      /\ Raises("V8Error") \/ (n < Len(heap) /\ Returns(v, p, stack))
  BY TagIs DEF ReadReference, ReadingTag
<1>2. bytes \in Seq(Byte) /\ pos \in Nat /\ Len(heap) \in Nat /\ DOMAIN heap = 1..Len(heap)
  BY TypedIs
<1>3. pos + 1 \in Nat /\ pos + 1 <= Len(bytes) BY <1>1, <1>2, NextByte
<1>4. n \in Nat /\ p \in Nat /\ p <= Len(bytes) BY <1>2, <1>3, VarintAt
<1>5. v \in PythonValue /\ v[1] = "obj" /\ v[2] = n + 1
  <2>1. n + 1 \in Nat BY <1>4
  <2> HIDE DEF n
  <2> QED BY <2>1, PythonValues
<1>6. CASE Raises("V8Error") BY <1>6, RaisesTyped
<1>7. CASE n < Len(heap) /\ Returns(v, p, stack)
  <2>1. v[2] \in DOMAIN heap BY <1>2, <1>4, <1>5, <1>7
  <2> HIDE DEF n, p, v
  <2> QED BY <1>1, <1>4, <1>5, <1>7, <2>1, ReturnsTyped
<1> QED BY <1>1, <1>6, <1>7

\* EndContainer keeps the types.
LEMMA EndContainerTyped ==
  ASSUME Typed, EndContainer
  PROVE  Typed'
<1> DEFINE after == IF ElementsDone THEN pos ELSE pos + 1
           last  == IF TopKind \in Arrays THEN AfterVar(after) ELSE after
           p == AfterVar(last)
           v == <<"obj", Last(stack).id>>
<1>1. /\ pc = "read" /\ (ElementsDone \/ (Looping /\ ~AtEnd))
      /\ Raises("V8Error") \/ Returns(v, p, Front(stack))
  BY DEF EndContainer
<1>2. stack # <<>> /\ Top.kind \in ContainerKinds
  <2>1. stack # <<>> /\ TopKind \in {"object", "map", "sparse", "set", "dense"} BY <1>1, TopKinds
  <2> QED BY <2>1, TopFrame, KindsApart
<1>3. bytes \in Seq(Byte) /\ pos \in Nat /\ pos <= Len(bytes) /\ Len(bytes) \in Nat
      /\ DOMAIN heap = 1..Len(heap)
  BY TypedIs
<1>4. after \in Nat /\ after <= Len(bytes) BY <1>1, <1>3 DEF AtEnd
<1>5. last \in Nat /\ last <= Len(bytes)
  <2> HIDE DEF after
  <2> QED BY <1>3, <1>4, VarintAt
<1>6. p \in Nat /\ p <= Len(bytes)
  <2> HIDE DEF last
  <2> QED BY <1>3, <1>5, VarintAt
<1>7. v \in PythonValue /\ v[1] = "obj" /\ v[2] \in DOMAIN heap
  <2>1. Top.id \in 1..Len(heap) BY <1>2, TopFrame
  <2>2. Top.id \in Nat /\ v = <<"obj", Top.id>> BY <1>3, <2>1, TypedIs DEF Top
  <2> QED BY <1>3, <2>1, <2>2, PythonValues
<1>8. CASE Raises("V8Error") BY <1>8, RaisesTyped
<1>9. CASE Returns(v, p, Front(stack))
  <2> HIDE DEF p, v
  <2> QED BY <1>1, <1>2, <1>6, <1>7, <1>9, ReturnsTyped
<1> QED BY <1>1, <1>8, <1>9

\* ReadErrorField keeps the types.
LEMMA ReadErrorFieldTyped ==
  ASSUME Typed, ReadErrorField
  PROVE  Typed'
<1> DEFINE u == Tag.UTF8_STRING
<1>1. pc = "read" /\ stack # <<>> BY TopKinds DEF ReadErrorField
<1>2. bytes \in Seq(Byte) /\ pos \in Nat /\ pos <= Len(bytes) BY TypedIs
<1>3. <<"error">> \in PythonValue /\ <<"error">>[1] # "obj" BY PythonValues
<1>4. \/ Returns(<<"error">>, pos, Front(stack))
      \/ ~AtEnd /\ Returns(<<"error">>, pos + 1, Front(stack))
      \/ Raises("V8Error") \/ Raises("ValueError")
      \/ ~AtEnd /\ ~Truncated(u, pos + 1) /\ Skips(PayloadEnd(u, pos + 1))
      \/ ~AtEnd /\ Skips(pos + 1)
  BY DEF ReadErrorField
<1>5. ~AtEnd => pos + 1 \in Nat /\ pos + 1 <= Len(bytes)
  BY <1>2, LenProperties DEF AtEnd
<1>6. CASE Returns(<<"error">>, pos, Front(stack))
  BY <1>1, <1>2, <1>3, <1>6, ReturnsTyped
<1>7. CASE ~AtEnd /\ Returns(<<"error">>, pos + 1, Front(stack))
  BY <1>1, <1>3, <1>5, <1>7, ReturnsTyped
<1>8. CASE Raises("V8Error") \/ Raises("ValueError") BY <1>8, RaisesTyped
<1>9. CASE ~AtEnd /\ ~Truncated(u, pos + 1) /\ Skips(PayloadEnd(u, pos + 1))
  <2>1. u \in Atoms BY TagIs, AtomTags
  <2>2. PayloadEnd(u, pos + 1) \in Nat /\ PayloadEnd(u, pos + 1) <= Len(bytes)
    BY <1>2, <1>5, <1>9, <2>1, PayloadPlace
  <2> QED BY <1>9, <2>2, SkipsTyped
<1>10. CASE ~AtEnd /\ Skips(pos + 1) BY <1>5, <1>10, SkipsTyped
<1> QED BY <1>4, <1>6, <1>7, <1>8, <1>9, <1>10

\* Malformed keeps the types.
LEMMA MalformedTyped ==
  ASSUME Typed, Malformed
  PROVE  Typed'
<1>1. \E x \in {"BlinkError", "V8Error"} : Raises(x) BY DEF Malformed, Refusal
<1>2. PICK x \in {"BlinkError", "V8Error"} : Raises(x) BY <1>1
<1> QED BY <1>2, RaisesTyped

\* What the caller stores a value in.
LEMMA ReturnTop ==
  ASSUME Typed, pc = "return", TopKind \in ContainerKinds
  PROVE  /\ stack # <<>> /\ Top \in Frames /\ TopKind = Top.kind
         /\ Items \in Seq(Members(Top.kind)) /\ Len(Items) \in Nat /\ DOMAIN Items = 1..Len(Items)
         /\ \A i \in 1..Len(Items) : Items[i] \in Members(Top.kind)
         /\ val \in PythonValue /\ Top.key \in PythonValue \cup {NoValue} /\ Top.left \in Int
<1>1. stack # <<>> BY KindsApart, TopKinds DEF Keyed, TopKind, ContainerKinds
<1>2. /\ Top \in Frames /\ TopKind = Top.kind /\ Items \in Seq(Members(Top.kind))
  BY <1>1, TopFrame
<1>3. Len(Items) \in Nat /\ DOMAIN Items = 1..Len(Items) BY <1>2, LenProperties
<1>4. \A i \in 1..Len(Items) : Items[i] \in Members(Top.kind) BY <1>2, ElementOfSeq
<1>5. val \in PythonValue BY TypedIs
<1>6. Top.key \in PythonValue \cup {NoValue} /\ Top.left \in Int BY <1>2 DEF Frames
<1> QED BY <1>1, <1>2, <1>3, <1>4, <1>5, <1>6

\* A frame with another key, and with one element less to read.
LEMMA FrameChanges ==
  ASSUME NEW f \in Frames
  PROVE  /\ \A key \in PythonValue \cup {NoValue} :
              LET h == [f EXCEPT !.key = key]
              IN  /\ h \in Frames /\ h.id = f.id /\ h.kind = f.kind /\ h.left = f.left
                  /\ h.key = key
         /\ LET h == [f EXCEPT !.left = @ - 1]
            IN  /\ h \in Frames /\ h.id = f.id /\ h.kind = f.kind /\ h.left = f.left - 1
                /\ h.key = f.key
BY DEF Frames

\* StoreKey keeps the types.
LEMMA StoreKeyTyped ==
  ASSUME Typed, StoreKey
  PROVE  Typed'
<1> DEFINE f == [Top EXCEPT !.key = val]
<1>1. pc = "return" /\ TopKind \in ContainerKinds /\ Continues(f, Items)
  BY KindsApart DEF StoreKey
<1>2. /\ f \in Frames /\ f.id = Top.id /\ f.kind = Top.kind BY <1>1, ReturnTop, FrameChanges
<1>3. stack # <<>> /\ Top.kind \in ContainerKinds /\ Items \in Seq(Members(Top.kind))
  BY <1>1, ReturnTop
<1> HIDE DEF f
<1> QED BY <1>1, <1>2, <1>3, ContinuesTyped

\* StoreValue keeps the types.
LEMMA StoreValueTyped ==
  ASSUME Typed, StoreValue
  PROVE  Typed'
<1> DEFINE f == [Top EXCEPT !.key = NoValue]
           old == {i \in DOMAIN Items : Same(Items[i][1], Top.key)}
           more == Append(Items, <<Top.key, val>>)
           other == [i \in DOMAIN Items |-> IF i \in old THEN <<Items[i][1], val>> ELSE Items[i]]
           items == IF old = {} THEN more ELSE other
<1>1. /\ pc = "return" /\ TopKind \in {"object", "map"} /\ Top.key # NoValue
      /\ Raises("TypeError") \/ Continues(f, items)
  BY DEF StoreValue
<1>2. TopKind \in ContainerKinds BY <1>1, KindsApart
<1>3. /\ f \in Frames /\ f.id = Top.id /\ f.kind = Top.kind BY <1>2, <1>1, ReturnTop, FrameChanges
<1>4. stack # <<>> /\ Top.kind \in ContainerKinds BY <1>1, <1>2, ReturnTop
<1>5. Members(Top.kind) = PythonValue \X PythonValue
  BY <1>1, <1>2, ReturnTop DEF Members
<1>6. more \in Seq(Members(Top.kind))
  <2>1. <<Top.key, val>> \in PythonValue \X PythonValue BY <1>1, <1>2, ReturnTop
  <2>2. Items \in Seq(Members(Top.kind)) BY <1>1, <1>2, ReturnTop
  <2> QED BY <1>5, <2>1, <2>2, AppendProperties
<1>7. other \in Seq(Members(Top.kind))
  <2>1. Len(Items) \in Nat /\ DOMAIN Items = 1..Len(Items) BY <1>1, <1>2, ReturnTop
  <2>2. val \in PythonValue /\ \A i \in 1..Len(Items) : Items[i] \in PythonValue \X PythonValue
    BY <1>1, <1>2, <1>5, ReturnTop
  <2>3. \A i \in 1..Len(Items) : (IF i \in old THEN <<Items[i][1], val>> ELSE Items[i])
                                   \in Members(Top.kind)
    BY <1>5, <2>2
  <2> HIDE DEF old
  <2>4. [i \in 1..Len(Items) |-> IF i \in old THEN <<Items[i][1], val>> ELSE Items[i]]
          \in Seq(Members(Top.kind))
    BY <2>1, <2>3, IsASeq
  <2> QED BY <2>1, <2>4
<1>8. items \in Seq(Members(Top.kind)) BY <1>6, <1>7
<1> HIDE DEF f, items
<1>9. CASE Raises("TypeError") BY <1>9, RaisesTyped
<1>10. CASE Continues(f, items) BY <1>1, <1>3, <1>4, <1>8, <1>10, ContinuesTyped
<1> QED BY <1>1, <1>9, <1>10

\* StoreSparse keeps the types.
LEMMA StoreSparseTyped ==
  ASSUME Typed, StoreSparse
  PROVE  Typed'
<1> DEFINE f == [Top EXCEPT !.key = NoValue]
           hit(i) == Top.key[1] \in {"int", "bool"} /\ Top.key[2] = i - 1
           items == [i \in DOMAIN Items |-> IF hit(i) THEN val ELSE Items[i]]
<1>1. pc = "return" /\ TopKind = "sparse" /\ Continues(f, items) BY DEF StoreSparse
<1>2. TopKind \in ContainerKinds BY <1>1, KindsApart
<1>3. /\ f \in Frames /\ f.id = Top.id /\ f.kind = Top.kind BY <1>2, <1>1, ReturnTop, FrameChanges
<1>4. stack # <<>> /\ Top.kind \in ContainerKinds BY <1>1, <1>2, ReturnTop
<1>5. Members(Top.kind) = PythonValue BY <1>1, <1>2, ReturnTop DEF Members
<1>6. items \in Seq(Members(Top.kind))
  <2>1. Len(Items) \in Nat /\ DOMAIN Items = 1..Len(Items) BY <1>1, <1>2, ReturnTop
  <2>2. val \in PythonValue /\ \A i \in 1..Len(Items) : Items[i] \in PythonValue
    BY <1>1, <1>2, <1>5, ReturnTop
  <2> HIDE DEF hit
  <2>3. \A i \in 1..Len(Items) : (IF hit(i) THEN val ELSE Items[i]) \in Members(Top.kind)
    BY <1>5, <2>2
  <2>4. [i \in 1..Len(Items) |-> IF hit(i) THEN val ELSE Items[i]] \in Seq(Members(Top.kind))
    BY <2>1, <2>3, IsASeq
  <2> QED BY <2>1, <2>4
<1> HIDE DEF f, items
<1> QED BY <1>1, <1>3, <1>4, <1>6, ContinuesTyped

\* StoreElement keeps the types.
LEMMA StoreElementTyped ==
  ASSUME Typed, StoreElement
  PROVE  Typed'
<1> DEFINE f == [Top EXCEPT !.left = @ - 1]
           at == Len(Items) - Top.left + 1
           items == [Items EXCEPT ![at] = val]
<1>1. pc = "return" /\ TopKind = "dense" /\ Continues(f, items) BY DEF StoreElement
<1>2. TopKind \in ContainerKinds BY <1>1, KindsApart
<1>3. /\ f \in Frames /\ f.id = Top.id /\ f.kind = Top.kind BY <1>2, <1>1, ReturnTop, FrameChanges
<1>4. stack # <<>> /\ Top.kind \in ContainerKinds BY <1>1, <1>2, ReturnTop
<1>5. Members(Top.kind) = PythonValue BY <1>1, <1>2, ReturnTop DEF Members
<1>6. items \in Seq(Members(Top.kind))
  <2>1. Len(Items) \in Nat /\ DOMAIN Items = 1..Len(Items) /\ Items \in Seq(Members(Top.kind))
        /\ val \in PythonValue
    BY <1>1, <1>2, ReturnTop
  <2> HIDE DEF at
  <2>2. CASE at \in 1..Len(Items) BY <1>5, <2>1, <2>2, ExceptSeq
  <2>3. CASE at \notin 1..Len(Items)
    <3>1. items = Items
      <4>1. Items = [i \in DOMAIN Items |-> Items[i]] BY <2>1
      <4> QED BY <2>1, <2>3, <4>1
    <3> QED BY <2>1, <3>1
  <2> QED BY <2>2, <2>3
<1> HIDE DEF f, items
<1> QED BY <1>1, <1>3, <1>4, <1>6, ContinuesTyped

\* AddMember keeps the types.
LEMMA AddMemberTyped ==
  ASSUME Typed, AddMember
  PROVE  Typed'
<1>1. /\ pc = "return" /\ TopKind = "set"
      /\ \/ Raises("TypeError") \/ Continues(Top, Items) \/ Continues(Top, Append(Items, val))
  BY DEF AddMember
<1>2. TopKind \in ContainerKinds BY <1>1, KindsApart
<1>3. stack # <<>> /\ Top.kind \in ContainerKinds /\ Top \in Frames BY <1>1, <1>2, ReturnTop
<1>4. Members(Top.kind) = PythonValue BY <1>1, <1>2, ReturnTop DEF Members
<1>5. Items \in Seq(Members(Top.kind)) /\ val \in PythonValue BY <1>1, <1>2, ReturnTop
<1>6. Append(Items, val) \in Seq(Members(Top.kind)) BY <1>4, <1>5, AppendProperties
<1>7. CASE Raises("TypeError") BY <1>7, RaisesTyped
<1>8. CASE Continues(Top, Items) BY <1>1, <1>3, <1>5, <1>8, ContinuesTyped
<1>9. CASE Continues(Top, Append(Items, val)) BY <1>1, <1>3, <1>6, <1>9, ContinuesTyped
<1> QED BY <1>1, <1>7, <1>8, <1>9

\* ReturnWrapped keeps the types.
LEMMA ReturnWrappedTyped ==
  ASSUME Typed, ReturnWrapped
  PROVE  Typed'
<1> DEFINE r == <<"regexp", val[2], VarVal(pos)>>
<1>1. /\ pc = "return" /\ stack # <<>>
      /\ \/ Raises("V8Error")
         \/ val[1] = "str" /\ Returns(val, pos, Front(stack))
         \/ val[1] = "str" /\ Returns(r, AfterVar(pos), Front(stack))
  BY TopKinds DEF ReturnWrapped
<1>2. bytes \in Seq(Byte) /\ pos \in Nat /\ pos <= Len(bytes) /\ val \in PythonValue
  BY <1>1, TypedIs
<1>3. CASE Raises("V8Error") BY <1>3, RaisesTyped
<1>4. CASE val[1] = "str" /\ Returns(val, pos, Front(stack))
  BY <1>1, <1>2, <1>4, ReturnsTyped
<1>5. CASE val[1] = "str" /\ Returns(r, AfterVar(pos), Front(stack))
  <2>1. AfterVar(pos) \in Nat /\ AfterVar(pos) <= Len(bytes) /\ VarVal(pos) \in Nat
    BY <1>2, VarintAt
  <2>2. val[2] \in Seq(Nat) BY <1>2, <1>5, PythonParts
  <2>3. r \in PythonValue /\ r[1] # "obj" BY <2>1, <2>2, PythonValues
  <2> HIDE DEF r
  <2> QED BY <1>1, <1>5, <2>1, <2>3, ReturnsTyped
<1> QED BY <1>1, <1>3, <1>4, <1>5

\* Every step of the reader keeps the types.
LEMMA ReadTyped ==
  ASSUME Typed, Read
  PROVE  Typed'
<1>1. CASE SkipPadding BY <1>1, SkipPaddingTyped
<1>2. CASE ReadAtom BY <1>2, ReadAtomTyped
<1>3. CASE BeginWrapped BY <1>3, BeginWrappedTyped
<1>4. CASE \E c \in ContainerKinds : BeginContainer(c) BY <1>4, BeginContainerTyped
<1>5. CASE ReadReference BY <1>5, ReadReferenceTyped
<1>6. CASE EndContainer BY <1>6, EndContainerTyped
<1>7. CASE ReadErrorField BY <1>7, ReadErrorFieldTyped
<1>8. CASE Malformed BY <1>8, MalformedTyped
<1>9. CASE StoreKey BY <1>9, StoreKeyTyped
<1>10. CASE StoreValue BY <1>10, StoreValueTyped
<1>11. CASE StoreSparse BY <1>11, StoreSparseTyped
<1>12. CASE StoreElement BY <1>12, StoreElementTyped
<1>13. CASE AddMember BY <1>13, AddMemberTyped
<1>14. CASE ReturnWrapped BY <1>14, ReturnWrappedTyped
<1>15. CASE ReturnRoot BY <1>15 DEF ReturnRoot, Typed, TypeOK, writer
<1>16. CASE TooDeep BY <1>16, RaisesTyped DEF TooDeep
<1>17. CASE \E c \in ContainerKinds : TooLong(c) BY <1>17, RaisesTyped DEF TooLong
<1> QED BY <1>1, <1>2, <1>3, <1>4, <1>5, <1>6, <1>7, <1>8, <1>9, <1>10, <1>11, <1>12, <1>13,
           <1>14, <1>15, <1>16, <1>17 DEF Read

(***************************************************************************)
(* What the graph is in Python                                             *)
(***************************************************************************)
LEMMA RankNext ==
  ASSUME NEW n \in Nat
  PROVE  /\ Rank(n) \in Nat
         /\ Rank(n + 1) = IF IsContainer(n + 1) THEN Rank(n) + 1 ELSE Rank(n)
<1> DEFINE R(m) == {j \in 1..m : IsContainer(j)}
<1>1. \A m \in Nat : IsFiniteSet(R(m)) /\ Rank(m) = Cardinality(R(m)) /\ Rank(m) \in Nat
  <2>1. SUFFICES ASSUME NEW m \in Nat
                 PROVE  IsFiniteSet(R(m)) /\ Rank(m) = Cardinality(R(m)) /\ Rank(m) \in Nat
    OBVIOUS
  <2>2. IsFiniteSet(1..m) BY FS_Interval
  <2>3. R(m) \subseteq 1..m OBVIOUS
  <2>4. IsFiniteSet(R(m)) BY <2>2, <2>3, FS_Subset
  <2> QED BY <2>4, FS_CardinalityType DEF Rank
<1>2. CASE IsContainer(n + 1)
  <2>1. R(n + 1) = R(n) \cup {n + 1} /\ n + 1 \notin R(n)
    <3>1. \A j : j \in 1..n + 1 <=> j \in 1..n \/ j = n + 1 OBVIOUS
    <3>2. n + 1 \notin 1..n OBVIOUS
    <3> QED BY <1>2, <3>1, <3>2
  <2>2. n + 1 \in Nat OBVIOUS
  <2> HIDE DEF R
  <2>3. Cardinality(R(n + 1)) = Cardinality(R(n)) + 1 BY <1>1, <2>1, FS_AddElement
  <2> QED BY <1>1, <1>2, <2>2, <2>3
<1>3. CASE ~IsContainer(n + 1)
  <2>1. R(n + 1) = R(n)
    <3>1. \A j : j \in 1..n + 1 <=> j \in 1..n \/ j = n + 1 OBVIOUS
    <3> QED BY <1>3, <3>1
  <2>2. n + 1 \in Nat OBVIOUS
  <2> HIDE DEF R
  <2> QED BY <1>1, <1>3, <2>1, <2>2
<1> QED BY <1>1, <1>2, <1>3

\* There is no container before the first object.
LEMMA RankFirst == Rank(0) = 0
<1>1. {j \in 1..0 : IsContainer(j)} = {} OBVIOUS
<1> QED BY <1>1, FS_EmptySet DEF Rank

\* Later objects have no fewer containers before them.
LEMMA RankMonotone ==
  ASSUME NEW m \in Nat, NEW n \in Nat, m <= n
  PROVE  Rank(m) <= Rank(n)
<1> DEFINE R(k) == {j \in 1..k : IsContainer(j)}
<1>1. IsFiniteSet(1..n) BY FS_Interval
<1>2. R(m) \subseteq R(n) /\ R(n) \subseteq 1..n
  <2>1. \A j \in 1..m : j \in 1..n OBVIOUS
  <2> QED BY <2>1
<1>3. IsFiniteSet(R(n)) BY <1>1, <1>2, FS_Subset
<1>4. Cardinality(R(m)) <= Cardinality(R(n)) BY <1>2, <1>3, FS_Subset
<1> QED BY <1>4 DEF Rank

\* No two containers have the same rank.
LEMMA RankApart ==
  ASSUME NEW m \in Nat, NEW n \in Nat, m < n, IsContainer(n)
  PROVE  Rank(m) < Rank(n)
<1>1. PICK k \in Nat : n = k + 1 /\ m <= k
  <2>1. n - 1 \in Nat /\ n = (n - 1) + 1 /\ m <= n - 1 OBVIOUS
  <2> QED BY <2>1
<1>2. Rank(n) = Rank(k) + 1 BY <1>1, RankNext
<1>3. Rank(m) <= Rank(k) BY <1>1, RankMonotone
<1> QED BY <1>2, <1>3, RankNext

\* A container's number is among those there are.
LEMMA RankWithin ==
  ASSUME NEW m \in Nat, NEW n \in Nat, 1 <= m, m <= n, IsContainer(m)
  PROVE  Rank(m) \in 1..Rank(n)
<1>1. 0 < m /\ 0 \in Nat OBVIOUS
<1>2. 0 < Rank(m) BY <1>1, RankApart, RankFirst
<1> QED BY <1>2, RankMonotone, RankNext

\* Where there are containers only, numbers are ranks.
LEMMA RankAll ==
  ASSUME NEW n \in Nat, \A j \in 1..n : IsContainer(j)
  PROVE  Rank(n) = n
<1>1. {j \in 1..n : IsContainer(j)} = 1..n OBVIOUS
<1>2. Cardinality(1..n) = n
  <2>1. Cardinality(1..n) = IF 1 <= n THEN n - 1 + 1 ELSE 0 BY FS_Interval
  <2> QED BY <2>1
<1> QED BY <1>1, <1>2 DEF Rank

(***************************************************************************)
(* The value is written: b are its bytes and T their story, and the bytes  *)
(* that survive are the first of b.                                        *)
(***************************************************************************)
Final(b) == Moment(Len(b), graph, open, root)
Survives(b) ==
  /\ b \in Seq(Byte) /\ bytes \in Seq(Byte)
  /\ Len(bytes) <= Len(b) /\ \A i \in 1..Len(bytes) : bytes[i] = b[i]
  /\ cut = (Len(bytes) < Len(b))
Written(b, T) ==
  /\ Survives(b) /\ padded \in BOOLEAN
  /\ Tells(b, T, referred, padded, Final(b)) /\ Reaches(T)
  /\ open = <<>> /\ root # NoValue

\* before the reader reads
Fresh == pos = 0 /\ stack = <<>> /\ heap = <<>> /\ val = NoValue /\ raised = "no"

\* What is stored is the first bytes of what has a story,
LEMMA DeliverWrites ==
  ASSUME NEW T, Writing(T), NEW n \in 0..Len(bytes), Deliver(n)
  PROVE  \E b : Written(b, T)'
<1>1. /\ pc = "write" /\ root # NoValue /\ open = <<>> /\ bytes' = SubSeq(bytes, 1, n)
      /\ cut' = (n < Len(bytes)) /\ graph' = graph /\ open' = open /\ root' = root
      /\ referred' = referred /\ padded' = padded /\ deepest' = deepest
  BY DEF Deliver
<1>2. /\ bytes \in Seq(Byte) /\ padded \in BOOLEAN /\ Tells(bytes, T, referred, padded, Now)
      /\ Reaches(T)
  BY DEF Writing
<1>3. PICK b : b = bytes OBVIOUS
<1>4. Len(b) \in Nat /\ n \in Nat /\ n <= Len(b) BY <1>2, <1>3, LenProperties
<1>5. /\ bytes' \in Seq(Byte) /\ Len(bytes') = n
      /\ \A i \in 1..Len(bytes') : bytes'[i] = b[i]
  <2>1. PICK one \in Nat : one = 0 OBVIOUS
  <2>2. SubSeq(b, one + 1, n) \in Seq(Byte) BY <1>2, <1>3, <1>4, <2>1, PartOf
  <2>3. \A i \in 1..n : b[i] \in Byte BY <1>2, <1>3, <1>4, ElementOfSeq
  <2>4. /\ Len(SubSeq(b, 1, n)) = IF 1 <= n THEN n - 1 + 1 ELSE 0
        /\ \A i \in 1..n - 1 + 1 : SubSeq(b, 1, n)[i] = b[1 + i - 1]
    <3>1. 1 \in Int /\ n \in Int BY <1>4
    <3> QED BY <2>3, <3>1, SubSeqProperties
  <2>5. Len(SubSeq(b, 1, n)) = n /\ \A i \in 1..n : SubSeq(b, 1, n)[i] = b[i] BY <1>4, <2>4
  <2> QED BY <1>1, <1>3, <2>1, <2>2, <2>5
<1>6. Final(b)' = Moment(Len(b), graph, open, root) BY <1>1 DEF Final
<1>7. Tells(b, T, referred', padded', Final(b)')
  BY <1>1, <1>2, <1>3, <1>6 DEF Now
<1>8. cut' = (Len(bytes') < Len(b)) /\ Len(bytes') <= Len(b) BY <1>1, <1>3, <1>4, <1>5
<1>9. /\ b \in Seq(Byte) /\ bytes' \in Seq(Byte) /\ padded' \in BOOLEAN
      /\ open' = <<>> /\ root' # NoValue
  BY <1>1, <1>2, <1>3, <1>5
<1>10. Reaches(T)' BY <1>1, <1>2 DEF Reaches
<1> QED BY <1>5, <1>7, <1>8, <1>9, <1>10 DEF Written, Survives

\* The reader writes nothing.
LEMMA ReadKeeps ==
  ASSUME Read
  PROVE  bytes' = bytes /\ writer' = writer /\ pc \in {"read", "return"} /\ pc' # "write"
<1>1. CASE SkipPadding BY <1>1 DEF SkipPadding, Skips, ReadingTag
<1>2. CASE ReadAtom BY <1>2 DEF ReadAtom, Raises, Returns, ReadingTag
<1>3. CASE BeginWrapped BY <1>3 DEF BeginWrapped, Calls, ReadingTag
<1>4. CASE \E c \in ContainerKinds : BeginContainer(c)
  BY <1>4 DEF BeginContainer, Calls, ReadingTag
<1>5. CASE ReadReference BY <1>5 DEF ReadReference, Raises, Returns, ReadingTag
<1>6. CASE EndContainer BY <1>6 DEF EndContainer, Raises, Returns
<1>7. CASE ReadErrorField BY <1>7 DEF ReadErrorField, Raises, Returns, Skips
<1>8. CASE Malformed BY <1>8 DEF Malformed, Raises
<1>9. CASE StoreKey BY <1>9 DEF StoreKey, Continues
<1>10. CASE StoreValue BY <1>10 DEF StoreValue, Continues, Raises
<1>11. CASE StoreSparse BY <1>11 DEF StoreSparse, Continues
<1>12. CASE StoreElement BY <1>12 DEF StoreElement, Continues
<1>13. CASE AddMember BY <1>13 DEF AddMember, Continues, Raises
<1>14. CASE ReturnWrapped BY <1>14 DEF ReturnWrapped, Raises, Returns
<1>15. CASE ReturnRoot BY <1>15 DEF ReturnRoot
<1>16. CASE TooDeep BY <1>16 DEF TooDeep, Raises
<1>17. CASE \E c \in ContainerKinds : TooLong(c) BY <1>17 DEF TooLong, Raises, ReadingTag
<1> QED BY <1>1, <1>2, <1>3, <1>4, <1>5, <1>6, <1>7, <1>8, <1>9, <1>10, <1>11, <1>12, <1>13,
           <1>14, <1>15, <1>16, <1>17 DEF Read

\* and the reader leaves it.
LEMMA WrittenKept ==
  ASSUME NEW b, NEW T, Written(b, T), Read
  PROVE  Written(b, T)'
<1>1. /\ bytes' = bytes /\ graph' = graph /\ open' = open /\ root' = root
      /\ referred' = referred /\ padded' = padded /\ cut' = cut /\ deepest' = deepest
  BY ReadKeeps DEF writer
<1> QED BY <1>1 DEF Written, Survives, Final, Reaches

\* The writer leaves the reader alone.
LEMMA WriteKeeps ==
  ASSUME Write
  PROVE  /\ pos' = pos /\ stack' = stack /\ heap' = heap /\ val' = val /\ raised' = raised
         /\ pc = "write" /\ pc' \in {"write", "read"}
         /\ pc' = "read" => \E n \in 0..Len(bytes) : Deliver(n)
<1>1. CASE \E p \in Primitives : WritePrimitive(p) BY <1>1 DEF WritePrimitive, Emit
<1>2. CASE \E l \in Leaves : WriteLeaf(l) BY <1>2 DEF WriteLeaf, Emit
<1>3. CASE \E c, n : BeginObject(c, n) BY <1>3 DEF BeginObject, Emit
<1>4. CASE \E id \in DOMAIN graph : WriteReference(id) BY <1>4 DEF WriteReference, Emit
<1>5. CASE EndObject BY <1>5 DEF EndObject
<1>6. CASE \E n \in 0..Len(bytes) : Deliver(n) BY <1>6 DEF Deliver
<1> QED BY <1>1, <1>2, <1>3, <1>4, <1>5, <1>6 DEF Write

(***************************************************************************)
(* The types                                                               *)
(***************************************************************************)
TypeInv ==
  /\ Typed
  /\ pc = "write" => Fresh /\ \E T : Writing(T)
  /\ pc # "write" => \E b, T : Written(b, T)

\* The variables of the reader have their types before it reads.
LEMMA FreshTyped ==
  /\ bytes \in Seq(Byte) /\ Fresh /\ pc \in {"write", "read"} => Typed
  /\ bytes' \in Seq(Byte) /\ Fresh' /\ pc' \in {"write", "read"} => Typed'
<1>1. \A b \in Seq(Byte) : Len(b) \in Nat /\ 0 <= Len(b) BY LenProperties
<1>2. <<>> \in Seq(Cells) /\ <<>> \in Seq(Frames) /\ DOMAIN <<>> = {} OBVIOUS
<1>3. bytes \in Seq(Byte) /\ Fresh /\ pc \in {"write", "read"} => Typed
  BY <1>1, <1>2 DEF Fresh, Typed, TypeOK, NoValue
<1>4. bytes' \in Seq(Byte) /\ Fresh' /\ pc' \in {"write", "read"} => Typed'
  BY <1>1, <1>2 DEF Fresh, Typed, TypeOK, NoValue
<1> QED BY <1>3, <1>4

\* TypeInv holds at first,
LEMMA InitKnown == Init => TypeInv
<1> SUFFICES ASSUME Init PROVE TypeInv OBVIOUS
<1>1. bytes = <<>> /\ pc = "write" /\ Fresh BY DEF Init, Fresh
<1>2. bytes \in Seq(Byte) /\ Len(bytes) = 0 BY <1>1
<1>3. Typed BY <1>1, <1>2, FreshTyped
<1>4. Now = Begin BY <1>2 DEF Init, Now, Begin
<1>5. Tells(bytes, <<Begin>>, referred, padded, Now) BY <1>1, <1>4, BeginTells
<1>6. Counts(graph, open, count)
  <2>1. graph = <<>> /\ open = <<>> /\ count = 0 BY DEF Init
  <2>2. Len(<<>>) = 0 OBVIOUS
  <2> QED BY <2>1, <2>2 DEF Counts
<1>7. Writing(<<Begin>>)
  <2>1. padded \in BOOLEAN /\ count = 0 BY DEF Init
  <2>2. count \in Nat /\ count <= MaxValues BY <2>1, Bounds
  <2>3. Reaches(<<Begin>>)
    <3>1. deepest = 0 /\ open = <<>> BY DEF Init
    <3>2. Begin.open = <<>> BY DEF Begin, Moment
    <3>3. Len(<<>>) = 0 OBVIOUS
    <3>4. \A m : Len(<<m>>) = 1 /\ <<m>>[1] = m OBVIOUS
    <3>5. \A k \in 1..1 : k = 1 OBVIOUS
    <3>6. \A k \in 1..Len(<<Begin>>) : <<Begin>>[k] = Begin BY <3>4, <3>5, Zenon
    <3>7. Len(Begin.open) = 0 BY <3>1, <3>2, <3>3, Zenon
    <3>8. deepest \in Nat /\ 0 <= deepest BY <3>1
    <3> QED BY <3>6, <3>7, <3>8 DEF Reaches
  <2> QED BY <1>2, <1>5, <1>6, <2>1, <2>2, <2>3 DEF Writing
<1> QED BY <1>1, <1>3, <1>7 DEF TypeInv

\* and every step keeps it.
LEMMA NextKnown == TypeInv /\ [Next]_vars => TypeInv'
<1> SUFFICES ASSUME TypeInv, [Next]_vars PROVE TypeInv' OBVIOUS
<1>1. CASE Write
  <2>1. pc = "write" /\ Fresh /\ pc' \in {"write", "read"} BY <1>1, WriteKeeps DEF TypeInv
  <2>2. PICK T : Writing(T) BY <2>1 DEF TypeInv
  <2>3. Fresh' BY <1>1, <2>1, WriteKeeps DEF Fresh
  <2>4. CASE pc' = "write"
    <3>1. PICK U : Writing(U)' BY <1>1, <2>2, <2>4, WriteStep
    <3>2. bytes' \in Seq(Byte) BY <3>1 DEF Writing
    <3>3. Typed' BY <2>3, <2>4, <3>2, FreshTyped
    <3> QED BY <2>3, <2>4, <3>1, <3>3 DEF TypeInv
  <2>5. CASE pc' = "read"
    <3>1. PICK n \in 0..Len(bytes) : Deliver(n) BY <1>1, <2>5, WriteKeeps
    <3>2. PICK b : Written(b, T)' BY <2>2, <3>1, DeliverWrites
    <3>3. bytes' \in Seq(Byte) BY <3>2 DEF Written, Survives
    <3>4. Typed' BY <2>3, <2>5, <3>3, FreshTyped
    <3> QED BY <2>5, <3>2, <3>4 DEF TypeInv
  <2> QED BY <2>1, <2>4, <2>5
<1>2. CASE Read
  <2>1. pc # "write" /\ pc' # "write" BY <1>2, ReadKeeps
  <2>2. PICK b, T : Written(b, T) BY <2>1 DEF TypeInv
  <2>3. Written(b, T)' BY <1>2, <2>2, WrittenKept
  <2>4. Typed' BY <1>2, ReadTyped DEF TypeInv
  <2> QED BY <2>1, <2>3, <2>4 DEF TypeInv
<1>3. CASE UNCHANGED vars
  <2>1. /\ bytes' = bytes /\ graph' = graph /\ open' = open /\ root' = root /\ count' = count
        /\ referred' = referred /\ padded' = padded /\ cut' = cut /\ pc' = pc /\ pos' = pos
        /\ stack' = stack /\ heap' = heap /\ val' = val /\ raised' = raised
        /\ deepest' = deepest
    BY <1>3 DEF vars, writer
  <2>2. Typed' BY <2>1 DEF TypeInv, Typed, TypeOK
  <2>3. \A T : Writing(T) => Writing(T)' BY <2>1 DEF Writing, Now, Reaches
  <2>4. \A b, T : Written(b, T) => Written(b, T)' BY <2>1 DEF Written, Survives, Final, Reaches
  <2>5. Fresh => Fresh' BY <2>1 DEF Fresh
  <2> QED BY <2>1, <2>2, <2>3, <2>4, <2>5 DEF TypeInv
<1> QED BY <1>1, <1>2, <1>3 DEF Next

\* Whatever V8 writes and wherever it is cut, the variables keep their types:
\* the frames of _read_object name containers of their kind, a reference names
\* one there is, and no handler reads past the end of the bytes.
THEOREM Typing == Spec => []TypeOK
<1>1. TypeInv => TypeOK BY DEF TypeInv, Typed
<1> QED BY <1>1, InitKnown, NextKnown, PTL DEF Spec

(***************************************************************************)
(* The tag tells what the reader does                                      *)
(***************************************************************************)
LEMMA NextRange ==
  ASSUME bytes \in Seq(Byte), pos \in Nat
  PROVE  /\ Next1 \in Nat /\ (AtEnd <=> Next1 = 256)
<1>1. CASE AtEnd BY <1>1 DEF Next1
<1>2. CASE ~AtEnd
  <2>1. pos + 1 \in 1..Len(bytes) BY <1>2, LenProperties DEF AtEnd
  <2>2. bytes[pos + 1] \in Byte BY <2>1, ElementOfSeq
  <2> QED BY <1>2, <2>2, ByteRange DEF Next1
<1> QED BY <1>1, <1>2

\* A step of the reader that is not stopped by the size of what it reads.
Exhausted == TooDeep \/ \E c \in ContainerKinds : TooLong(c)
Acts == Read /\ ~Exhausted

\* What it may be.
LEMMA ActsIs ==
  ASSUME Acts
  PROVE  \/ SkipPadding \/ ReadAtom \/ BeginWrapped
         \/ \E c \in ContainerKinds : BeginContainer(c)
         \/ ReadReference \/ EndContainer \/ ReadErrorField \/ Malformed
         \/ StoreKey \/ StoreValue \/ StoreSparse \/ StoreElement \/ AddMember
         \/ ReturnWrapped \/ ReturnRoot
BY DEF Acts, Exhausted, Read

\* The step that reads a tag, and the tags it may be at.
LEMMA StepIs ==
  ASSUME Acts, pc = "read", TopKind # "error", ~ElementsDone
  PROVE  \/ SkipPadding /\ ~Looping /\ Next1 \in {0, 63}
         \/ ReadAtom /\ Next1 \in Atoms
         \/ BeginWrapped /\ Next1 \in {115, 82, 114}
         \/ \E c \in ContainerKinds : BeginContainer(c) /\ Next1 = BeginTag[c]
         \/ ReadReference /\ Next1 = 94
         \/ EndContainer /\ Looping /\ ~AtEnd /\ Next1 = EndTag[TopKind]
         \/ Malformed
<1>1. CASE SkipPadding BY <1>1, TagIs DEF SkipPadding
<1>2. CASE ReadAtom BY <1>2 DEF ReadAtom
<1>3. CASE BeginWrapped BY <1>3, TagIs DEF BeginWrapped
<1>4. CASE \E c \in ContainerKinds : BeginContainer(c) BY <1>4 DEF BeginContainer
<1>5. CASE ReadReference BY <1>5, TagIs DEF ReadReference
<1>6. CASE EndContainer BY <1>6 DEF EndContainer
<1>7. CASE Malformed BY <1>7
<1>8. CASE \/ ReadErrorField \/ StoreKey \/ StoreValue \/ StoreSparse \/ StoreElement
           \/ AddMember \/ ReturnWrapped \/ ReturnRoot
  BY <1>8 DEF ReadErrorField, StoreKey, StoreValue, StoreSparse, StoreElement, AddMember,
              ReturnWrapped, ReturnRoot
<1> QED BY <1>1, <1>2, <1>3, <1>4, <1>5, <1>6, <1>7, <1>8, ActsIs

\* What a tag is not.
LEMMA TagsApart ==
  /\ Atoms \cap {0, 63, 115, 82, 114, 94, 111, 97, 65, 59, 39, 123, 64, 58, 44, 256} = {}
  /\ \A c \in ContainerKinds :
       BeginTag[c] \in {111, 97, 65, 59, 39} /\ (BeginTag[c] \in {97, 65} <=> c \in Arrays)
  /\ \A c, d \in ContainerKinds : BeginTag[c] = BeginTag[d] => c = d
  /\ Looping => EndTag[TopKind] \in {123, 64, 58, 44} /\ TopKind \in DOMAIN EndTag
<1>1. Atoms \cap {0, 63, 115, 82, 114, 94, 111, 97, 65, 59, 39, 123, 64, 58, 44, 256} = {}
  BY AtomTags
<1>2. \A c \in ContainerKinds : c \in {"object", "sparse", "dense", "map", "set"} BY BeginEnd
<1>3. \A c \in ContainerKinds :
       BeginTag[c] \in {111, 97, 65, 59, 39} /\ (BeginTag[c] \in {97, 65} <=> c \in Arrays)
  BY <1>2, BeginEnd DEF Arrays
<1>4. \A c, d \in ContainerKinds : BeginTag[c] = BeginTag[d] => c = d BY <1>2, BeginEnd
<1>5. Looping => EndTag[TopKind] \in {123, 64, 58, 44} /\ TopKind \in DOMAIN EndTag
  BY TopKinds, BeginEnd
<1> QED BY <1>1, <1>3, <1>4, <1>5

\* What is malformed, and the exception it raises.
LEMMA MalformedIs ==
  ASSUME Malformed
  PROVE  /\ \/ Next1 \notin Known
            \/ Next1 \in Atoms /\ Truncated(Next1, pos + 1)
            \/ VarLen(pos + 1) = 0 /\ Next1 \in {94, 97, 65, 63}
         /\ Next1 # 92 => Raises("V8Error")
<1>1. {BeginTag[c] : c \in Arrays} = {97, 65} BY BeginEnd DEF Arrays
<1> QED BY <1>1, TagIs DEF Malformed, Refusal

\* The tags that are known.
LEMMA KnownTags ==
  /\ Atoms \subseteq Known /\ {115, 82, 114, 94} \subseteq Known
  /\ \A c \in ContainerKinds : BeginTag[c] \in Known
  /\ Looping => EndTag[TopKind] \in Known
  /\ ~Looping => 0 \in Known
BY TagIs, TagsApart DEF Known

\* At the end of what survived there is no tag.
LEMMA AtNothing ==
  ASSUME Typed, Acts, pc = "read", TopKind # "error", ~ElementsDone, AtEnd
  PROVE  Raises("V8Error")
<1>1. Next1 = 256 BY NextRange, TypedIs
<1>2. Malformed BY <1>1, StepIs, TagsApart
<1> QED BY <1>1, <1>2, MalformedIs

\* At the tag of a primitive it is read, or cut.
LEMMA AtAtom ==
  ASSUME Acts, pc = "read", TopKind # "error", ~ElementsDone, Next1 \in Atoms
  PROVE  ReadAtom \/ (Truncated(Next1, pos + 1) /\ (Next1 # 92 => Raises("V8Error")))
<1>1. ReadAtom \/ Malformed BY StepIs, TagsApart
<1>2. ASSUME Malformed PROVE Truncated(Next1, pos + 1)
  BY <1>2, MalformedIs, KnownTags, TagsApart
<1> QED BY <1>1, <1>2, MalformedIs

\* Padding is skipped, but not in the loop of a container.
LEMMA AtPadding ==
  ASSUME Acts, pc = "read", TopKind # "error", ~ElementsDone, Next1 = 0
  PROVE  IF Looping THEN Raises("V8Error") ELSE SkipPadding
<1>1. (SkipPadding /\ ~Looping) \/ Malformed BY StepIs, TagsApart
<1>2. ASSUME Malformed PROVE Looping /\ Raises("V8Error")
  BY <1>2, MalformedIs, KnownTags, TagsApart
<1> QED BY <1>1, <1>2

\* At the tag of an object that wraps another, its handler is called.
LEMMA AtWrapped ==
  ASSUME Acts, pc = "read", TopKind # "error", ~ElementsDone, Next1 \in {115, 82, 114}
  PROVE  BeginWrapped
<1>1. BeginWrapped \/ Malformed BY StepIs, TagsApart
<1>2. ~Malformed BY MalformedIs, KnownTags, TagsApart
<1> QED BY <1>1, <1>2

\* At the tag of a container it is begun, or its length is cut.
LEMMA AtContainer ==
  ASSUME Acts, pc = "read", TopKind # "error", ~ElementsDone,
         NEW c \in ContainerKinds, Next1 = BeginTag[c]
  PROVE  BeginContainer(c) \/ (c \in Arrays /\ VarLen(pos + 1) = 0 /\ Raises("V8Error"))
<1>1. Next1 \in {111, 97, 65, 59, 39} BY TagsApart
<1>2. BeginContainer(c) \/ Malformed BY <1>1, StepIs, TagsApart
<1>3. ASSUME Malformed PROVE c \in Arrays /\ VarLen(pos + 1) = 0 /\ Raises("V8Error")
  BY <1>1, <1>3, MalformedIs, KnownTags, TagsApart
<1> QED BY <1>2, <1>3

\* At the tag of a reference it is read, or cut.
LEMMA AtReference ==
  ASSUME Acts, pc = "read", TopKind # "error", ~ElementsDone, Next1 = 94
  PROVE  ReadReference \/ (VarLen(pos + 1) = 0 /\ Raises("V8Error"))
<1>1. ReadReference \/ Malformed BY StepIs, TagsApart
<1>2. ASSUME Malformed PROVE VarLen(pos + 1) = 0 /\ Raises("V8Error")
  BY <1>2, MalformedIs, KnownTags, TagsApart
<1> QED BY <1>1, <1>2

\* At the end tag of the loop that reads it, the loop ends.
LEMMA AtEndTag ==
  ASSUME Acts, pc = "read", TopKind # "error", ~ElementsDone, Looping, Next1 = EndTag[TopKind]
  PROVE  EndContainer
<1>1. Next1 \in {123, 64, 58, 44} BY TagsApart
<1>2. EndContainer \/ Malformed BY <1>1, StepIs, TagsApart
<1>3. ~Malformed BY <1>1, MalformedIs, KnownTags, TagsApart
<1> QED BY <1>2, <1>3

\* A dense array that has all its elements ends where it is.
LEMMA AtElementsDone ==
  ASSUME Acts, pc = "read", ElementsDone
  PROVE  EndContainer
<1>1. ~ReadingTag BY DEF ReadingTag
<1>2. ~ReadErrorField BY TopKinds DEF ReadErrorField
<1>3. ~Malformed BY DEF Malformed
<1>4. ~(\/ StoreKey \/ StoreValue \/ StoreSparse \/ StoreElement
        \/ AddMember \/ ReturnWrapped \/ ReturnRoot)
  BY DEF StoreKey, StoreValue, StoreSparse, StoreElement, AddMember, ReturnWrapped, ReturnRoot
<1>5. ~(\/ SkipPadding \/ ReadAtom \/ BeginWrapped \/ ReadReference
        \/ \E c \in ContainerKinds : BeginContainer(c))
  BY <1>1 DEF SkipPadding, ReadAtom, BeginWrapped, ReadReference, BeginContainer
<1> QED BY <1>2, <1>3, <1>4, <1>5, ActsIs

\* What an error is read by.
LEMMA AtError ==
  ASSUME Acts, pc = "read", TopKind = "error"
  PROVE  ReadErrorField
<1>1. ~ReadingTag /\ ~ElementsDone /\ ~Looping BY TopKinds DEF ReadingTag
<1>2. ~Malformed /\ ~EndContainer BY <1>1 DEF Malformed, EndContainer
<1>4. ~(\/ StoreKey \/ StoreValue \/ StoreSparse \/ StoreElement
        \/ AddMember \/ ReturnWrapped \/ ReturnRoot)
  BY DEF StoreKey, StoreValue, StoreSparse, StoreElement, AddMember, ReturnWrapped, ReturnRoot
<1>5. ~(\/ SkipPadding \/ ReadAtom \/ BeginWrapped \/ ReadReference
        \/ \E c \in ContainerKinds : BeginContainer(c))
  BY <1>1 DEF SkipPadding, ReadAtom, BeginWrapped, ReadReference, BeginContainer
<1> QED BY <1>2, <1>4, <1>5, ActsIs

(***************************************************************************)
(* What was written is what is read                                        *)
(***************************************************************************)
LEMMA SurvivesIs ==
  ASSUME NEW b, Survives(b)
  PROVE  /\ b \in Seq(Byte) /\ bytes \in Seq(Byte) /\ Len(b) \in Nat /\ Len(bytes) \in Nat
         /\ Len(bytes) <= Len(b) /\ (cut <=> Len(bytes) < Len(b))
         /\ \A i \in 1..Len(bytes) : bytes[i] = b[i]
BY LenProperties DEF Survives

\* A piece of the bytes.
LEMMA PieceIs ==
  ASSUME NEW b, Survives(b), NEW p \in Nat, NEW e \in Seq(Byte), Lies(b, p, e),
         p + Len(e) <= Len(bytes)
  PROVE  SubSeq(bytes, p + 1, p + Len(e)) = e
<1> DEFINE n == p + Len(e)
           u == SubSeq(bytes, p + 1, n)
<1>1. /\ bytes \in Seq(Byte) /\ Len(bytes) \in Nat
      /\ \A i \in 1..Len(bytes) : bytes[i] = b[i]
  BY SurvivesIs
<1>2. Len(e) \in Nat /\ n \in Nat /\ n = p + Len(e) /\ n <= Len(bytes) BY LenProperties
<1>3. \A i \in 1..Len(e) : bytes[p + i] = e[i]
  <2>1. \A i \in 1..Len(e) : p + i \in 1..Len(bytes) BY <1>1, <1>2
  <2> QED BY <1>1, <2>1 DEF Lies
<1> HIDE DEF n
<1>4. /\ u \in Seq(Byte) /\ Len(u) = (IF p + 1 <= n THEN n - (p + 1) + 1 ELSE 0)
      /\ \A i \in 1..n - (p + 1) + 1 : u[i] = bytes[p + 1 + i - 1]
  <2>1. \A i \in p + 1..n : bytes[i] \in Byte
    <3>1. \A i \in p + 1..n : i \in 1..Len(bytes) BY <1>1, <1>2
    <3> QED BY <1>1, <3>1, ElementOfSeq
  <2>2. p + 1 \in Int /\ n \in Int BY <1>2
  <2> QED BY <2>1, <2>2, SubSeqProperties
<1> HIDE DEF u
<1>5. Len(u) = Len(e) BY <1>2, <1>4
<1>6. \A i \in 1..Len(e) : u[i] = e[i]
  <2>1. ASSUME NEW i \in 1..Len(e) PROVE u[i] = e[i]
    <3>1. i \in 1..n - (p + 1) + 1 /\ p + 1 + i - 1 = p + i BY <1>2
    <3> QED BY <1>3, <1>4, <3>1
  <2> QED BY <2>1
<1>7. u = e BY <1>4, <1>5, <1>6, SeqEqual
<1> QED BY <1>7 DEF u, n

\* A number that was written.
LEMMA NumberRead ==
  ASSUME NEW b, Survives(b), NEW p \in Nat, p <= Len(bytes), NEW n \in TwoByte,
         Lies(b, p, EncodeVarint(n))
  PROVE  IF p + Len(EncodeVarint(n)) <= Len(bytes)
         THEN VarLen(p) > 0 /\ VarVal(p) = n /\ AfterVar(p) = p + Len(EncodeVarint(n))
         ELSE VarLen(p) = 0
<1> DEFINE e == EncodeVarint(n)
<1>1. /\ bytes \in Seq(Byte) /\ Len(bytes) \in Nat
      /\ \A i \in 1..Len(bytes) : bytes[i] = b[i]
  BY SurvivesIs
<1>2. e \in Seq(Byte) /\ Len(e) \in {1, 2} BY EncodedLen
<1>3. ASSUME NEW i \in 1..Len(e), p + i <= Len(bytes) PROVE bytes[p + i] = e[i]
  <2>1. p + i \in 1..Len(bytes) BY <1>1, <1>2, <1>3
  <2> QED BY <1>1, <2>1 DEF Lies
<1>4. IF p + Len(e) <= Len(bytes)
      THEN VarintLen(Drop(bytes, p), 10) = Len(e) /\ VarintValue(Drop(bytes, p), 10) = n
      ELSE VarintLen(Drop(bytes, p), 10) = 0
  BY <1>1, <1>3, NumberAt
<1>5. VarLen(p) = VarintLen(Drop(bytes, p), 10) /\ VarVal(p) = VarintValue(Drop(bytes, p), 10)
      /\ AfterVar(p) = p + VarLen(p)
  BY DEF VarLen, VarVal, AfterVar
<1> HIDE DEF e
<1>6. Len(e) > 0 BY <1>2
<1>7. CASE p + Len(e) <= Len(bytes) BY <1>4, <1>5, <1>6, <1>7 DEF e
<1>8. CASE ~(p + Len(e) <= Len(bytes)) BY <1>4, <1>5, <1>8 DEF e
<1> QED BY <1>7, <1>8 DEF e

\* One byte that was written, and a number below 128.
LEMMA ByteRead ==
  ASSUME NEW b, Survives(b), NEW p \in Nat, p < Len(bytes), NEW e, NEW i \in Nat, i >= 1,
         i <= Len(e), NEW q \in Nat, p + 1 = q + i, Lies(b, q, e), Len(e) \in Nat
  PROVE  bytes[p + 1] = e[i]
<1>1. p + 1 \in 1..Len(bytes) BY SurvivesIs
<1>2. i \in 1..Len(e) OBVIOUS
<1>3. b[q + i] = e[i] BY <1>2 DEF Lies
<1> QED BY <1>1, <1>3, SurvivesIs

\* A number below 128 is its own varint.
LEMMA SmallNumber == \A n \in Nat : n < 128 => n \in TwoByte /\ EncodeVarint(n) = <<n>>
BY DEF TwoByte, EncodeVarint

\* The primitives and leaf objects in Python.
LEMMA PythonIs ==
  /\ Python["undefined"] = None /\ Python["null"] = None /\ Python["true"] = <<"bool", 1>>
  /\ Python["one"] = <<"int", 1>> /\ Python["narrow"] = <<"str", <<97>>>>
  /\ Python["wide"] = <<"str", <<353>>>> /\ Python["date"] = <<"date", Date>>
  /\ Python["wrapper"] = <<"bool", 1>> /\ Python["string"] = <<"str", <<97>>>>
  /\ Python["regexp"] = <<"regexp", <<97>>, 2>> /\ Python["error"] = <<"error">>
  /\ Python["buffer"] = <<"bytes", <<7>>>>
BY DEF Python

\* The characters of the texts written.
LEMMA UnitsIs ==
  /\ Units(<<97, 1>>) = <<353>> /\ ~LoneSurrogate(<<97, 1>>) /\ LoneSurrogate(<<0, 216>>)
<1>1. \A x, y \in Nat : Units(<<x, y>>) = <<x + 256 * y>>
  <2>1. SUFFICES ASSUME NEW x \in Nat, NEW y \in Nat PROVE Units(<<x, y>>) = <<x + 256 * y>>
    OBVIOUS
  <2>2. Len(<<x, y>>) = 2 /\ 2 \div 2 = 1 /\ <<x, y>>[1] = x /\ <<x, y>>[2] = y OBVIOUS
  <2>3. Units(<<x, y>>) = [i \in 1..1 |-> <<x, y>>[2 * i - 1] + 256 * <<x, y>>[2 * i]]
    BY <2>2 DEF Units
  <2>4. \A i \in 1..1 : <<x, y>>[2 * i - 1] + 256 * <<x, y>>[2 * i] = x + 256 * y
    <3>1. \A i \in 1..1 : 2 * i - 1 = 1 /\ 2 * i = 2 OBVIOUS
    <3> QED BY <2>2, <3>1
  <2>5. Units(<<x, y>>) = [i \in 1..1 |-> x + 256 * y] BY <2>3, <2>4
  <2> QED BY <2>5
<1>2. Units(<<97, 1>>) = <<353>>
  <2>1. Units(<<97, 1>>) = <<97 + 256 * 1>> BY <1>1
  <2> QED BY <2>1
<1>3. Units(<<0, 216>>) = <<55296>>
  <2>1. Units(<<0, 216>>) = <<0 + 256 * 216>> BY <1>1
  <2> QED BY <2>1
<1>4. \A x : DOMAIN <<x>> = {1} /\ <<x>>[1] = x OBVIOUS
<1>5. ~LoneSurrogate(<<97, 1>>) BY <1>2, <1>4 DEF LoneSurrogate
<1>6. LoneSurrogate(<<0, 216>>)
  <2>1. 1 \in {1} /\ 55296 \in 55296..56319 /\ 1 + 1 \notin {1} OBVIOUS
  <2> QED BY <1>3, <1>4, <2>1 DEF LoneSurrogate
<1> QED BY <1>2, <1>5, <1>6

\* The primitives and the objects that are one atom.
Plain == {"undefined", "null", "true", "one", "narrow", "wide", "lone", "date", "invalid",
          "wrapper", "buffer"}

\* The first of one byte or two that lie somewhere,
LEMMA LiesFirst ==
  ASSUME NEW b \in Seq(Byte), NEW p \in Nat, NEW e, Lies(b, p, e), Len(e) \in 1..2
  PROVE  b[p + 1] = e[1]
<1>0. PICK k : k = Len(e) OBVIOUS
<1>1. 1 \in 1..k BY <1>0
<1> QED BY <1>0, <1>1 DEF Lies

\* and the second.
LEMMA LiesSecond ==
  ASSUME NEW b \in Seq(Byte), NEW p \in Nat, NEW e, Lies(b, p, e), Len(e) = 2
  PROVE  Lies(b, p + 1, <<e[2]>>)
<1>0. PICK k : k = Len(e) OBVIOUS
<1>1. Len(b) \in Nat BY LenProperties
<1>2. k = 2 /\ 2 \in 1..k /\ p + 1 + 1 = p + 2 BY <1>0
<1>3. b[p + 2] = e[2] /\ p + k <= Len(b) BY <1>0, <1>2 DEF Lies
<1> DEFINE d == <<e[2]>>
<1>4. Len(d) = 1 /\ d[1] = e[2] /\ \A i \in 1..1 : i = 1 OBVIOUS
<1> HIDE DEF d
<1>5. Lies(b, p + 1, d) BY <1>1, <1>2, <1>3, <1>4 DEF Lies
<1> QED BY <1>5 DEF d

\* The tag at the reader's place.
LEMMA TagRead ==
  ASSUME Typed, NEW b, Survives(b), NEW x \in Nat, x < 256, pos < Len(bytes), b[pos + 1] = x
  PROVE  Next1 = x /\ ~AtEnd /\ pos + 1 \in Nat /\ pos + 1 <= Len(bytes)
<1>1. ~AtEnd /\ pos + 1 \in 1..Len(bytes) BY TypedIs DEF AtEnd
<1> QED BY <1>1, TypedIs, SurvivesIs DEF Next1

\* The two dates have eight bytes each, and differ.
LEMMA DatesIs ==
  Date \in Seq(Byte) /\ NaN \in Seq(Byte) /\ Len(Date) = 8 /\ Len(NaN) = 8 /\ Date # NaN
<1>1. Date = <<0, 0, 0, 0, 0, 0, 89, 64>> /\ NaN = <<0, 0, 0, 0, 0, 0, 248, 127>> BY DEF Date, NaN
<1>2. \A x \in {0, 89, 64, 248, 127} : x \in Byte BY DEF Byte
<1>3. Date \in Seq(Byte) /\ NaN \in Seq(Byte) /\ Len(Date) = 8 /\ Len(NaN) = 8 BY <1>1, <1>2
<1>4. Date[7] = 89 /\ NaN[7] = 248 BY <1>1
<1> QED BY <1>3, <1>4

\* Plain values have bytes.
LEMMA PlainLength ==
  ASSUME NEW a \in Plain
  PROVE  Len(Encoding[a]) \in Nat /\ Len(Encoding[a]) >= 1
<1>1. ASSUME a \notin {"date", "invalid"} PROVE Len(Encoding[a]) \in 1..4
  <2>1. CASE a = "undefined" BY <2>1, EncodingIs
  <2>2. CASE a = "null" BY <2>2, EncodingIs
  <2>3. CASE a = "true" BY <2>3, EncodingIs
  <2>4. CASE a = "one" BY <2>4, EncodingIs
  <2>5. CASE a = "narrow" BY <2>5, EncodingIs
  <2>6. CASE a = "wide" BY <2>6, EncodingIs
  <2>7. CASE a = "lone" BY <2>7, EncodingIs
  <2>8. CASE a = "wrapper" BY <2>8, EncodingIs
  <2>9. CASE a = "buffer" BY <2>9, EncodingIs
  <2> QED BY <1>1, <2>1, <2>2, <2>3, <2>4, <2>5, <2>6, <2>7, <2>8, <2>9 DEF Plain
<1>5. CASE a \in {"date", "invalid"}
  <2>1. PICK e \in {Date, NaN} : Encoding[a] = <<68>> \o e BY <1>5, EncodingIs
  <2>2. e \in Seq(Byte) /\ Len(e) = 8 BY DatesIs
  <2>3. <<68>> \in Seq(Byte) /\ Len(<<68>>) = 1 BY OneIs
  <2>4. Len(<<68>> \o e) = Len(<<68>>) + Len(e) BY <2>2, <2>3, ConcatProperties
  <2> QED BY <2>1, <2>2, <2>3, <2>4
<1> QED BY <1>1, <1>5

\* What cannot be converted, by tag.
LEMMA UnconvertibleIs == \A q :
  /\ \A tag \in {95, 48, 84, 121, 73, 34, 66} : ~Unconvertible(tag, q)
  /\ Unconvertible(99, q) <=> Len(q) % 2 = 1 \/ LoneSurrogate(q)
  /\ Unconvertible(68, q) <=> q = NaN
BY TagIs DEF Unconvertible

\* A length, and as many bytes.
LEMMA PrefixedRead ==
  ASSUME Typed, NEW b, Survives(b), NEW tag \in {34, 99, 66}, NEW p \in Nat, p <= Len(bytes),
         NEW e \in Seq(Byte), Len(e) < 128, Lies(b, p, <<Len(e)>>), Lies(b, p + 1, e)
  PROVE  IF p + 1 + Len(e) <= Len(bytes)
         THEN PayloadEnd(tag, p) = p + 1 + Len(e) /\ Payload(tag, p) = e /\ ~Truncated(tag, p)
         ELSE Truncated(tag, p)
<1> DEFINE n == Len(e)
<1>1. n \in Nat /\ n < 128 /\ Len(bytes) \in Nat BY SurvivesIs, LenProperties
<1>2. n \in TwoByte /\ EncodeVarint(n) = <<n>> /\ Len(<<n>>) = 1 BY <1>1, SmallNumber
<1>3. Lies(b, p, EncodeVarint(n)) BY <1>2
<1>4. IF p + 1 <= Len(bytes)
      THEN VarLen(p) > 0 /\ VarVal(p) = n /\ AfterVar(p) = p + 1
      ELSE VarLen(p) = 0
  <2> HIDE DEF n
  <2>1. Len(EncodeVarint(n)) = 1 BY <1>2
  <2>2. IF p + Len(EncodeVarint(n)) <= Len(bytes)
        THEN VarLen(p) > 0 /\ VarVal(p) = n /\ AfterVar(p) = p + Len(EncodeVarint(n))
        ELSE VarLen(p) = 0
    BY <1>2, <1>3, NumberRead
  <2> QED BY <2>1, <2>2
<1>5. PayloadAt(tag, p) = AfterVar(p) /\ PayloadEnd(tag, p) = AfterVar(p) + VarVal(p)
  BY PayloadForms
<1>6. CASE p + 1 + n <= Len(bytes)
  <2>1. PayloadAt(tag, p) = p + 1 /\ PayloadEnd(tag, p) = p + 1 + n BY <1>1, <1>4, <1>5, <1>6
  <2>2. SubSeq(bytes, p + 1 + 1, p + 1 + n) = e
    <3>1. p + 1 \in Nat OBVIOUS
    <3> QED BY <1>6, <3>1, PieceIs
  <2>3. ~Truncated(tag, p)
    <3>1. VarLen(p) > 0 /\ VarLen(p) # 0 BY <1>1, <1>4, <1>6
    <3>2. ~(PayloadEnd(tag, p) > Len(bytes)) BY <1>1, <1>6, <2>1
    <3> QED BY <3>1, <3>2 DEF Truncated
  <2> QED BY <1>6, <2>1, <2>2, <2>3 DEF Payload
<1>7. CASE ~(p + 1 + n <= Len(bytes))
  <2>1. tag \in Prefixed BY AtomTags
  <2>2. CASE p + 1 <= Len(bytes)
    <3>1. PayloadEnd(tag, p) > Len(bytes) BY <1>1, <1>4, <1>5, <1>7, <2>2
    <3> QED BY <1>7, <3>1 DEF Truncated
  <2>3. CASE ~(p + 1 <= Len(bytes)) BY <1>4, <1>7, <2>1, <2>3 DEF Truncated
  <2> QED BY <2>2, <2>3
<1> QED BY <1>6, <1>7

\* The reader at the encoding of the atom a.
AtomRead(a) ==
  /\ Next1 \in Atoms /\ Next1 # 92
  /\ IF pos + Len(Encoding[a]) <= Len(bytes)
     THEN /\ ~Truncated(Next1, pos + 1)
          /\ PayloadEnd(Next1, pos + 1) = pos + Len(Encoding[a])
          /\ IF a \in {"lone", "invalid"} THEN Unconvertible(Next1, Payload(Next1, pos + 1))
             ELSE /\ ~Unconvertible(Next1, Payload(Next1, pos + 1))
                  /\ AtomValue(Next1, pos + 1) = Python[a]
     ELSE Truncated(Next1, pos + 1)

\* A value without a payload is read,
LEMMA BareRead ==
  ASSUME Typed, NEW b, Survives(b), NEW a \in {"undefined", "null", "true", "wrapper"},
         Lies(b, pos, Encoding[a]), pos < Len(bytes)
  PROVE  AtomRead(a)
<1>1. PICK x \in {95, 48, 84, 121} : Encoding[a] = <<x>> /\ (x \in {95, 48} => Python[a] = None)
                                     /\ (x \in {84, 121} => Python[a] = <<"bool", 1>>)
  <2>1. CASE a = "undefined" BY <2>1, EncodingIs, PythonIs
  <2>2. CASE a = "null" BY <2>2, EncodingIs, PythonIs
  <2>3. CASE a = "true" BY <2>3, EncodingIs, PythonIs
  <2>4. CASE a = "wrapper" BY <2>4, EncodingIs, PythonIs
  <2> QED BY <2>1, <2>2, <2>3, <2>4
<1>2. b \in Seq(Byte) /\ pos \in Nat /\ Len(bytes) \in Nat BY SurvivesIs, TypedIs
<1>3. b[pos + 1] = x
  <2>1. Len(<<x>>) = 1 /\ <<x>>[1] = x OBVIOUS
  <2>2. Lies(b, pos, <<x>>) BY <1>1
  <2>3. PICK e : e = <<x>> OBVIOUS
  <2>4. Len(e) \in 1..4 /\ e[1] = x /\ Lies(b, pos, e) BY <2>1, <2>2, <2>3
  <2>5. Len(e) \in 1..2 BY <2>1, <2>3
  <2>6. b[pos + 1] = e[1] BY <1>2, <2>4, <2>5, LiesFirst
  <2> QED BY <2>4, <2>6
<1>4. Next1 = x /\ pos + 1 <= Len(bytes) BY <1>2, <1>3, TagRead
<1>5. x \in Bare /\ x \in Atoms /\ x # 92 BY AtomTags
<1>6. PayloadEnd(x, pos + 1) = pos + 1 BY <1>5, PayloadForms
<1>7. Len(Encoding[a]) = 1 BY <1>1
<1>8. /\ \A q : ~Unconvertible(x, q)
      /\ ~Truncated(x, pos + 1)
  <2>1. x \notin OneVarint \cup Prefixed BY AtomTags
  <2> QED BY <1>2, <1>4, <1>6, <2>1, UnconvertibleIs DEF Truncated
<1>9. AtomValue(x, pos + 1) = Python[a]
  <2>1. CASE x \in {95, 48} BY <1>1, <2>1, AtomForms
  <2>2. CASE x \in {84, 121} BY <1>1, <2>2, AtomForms
  <2> QED BY <2>1, <2>2
<1>10. a \notin {"lone", "invalid"} OBVIOUS
<1> QED BY <1>4, <1>5, <1>6, <1>7, <1>8, <1>9, <1>10 DEF AtomRead

\* a number is,
LEMMA OneRead ==
  ASSUME Typed, NEW b, Survives(b), Lies(b, pos, Encoding["one"]), pos < Len(bytes)
  PROVE  AtomRead("one")
<1>1. Encoding["one"] = <<73, 2>> /\ Len(<<73, 2>>) = 2 BY EncodingIs
<1>2. b \in Seq(Byte) /\ pos \in Nat /\ Len(bytes) \in Nat BY SurvivesIs, TypedIs
<1>3. b[pos + 1] = 73 /\ Lies(b, pos + 1, <<2>>)
  <2>1. PICK e : e = <<73, 2>> OBVIOUS
  <2>2. Len(e) \in 1..2 /\ Len(e) = 2 /\ e[1] = 73 /\ e[2] = 2 BY <2>1
  <2>3. Lies(b, pos, e) BY <1>1, <2>1
  <2>4. b[pos + 1] = e[1] BY <1>2, <2>2, <2>3, LiesFirst
  <2>5. Lies(b, pos + 1, <<e[2]>>) BY <1>2, <2>2, <2>3, LiesSecond
  <2> QED BY <2>2, <2>4, <2>5
<1>4. Next1 = 73 /\ pos + 1 <= Len(bytes) /\ pos + 1 \in Nat BY <1>2, <1>3, TagRead
<1>5. 73 \in OneVarint /\ 73 \in Atoms BY AtomTags
<1>6. PayloadEnd(73, pos + 1) = AfterVar(pos + 1) BY <1>5, PayloadForms
<1>7. PICK n \in Nat : n = 2 OBVIOUS
<1>8. n \in TwoByte /\ EncodeVarint(n) = <<2>> /\ Len(<<2>>) = 1 BY <1>7, SmallNumber
<1>9. IF pos + 1 + 1 <= Len(bytes)
      THEN VarLen(pos + 1) > 0 /\ VarVal(pos + 1) = 2 /\ AfterVar(pos + 1) = pos + 1 + 1
      ELSE VarLen(pos + 1) = 0
  <2>1. IF pos + 1 + Len(EncodeVarint(n)) <= Len(bytes)
        THEN VarLen(pos + 1) > 0 /\ VarVal(pos + 1) = n
             /\ AfterVar(pos + 1) = pos + 1 + Len(EncodeVarint(n))
        ELSE VarLen(pos + 1) = 0
    BY <1>3, <1>4, <1>8, NumberRead
  <2> QED BY <1>7, <1>8, <2>1
<1>10. CASE pos + 2 <= Len(bytes)
  <2>1. ZigZag(2) = 1 BY DEF ZigZag
  <2>2. AtomValue(73, pos + 1) = Python["one"]
    <3>1. AtomValue(73, pos + 1) = <<"int", ZigZag(VarVal(pos + 1))>> BY AtomForms
    <3> QED BY <1>2, <1>9, <1>10, <2>1, <3>1, PythonIs
  <2>3. \A q : ~Unconvertible(73, q) BY UnconvertibleIs
  <2>4. PayloadEnd(73, pos + 1) = pos + 2 BY <1>2, <1>6, <1>9, <1>10
  <2>5. ~Truncated(73, pos + 1)
    <3>1. VarLen(pos + 1) # 0 BY <1>2, <1>9, <1>10
    <3> QED BY <1>2, <1>10, <2>4, <3>1 DEF Truncated
  <2> QED BY <1>1, <1>4, <1>5, <1>10, <2>2, <2>3, <2>4, <2>5 DEF AtomRead
<1>11. CASE ~(pos + 2 <= Len(bytes))
  <2>1. VarLen(pos + 1) = 0 BY <1>2, <1>9, <1>11
  <2>2. Truncated(73, pos + 1) BY <1>5, <2>1 DEF Truncated
  <2> QED BY <1>1, <1>4, <1>5, <1>11, <2>2 DEF AtomRead
<1> QED BY <1>10, <1>11

\* A tag, a length, and as many bytes.
LEMMA LiesText ==
  ASSUME NEW b \in Seq(Byte), NEW p \in Nat, NEW d, NEW f \in Seq(Byte), Lies(b, p, d),
         Len(f) \in 1..2, Len(d) = 2 + Len(f), d[2] = Len(f), f[1] = d[3],
         Len(f) = 2 => f[2] = d[4]
  PROVE  b[p + 1] = d[1] /\ Lies(b, p + 1, <<Len(f)>>) /\ Lies(b, p + 2, f)
<1>1. PICK k, m : k = Len(f) /\ m = Len(d) OBVIOUS
<1>2. /\ Len(b) \in Nat /\ p + m <= Len(b) /\ \A i \in 1..m : b[p + i] = d[i]
      /\ k \in 1..2 /\ m = 2 + k
  BY <1>1, LenProperties DEF Lies
<1>3. 1 \in 1..m /\ 2 \in 1..m /\ 3 \in 1..m /\ (k = 2 => 4 \in 1..m) BY <1>2
<1>4. b[p + 1] = d[1] /\ b[p + 2] = k /\ b[p + 3] = f[1] /\ (k = 2 => b[p + 4] = f[2])
  BY <1>1, <1>2, <1>3
<1>5. Lies(b, p + 1, <<Len(f)>>)
  <2>1. PICK g : g = <<k>> OBVIOUS
  <2>2. Len(g) = 1 /\ g[1] = k /\ p + 1 + 1 = p + 2 /\ \A i \in 1..1 : i = 1 BY <2>1
  <2>3. p + 1 + 1 <= Len(b) BY <1>2
  <2>4. Lies(b, p + 1, g) BY <1>4, <2>2, <2>3 DEF Lies
  <2> QED BY <1>1, <2>1, <2>4
<1>6. Lies(b, p + 2, f)
  <2>1. p + 2 + 1 = p + 3 /\ p + 2 + 2 = p + 4 /\ p + 2 + k <= Len(b) BY <1>2
  <2>2. \A i \in 1..k : i = 1 \/ (i = 2 /\ k = 2) BY <1>2
  <2>3. \A i \in 1..k : b[p + 2 + i] = f[i] BY <1>4, <2>1, <2>2
  <2> QED BY <1>1, <2>1, <2>3 DEF Lies
<1> QED BY <1>4, <1>5, <1>6

\* a string or a buffer is, unless it is no text,
LEMMA StringRead ==
  ASSUME Typed, NEW b, Survives(b), NEW a \in {"narrow", "wide", "lone", "buffer"},
         Lies(b, pos, Encoding[a]), pos < Len(bytes)
  PROVE  AtomRead(a)
<1> DEFINE P(tag, e) ==
      /\ Lies(b, pos + 1, <<Len(e)>>) /\ Lies(b, pos + 2, e) /\ b[pos + 1] = tag
      /\ Len(e) \in Nat /\ Len(e) < 128 /\ Len(Encoding[a]) = 2 + Len(e)
      /\ a = "narrow" => tag = 34 /\ e = <<97>>
      /\ a = "wide" => tag = 99 /\ e = <<97, 1>>
      /\ a = "lone" => tag = 99 /\ e = <<0, 216>>
      /\ a = "buffer" => tag = 66 /\ e = <<7>>
<1>1. PICK tag \in {34, 99, 66}, e \in Seq(Byte) : P(tag, e)
  <2>1. b \in Seq(Byte) /\ pos \in Nat BY SurvivesIs, TypedIs
  <2>2. CASE a = "narrow"
    <3>1. PICK d : d = <<34, 1, 97>> OBVIOUS
    <3>2. PICK f : f = <<97>> OBVIOUS
    <3>3. PICK t \in {34, 99, 66} : t = 34 OBVIOUS
    <3>4. f \in Seq(Byte) /\ Len(f) = 1 BY <3>2, OneIs
    <3>5. Len(d) = 3 /\ d[1] = 34 /\ d[2] = 1 /\ d[3] = 97 BY <3>1
    <3>6. f[1] = 97 BY <3>2
    <3>7. Lies(b, pos, d) /\ Len(Encoding[a]) = Len(d)
      <4>1. Encoding[a] = d BY <2>2, <3>1, EncodingIs
      <4> QED BY <4>1
    <3>8. b[pos + 1] = d[1] /\ Lies(b, pos + 1, <<Len(f)>>) /\ Lies(b, pos + 2, f)
      <4>1. /\ Len(f) \in 1..2 /\ Len(d) = 2 + Len(f) /\ d[2] = Len(f) /\ f[1] = d[3]
            /\ Len(f) = 2 => f[2] = d[4]
        BY <3>4, <3>5, <3>6
      <4>2. Lies(b, pos, d) /\ f \in Seq(Byte) BY <3>4, <3>7
      <4> QED BY <2>1, <4>1, <4>2, LiesText
    <3>9. b[pos + 1] = t /\ Len(f) < 128 /\ Len(Encoding[a]) = 2 + Len(f) /\ Len(f) \in Nat
      BY <3>3, <3>4, <3>5, <3>7, <3>8
    <3>10. P(t, f) BY <2>2, <3>2, <3>3, <3>8, <3>9
    <3> QED BY <3>3, <3>4, <3>10
  <2>3. CASE a = "buffer"
    <3>1. PICK d : d = <<66, 1, 7>> OBVIOUS
    <3>2. PICK f : f = <<7>> OBVIOUS
    <3>3. PICK t \in {34, 99, 66} : t = 66 OBVIOUS
    <3>4. f \in Seq(Byte) /\ Len(f) = 1 BY <3>2, OneIs
    <3>5. Len(d) = 3 /\ d[1] = 66 /\ d[2] = 1 /\ d[3] = 7 BY <3>1
    <3>6. f[1] = 7 BY <3>2
    <3>7. Lies(b, pos, d) /\ Len(Encoding[a]) = Len(d)
      <4>1. Encoding[a] = d BY <2>3, <3>1, EncodingIs
      <4> QED BY <4>1
    <3>8. b[pos + 1] = d[1] /\ Lies(b, pos + 1, <<Len(f)>>) /\ Lies(b, pos + 2, f)
      <4>1. /\ Len(f) \in 1..2 /\ Len(d) = 2 + Len(f) /\ d[2] = Len(f) /\ f[1] = d[3]
            /\ Len(f) = 2 => f[2] = d[4]
        BY <3>4, <3>5, <3>6
      <4>2. Lies(b, pos, d) /\ f \in Seq(Byte) BY <3>4, <3>7
      <4> QED BY <2>1, <4>1, <4>2, LiesText
    <3>9. b[pos + 1] = t /\ Len(f) < 128 /\ Len(Encoding[a]) = 2 + Len(f) /\ Len(f) \in Nat
      BY <3>3, <3>4, <3>5, <3>7, <3>8
    <3>10. P(t, f) BY <2>3, <3>2, <3>3, <3>8, <3>9
    <3> QED BY <3>3, <3>4, <3>10
  <2>4. CASE a = "wide"
    <3>1. PICK d : d = <<99, 2, 97, 1>> OBVIOUS
    <3>2. PICK f : f = <<97, 1>> OBVIOUS
    <3>3. PICK t \in {34, 99, 66} : t = 99 OBVIOUS
    <3>4. f \in Seq(Byte) /\ Len(f) = 2 BY <3>2 DEF Byte
    <3>5. Len(d) = 4 /\ d[1] = 99 /\ d[2] = 2 /\ d[3] = 97 /\ d[4] = 1 BY <3>1
    <3>6. f[1] = 97 /\ f[2] = 1 BY <3>2
    <3>7. Lies(b, pos, d) /\ Len(Encoding[a]) = Len(d)
      <4>1. Encoding[a] = d BY <2>4, <3>1, EncodingIs
      <4> QED BY <4>1
    <3>8. b[pos + 1] = d[1] /\ Lies(b, pos + 1, <<Len(f)>>) /\ Lies(b, pos + 2, f)
      <4>1. /\ Len(f) \in 1..2 /\ Len(d) = 2 + Len(f) /\ d[2] = Len(f) /\ f[1] = d[3]
            /\ Len(f) = 2 => f[2] = d[4]
        BY <3>4, <3>5, <3>6
      <4>2. Lies(b, pos, d) /\ f \in Seq(Byte) BY <3>4, <3>7
      <4> QED BY <2>1, <4>1, <4>2, LiesText
    <3>9. b[pos + 1] = t /\ Len(f) < 128 /\ Len(Encoding[a]) = 2 + Len(f) /\ Len(f) \in Nat
      BY <3>3, <3>4, <3>5, <3>7, <3>8
    <3>10. P(t, f) BY <2>4, <3>2, <3>3, <3>8, <3>9
    <3> QED BY <3>3, <3>4, <3>10
  <2>5. CASE a = "lone"
    <3>1. PICK d : d = <<99, 2, 0, 216>> OBVIOUS
    <3>2. PICK f : f = <<0, 216>> OBVIOUS
    <3>3. PICK t \in {34, 99, 66} : t = 99 OBVIOUS
    <3>4. f \in Seq(Byte) /\ Len(f) = 2 BY <3>2 DEF Byte
    <3>5. Len(d) = 4 /\ d[1] = 99 /\ d[2] = 2 /\ d[3] = 0 /\ d[4] = 216 BY <3>1
    <3>6. f[1] = 0 /\ f[2] = 216 BY <3>2
    <3>7. Lies(b, pos, d) /\ Len(Encoding[a]) = Len(d)
      <4>1. Encoding[a] = d BY <2>5, <3>1, EncodingIs
      <4> QED BY <4>1
    <3>8. b[pos + 1] = d[1] /\ Lies(b, pos + 1, <<Len(f)>>) /\ Lies(b, pos + 2, f)
      <4>1. /\ Len(f) \in 1..2 /\ Len(d) = 2 + Len(f) /\ d[2] = Len(f) /\ f[1] = d[3]
            /\ Len(f) = 2 => f[2] = d[4]
        BY <3>4, <3>5, <3>6
      <4>2. Lies(b, pos, d) /\ f \in Seq(Byte) BY <3>4, <3>7
      <4> QED BY <2>1, <4>1, <4>2, LiesText
    <3>9. b[pos + 1] = t /\ Len(f) < 128 /\ Len(Encoding[a]) = 2 + Len(f) /\ Len(f) \in Nat
      BY <3>3, <3>4, <3>5, <3>7, <3>8
    <3>10. P(t, f) BY <2>5, <3>2, <3>3, <3>8, <3>9
    <3> QED BY <3>3, <3>4, <3>10
  <2> QED BY <2>2, <2>3, <2>4, <2>5
<1>2. pos \in Nat /\ Len(bytes) \in Nat BY SurvivesIs, TypedIs
<1>3. Next1 = tag /\ pos + 1 <= Len(bytes) /\ pos + 1 \in Nat BY <1>1, <1>2, TagRead
<1>4. tag \in Atoms /\ tag # 92 BY AtomTags
<1>5. IF pos + 1 + 1 + Len(e) <= Len(bytes)
      THEN /\ PayloadEnd(tag, pos + 1) = pos + 1 + 1 + Len(e) /\ Payload(tag, pos + 1) = e
           /\ ~Truncated(tag, pos + 1)
      ELSE Truncated(tag, pos + 1)
  <2>1. pos + 2 = pos + 1 + 1 BY <1>2
  <2>2. Lies(b, pos + 1 + 1, e) BY <1>1, <2>1
  <2> QED BY <1>1, <1>3, <2>2, PrefixedRead
<1>6. pos + 1 + 1 + Len(e) = pos + Len(Encoding[a]) BY <1>1, <1>2
<1>7. IF a \in {"lone", "invalid"} THEN Unconvertible(tag, e)
      ELSE ~Unconvertible(tag, e)
  <2>1. CASE a = "lone"
    <3>1. tag = 99 /\ e = <<0, 216>> BY <1>1, <2>1
    <3> QED BY <2>1, <3>1, UnitsIs, UnconvertibleIs
  <2>2. CASE a = "wide"
    <3>1. tag = 99 /\ e = <<97, 1>> BY <1>1, <2>2
    <3>2. Len(<<97, 1>>) = 2 /\ 2 % 2 = 0 OBVIOUS
    <3>3. ~(Len(e) % 2 = 1 \/ LoneSurrogate(e)) BY <3>1, <3>2, UnitsIs
    <3> QED BY <2>2, <3>1, <3>3, UnconvertibleIs
  <2>3. CASE a \in {"narrow", "buffer"}
    <3>1. tag \in {34, 66} BY <1>1, <2>3
    <3> QED BY <2>3, <3>1, UnconvertibleIs
  <2> QED BY <2>1, <2>2, <2>3
<1>8. ASSUME Payload(tag, pos + 1) = e, a # "lone" PROVE AtomValue(tag, pos + 1) = Python[a]
  <2>1. CASE a = "narrow"
    <3>1. tag = 34 /\ e = <<97>> BY <1>1, <2>1
    <3>2. AtomValue(tag, pos + 1) = <<"str", e>> BY <1>8, <3>1, AtomForms
    <3> QED BY <2>1, <3>1, <3>2, PythonIs
  <2>2. CASE a = "wide"
    <3>1. tag = 99 /\ e = <<97, 1>> BY <1>1, <2>2
    <3>2. AtomValue(tag, pos + 1) = <<"str", Units(e)>> BY <1>8, <3>1, AtomForms
    <3> QED BY <2>2, <3>1, <3>2, PythonIs, UnitsIs
  <2>3. CASE a = "buffer"
    <3>1. tag = 66 /\ e = <<7>> BY <1>1, <2>3
    <3>2. AtomValue(tag, pos + 1) = <<"bytes", e>> BY <1>8, <3>1, AtomForms
    <3> QED BY <2>3, <3>1, <3>2, PythonIs
  <2> QED BY <1>8, <2>1, <2>2, <2>3
<1> QED BY <1>3, <1>4, <1>5, <1>6, <1>7, <1>8 DEF AtomRead

\* and a date is, unless it is none.
LEMMA DateRead ==
  ASSUME Typed, NEW b, Survives(b), NEW a \in {"date", "invalid"},
         Lies(b, pos, Encoding[a]), pos < Len(bytes)
  PROVE  AtomRead(a)
<1>1. PICK e \in Seq(Byte) :
        /\ Encoding[a] = <<68>> \o e /\ Len(e) = 8 /\ (e = NaN <=> a = "invalid")
        /\ (a = "date" => e = Date)
  <2> QED BY DatesIs, EncodingIs
<1>2. b \in Seq(Byte) /\ pos \in Nat /\ Len(bytes) \in Nat BY SurvivesIs, TypedIs
<1>3. <<68>> \in Seq(Byte) /\ Len(<<68>>) = 1 BY OneIs
<1>4. Lies(b, pos, <<68>>) /\ Lies(b, pos + 1, e) /\ Len(Encoding[a]) = 9
  <2>1. Lies(b, pos, <<68>> \o e) BY <1>1
  <2>2. Len(<<68>> \o e) = Len(<<68>>) + Len(e) /\ Lies(b, pos, <<68>>)
        /\ Lies(b, pos + Len(<<68>>), e)
    <3>1. b \in Seq(Byte) /\ pos \in Nat /\ <<68>> \in Seq(Byte) /\ e \in Seq(Byte) BY <1>2, <1>3
    <3>2. PICK d \in Seq(Byte) : d = <<68>> BY <3>1
    <3>3. Lies(b, pos, d \o e) BY <2>1, <3>2
    <3>4. Len(d \o e) = Len(d) + Len(e) /\ Lies(b, pos, d) /\ Lies(b, pos + Len(d), e)
      BY <3>1, <3>3, LiesParts
    <3> QED BY <3>2, <3>4
  <2>3. Encoding[a] = <<68>> \o e /\ Len(e) = 8 BY <1>1
  <2> HIDE DEF Lies
  <2> QED BY <1>3, <2>2, <2>3
<1>5. b[pos + 1] = 68 BY <1>2, <1>4, LiesOne
<1>6. Next1 = 68 /\ pos + 1 <= Len(bytes) /\ pos + 1 \in Nat BY <1>2, <1>5, TagRead
<1>7. 68 \in EightBytes /\ 68 \in Atoms BY AtomTags
<1>8. PayloadAt(68, pos + 1) = pos + 1 /\ PayloadEnd(68, pos + 1) = pos + 1 + 8
  BY <1>7, PayloadForms
<1>9. CASE pos + 9 <= Len(bytes)
  <2>1. SubSeq(bytes, pos + 1 + 1, pos + 1 + Len(e)) = e
    <3>1. pos + 1 + Len(e) <= Len(bytes) BY <1>1, <1>2, <1>9
    <3> QED BY <1>4, <1>6, <3>1, PieceIs
  <2>2. Payload(68, pos + 1) = e BY <1>1, <1>8, <2>1 DEF Payload
  <2>3. Unconvertible(68, e) <=> a = "invalid" BY <1>1, UnconvertibleIs
  <2>4. ASSUME a # "invalid" PROVE AtomValue(68, pos + 1) = Python[a]
    <3>1. a = "date" /\ e = Date BY <1>1, <2>4
    <3>2. AtomValue(68, pos + 1) = <<"date", e>> BY <2>2, AtomForms
    <3> QED BY <3>1, <3>2, PythonIs
  <2>5. PayloadEnd(68, pos + 1) = pos + Len(Encoding[a]) BY <1>2, <1>4, <1>8
  <2>6. ~Truncated(68, pos + 1)
    <3>1. 68 \notin OneVarint \cup Prefixed BY AtomTags
    <3> QED BY <1>2, <1>8, <1>9, <3>1 DEF Truncated
  <2>7. a \in {"lone", "invalid"} <=> a = "invalid" OBVIOUS
  <2> QED BY <1>4, <1>6, <1>7, <1>9, <2>2, <2>3, <2>4, <2>5, <2>6, <2>7 DEF AtomRead
<1>10. CASE ~(pos + 9 <= Len(bytes))
  <2>1. PayloadEnd(68, pos + 1) > Len(bytes) BY <1>2, <1>8, <1>10
  <2>2. Truncated(68, pos + 1) BY <2>1 DEF Truncated
  <2> QED BY <1>4, <1>6, <1>7, <1>10, <2>2 DEF AtomRead
<1> QED BY <1>9, <1>10

\* What comes of an atom that was written.
LEMMA AtomIs ==
  ASSUME Typed, Acts, pc = "read", TopKind # "error", ~ElementsDone, NEW b, Survives(b),
         NEW a \in Plain, Lies(b, pos, Encoding[a])
  PROVE  \/ cut /\ Raises("V8Error")
         \/ a \in {"lone", "invalid"} /\ Raises("ValueError")
         \/ a \notin {"lone", "invalid"} /\ Returns(Python[a], pos + Len(Encoding[a]), stack)
<1>1. pos \in Nat /\ Len(bytes) \in Nat /\ Len(b) \in Nat /\ Len(bytes) <= Len(b)
      /\ (cut <=> Len(bytes) < Len(b)) /\ pos <= Len(bytes)
  BY SurvivesIs, TypedIs
<1>2. pos + Len(Encoding[a]) <= Len(b) BY DEF Lies
<1>3. Len(Encoding[a]) \in Nat /\ Len(Encoding[a]) >= 1 BY PlainLength
<1>4. CASE pos >= Len(bytes)
  <2>1. AtEnd BY <1>4 DEF AtEnd
  <2>2. cut BY <1>1, <1>2, <1>3, <1>4
  <2> QED BY <2>1, <2>2, AtNothing
<1>5. CASE pos < Len(bytes)
  <2>1. AtomRead(a)
    <3>1. CASE a \in {"undefined", "null", "true", "wrapper"} BY <1>5, <3>1, BareRead
    <3>2. CASE a = "one" BY <1>5, <3>2, OneRead
    <3>3. CASE a \in {"narrow", "wide", "lone", "buffer"} BY <1>5, <3>3, StringRead
    <3>4. CASE a \in {"date", "invalid"} BY <1>5, <3>4, DateRead
    <3> QED BY <3>1, <3>2, <3>3, <3>4 DEF Plain
  <2>2. ReadAtom \/ (Truncated(Next1, pos + 1) /\ Raises("V8Error")) BY <2>1, AtAtom DEF AtomRead
  <2>3. CASE pos + Len(Encoding[a]) <= Len(bytes)
    <3>1. /\ PayloadEnd(Next1, pos + 1) = pos + Len(Encoding[a])
          /\ IF a \in {"lone", "invalid"} THEN Unconvertible(Next1, Payload(Next1, pos + 1))
             ELSE /\ ~Unconvertible(Next1, Payload(Next1, pos + 1))
                  /\ AtomValue(Next1, pos + 1) = Python[a]
      BY <2>1, <2>3 DEF AtomRead
    <3>2. ~Truncated(Next1, pos + 1) BY <2>1, <2>3 DEF AtomRead
    <3>3. ReadAtom BY <2>2, <3>2
    <3> QED BY <3>1, <3>3 DEF ReadAtom, Payload
  <2>4. CASE ~(pos + Len(Encoding[a]) <= Len(bytes))
    <3>1. Truncated(Next1, pos + 1) BY <2>1, <2>4 DEF AtomRead
    <3>2. Raises("V8Error") BY <2>2, <3>1 DEF ReadAtom
    <3>3. cut BY <1>1, <1>2, <1>3, <2>4
    <3> QED BY <3>2, <3>3
  <2> QED BY <2>3, <2>4
<1> QED BY <1>1, <1>4, <1>5

(***************************************************************************)
(* Where the reader is in the story                                        *)
(***************************************************************************)
\* The writer goes from s to t.
Chapter(b, s, t) ==
  /\ Survives(b) /\ padded \in BOOLEAN /\ open = <<>>
  /\ Sound(s) /\ Sound(t) /\ Sound(Final(b))
  /\ Token(b, referred, padded, s, t)
  /\ Kept(s, Final(b)) /\ Kept(t, Final(b)) /\ KeyKept(t, Final(b))
  /\ t.open = <<>> => t = Final(b)
  /\ deepest \in Nat /\ Len(s.open) <= deepest

\* What is read is as it was written.
Exact == ReferencesAgree /\ KeysDiffer

\* The frame f stands for the object n, open as e.
Stands(f, n, e) ==
  /\ f.kind = n.kind /\ f.id = Rank(e.id)
  /\ f.key = NoValue <=> e.key = NoValue
  /\ ReferencesAgree /\ e.key # NoValue => f.key = AsPython(e.key)
  /\ n.kind = "dense" => f.left = n.len - Len(n.items)
Matches(S, g, o) ==
  /\ S \in Seq(Frames) /\ Len(S) = Len(o)
  /\ \A i \in 1..Len(o) : Stands(S[i], g[o[i].id], o[i])

\* The members of n that are written, in Python.
Part(n) ==
  IF n.kind = "dense"
  THEN [i \in 1..n.len |-> IF i <= Len(n.items) THEN AsPython(n.items[i]) ELSE None]
  ELSE ItemsAsPython(n)
Holds(H, g) ==
  /\ Len(H) = Rank(Len(g))
  /\ \A id \in 1..Len(g) : IsContainer(id) =>
       /\ H[Rank(id)].kind = g[id].kind
       /\ Exact => H[Rank(id)].items = Part(g[id])

\* The reader is behind at bytes, or there are fewer.
Reached(p, at) == p = at \/ (p = Len(bytes) /\ p < at)

Between(p, S, H, s) ==
  Reached(p, s.at) /\ Matches(S, s.graph, s.open) /\ Holds(H, s.graph)

\* The padding of a primitive is read.
Padding(b, p, S, H, s, t) ==
  /\ p = s.at + 1 /\ ~InLoop(s)
  /\ \E q \in Primitives : PrimitiveToken(b, padded, s, t, q, 1)
  /\ Matches(S, s.graph, s.open) /\ Holds(H, s.graph)

\* A value is read, and its container does not have it yet.
Returning(p, S, H, v, s, t) ==
  \E g, o, w :
    /\ Completes(s, t, g, o, w)
    /\ o # <<>> => Reached(p, t.at)
    /\ Matches(S, g, o) /\ Holds(H, g)
    /\ ReferencesAgree => v = AsPython(w)

\* An object that wraps another value is read, or an error.
Wrapping(b, c, p, S, H, v, s, t) ==
  \E l \in Leaves :
    /\ LeafToken(b, s, t, l)
    /\ S \in Seq(Frames) /\ S # <<>> /\ Last(S).kind = l
    /\ Matches(Front(S), s.graph, s.open) /\ Holds(H, s.graph)
    /\ \/ l \in {"string", "regexp"} /\ c = "read" /\ p = s.at + 1
       \/ l \in {"string", "regexp"} /\ c = "return" /\ p = s.at + 4 /\ v = <<"str", <<97>>>>
       \/ l = "error" /\ c = "read" /\ p \in s.at + 1..s.at + 5

\* Every exception has its reason.
Right(x) ==
  \/ x = "V8Error" /\ (cut \/ padded \/ ~ReferencesAgree)
  \/ x = "TypeError" /\ (~KeysHashable \/ ~ReferencesAgree)
  \/ x = "ValueError" /\ ~Convertible
  \/ x = "RecursionError" /\ ~CallsFit
  \/ x = "MemoryError" /\ ~ArraysFit

DoneRight(H, v) ==
  Exact => /\ v = AsPython(root) /\ Len(H) = Rank(Len(graph))
           /\ \A id \in 1..Len(graph) : IsContainer(id) =>
                H[Rank(id)].kind = graph[id].kind /\ H[Rank(id)].items = ItemsAsPython(graph[id])

\* What the reader does while the writer goes from s to t.
Within(b, s, t, c, p, S, H, v, x) ==
  \/ c = "read" /\ Between(p, S, H, s)
  \/ c = "read" /\ Padding(b, p, S, H, s, t)
  \/ c = "return" /\ Returning(p, S, H, v, s, t)
  \/ Wrapping(b, c, p, S, H, v, s, t)
  \/ c = "raised" /\ Right(x)
  \/ c = "done" /\ DoneRight(H, v)
Advances(b, s, t, c, p, S, H, v, x) ==
  \/ Within(b, s, t, c, p, S, H, v, x)
  \/ c = "read" /\ t.open # <<>> /\ Between(p, S, H, t)

\* After the outermost value nothing is written.
LEMMA NothingFollows ==
  ASSUME NEW b \in Seq(Byte), NEW s, Sound(s), NEW t, NEW u, NEW R, NEW P,
         Token(b, R, P, s, t), Token(b, R, P, t, u)
  PROVE  t.open # <<>>
<1> SUFFICES ASSUME t.open = <<>> PROVE FALSE OBVIOUS
<1>1. t.root # NoValue
  <2>1. CASE \E g, o, v : Completes(s, t, g, o, v)
    <3>1. PICK g, o, v : Completes(s, t, g, o, v) BY <2>1
    <3>2. o \in Seq(Opened) /\ t.open = WithKey(v, g, o) /\ t.root = IF o = <<>> THEN v ELSE s.root
      BY <3>1, CompletesIs
    <3>3. v \in Values BY <3>1 DEF Completes
    <3>4. Len(t.open) = Len(o)
      <4>1. o \in Seq(Opened) BY <3>2
      <4>2. Len(WithKey(v, g, o)) = Len(o) BY <3>3, <4>1, KeyTaken
      <4> QED BY <3>2, <4>2
    <3>5. Len(t.open) = 0 OBVIOUS
    <3>6. o = <<>> BY <3>2, <3>4, <3>5, EmptySeq
    <3> QED BY <3>2, <3>3, <3>6, ValueForms
  <2>2. CASE \E c, len : Opens(s, t, c, len)
    <3>1. PICK c, len : Opens(s, t, c, len) BY <2>2
    <3>2. Len(t.open) = Len(s.open) + 1 /\ Len(s.open) \in Nat BY <3>1, OpensIs, SoundIs
    <3>3. Len(t.open) = 0 OBVIOUS
    <3> QED BY <3>2, <3>3
  <2> QED BY <2>1, <2>2, FormOf
<1>2. CASE \E p \in Primitives, pad \in {0, 1} : PrimitiveToken(b, P, t, u, p, pad)
  BY <1>1, <1>2 DEF PrimitiveToken, Ready
<1>3. CASE \E l \in Leaves : LeafToken(b, t, u, l) BY <1>1, <1>3 DEF LeafToken, Ready
<1>4. CASE \E c \in Containers, len \in 0..MaxLength : BeginToken(b, t, u, c, len)
  BY <1>1, <1>4 DEF BeginToken, Ready
<1>5. CASE \E id \in Nat : ReferenceToken(b, R, t, u, id) BY <1>1, <1>5 DEF ReferenceToken, Ready
<1>6. CASE EndToken(b, t, u) BY <1>6 DEF EndToken
<1> QED BY <1>2, <1>3, <1>4, <1>5, <1>6 DEF Token

\* Each two moments of the story that follow each other are a chapter of it,
\* and after one that leaves an object open there is another.
LEMMA WrittenChapter ==
  ASSUME NEW b, NEW T, Written(b, T), NEW k \in 1..Len(T) - 1
  PROVE  /\ Chapter(b, T[k], T[k + 1])
         /\ T[k + 1].open # <<>> => k + 1 \in 1..Len(T) - 1
<1>1. /\ Survives(b) /\ padded \in BOOLEAN /\ open = <<>> /\ b \in Seq(Byte)
      /\ Tells(b, T, referred, padded, Final(b)) /\ Reaches(T)
  BY DEF Written, Survives
<1>2. /\ T \in Seq(Moments) /\ Len(T) >= 1 /\ T[Len(T)] = Final(b)
      /\ \A j \in 1..Len(T) : Sound(T[j]) /\ Kept(T[j], Final(b)) /\ KeyKept(T[j], Final(b))
      /\ \A j \in 1..Len(T) - 1 : Token(b, referred, padded, T[j], T[j + 1])
  BY <1>1 DEF Tells
<1>3. Len(T) \in Nat BY <1>2, LenProperties
<1>4. k \in 1..Len(T) /\ k + 1 \in 1..Len(T) /\ Len(T) \in 1..Len(T) /\ k \in Nat BY <1>2, <1>3
<1>5. /\ Sound(T[k]) /\ Sound(T[k + 1]) /\ Sound(Final(b))
      /\ Kept(T[k], Final(b)) /\ Kept(T[k + 1], Final(b)) /\ KeyKept(T[k + 1], Final(b))
      /\ Token(b, referred, padded, T[k], T[k + 1])
      /\ deepest \in Nat /\ Len(T[k].open) <= deepest
  BY <1>1, <1>2, <1>4 DEF Reaches
<1>6. CASE k + 1 = Len(T)
  <2>1. T[k + 1] = Final(b) BY <1>2, <1>6
  <2>2. T[k + 1].open = <<>> BY <1>1, <2>1, MomentIs DEF Final
  <2> QED BY <1>1, <1>5, <2>1, <2>2 DEF Chapter
<1>7. CASE k + 1 # Len(T)
  <2>1. k + 1 \in 1..Len(T) - 1 BY <1>3, <1>4, <1>7
  <2>2. Token(b, referred, padded, T[k + 1], T[k + 1 + 1]) BY <1>2, <2>1
  <2>3. T[k + 1].open # <<>> BY <1>1, <1>5, <2>2, NothingFollows
  <2> QED BY <1>1, <1>5, <2>1, <2>3 DEF Chapter
<1> QED BY <1>6, <1>7

\* The objects of g are the first of the graph, as far as they were written.
Kindred(g) ==
  /\ g \in Seq(Nodes) /\ Len(g) \in Nat /\ Len(g) <= Len(graph)
  /\ \A id \in 1..Len(g) : g[id].kind = graph[id].kind /\ g[id].len = graph[id].len

\* What a chapter has.
LEMMA ChapterIs ==
  ASSUME NEW b, NEW s, NEW t, Chapter(b, s, t)
  PROVE  /\ Kindred(s.graph) /\ Kindred(t.graph) /\ graph \in Seq(Nodes) /\ Len(graph) \in Nat
         /\ Final(b).graph = graph /\ Final(b).open = <<>> /\ Final(b).root = root
         /\ s.at < t.at /\ t.at <= Len(b) /\ s.at \in Nat /\ t.at \in Nat
         /\ DOMAIN graph = 1..Len(graph)
<1>1. Final(b).graph = graph /\ Final(b).open = <<>> /\ Final(b).root = root
  BY MomentIs DEF Final, Chapter
<1>2. Sound(s) /\ Sound(t) /\ Sound(Final(b)) /\ Kept(s, Final(b)) /\ Kept(t, Final(b))
      /\ b \in Seq(Byte) /\ Token(b, referred, padded, s, t)
  BY DEF Chapter, Survives
<1>3. graph \in Seq(Nodes) /\ Len(graph) \in Nat BY <1>1, <1>2, SoundIs
<1>4. Kindred(s.graph) BY <1>1, <1>2, SoundIs DEF Kept, Kindred
<1>5. Kindred(t.graph) BY <1>1, <1>2, SoundIs DEF Kept, Kindred
<1>6. s.at < t.at /\ t.at <= Len(b) BY <1>2, FormOf
<1>7. s.at \in Nat /\ t.at \in Nat BY <1>2, SoundIs
<1> QED BY <1>1, <1>3, <1>4, <1>5, <1>6, <1>7, LenProperties

\* The innermost call stands for the innermost object.
LEMMA MatchTop ==
  ASSUME Typed, NEW g, NEW o, Shape(g, o), Matches(stack, g, o)
  PROVE  /\ stack = <<>> <=> o = <<>>
         /\ o # <<>> =>
              /\ stack # <<>> /\ Len(stack) = Len(o) /\ Top = stack[Len(o)] /\ Top \in Frames
              /\ TopKind = Top.kind /\ Top.kind = Into(g, o).kind
              /\ Stands(Top, Into(g, o), Last(o))
              /\ Top.kind \in ContainerKinds
         /\ o = <<>> => TopKind = "none"
<1>1. Len(stack) = Len(o) /\ Len(o) \in Nat /\ o \in Seq(Opened) /\ stack \in Seq(Frames)
  BY LenProperties DEF Matches, Shape
<1>2. stack = <<>> <=> o = <<>> BY <1>1, NonEmpty
<1>3. ASSUME o # <<>>
      PROVE  /\ stack # <<>> /\ Len(stack) = Len(o) /\ Top = stack[Len(o)] /\ Top \in Frames
             /\ TopKind = Top.kind /\ Top.kind = Into(g, o).kind
             /\ Stands(Top, Into(g, o), Last(o)) /\ Top.kind \in ContainerKinds
  <2>1. stack # <<>> BY <1>2, <1>3
  <2>2. Top = stack[Len(stack)] /\ Top \in Frames /\ TopKind = Top.kind BY <2>1, TopFrame
  <2>3. Len(o) \in 1..Len(o) /\ Last(o) = o[Len(o)] /\ Into(g, o) = g[o[Len(o)].id] BY <1>3, TopIs
  <2>4. Stands(stack[Len(o)], g[o[Len(o)].id], o[Len(o)]) BY <2>3 DEF Matches
  <2>5. Into(g, o).kind \in ContainerKinds
    <3>1. FrameSound(g, o, Len(o)) BY <2>3 DEF Shape
    <3>2. g[o[Len(o)].id].kind \in Containers BY <3>1 DEF FrameSound
    <3>3. Containers \subseteq ContainerKinds BY KindsApart
    <3> QED BY <2>3, <3>2, <3>3
  <2>6. Top = stack[Len(o)] BY <1>1, <2>2
  <2>7. Stands(Top, Into(g, o), Last(o)) BY <2>3, <2>4, <2>6
  <2>8. Top.kind = Into(g, o).kind BY <2>7 DEF Stands
  <2> QED BY <1>1, <2>1, <2>2, <2>5, <2>6, <2>7, <2>8
<1>4. o = <<>> => TopKind = "none" BY <1>2 DEF TopKind
<1> QED BY <1>2, <1>3, <1>4

\* Frames that stand for the open objects are in the loop the writer is in.
LEMMA MatchLoop ==
  ASSUME Typed, NEW g, NEW o, Shape(g, o), Matches(stack, g, o)
  PROVE  /\ TopKind \in ContainerKinds \cup {"none"} /\ TopKind # "error"
         /\ Looping <=> WantsKey(g, o) \/ (o # <<>> /\ Into(g, o).kind = "set")
         /\ ElementsDone <=> /\ o # <<>> /\ Into(g, o).kind = "dense"
                             /\ Len(Into(g, o).items) = Into(g, o).len
<1>1. CASE o = <<>>
  <2>1. TopKind = "none" BY <1>1, MatchTop
  <2>2. ~Looping /\ ~ElementsDone BY <2>1 DEF Looping, ElementsDone, Keyed
  <2> QED BY <1>1, <2>1, <2>2 DEF WantsKey
<1>2. CASE o # <<>>
  <2>1. /\ Top = Last(stack) /\ TopKind = Into(g, o).kind /\ Stands(Top, Into(g, o), Last(o))
        /\ TopKind \in ContainerKinds
    BY <1>2, MatchTop DEF Top
  <2>2. TopKind # "error" BY <2>1, KindsApart
  <2>3. Looping <=> WantsKey(g, o) \/ Into(g, o).kind = "set"
    BY <1>2, <2>1 DEF Looping, WantsKey, Stands
  <2>4. Into(g, o).len \in Nat /\ Len(Into(g, o).items) \in Nat BY <1>2, TopIs, NodeFields
  <2>5. ElementsDone <=> Into(g, o).kind = "dense" /\ Len(Into(g, o).items) = Into(g, o).len
    <3>1. ElementsDone <=> Into(g, o).kind = "dense" /\ Top.left = 0 BY <2>1 DEF ElementsDone
    <3>2. Into(g, o).kind = "dense" => Top.left = Into(g, o).len - Len(Into(g, o).items)
      BY <2>1 DEF Stands
    <3> QED BY <2>4, <3>1, <3>2
  <2> QED BY <1>2, <2>1, <2>2, <2>3, <2>5
<1> QED BY <1>1, <1>2

\* Where a value may follow, the reader reads a tag.
LEMMA MatchReady ==
  ASSUME Typed, NEW s, Sound(s), Matches(stack, s.graph, s.open), NEW v, Ready(s, v)
  PROVE  TopKind # "error" /\ ~ElementsDone /\ (Looping <=> InLoop(s))
<1>1. Shape(s.graph, s.open) BY SoundIs
<1>2. Room(s.graph, s.open) BY DEF Ready
<1>3. /\ TopKind # "error"
      /\ Looping <=>
           WantsKey(s.graph, s.open) \/ (s.open # <<>> /\ Into(s.graph, s.open).kind = "set")
      /\ ElementsDone => /\ s.open # <<>> /\ Into(s.graph, s.open).kind = "dense"
                         /\ Len(Into(s.graph, s.open).items) = Into(s.graph, s.open).len
  BY <1>1, MatchLoop
<1>4. ~ElementsDone
  <2>1. SUFFICES ASSUME ElementsDone PROVE FALSE OBVIOUS
  <2>2. s.open # <<>> /\ Into(s.graph, s.open).kind = "dense"
        /\ Len(Into(s.graph, s.open).items) = Into(s.graph, s.open).len
    BY <1>3, <2>1
  <2>3. Len(Into(s.graph, s.open).items) < Into(s.graph, s.open).len BY <1>2, <2>2 DEF Room
  <2>4. Into(s.graph, s.open).len \in Nat BY <1>1, <2>2, TopIs, NodeFields
  <2> QED BY <2>2, <2>3, <2>4
<1> QED BY <1>3, <1>4 DEF InLoop

\* A leaf changes no call, and no container.
LEMMA LeafMatches ==
  ASSUME NEW s, Sound(s), NEW l \in Leaves, NEW S, Matches(S, s.graph, s.open)
  PROVE  Matches(S, Append(s.graph, Node(l, 0)), s.open)
<1>1. /\ s.graph \in Seq(Nodes)
      /\ \A i \in 1..Len(s.open) : s.open[i].id \in 1..Len(s.graph)
  BY SoundIs
<1>2. \A i \in 1..Len(s.graph) : Append(s.graph, Node(l, 0))[i] = s.graph[i]
  <2>1. 0 \in Nat /\ l \in Leaves \cup Containers OBVIOUS
  <2> QED BY <1>1, <2>1, GrownIs
<1> QED BY <1>1, <1>2 DEF Matches

\* An object without members makes no container.
LEMMA LeafHolds ==
  ASSUME NEW s, Sound(s), NEW l \in Leaves, NEW H, Holds(H, s.graph),
         Kindred(Append(s.graph, Node(l, 0)))
  PROVE  Holds(H, Append(s.graph, Node(l, 0)))
<1> DEFINE g == Append(s.graph, Node(l, 0))
<1>1. s.graph \in Seq(Nodes) /\ Len(s.graph) \in Nat BY SoundIs
<1>2. /\ Len(g) = Len(s.graph) + 1 /\ g[Len(s.graph) + 1].kind = l
      /\ \A i \in 1..Len(s.graph) : g[i] = s.graph[i]
  <2>1. 0 \in Nat /\ l \in Leaves \cup Containers OBVIOUS
  <2> QED BY <1>1, <2>1, GrownIs
<1> HIDE DEF g
<1>3. Kindred(g) BY DEF g
<1>4. ~IsContainer(Len(s.graph) + 1)
  <2>1. Len(s.graph) + 1 \in 1..Len(g) BY <1>1, <1>2
  <2>2. graph[Len(s.graph) + 1].kind = l BY <1>2, <1>3, <2>1 DEF Kindred
  <2> QED BY <2>2, KindsApart DEF IsContainer
<1>5. Rank(Len(g)) = Rank(Len(s.graph)) BY <1>1, <1>2, <1>4, RankNext
<1>6. \A id \in 1..Len(g) : IsContainer(id) => id \in 1..Len(s.graph) BY <1>1, <1>2, <1>4
<1>7. Holds(H, g) BY <1>2, <1>5, <1>6 DEF Holds
<1> QED BY <1>7 DEF g

\* An object that ends leaves the others as they are.
LEMMA FrontMatches ==
  ASSUME NEW g, NEW o \in Seq(Opened), o # <<>>, NEW S, Matches(S, g, o)
  PROVE  Matches(Front(S), g, Front(o))
<1>1. S \in Seq(Frames) /\ Len(S) = Len(o) /\ Len(o) \in Nat /\ Len(o) >= 1
  BY NonEmpty DEF Matches
<1>2. S # <<>> BY <1>1
<1>3. /\ Front(S) \in Seq(Frames) /\ Len(Front(S)) = Len(S) - 1
      /\ \A i \in 1..Len(S) - 1 : Front(S)[i] = S[i]
  BY <1>1, <1>2, FrontFrames
<1>4. /\ Len(Front(o)) = Len(o) - 1 /\ \A i \in 1..Len(o) - 1 : Front(o)[i] = o[i]
  BY FrontIs
<1> DEFINE q == Front(o)
           U == Front(S)
<1> HIDE DEF q, U
<1>5. \A i \in 1..Len(q) : i \in 1..Len(o) /\ U[i] = S[i] /\ q[i] = o[i]
  BY <1>1, <1>3, <1>4 DEF q, U
<1>6. Matches(U, g, q) BY <1>1, <1>3, <1>4, <1>5 DEF Matches, q, U
<1> QED BY <1>6 DEF q, U

\* A value that is taken changes no kind and no length.
LEMMA TakenKindred ==
  ASSUME NEW b, NEW s, NEW t, Chapter(b, s, t), NEW g, NEW o, NEW v, Completes(s, t, g, o, v)
  PROVE  Kindred(g) /\ Len(t.graph) = Len(g)
<1>1. Sound(s) BY DEF Chapter
<1>2. /\ g \in Seq(Nodes) /\ o \in Seq(Opened) /\ Len(g) \in Nat /\ t.graph = WithMember(v, g, o)
      /\ o # <<>> => Last(o).id \in 1..Len(g)
  BY <1>1, CompletesIs
<1>3. v \in Values BY DEF Completes
<1> DEFINE h == WithMember(v, g, o)
<1>4. /\ Len(h) = Len(g)
      /\ \A i \in 1..Len(g) : h[i].kind = g[i].kind /\ h[i].len = g[i].len
  BY <1>2, <1>3, MemberTaken
<1> HIDE DEF h
<1>5. t.graph = h BY <1>2 DEF h
<1>6. Kindred(t.graph) BY ChapterIs
<1>7. Kindred(g) BY <1>2, <1>4, <1>5, <1>6 DEF Kindred
<1> QED BY <1>4, <1>5, <1>7

\* The value that is taken is the root, or stays in its object: as the key of
\* an entry, or as the member behind those the object had.
Place(g, o, v) ==
  LET id == Last(o).id
      n  == Len(g[id].items) + 1
  IN  /\ id \in 1..Len(graph) /\ n \in 1..Len(graph[id].items)
      /\ \A j \in 1..Len(g[id].items) : graph[id].items[j] = g[id].items[j]
      /\ IF WantsKey(g, o) THEN graph[id].items[n][1] = v
         ELSE graph[id].items[n] = Item(g, o, v)

\* A value that is complete is the root, or has its place in the graph that is
\* stored.
LEMMA TakenPlace ==
  ASSUME NEW b, NEW s, NEW t, Chapter(b, s, t), NEW g, NEW o, NEW v, Completes(s, t, g, o, v)
  PROVE  IF o = <<>> THEN root = v /\ graph = g /\ t = Final(b) ELSE Place(g, o, v)
<1>1. Sound(s) BY DEF Chapter
<1>2. /\ g \in Seq(Nodes) /\ o \in Seq(Opened) /\ Len(g) \in Nat /\ Len(o) \in Nat
      /\ t.graph = WithMember(v, g, o) /\ t.open = WithKey(v, g, o)
      /\ t.root = IF o = <<>> THEN v ELSE s.root
      /\ o # <<>> => Last(o) = o[Len(o)] /\ Len(o) \in 1..Len(o) /\ Last(o).id \in 1..Len(g)
  BY <1>1, CompletesIs
<1>3. v \in Values BY DEF Completes
<1>4. /\ Final(b).graph = graph /\ Final(b).open = <<>> /\ Final(b).root = root
      /\ DOMAIN graph = 1..Len(graph) /\ Len(graph) \in Nat /\ graph \in Seq(Nodes)
  BY ChapterIs
<1>5. CASE o = <<>>
  <2>1. t.graph = g /\ t.open = <<>> BY <1>2, <1>5 DEF WithMember, WithKey
  <2>2. t = Final(b) BY <2>1 DEF Chapter
  <2> QED BY <1>2, <1>4, <1>5, <2>1, <2>2
<1>6. CASE o # <<>>
  <2> DEFINE id == Last(o).id
             m == Len(g[id].items)
             h == WithMember(v, g, o)
             q == WithKey(v, g, o)
  <2>1. Kindred(g) /\ id \in 1..Len(g) BY <1>2, <1>6, TakenKindred
  <2>2. id \in 1..Len(graph) /\ graph[id].kind = g[id].kind BY <2>1 DEF Kindred
  <2>3. g[id].items \in Seq(Entries) /\ m \in Nat BY <1>2, <2>1, NodeFields, ElementOfSeq
  <2>4. /\ Len(h) = Len(g)
        /\ \A i \in 1..Len(g) :
             h[i].items = IF o # <<>> /\ ~WantsKey(g, o) /\ i = id
                          THEN Append(g[i].items, Item(g, o, v)) ELSE g[i].items
    BY <1>2, <1>3, MemberTaken
  <2>5. Kept(t, Final(b)) /\ KeyKept(t, Final(b)) BY DEF Chapter
  <2>6. graph[id].items \in Seq(Entries) /\ Len(graph[id].items) \in Nat
    BY <1>4, <2>2, NodeFields, ElementOfSeq
  <2> HIDE DEF h
  <2>7. t.graph = h BY <1>2 DEF h
  <2>8. /\ Len(h[id].items) <= Len(graph[id].items)
        /\ \A j \in 1..Len(h[id].items) : h[id].items[j] = graph[id].items[j]
    BY <1>4, <2>1, <2>4, <2>5, <2>7 DEF Kept
  <2>9. CASE WantsKey(g, o)
    <3>1. h[id].items = g[id].items BY <2>1, <2>4, <2>9
    <3>2. /\ Len(q) = Len(o) /\ q[Len(o)].id = id /\ q[Len(o)].key = v
      <4>1. Len(o) \in 1..Len(o) /\ ~(Len(o) < Len(o)) BY <1>2, <1>6
      <4>2. o \in Seq(Opened) /\ v \in Values BY <1>2, <1>3
      <4>3. /\ Len(q) = Len(o)
            /\ \A i \in 1..Len(o) : q[i].id = o[i].id
            /\ \A i \in 1..Len(o) :
                 q[i].key = IF i < Len(o) THEN o[i].key
                            ELSE IF WantsKey(g, o) THEN v ELSE NoValue
        BY <4>2, KeyTaken
      <4> QED BY <1>2, <1>6, <2>9, <4>1, <4>3
    <3> HIDE DEF q
    <3>3. t.open = q BY <1>2 DEF q
    <3>4. v # NoValue BY <1>3, ValueForms
    <3>5. Len(o) \in 1..Len(q) BY <1>2, <1>6, <3>2
    <3>6. ~(Len(o) \in 1..Len(Final(b).open))
      <4>1. Len(Final(b).open) = 0 BY <1>4
      <4> QED BY <4>1
    <3> HIDE DEF id
    <3>7. Len(graph[id].items) > Len(h[id].items) /\ graph[id].items[Len(h[id].items) + 1][1] = v
      BY <1>4, <2>5, <2>7, <3>2, <3>3, <3>4, <3>5, <3>6 DEF KeyKept
    <3>8. m + 1 \in 1..Len(graph[id].items) /\ graph[id].items[m + 1][1] = v
      BY <2>3, <2>6, <3>1, <3>7
    <3>9. \A j \in 1..m : graph[id].items[j] = g[id].items[j] BY <2>8, <3>1
    <3> QED BY <1>6, <2>2, <2>9, <3>8, <3>9 DEF Place, id
  <2>10. CASE ~WantsKey(g, o)
    <3>1. h[id].items = Append(g[id].items, Item(g, o, v)) BY <1>6, <2>1, <2>4, <2>10
    <3> HIDE DEF id
    <3>2. /\ Len(h[id].items) = m + 1 /\ h[id].items[m + 1] = Item(g, o, v)
          /\ \A j \in 1..m : h[id].items[j] = g[id].items[j]
      BY <2>3, <3>1, AppendProperties
    <3>3. m + 1 \in 1..Len(h[id].items) /\ \A j \in 1..m : j \in 1..Len(h[id].items)
      BY <2>3, <3>2
    <3>4. m + 1 \in 1..Len(graph[id].items) BY <2>3, <2>6, <2>8, <3>2
    <3>5. graph[id].items[m + 1] = Item(g, o, v) BY <2>8, <3>2, <3>3
    <3>6. \A j \in 1..m : graph[id].items[j] = g[id].items[j] BY <2>8, <3>2, <3>3
    <3> QED BY <1>6, <2>2, <2>10, <3>4, <3>5, <3>6 DEF Place, id
  <2> QED BY <2>9, <2>10
<1> QED BY <1>5, <1>6

\* The innermost object when it has taken a value, and the others.
LEMMA TakenTop ==
  ASSUME NEW s, Sound(s), NEW t, NEW g, NEW o, NEW v, Completes(s, t, g, o, v), o # <<>>
  PROVE  /\ t.open # <<>> /\ Len(t.open) = Len(o) /\ Len(o) \in Nat /\ Len(o) >= 1
         /\ \A i \in 1..Len(o) : i # Len(o) => t.open[i] = o[i]
         /\ Last(t.open) = t.open[Len(o)] /\ t.open[Len(o)].id = Last(o).id
         /\ Last(o).id \in 1..Len(g) /\ Last(o) = o[Len(o)]
         /\ Last(t.open).key = IF WantsKey(g, o) THEN v ELSE NoValue
         /\ \A i \in 1..Len(g) : i # Last(o).id => t.graph[i] = g[i]
         /\ Into(t.graph, t.open) = t.graph[Last(o).id]
         /\ Into(t.graph, t.open).kind = Into(g, o).kind
         /\ Into(t.graph, t.open).len = Into(g, o).len
         /\ Into(t.graph, t.open).items =
              IF WantsKey(g, o) THEN Into(g, o).items ELSE Append(Into(g, o).items, Item(g, o, v))
<1>1. /\ g \in Seq(Nodes) /\ o \in Seq(Opened) /\ Len(g) \in Nat /\ Len(o) \in Nat
      /\ t.graph = WithMember(v, g, o) /\ t.open = WithKey(v, g, o)
      /\ Last(o) = o[Len(o)] /\ Len(o) \in 1..Len(o) /\ Last(o).id \in 1..Len(g)
  BY CompletesIs
<1>2. v \in Values BY DEF Completes
<1> DEFINE h == WithMember(v, g, o)
           q == WithKey(v, g, o)
<1>3. /\ Len(h) = Len(g)
      /\ \A i \in 1..Len(g) : h[i].kind = g[i].kind /\ h[i].len = g[i].len
      /\ \A i \in 1..Len(g) :
           h[i].items = IF o # <<>> /\ ~WantsKey(g, o) /\ i = Last(o).id
                        THEN Append(g[i].items, Item(g, o, v)) ELSE g[i].items
  BY <1>1, <1>2, MemberTaken
<1>4. /\ Len(q) = Len(o) /\ q \in Seq(Opened)
      /\ \A i \in 1..Len(o) : q[i].id = o[i].id
      /\ \A i \in 1..Len(o) : q[i].key = IF i < Len(o) THEN o[i].key
                                         ELSE IF WantsKey(g, o) THEN v ELSE NoValue
      /\ \A i \in 1..Len(o) : i < Len(o) => q[i] = o[i]
  BY <1>1, <1>2, KeyTaken
<1>5. \A i \in 1..Len(g) : i # Last(o).id => h[i] = g[i] BY <1>1 DEF WithMember
<1> HIDE DEF h, q
<1>6. t.graph = h /\ t.open = q BY <1>1 DEF h, q
<1>7. q # <<>> BY <1>1, <1>4
<1>8. Last(q) = q[Len(o)] BY <1>4, <1>7, LastIs
<1>9. q[Len(o)].id = Last(o).id BY <1>1, <1>4
<1>10. Last(q).key = IF WantsKey(g, o) THEN v ELSE NoValue
  <2>1. ~(Len(o) < Len(o)) BY <1>1
  <2> QED BY <1>1, <1>4, <1>8, <2>1
<1>11. \A i \in 1..Len(o) : i # Len(o) => q[i] = o[i] BY <1>1, <1>4
<1>12. Into(h, q) = h[Last(o).id] /\ Into(g, o) = g[Last(o).id] BY <1>8, <1>9 DEF Into
<1>13. /\ Into(h, q).kind = Into(g, o).kind /\ Into(h, q).len = Into(g, o).len
  BY <1>1, <1>3, <1>12
<1>14. Into(h, q).items =
         IF WantsKey(g, o) THEN Into(g, o).items ELSE Append(Into(g, o).items, Item(g, o, v))
  BY <1>1, <1>3, <1>12
<1> QED BY <1>1, <1>4, <1>5, <1>6, <1>7, <1>8, <1>9, <1>10, <1>11, <1>12, <1>13, <1>14

\* The members stored are those written: the reader goes on to the next token.
LEMMA Continued ==
  ASSUME Typed, NEW b, NEW s, NEW t, Chapter(b, s, t),
         NEW g, NEW o, NEW v, Completes(s, t, g, o, v), o # <<>>,
         Reached(pos, t.at), Matches(stack, g, o), Holds(heap, g),
         NEW f \in Frames, NEW items, Continues(f, items),
         Stands(f, Into(t.graph, t.open), Last(t.open)),
         Exact => items = Part(Into(t.graph, t.open))
  PROVE  pc' = "read" /\ t.open # <<>> /\ Between(pos', stack', heap', t)
<1>1. Sound(s) /\ Sound(t) BY DEF Chapter
<1>2. Shape(g, o) BY DEF Completes
<1>3. Kindred(g) /\ Len(t.graph) = Len(g) BY TakenKindred
<1> DEFINE n == Len(o)
           id == Last(o).id
<1>4. /\ t.open # <<>> /\ Len(t.open) = n /\ n \in Nat /\ n >= 1
      /\ \A i \in 1..n : i # n => t.open[i] = o[i]
      /\ Last(t.open) = t.open[n] /\ t.open[n].id = id
      /\ id \in 1..Len(g) /\ o[n].id = id
      /\ \A i \in 1..Len(g) : i # id => t.graph[i] = g[i]
      /\ Into(t.graph, t.open) = t.graph[id]
      /\ t.graph[id].kind = g[id].kind
  <2>1. Into(t.graph, t.open).kind = Into(g, o).kind BY <1>1, TakenTop
  <2>2. Into(t.graph, t.open) = t.graph[id] BY <1>1, TakenTop
  <2>3. Into(g, o) = g[id] BY DEF Into
  <2> QED BY <1>1, <2>1, <2>2, <2>3, TakenTop
<1> HIDE DEF n, id
<1>5. /\ pc' = "read" /\ stack' = [stack EXCEPT ![Len(stack)] = f]
      /\ heap' = [heap EXCEPT ![f.id].items = items] /\ pos' = pos
  BY DEF Continues
<1>6. stack \in Seq(Frames) /\ Len(stack) = n BY DEF Matches, n
<1>7. /\ stack' \in Seq(Frames) /\ Len(stack') = n
      /\ stack'[n] = f /\ \A i \in 1..n : i # n => stack'[i] = stack[i]
  <2>1. n \in 1..Len(stack) BY <1>4, <1>6
  <2> QED BY <1>5, <1>6, <2>1, ExceptSeq
<1>8. Matches(stack', t.graph, t.open)
  <2>1. ASSUME NEW i \in 1..n PROVE Stands(stack'[i], t.graph[t.open[i].id], t.open[i])
    <3>1. CASE i = n BY <1>4, <1>7, <3>1
    <3>2. CASE i # n
      <4>1. Stands(stack[i], g[o[i].id], o[i]) BY DEF Matches, n
      <4>2. o[i].id \in 1..Len(g) BY <1>2 DEF Shape, FrameSound, n
      <4>3. o[i].id # id
        <5>1. i < n /\ n \in 1..n BY <1>4, <3>2
        <5>2. o[i].id < o[n].id BY <1>2, <5>1 DEF Shape, Increasing, n
        <5>3. id \in Nat /\ o[i].id \in Nat BY <1>3, <1>4, <4>2 DEF Kindred
        <5> QED BY <1>4, <5>2, <5>3
      <4> QED BY <1>4, <1>7, <3>2, <4>1, <4>2, <4>3
    <3> QED BY <3>1, <3>2
  <2> QED BY <1>4, <1>7, <2>1 DEF Matches
<1>9. f.id = Rank(id) /\ IsContainer(id)
  <2>1. f.id = Rank(id) BY <1>4 DEF Stands
  <2>2. g[id].kind \in Containers
    <3>1. n \in 1..Len(o) BY <1>4 DEF n
    <3>2. FrameSound(g, o, n) BY <1>2, <3>1 DEF Shape
    <3> QED BY <1>4, <3>2 DEF FrameSound
  <2>3. Containers \subseteq ContainerKinds BY KindsApart
  <2>4. graph[id].kind = g[id].kind BY <1>3, <1>4 DEF Kindred
  <2> QED BY <2>1, <2>2, <2>3, <2>4 DEF IsContainer
<1>10. Len(g) \in Nat /\ id \in Nat /\ 1 <= id /\ id <= Len(g) BY <1>3, <1>4 DEF Kindred
<1>11. Rank(id) \in 1..Len(heap) /\ Len(heap) = Rank(Len(g))
  <2>1. Rank(id) \in 1..Rank(Len(g)) BY <1>9, <1>10, RankWithin
  <2> QED BY <2>1 DEF Holds
<1>12. heap \in Seq(Cells) BY TypedIs
<1>13. /\ Len(heap') = Len(heap)
       /\ heap'[Rank(id)] = [heap[Rank(id)] EXCEPT !.items = items]
       /\ \A j \in 1..Len(heap) : j # Rank(id) => heap'[j] = heap[j]
  BY <1>5, <1>9, <1>11, <1>12
<1>14. heap'[Rank(id)].kind = heap[Rank(id)].kind /\ heap'[Rank(id)].items = items
  <2>1. heap[Rank(id)] \in Cells BY <1>11, <1>12, ElementOfSeq
  <2>2. PICK kind \in ContainerKinds :
          heap[Rank(id)] \in [kind : {kind}, items : Seq(Members(kind))]
    BY <2>1 DEF Cells
  <2> QED BY <1>13, <2>2
<1>15. Holds(heap', t.graph)
  <2>1. ASSUME NEW j \in 1..Len(g), IsContainer(j)
        PROVE  /\ heap'[Rank(j)].kind = t.graph[j].kind
               /\ Exact => heap'[Rank(j)].items = Part(t.graph[j])
    <3>1. /\ heap[Rank(j)].kind = g[j].kind
          /\ Exact => heap[Rank(j)].items = Part(g[j])
      BY <2>1 DEF Holds
    <3>2. CASE j = id BY <1>4, <1>14, <3>1, <3>2
    <3>3. CASE j # id
      <4>1. j \in Nat /\ 1 <= j /\ j <= Len(g) BY <1>10
      <4>2. Rank(j) \in 1..Len(heap) BY <1>10, <1>11, <2>1, <4>1, RankWithin
      <4>3. Rank(id) \in Nat /\ Rank(j) \in Nat BY <1>10, <4>1, RankNext
      <4>4. Rank(j) # Rank(id)
        <5>1. CASE j < id BY <1>9, <1>10, <4>1, <4>3, <5>1, RankApart
        <5>2. CASE id < j BY <1>10, <2>1, <4>1, <4>3, <5>2, RankApart
        <5> QED BY <1>10, <3>3, <4>1, <5>1, <5>2
      <4>5. heap'[Rank(j)] = heap[Rank(j)] BY <1>13, <4>2, <4>4
      <4>6. t.graph[j] = g[j] BY <1>4, <3>3
      <4> QED BY <3>1, <4>5, <4>6
    <3> QED BY <3>2, <3>3
  <2> QED BY <1>3, <1>11, <1>13, <2>1 DEF Holds
<1>16. Reached(pos', t.at) BY <1>5
<1> QED BY <1>4, <1>5, <1>8, <1>15, <1>16 DEF Between

(***************************************************************************)
(* What the caller does with a value is what the writer did                *)
(***************************************************************************)
LEMMA ReturnIs ==
  ASSUME Acts, pc = "return"
  PROVE  StoreKey \/ StoreValue \/ StoreSparse \/ StoreElement \/ AddMember
           \/ ReturnWrapped \/ ReturnRoot
<1>1. ~SkipPadding /\ ~ReadAtom /\ ~BeginWrapped /\ ~ReadReference
  BY DEF SkipPadding, ReadAtom, BeginWrapped, ReadReference, ReadingTag
<1>2. ~EndContainer /\ ~ReadErrorField /\ ~Malformed
  BY DEF EndContainer, ReadErrorField, Malformed
<1>3. \A c \in ContainerKinds : ~BeginContainer(c) BY DEF BeginContainer, ReadingTag
<1> QED BY <1>1, <1>2, <1>3, ActsIs

\* The step that takes a value that is returned.
LEMMA AtReturn ==
  ASSUME Acts, pc = "return"
  PROVE  /\ TopKind \in {"object", "map", "sparse"} /\ Top.key = NoValue => StoreKey
         /\ TopKind \in {"object", "map"} /\ Top.key # NoValue => StoreValue
         /\ TopKind = "sparse" /\ Top.key # NoValue => StoreSparse
         /\ TopKind = "dense" => StoreElement
         /\ TopKind = "set" => AddMember
         /\ TopKind = "none" => ReturnRoot
         /\ TopKind \in {"string", "regexp"} => ReturnWrapped
<1>1. StoreKey => TopKind \in {"object", "map", "sparse"} /\ Top.key = NoValue
  BY DEF StoreKey, Keyed
<1>2. StoreValue => TopKind \in {"object", "map"} /\ Top.key # NoValue BY DEF StoreValue
<1>3. StoreSparse => TopKind = "sparse" /\ Top.key # NoValue BY DEF StoreSparse
<1>4. StoreElement => TopKind = "dense" BY DEF StoreElement
<1>5. AddMember => TopKind = "set" BY DEF AddMember
<1>6. ReturnWrapped => TopKind \in {"string", "regexp"} BY DEF ReturnWrapped
<1>7. ReturnRoot => TopKind = "none" BY DEF ReturnRoot, TopKind
<1> QED BY <1>1, <1>2, <1>3, <1>4, <1>5, <1>6, <1>7, ReturnIs

\* The value v is taken by the innermost of the objects o, and the reader
\* has it as val.
Taking(b, s, t, g, o, v) ==
  /\ Chapter(b, s, t) /\ Completes(s, t, g, o, v) /\ o # <<>>
  /\ Reached(pos, t.at) /\ Matches(stack, g, o) /\ Holds(heap, g)
  /\ ReferencesAgree => val = AsPython(v)

\* The frame that takes a value stands for the object that it was written in.
LEMMA TakingTop ==
  ASSUME Typed, pc = "return", NEW b, NEW s, NEW t, NEW g, NEW o, NEW v, Taking(b, s, t, g, o, v)
  PROVE  /\ Top \in Frames /\ Stands(Top, Into(g, o), Last(o)) /\ stack # <<>>
         /\ TopKind = Into(g, o).kind /\ Top.kind = Into(g, o).kind
         /\ Top.kind \in ContainerKinds /\ Top.id = Rank(Last(o).id)
         /\ Items \in Seq(Members(Top.kind)) /\ val \in PythonValue /\ val # NoValue
         /\ Exact => Items = Part(Into(g, o))
         /\ Into(g, o) \in Nodes /\ Into(g, o).items \in Seq(Entries)
         /\ Len(Into(g, o).items) \in Nat /\ Into(g, o).len \in Nat
         /\ graph[Last(o).id].kind = Into(g, o).kind /\ Into(g, o) = g[Last(o).id]
         /\ Last(o).id \in 1..Len(graph) /\ Place(g, o, v) /\ v \in Values
<1>1. /\ Chapter(b, s, t) /\ Completes(s, t, g, o, v) /\ o # <<>> /\ Sound(s)
      /\ Matches(stack, g, o) /\ Holds(heap, g)
  BY DEF Taking, Chapter
<1>2. Shape(g, o) /\ v \in Values BY <1>1 DEF Completes
<1>3. /\ stack # <<>> /\ Top \in Frames /\ TopKind = Top.kind /\ Top.kind = Into(g, o).kind
      /\ Stands(Top, Into(g, o), Last(o)) /\ Top.kind \in ContainerKinds
  BY <1>1, <1>2, MatchTop
<1>4. Top.id = Rank(Last(o).id) BY <1>3 DEF Stands
<1>5. Items \in Seq(Members(Top.kind)) /\ val \in PythonValue BY <1>3, ReturnTop
<1>6. val # NoValue BY TypedIs
<1>7. Kindred(g) BY <1>1, TakenKindred
<1>8. Last(o).id \in 1..Len(g) /\ Into(g, o) = g[Last(o).id] /\ Into(g, o) \in Nodes
  BY <1>1, <1>2, TopIs DEF Into
<1>9. graph[Last(o).id].kind = Into(g, o).kind /\ Last(o).id \in 1..Len(graph)
  BY <1>7, <1>8 DEF Kindred
<1>10. Exact => Items = Part(Into(g, o))
  <2>1. IsContainer(Last(o).id) BY <1>3, <1>9 DEF IsContainer
  <2>2. Exact => heap[Rank(Last(o).id)].items = Part(g[Last(o).id])
    BY <1>1, <1>8, <2>1 DEF Holds
  <2> QED BY <1>4, <1>8, <2>2 DEF Items
<1>11. Place(g, o, v) BY <1>1, TakenPlace
<1>12. Into(g, o).items \in Seq(Entries) /\ Len(Into(g, o).items) \in Nat /\ Into(g, o).len \in Nat
  BY <1>8, NodeFields
<1> QED BY <1>2, <1>3, <1>4, <1>5, <1>6, <1>8, <1>9, <1>10, <1>11, <1>12

\* The innermost object after it has taken v.
LEMMA TakingNext ==
  ASSUME NEW b, NEW s, NEW t, NEW g, NEW o, NEW v, Taking(b, s, t, g, o, v)
  PROVE  /\ Last(t.open).id = Last(o).id
         /\ Last(t.open).key = IF WantsKey(g, o) THEN v ELSE NoValue
         /\ Into(t.graph, t.open).kind = Into(g, o).kind
         /\ Into(t.graph, t.open).len = Into(g, o).len
         /\ Into(t.graph, t.open).items =
              IF WantsKey(g, o) THEN Into(g, o).items ELSE Append(Into(g, o).items, Item(g, o, v))
         /\ Into(t.graph, t.open) \in Nodes
<1>1. Sound(s) /\ Completes(s, t, g, o, v) /\ o # <<>> /\ Sound(t) BY DEF Taking, Chapter
<1>2. Into(t.graph, t.open) \in Nodes
  <2>1. t.open # <<>> BY <1>1, TakenTop
  <2>2. Shape(t.graph, t.open) BY <1>1, SoundIs
  <2> QED BY <2>1, <2>2, TopIs
<1>3. Last(t.open).id = Last(o).id
  <2>1. Last(t.open) = t.open[Len(o)] /\ t.open[Len(o)].id = Last(o).id BY <1>1, TakenTop
  <2> QED BY <2>1
<1>4. Last(t.open).key = IF WantsKey(g, o) THEN v ELSE NoValue BY <1>1, TakenTop
<1>5. /\ Into(t.graph, t.open).kind = Into(g, o).kind
      /\ Into(t.graph, t.open).len = Into(g, o).len
  BY <1>1, TakenTop
<1>6. Into(t.graph, t.open).items =
        IF WantsKey(g, o) THEN Into(g, o).items ELSE Append(Into(g, o).items, Item(g, o, v))
  BY <1>1, TakenTop
<1> QED BY <1>2, <1>3, <1>4, <1>5, <1>6

\* A member is behind those there were.
LEMMA TakingMember ==
  ASSUME NEW b, NEW s, NEW t, NEW g, NEW o, NEW v, Taking(b, s, t, g, o, v),
         ~WantsKey(g, o), NEW w, Item(g, o, v) = w
  PROVE  /\ Last(t.open).id = Last(o).id /\ Last(t.open).key = NoValue
         /\ Into(t.graph, t.open).kind = Into(g, o).kind
         /\ Into(t.graph, t.open).len = Into(g, o).len
         /\ Into(t.graph, t.open).items = Append(Into(g, o).items, w)
         /\ Into(t.graph, t.open) \in Nodes
<1>1. /\ Last(t.open).id = Last(o).id
      /\ Last(t.open).key = IF WantsKey(g, o) THEN v ELSE NoValue
      /\ Into(t.graph, t.open).kind = Into(g, o).kind
      /\ Into(t.graph, t.open).len = Into(g, o).len
      /\ Into(t.graph, t.open).items =
           IF WantsKey(g, o) THEN Into(g, o).items ELSE Append(Into(g, o).items, Item(g, o, v))
      /\ Into(t.graph, t.open) \in Nodes
  BY TakingNext
<1> QED BY <1>1

\* A member that is stored where it was written takes the reader to the next
\* moment.
LEMMA TakingGoesOn ==
  ASSUME Typed, NEW b, NEW s, NEW t, NEW g, NEW o, NEW v, Taking(b, s, t, g, o, v),
         NEW f \in Frames, NEW items, Continues(f, items),
         Stands(f, Into(t.graph, t.open), Last(t.open)),
         Exact => items = Part(Into(t.graph, t.open))
  PROVE  Advances(b, s, t, pc', pos', stack', heap', val', raised')
<1>1. /\ Chapter(b, s, t) /\ Completes(s, t, g, o, v) /\ o # <<>>
      /\ Reached(pos, t.at) /\ Matches(stack, g, o) /\ Holds(heap, g)
  BY DEF Taking
<1>2. pc' = "read" /\ t.open # <<>> /\ Between(pos', stack', heap', t) BY <1>1, Continued
<1> QED BY <1>2 DEF Advances

\* StoreKey takes the reader to the next moment.
LEMMA StoreKeyGoesOn ==
  ASSUME Typed, pc = "return", NEW b, NEW s, NEW t, NEW g, NEW o, NEW v,
         Taking(b, s, t, g, o, v), StoreKey
  PROVE  Advances(b, s, t, pc', pos', stack', heap', val', raised')
<1> DEFINE f == [Top EXCEPT !.key = val]
           m == Into(t.graph, t.open)
           e == Last(t.open)
<1>1. TopKind \in Keyed /\ Top.key = NoValue /\ Continues(f, Items) BY DEF StoreKey
<1>2. /\ Top \in Frames /\ Stands(Top, Into(g, o), Last(o))
      /\ TopKind = Into(g, o).kind /\ val \in PythonValue /\ val # NoValue
      /\ Exact => Items = Part(Into(g, o))
      /\ v \in Values
  BY TakingTop
<1>3. WantsKey(g, o)
  <2>1. Last(o).key = NoValue BY <1>1, <1>2 DEF Stands
  <2> QED BY <1>1, <1>2, <2>1 DEF WantsKey, Taking
<1>4. /\ e.id = Last(o).id /\ e.key = v /\ m.kind = Into(g, o).kind /\ m.len = Into(g, o).len
      /\ m.items = Into(g, o).items /\ m \in Nodes
  BY <1>3, TakingNext
<1>5. /\ f \in Frames /\ f.id = Top.id /\ f.kind = Top.kind /\ f.left = Top.left /\ f.key = val
  BY <1>2, FrameChanges
<1>6. v # NoValue BY <1>2, ValueForms
<1>7. ReferencesAgree => val = AsPython(v) BY DEF Taking
<1> HIDE DEF f, m, e
<1>8. Stands(f, m, e) BY <1>2, <1>4, <1>5, <1>6, <1>7 DEF Stands
<1>9. Exact => Items = Part(m)
  <2>1. Part(m) = Part(Into(g, o)) BY <1>4 DEF Part, ItemsAsPython
  <2> QED BY <1>2, <2>1
<1> QED BY <1>1, <1>5, <1>8, <1>9, TakingGoesOn DEF m, e

\* StoreElement does.
LEMMA StoreElementGoesOn ==
  ASSUME Typed, pc = "return", NEW b, NEW s, NEW t, NEW g, NEW o, NEW v,
         Taking(b, s, t, g, o, v), StoreElement
  PROVE  Advances(b, s, t, pc', pos', stack', heap', val', raised')
<1> DEFINE f == [Top EXCEPT !.left = @ - 1]
           items == [Items EXCEPT ![Len(Items) - Top.left + 1] = val]
           m == Into(t.graph, t.open)
           e == Last(t.open)
           n == Into(g, o)
           k == Len(n.items)
<1>1. TopKind = "dense" /\ Continues(f, items) BY DEF StoreElement
<1>2. /\ Top \in Frames /\ Stands(Top, n, Last(o))
      /\ TopKind = n.kind /\ n.items \in Seq(Entries) /\ k \in Nat /\ n.len \in Nat
      /\ Exact => Items = Part(n)
  BY TakingTop
<1>3. "dense" \notin Keyed BY DEF Keyed
<1>4. ~WantsKey(g, o) /\ Item(g, o, v) = v BY <1>1, <1>2, <1>3 DEF WantsKey, Item
<1>5. /\ e.id = Last(o).id /\ e.key = NoValue /\ m.kind = n.kind /\ m.len = n.len
      /\ m.items = Append(n.items, v) /\ m \in Nodes
  BY <1>4, TakingMember
<1>6. /\ f \in Frames /\ f.id = Top.id /\ f.kind = Top.kind /\ f.left = Top.left - 1
      /\ f.key = Top.key
  BY <1>2, FrameChanges
<1>7. Last(o).key = NoValue
  <2>1. Shape(g, o) /\ o # <<>> BY DEF Taking, Completes
  <2>2. FrameSound(g, o, Len(o)) /\ Last(o) = o[Len(o)] BY <2>1, TopIs DEF Shape
  <2> QED BY <1>1, <1>2, <1>3, <2>2 DEF FrameSound, Into
<1>8. /\ Len(m.items) = k + 1 /\ m.items[k + 1] = v
      /\ \A j \in 1..k : m.items[j] = n.items[j]
  BY <1>2, <1>5, AppendProperties
<1>9. k < n.len
  <2>1. Room(g, o) /\ o # <<>> BY DEF Taking, Completes
  <2> QED BY <1>1, <1>2, <2>1 DEF Room
<1>10. ReferencesAgree => val = AsPython(v) BY DEF Taking
<1> HIDE DEF f, m, e, n, k
<1>11. Top.left = n.len - k /\ Top.key = NoValue BY <1>1, <1>2, <1>7 DEF Stands, k
<1>12. f.left = m.len - Len(m.items) BY <1>2, <1>5, <1>6, <1>8, <1>11
<1>13. Stands(f, m, e) BY <1>2, <1>5, <1>6, <1>11, <1>12 DEF Stands
<1>14. ASSUME Exact PROVE items = Part(m)
  <2>1. val = AsPython(v) BY <1>10, <1>14 DEF Exact
  <2>2. Part(m) = [i \in 1..n.len |-> IF i <= k + 1 THEN AsPython(m.items[i]) ELSE None]
    BY <1>1, <1>2, <1>5, <1>8 DEF Part
  <2>3. Items = [i \in 1..n.len |-> IF i <= k THEN AsPython(n.items[i]) ELSE None]
    BY <1>1, <1>2, <1>14 DEF Part, k
  <2>4. Len(Items) = n.len BY <1>2, <2>3
  <2>5. Len(Items) - Top.left + 1 = k + 1 /\ k + 1 \in 1..n.len BY <1>2, <1>9, <1>11, <2>4
  <2>6. items = [i \in 1..n.len |-> IF i = k + 1 THEN val ELSE Items[i]] BY <2>3, <2>5
  <2> HIDE DEF items
  <2>7. ASSUME NEW i \in 1..n.len
        PROVE  (IF i = k + 1 THEN val ELSE Items[i])
                 = IF i <= k + 1 THEN AsPython(m.items[i]) ELSE None
    <3>1. CASE i = k + 1 BY <1>8, <2>1, <3>1
    <3>2. CASE i <= k BY <1>2, <1>8, <2>3, <3>2
    <3>3. CASE i > k + 1 BY <1>2, <2>3, <3>3
    <3> QED BY <1>2, <3>1, <3>2, <3>3
  <2> QED BY <2>2, <2>6, <2>7
<1> HIDE DEF items
<1> QED BY <1>1, <1>6, <1>13, <1>14, TakingGoesOn DEF m, e

\* StoreSparse does.
LEMMA StoreSparseGoesOn ==
  ASSUME Typed, pc = "return", NEW b, NEW s, NEW t, NEW g, NEW o, NEW v,
         Taking(b, s, t, g, o, v), StoreSparse
  PROVE  Advances(b, s, t, pc', pos', stack', heap', val', raised')
<1> DEFINE f == [Top EXCEPT !.key = NoValue]
           items == [i \in DOMAIN Items |->
                       IF Top.key[1] \in {"int", "bool"} /\ Top.key[2] = i - 1 THEN val
                       ELSE Items[i]]
           m == Into(t.graph, t.open)
           e == Last(t.open)
           n == Into(g, o)
           w == <<Last(o).key, v>>
<1>1. TopKind = "sparse" /\ Top.key # NoValue /\ Continues(f, items) BY DEF StoreSparse
<1>2. /\ Top \in Frames /\ Stands(Top, n, Last(o))
      /\ TopKind = n.kind /\ n.items \in Seq(Entries) /\ n.len \in Nat
      /\ Exact => Items = Part(n)
  BY TakingTop
<1>3. Last(o).key # NoValue BY <1>1, <1>2 DEF Stands
<1>4. ~WantsKey(g, o) /\ Item(g, o, v) = w BY <1>1, <1>2, <1>3 DEF WantsKey, Item, Keyed
<1>5. /\ e.id = Last(o).id /\ e.key = NoValue /\ m.kind = n.kind /\ m.len = n.len
      /\ m.items = Append(n.items, w) /\ m \in Nodes
  BY <1>4, TakingMember
<1>6. /\ f \in Frames /\ f.id = Top.id /\ f.kind = Top.kind /\ f.left = Top.left
      /\ f.key = NoValue
  BY <1>2, FrameChanges
<1>7. Last(o).key = Prim("one") /\ n.items = <<>>
  <2>1. Shape(g, o) /\ o # <<>> BY DEF Taking, Completes
  <2>2. FrameSound(g, o, Len(o)) /\ Last(o) = o[Len(o)] BY <2>1, TopIs DEF Shape
  <2> QED BY <1>1, <1>2, <1>3, <2>2 DEF FrameSound, Into
<1>8. ReferencesAgree => val = AsPython(v) BY DEF Taking
<1>9. w[2] = v /\ m.items = <<w>> BY <1>5, <1>7
<1> HIDE DEF f, m, e, n, w
<1>10. Stands(f, m, e) BY <1>1, <1>2, <1>5, <1>6 DEF Stands
<1>11. ASSUME Exact PROVE items = Part(m)
  <2>1. val = AsPython(v) BY <1>8, <1>11 DEF Exact
  <2>2. Top.key = <<"int", 1>>
    <3>1. Top.key = AsPython(Prim("one")) BY <1>2, <1>3, <1>7, <1>11 DEF Stands, Exact
    <3> QED BY <3>1, PythonIs DEF AsPython, Prim
  <2>3. Part(m) =
          [i \in 1..n.len |-> IF i = 2 /\ m.items # <<>> THEN AsPython(m.items[1][2]) ELSE None]
    BY <1>1, <1>2, <1>5 DEF Part, ItemsAsPython
  <2>4. Items =
          [i \in 1..n.len |-> IF i = 2 /\ n.items # <<>> THEN AsPython(n.items[1][2]) ELSE None]
    BY <1>1, <1>2, <1>11 DEF Part, ItemsAsPython
  <2>5. Items = [i \in 1..n.len |-> None] BY <1>7, <2>4
  <2>6. m.items # <<>> /\ m.items[1] = w BY <1>9
  <2>7. Part(m) = [i \in 1..n.len |-> IF i = 2 THEN val ELSE None] BY <1>9, <2>1, <2>3, <2>6
  <2>8. items = [i \in 1..n.len |-> IF 1 = i - 1 THEN val ELSE None] BY <2>2, <2>5
  <2> HIDE DEF items
  <2>9. \A i \in 1..n.len : 1 = i - 1 <=> i = 2 OBVIOUS
  <2> QED BY <2>7, <2>8, <2>9
<1> HIDE DEF items
<1> QED BY <1>1, <1>6, <1>10, <1>11, TakingGoesOn DEF m, e

\* A sequence with one more member, as a function.
LEMMA AppendedIs ==
  ASSUME NEW S, NEW q \in Seq(S), NEW x \in S, NEW k \in Nat, Len(q) = k
  PROVE  Append(q, x) = [i \in 1..k + 1 |-> IF i = k + 1 THEN x ELSE q[i]]
<1> DEFINE w == Append(q, x)
<1>1. w \in Seq(S) /\ Len(w) = k + 1 /\ w[k + 1] = x /\ \A i \in 1..k : w[i] = q[i]
  BY AppendProperties
<1> HIDE DEF w
<1>2. w = [i \in 1..k + 1 |-> w[i]] BY <1>1
<1>3. \A i \in 1..k + 1 : w[i] = IF i = k + 1 THEN x ELSE q[i]
  <2>1. \A i \in 1..k + 1 : i = k + 1 \/ i \in 1..k OBVIOUS
  <2>2. \A i \in 1..k : i # k + 1 OBVIOUS
  <2> QED BY <1>1, <2>1, <2>2
<1>4. w = [i \in 1..k + 1 |-> IF i = k + 1 THEN x ELSE q[i]] BY <1>2, <1>3
<1> QED BY <1>4 DEF w

\* What stands for a key: of the entry that is complete, or a member of a set.
LEMMA KeyWritten ==
  ASSUME Typed, pc = "return", NEW b, NEW s, NEW t, NEW g, NEW o, NEW v,
         Taking(b, s, t, g, o, v), ~WantsKey(g, o),
         Into(g, o).kind \in {"object", "map", "set"}, NEW w,
         w = IF Into(g, o).kind = "set" THEN v ELSE Last(o).key
  PROVE  /\ KeysHashable => Hashable(AsPython(w))
         /\ KeysDiffer => \A j \in 1..Len(Into(g, o).items) :
              ~Same(AsPython(IF Into(g, o).kind = "set" THEN Into(g, o).items[j]
                             ELSE Into(g, o).items[j][1]), AsPython(w))
<1> DEFINE n == Into(g, o)
           id == Last(o).id
           k == Len(n.items)
           K == KeysWritten(graph[id])
<1>1. /\ n.items \in Seq(Entries) /\ k \in Nat /\ graph[id].kind = n.kind /\ n = g[id]
      /\ id \in 1..Len(graph) /\ Place(g, o, v)
  BY TakingTop
<1>2. DOMAIN graph = 1..Len(graph) /\ graph \in Seq(Nodes)
  <2>1. Chapter(b, s, t) BY DEF Taking
  <2> QED BY <2>1, ChapterIs
<1>3. graph[id].items \in Seq(Entries) /\ DOMAIN graph[id].items = 1..Len(graph[id].items)
  <2>1. graph[id] \in Nodes BY <1>1, <1>2, ElementOfSeq
  <2>2. graph[id].items \in Seq(Entries) BY <2>1, NodeFields
  <2> QED BY <2>2, LenProperties
<1>4. /\ k + 1 \in 1..Len(graph[id].items)
      /\ \A j \in 1..k : graph[id].items[j] = n.items[j]
      /\ graph[id].items[k + 1] = Item(g, o, v)
  BY <1>1 DEF Place
<1>5. \A j \in 1..k : j \in 1..Len(graph[id].items) /\ j # k + 1 BY <1>1, <1>4
<1> HIDE DEF n, id, k
<1>6. /\ k + 1 \in DOMAIN K /\ K[k + 1] = w
      /\ \A j \in 1..k : j \in DOMAIN K
           /\ K[j] = IF n.kind = "set" THEN n.items[j] ELSE n.items[j][1]
  <2>1. CASE n.kind = "set"
    <3>1. "set" \notin Keyed BY DEF Keyed
    <3>2. K = graph[id].items BY <1>1, <2>1, <3>1 DEF KeysWritten
    <3>3. Item(g, o, v) = v BY <2>1, <3>1 DEF Item, n
    <3>4. w = v BY <2>1 DEF n
    <3> HIDE DEF K
    <3> QED BY <1>3, <1>4, <1>5, <2>1, <3>2, <3>3, <3>4
  <2>2. CASE n.kind \in {"object", "map"}
    <3>1. n.kind \in Keyed BY <2>2 DEF Keyed
    <3>2. K = [i \in DOMAIN graph[id].items |-> graph[id].items[i][1]]
      BY <1>1, <3>1 DEF KeysWritten
    <3>3. Item(g, o, v) = <<w, v>> BY <2>2, <3>1 DEF Item, n
    <3>4. <<w, v>>[1] = w OBVIOUS
    <3> HIDE DEF K
    <3> QED BY <1>3, <1>4, <1>5, <2>2, <3>2, <3>3, <3>4
  <2> QED BY <2>1, <2>2 DEF n
<1>7. id \in DOMAIN graph /\ graph[id].kind # "sparse" BY <1>1, <1>2 DEF n
<1>8. KeysHashable => Hashable(AsPython(w))
  <2>1. KeysHashable => Hashable(AsPython(K[k + 1])) BY <1>6, <1>7 DEF KeysHashable
  <2> HIDE DEF K
  <2> QED BY <1>6, <2>1
<1>9. KeysDiffer => \A j \in 1..k : ~Same(AsPython(K[j]), AsPython(K[k + 1]))
  BY <1>5, <1>6, <1>7 DEF KeysDiffer
<1> HIDE DEF K
<1>10. KeysDiffer => \A j \in 1..k :
         ~Same(AsPython(IF n.kind = "set" THEN n.items[j] ELSE n.items[j][1]), AsPython(w))
  BY <1>6, <1>9
<1> QED BY <1>8, <1>10 DEF n, k

\* An exception that has its reason is in every chapter.
LEMMA RaisesWithin ==
  ASSUME NEW x, Raises(x), Right(x)
  PROVE  \A b, s, t : Advances(b, s, t, pc', pos', stack', heap', val', raised')
BY DEF Raises, Advances, Within

\* AddMember takes the reader to the next moment, or raises what it may.
LEMMA AddMemberGoesOn ==
  ASSUME Typed, pc = "return", NEW b, NEW s, NEW t, NEW g, NEW o, NEW v,
         Taking(b, s, t, g, o, v), AddMember
  PROVE  Advances(b, s, t, pc', pos', stack', heap', val', raised')
<1> DEFINE more == Append(Items, val)
           found == \E i \in DOMAIN Items : Same(Items[i], val)
           items == IF found THEN Items ELSE more
           m == Into(t.graph, t.open)
           e == Last(t.open)
           n == Into(g, o)
           k == Len(n.items)
<1>1. TopKind = "set" BY DEF AddMember
<1>2. /\ Top \in Frames /\ Stands(Top, n, Last(o))
      /\ TopKind = n.kind /\ n.items \in Seq(Entries) /\ k \in Nat /\ n.len \in Nat
      /\ Exact => Items = Part(n)
  BY TakingTop
<1>3. "set" \notin Keyed BY DEF Keyed
<1>4. ~WantsKey(g, o) /\ Item(g, o, v) = v BY <1>1, <1>2, <1>3 DEF WantsKey, Item
<1>5. /\ e.id = Last(o).id /\ e.key = NoValue /\ m.kind = n.kind /\ m.len = n.len
      /\ m.items = Append(n.items, v) /\ m \in Nodes
  BY <1>4, TakingMember
<1>6. Last(o).key = NoValue
  <2>1. Shape(g, o) /\ o # <<>> BY DEF Taking, Completes
  <2>2. FrameSound(g, o, Len(o)) /\ Last(o) = o[Len(o)] BY <2>1, TopIs DEF Shape
  <2> QED BY <1>1, <1>2, <1>3, <2>2 DEF FrameSound, Into
<1>7. /\ Len(m.items) = k + 1 /\ m.items[k + 1] = v /\ DOMAIN m.items = 1..k + 1
      /\ \A j \in 1..k : m.items[j] = n.items[j]
      /\ DOMAIN n.items = 1..k
  BY <1>2, <1>5, AppendProperties, LenProperties
<1>8. ReferencesAgree => val = AsPython(v) BY DEF Taking
<1>9. n.kind = "set" BY <1>1, <1>2
<1>10. /\ KeysHashable => Hashable(AsPython(v))
       /\ KeysDiffer => \A j \in 1..k : ~Same(AsPython(n.items[j]), AsPython(v))
  <2>1. n.kind \in {"object", "map", "set"} BY <1>9
  <2>2. PICK w : w = v OBVIOUS
  <2>3. w = IF n.kind = "set" THEN v ELSE Last(o).key BY <1>9, <2>2
  <2>4. KeysHashable => Hashable(AsPython(w)) BY <1>4, <2>1, <2>3, KeyWritten
  <2>5. KeysDiffer => \A j \in 1..Len(Into(g, o).items) :
              ~Same(AsPython(IF Into(g, o).kind = "set" THEN Into(g, o).items[j]
                             ELSE Into(g, o).items[j][1]), AsPython(w))
    BY <1>4, <2>1, <2>3, KeyWritten
  <2> QED BY <1>9, <2>2, <2>4, <2>5
<1>11. CASE ~Hashable(val)
  <2>1. Raises("TypeError") BY <1>11 DEF AddMember
  <2>2. Right("TypeError") BY <1>8, <1>10, <1>11 DEF Right
  <2> QED BY <2>1, <2>2, RaisesWithin
<1>12. CASE Hashable(val)
  <2>1. Continues(Top, items) BY <1>12 DEF AddMember
  <2> HIDE DEF m, e, n, k
  <2>2. Stands(Top, m, e) BY <1>1, <1>2, <1>3, <1>5, <1>6 DEF Stands
  <2>3. ASSUME Exact PROVE items = Part(m)
    <3>1. val = AsPython(v) BY <1>8, <2>3 DEF Exact
    <3>2. Part(m) = [i \in 1..k + 1 |-> AsPython(m.items[i])]
      BY <1>1, <1>2, <1>5, <1>7 DEF Part, ItemsAsPython
    <3>3. Items = [i \in 1..k |-> AsPython(n.items[i])]
      BY <1>1, <1>2, <1>7, <2>3 DEF Part, ItemsAsPython
    <3>4. \A j \in 1..k : ~Same(AsPython(n.items[j]), val) BY <1>10, <2>3, <3>1 DEF Exact
    <3>5. ~found BY <3>3, <3>4
    <3>6. items = more BY <3>5
    <3>8. more = [i \in 1..k + 1 |-> IF i = k + 1 THEN val ELSE Items[i]]
      <4>1. Len(Items) = k BY <1>2, <3>3
      <4>2. Items \in Seq(PythonValue) /\ val \in PythonValue
        <5>1. Items \in Seq(Members(Top.kind)) /\ val \in PythonValue /\ Top.kind = "set"
          BY <1>1, TakingTop
        <5> QED BY <5>1 DEF Members
      <4> QED BY <1>2, <4>1, <4>2, AppendedIs
    <3> HIDE DEF more
    <3>7. \A i \in 1..k + 1 : more[i] = AsPython(m.items[i])
      <4>2. more = [i \in 1..k + 1 |-> IF i = k + 1 THEN val ELSE Items[i]] BY <3>8
      <4>3. \A i \in 1..k + 1 : i = k + 1 \/ i \in 1..k BY <1>2
      <4> QED BY <1>7, <3>1, <3>3, <4>2, <4>3
    <3> HIDE DEF more, found, items
    <3> QED BY <3>2, <3>6, <3>7, <3>8
  <2> HIDE DEF items
  <2> QED BY <1>2, <2>1, <2>2, <2>3, TakingGoesOn DEF m, e
<1> QED BY <1>11, <1>12

\* StoreValue does.
LEMMA StoreValueGoesOn ==
  ASSUME Typed, pc = "return", NEW b, NEW s, NEW t, NEW g, NEW o, NEW v,
         Taking(b, s, t, g, o, v), StoreValue
  PROVE  Advances(b, s, t, pc', pos', stack', heap', val', raised')
<1> DEFINE f == [Top EXCEPT !.key = NoValue]
           old == {i \in DOMAIN Items : Same(Items[i][1], Top.key)}
           more == Append(Items, <<Top.key, val>>)
           items == IF old = {} THEN more
                    ELSE [i \in DOMAIN Items |->
                            IF i \in old THEN <<Items[i][1], val>> ELSE Items[i]]
           m == Into(t.graph, t.open)
           e == Last(t.open)
           n == Into(g, o)
           k == Len(n.items)
           key == Last(o).key
           w == <<key, v>>
<1>1. TopKind \in {"object", "map"} /\ Top.key # NoValue BY DEF StoreValue
<1>2. /\ Top \in Frames /\ Stands(Top, n, Last(o))
      /\ TopKind = n.kind /\ n.items \in Seq(Entries) /\ k \in Nat /\ n.len \in Nat
      /\ Exact => Items = Part(n)
  BY TakingTop
<1>3. key # NoValue BY <1>1, <1>2 DEF Stands
<1>4. ~WantsKey(g, o) /\ Item(g, o, v) = w BY <1>1, <1>2, <1>3 DEF WantsKey, Item, Keyed
<1>5. /\ e.id = Last(o).id /\ e.key = NoValue /\ m.kind = n.kind /\ m.len = n.len
      /\ m.items = Append(n.items, w) /\ m \in Nodes
  BY <1>4, TakingMember
<1>6. /\ f \in Frames /\ f.id = Top.id /\ f.kind = Top.kind /\ f.left = Top.left
      /\ f.key = NoValue
  BY <1>2, FrameChanges
<1>7. /\ Len(m.items) = k + 1 /\ m.items[k + 1] = w /\ DOMAIN m.items = 1..k + 1
      /\ \A j \in 1..k : m.items[j] = n.items[j]
      /\ DOMAIN n.items = 1..k
  BY <1>2, <1>5, AppendProperties, LenProperties
<1>8. ReferencesAgree => val = AsPython(v) /\ Top.key = AsPython(key)
  <2>1. ReferencesAgree => Top.key = AsPython(key) BY <1>2, <1>3 DEF Stands
  <2> QED BY <2>1 DEF Taking
<1>9. n.kind \in {"object", "map"} /\ n.kind # "set" BY <1>1, <1>2
<1>10. /\ KeysHashable => Hashable(AsPython(key))
       /\ KeysDiffer => \A j \in 1..k : ~Same(AsPython(n.items[j][1]), AsPython(key))
  <2>1. n.kind \in {"object", "map", "set"} BY <1>9
  <2>2. PICK u : u = key OBVIOUS
  <2>3. u = IF n.kind = "set" THEN v ELSE Last(o).key BY <1>9, <2>2
  <2>4. KeysHashable => Hashable(AsPython(u)) BY <1>4, <2>1, <2>3, KeyWritten
  <2>5. KeysDiffer => \A j \in 1..Len(Into(g, o).items) :
              ~Same(AsPython(IF Into(g, o).kind = "set" THEN Into(g, o).items[j]
                             ELSE Into(g, o).items[j][1]), AsPython(u))
    BY <1>4, <2>1, <2>3, KeyWritten
  <2> HIDE DEF key
  <2> QED BY <1>9, <2>2, <2>4, <2>5
<1>11. CASE ~Hashable(Top.key)
  <2>1. Raises("TypeError") BY <1>11 DEF StoreValue
  <2>2. Right("TypeError") BY <1>8, <1>10, <1>11 DEF Right
  <2> QED BY <2>1, <2>2, RaisesWithin
<1>12. CASE Hashable(Top.key)
  <2>1. Continues(f, items) BY <1>12 DEF StoreValue
  <2>0. w[1] = key /\ w[2] = v OBVIOUS
  <2> HIDE DEF m, e, n, k, w, key, f
  <2>2. Stands(f, m, e) BY <1>1, <1>2, <1>5, <1>6 DEF Stands
  <2>3. ASSUME Exact PROVE items = Part(m)
    <3>1. val = AsPython(v) /\ Top.key = AsPython(key) BY <1>8, <2>3 DEF Exact
    <3>2. Part(m) = [i \in 1..k + 1 |-> <<AsPython(m.items[i][1]), AsPython(m.items[i][2])>>]
      BY <1>1, <1>2, <1>5, <1>7 DEF Part, ItemsAsPython
    <3>3. Items = [i \in 1..k |-> <<AsPython(n.items[i][1]), AsPython(n.items[i][2])>>]
      BY <1>1, <1>2, <1>7, <2>3 DEF Part, ItemsAsPython
    <3>4. \A j \in 1..k : ~Same(AsPython(n.items[j][1]), Top.key)
      BY <1>10, <2>3, <3>1 DEF Exact
    <3>5. old = {}
      <4>1. DOMAIN Items = 1..k /\ \A i \in 1..k : Items[i][1] = AsPython(n.items[i][1]) BY <3>3
      <4> QED BY <3>4, <4>1
    <3> HIDE DEF old
    <3>6. items = more BY <3>5
    <3> DEFINE pair == <<Top.key, val>>
    <3>8. more = [i \in 1..k + 1 |-> IF i = k + 1 THEN pair ELSE Items[i]]
      <4>1. Len(Items) = k BY <1>2, <3>3
      <4>2. Items \in Seq(PythonValue \X PythonValue) /\ pair \in PythonValue \X PythonValue
        <5>1. /\ Items \in Seq(Members(Top.kind)) /\ val \in PythonValue
              /\ Top.kind \in {"object", "map"}
          BY <1>1, TakingTop
        <5>2. Top.key \in PythonValue BY <1>1, <1>2 DEF Frames
        <5> QED BY <5>1, <5>2 DEF Members
      <4> QED BY <1>2, <4>1, <4>2, AppendedIs
    <3> HIDE DEF more
    <3>7. \A i \in 1..k + 1 : more[i] = <<AsPython(m.items[i][1]), AsPython(m.items[i][2])>>
      <4>2. more = [i \in 1..k + 1 |-> IF i = k + 1 THEN pair ELSE Items[i]] BY <3>8
      <4>3. pair = <<AsPython(w[1]), AsPython(w[2])>> BY <2>0, <3>1
      <4> HIDE DEF more, pair
      <4>4. \A i \in 1..k + 1 : i = k + 1 \/ i \in 1..k BY <1>2
      <4>5. k + 1 \notin 1..k BY <1>2
      <4>6. more[k + 1] = <<AsPython(m.items[k + 1][1]), AsPython(m.items[k + 1][2])>>
        BY <1>2, <1>7, <4>2, <4>3
      <4>7. ASSUME NEW i \in 1..k
            PROVE  more[i] = <<AsPython(m.items[i][1]), AsPython(m.items[i][2])>>
        <5>1. i # k + 1 /\ i \in 1..k + 1 BY <1>2, <4>5
        <5>2. more[i] = Items[i] BY <4>2, <5>1
        <5>3. m.items[i] = n.items[i] BY <1>7
        <5> QED BY <3>3, <5>2, <5>3
      <4> QED BY <4>4, <4>6, <4>7
    <3> HIDE DEF more, items
    <3> QED BY <3>2, <3>6, <3>7, <3>8
  <2> HIDE DEF items
  <2> QED BY <1>6, <2>1, <2>2, <2>3, TakingGoesOn DEF m, e
<1> QED BY <1>11, <1>12

\* The outermost value is returned: it is what was written.
LEMMA RootReturned ==
  ASSUME Typed, Acts, pc = "return", NEW b, NEW s, NEW t, Chapter(b, s, t),
         NEW g, NEW w, Completes(s, t, g, <<>>, w), Matches(stack, g, <<>>), Holds(heap, g),
         ReferencesAgree => val = AsPython(w)
  PROVE  Advances(b, s, t, pc', pos', stack', heap', val', raised')
<1>1. PICK o : o = <<>> OBVIOUS
<1>2. Completes(s, t, g, o, w) /\ Matches(stack, g, o) BY <1>1
<1>3. Shape(g, o) BY <1>2 DEF Completes
<1>4. ReturnRoot
  <2>1. TopKind = "none" BY <1>1, <1>2, <1>3, MatchTop
  <2> QED BY <2>1, AtReturn
<1>5. root = w /\ graph = g
  <2>1. IF o = <<>> THEN root = w /\ graph = g /\ t = Final(b) ELSE Place(g, o, w)
    BY <1>2, TakenPlace
  <2> QED BY <1>1, <2>1
<1>6. pc' = "done" /\ heap' = heap /\ val' = val BY <1>4 DEF ReturnRoot
<1>7. ASSUME NEW id \in 1..Len(g), g[id].kind = "dense" PROVE Len(g[id].items) = g[id].len
  <2>1. Closed(g, o) BY <1>3 DEF Shape
  <2>2. \A i \in 1..Len(o) : o[i].id # id BY <1>1
  <2> QED BY <1>7, <2>1, <2>2 DEF Closed
<1>8. ASSUME NEW id \in 1..Len(g) PROVE Part(g[id]) = ItemsAsPython(g[id])
  <2>1. CASE g[id].kind = "dense"
    <3>1. g[id] \in Nodes BY <1>3, ElementOfSeq DEF Shape
    <3>2. g[id].items \in Seq(Entries) /\ Len(g[id].items) \in Nat BY <3>1, NodeFields
    <3>3. DOMAIN g[id].items = 1..Len(g[id].items) BY <3>2, LenProperties
    <3>4. ItemsAsPython(g[id]) = [i \in 1..g[id].len |-> AsPython(g[id].items[i])]
      BY <1>7, <2>1, <3>3 DEF ItemsAsPython
    <3>5. Part(g[id]) = [i \in 1..g[id].len |-> IF i <= g[id].len THEN AsPython(g[id].items[i])
                                                ELSE None]
      BY <1>7, <2>1 DEF Part
    <3>6. \A i \in 1..g[id].len : i <= g[id].len OBVIOUS
    <3> QED BY <3>4, <3>5, <3>6
  <2>2. CASE g[id].kind # "dense" BY <2>2 DEF Part
  <2> QED BY <2>1, <2>2
<1>9. DoneRight(heap, val)
  <2>1. ASSUME Exact
        PROVE  /\ val = AsPython(root) /\ Len(heap) = Rank(Len(graph))
               /\ \A id \in 1..Len(graph) : IsContainer(id) =>
                    /\ heap[Rank(id)].kind = graph[id].kind
                    /\ heap[Rank(id)].items = ItemsAsPython(graph[id])
    <3>1. val = AsPython(root) BY <1>5, <2>1 DEF Exact
    <3>2. Len(heap) = Rank(Len(graph)) BY <1>5 DEF Holds
    <3>3. ASSUME NEW id \in 1..Len(graph), IsContainer(id)
          PROVE  /\ heap[Rank(id)].kind = graph[id].kind
                 /\ heap[Rank(id)].items = ItemsAsPython(graph[id])
      <4>1. heap[Rank(id)].kind = g[id].kind /\ heap[Rank(id)].items = Part(g[id])
        BY <1>5, <2>1, <3>3 DEF Holds
      <4> QED BY <1>5, <1>8, <4>1
    <3> QED BY <3>1, <3>2, <3>3
  <2> QED BY <2>1 DEF DoneRight
<1> QED BY <1>6, <1>9 DEF Advances, Within

\* With a value in hand, the reader goes to the next moment, ends, or raises
\* what it may.
LEMMA ReturningGoesOn ==
  ASSUME Typed, Acts, pc = "return", NEW b, NEW s, NEW t, Chapter(b, s, t),
         Returning(pos, stack, heap, val, s, t)
  PROVE  Advances(b, s, t, pc', pos', stack', heap', val', raised')
<1>1. PICK g, o, w :
        /\ Completes(s, t, g, o, w)
        /\ o # <<>> => Reached(pos, t.at)
        /\ Matches(stack, g, o) /\ Holds(heap, g)
        /\ ReferencesAgree => val = AsPython(w)
  BY DEF Returning
<1>2. CASE o = <<>> BY <1>1, <1>2, RootReturned
<1>3. CASE o # <<>>
  <2>1. Taking(b, s, t, g, o, w) BY <1>1, <1>3 DEF Taking
  <2>2. Top.kind \in ContainerKinds /\ TopKind = Top.kind BY <2>1, TakingTop
  <2>3. TopKind \in {"object", "sparse", "dense", "map", "set"} BY <2>2, KindsApart
  <2>4. CASE StoreKey BY <2>1, <2>4, StoreKeyGoesOn
  <2>5. CASE StoreValue BY <2>1, <2>5, StoreValueGoesOn
  <2>6. CASE StoreSparse BY <2>1, <2>6, StoreSparseGoesOn
  <2>7. CASE StoreElement BY <2>1, <2>7, StoreElementGoesOn
  <2>8. CASE AddMember BY <2>1, <2>8, AddMemberGoesOn
  <2> QED BY <2>3, <2>4, <2>5, <2>6, <2>7, <2>8, AtReturn
<1> QED BY <1>2, <1>3

(***************************************************************************)
(* What the reader reads is what the writer wrote                          *)
(***************************************************************************)
\* Every value that is taken is one of those written.
LEMMA TakenValue ==
  ASSUME NEW b, NEW s, NEW t, Chapter(b, s, t), NEW g, NEW o, NEW v, Completes(s, t, g, o, v)
  PROVE  v \in ValuesWritten
<1>1. IF o = <<>> THEN root = v /\ graph = g /\ t = Final(b) ELSE Place(g, o, v) BY TakenPlace
<1>2. CASE o = <<>> BY <1>1, <1>2 DEF ValuesWritten
<1>3. CASE o # <<>>
  <2> DEFINE id == Last(o).id
             n == graph[id]
             k == Len(g[id].items) + 1
             S(j) == LET m == graph[j]
                     IN  IF m.kind \in Keyed
                         THEN UNION {{m.items[i][1], m.items[i][2]} : i \in DOMAIN m.items}
                         ELSE {m.items[i] : i \in DOMAIN m.items}
  <2>1. /\ id \in 1..Len(graph) /\ k \in 1..Len(n.items)
        /\ IF WantsKey(g, o) THEN n.items[k][1] = v ELSE n.items[k] = Item(g, o, v)
    BY <1>1, <1>3 DEF Place
  <2>2. graph \in Seq(Nodes) /\ DOMAIN graph = 1..Len(graph) BY ChapterIs
  <2>3. k \in DOMAIN n.items
    <3>1. n \in Nodes BY <2>1, <2>2, ElementOfSeq
    <3>2. n.items \in Seq(Entries) BY <3>1, NodeFields
    <3> QED BY <2>1, <3>2, LenProperties
  <2>4. n.kind = Into(g, o).kind
    <3>1. Kindred(g) BY TakenKindred
    <3>2. Shape(g, o) BY DEF Completes
    <3>3. id \in 1..Len(g) /\ Into(g, o) = g[id] BY <1>3, <3>2, TopIs DEF Into
    <3> QED BY <3>1, <3>3 DEF Kindred
  <2> HIDE DEF id, k
  <2>5. v \in S(id)
    <3>1. CASE n.kind \in Keyed
      <4>1. v = n.items[k][1] \/ v = n.items[k][2]
        <5>1. CASE WantsKey(g, o) BY <2>1, <5>1
        <5>2. CASE ~WantsKey(g, o)
          <6>1. n.items[k] = <<Last(o).key, v>> BY <2>1, <2>4, <3>1, <5>2 DEF Item
          <6> QED BY <6>1
        <5> QED BY <5>1, <5>2
      <4>2. v \in {n.items[k][1], n.items[k][2]} BY <4>1
      <4>3. v \in UNION {{n.items[i][1], n.items[i][2]} : i \in DOMAIN n.items} BY <2>3, <4>2
      <4> QED BY <3>1, <4>3
    <3>2. CASE n.kind \notin Keyed
      <4>1. ~WantsKey(g, o) BY <2>4, <3>2 DEF WantsKey
      <4>2. n.items[k] = v BY <2>1, <2>4, <3>2, <4>1 DEF Item
      <4> QED BY <2>3, <3>2, <4>2
    <3> QED BY <3>1, <3>2
  <2>6. id \in DOMAIN graph BY <2>1, <2>2
  <2>7. ValuesWritten = {root} \cup UNION {S(j) : j \in DOMAIN graph} BY DEF ValuesWritten
  <2> HIDE DEF S
  <2> QED BY <2>5, <2>6, <2>7
<1> QED BY <1>2, <1>3

\* The reader reads a tag, and there is none.
LEMMA NothingGoesOn ==
  ASSUME Typed, Acts, pc = "read", TopKind # "error", ~ElementsDone, AtEnd, cut
  PROVE  \A b, s, t : Advances(b, s, t, pc', pos', stack', heap', val', raised')
<1>1. Raises("V8Error") BY AtNothing
<1>2. Right("V8Error") BY DEF Right
<1> QED BY <1>1, <1>2, RaisesWithin

\* A value that is one atom.
LEMMA AtomGoesOn ==
  ASSUME Typed, Acts, pc = "read", NEW b, NEW s, NEW t, Chapter(b, s, t),
         NEW g, NEW o, NEW w, Completes(s, t, g, o, w), Matches(stack, g, o), Holds(heap, g),
         TopKind # "error", ~ElementsDone, NEW a \in Plain, Lies(b, pos, Encoding[a]),
         t.at = pos + Len(Encoding[a]),
         IF a \in {"lone", "invalid"} THEN ~Convertible ELSE AsPython(w) = Python[a]
  PROVE  Advances(b, s, t, pc', pos', stack', heap', val', raised')
<1>1. Survives(b) BY DEF Chapter
<1>2. \/ cut /\ Raises("V8Error")
      \/ a \in {"lone", "invalid"} /\ Raises("ValueError")
      \/ a \notin {"lone", "invalid"} /\ Returns(Python[a], pos + Len(Encoding[a]), stack)
  BY <1>1, AtomIs
<1>3. CASE cut /\ Raises("V8Error")
  <2>1. Right("V8Error") BY <1>3 DEF Right
  <2> QED BY <1>3, <2>1, RaisesWithin
<1>4. CASE a \in {"lone", "invalid"} /\ Raises("ValueError")
  <2>1. Right("ValueError") BY <1>4 DEF Right
  <2> QED BY <1>4, <2>1, RaisesWithin
<1>5. CASE a \notin {"lone", "invalid"} /\ Returns(Python[a], pos + Len(Encoding[a]), stack)
  <2>1. /\ pc' = "return" /\ val' = Python[a] /\ pos' = t.at /\ stack' = stack /\ heap' = heap
    BY <1>5 DEF Returns
  <2>2. Reached(pos', t.at) BY <2>1 DEF Reached
  <2>3. Returning(pos', stack', heap', val', s, t)
    <3>1. val' = AsPython(w) BY <1>5, <2>1
    <3>2. Matches(stack', g, o) /\ Holds(heap', g) BY <2>1
    <3> QED BY <2>2, <3>1, <3>2 DEF Returning
  <2> QED BY <2>1, <2>3 DEF Advances, Within
<1> QED BY <1>2, <1>3, <1>4, <1>5

\* What V8 writes that is read at once.
LEMMA PlainIs ==
  /\ Primitives \subseteq Plain /\ "invalid" \notin Primitives
  /\ \A l \in Leaves : l \in {"date", "invalid", "wrapper", "buffer"} => l \in Plain
  /\ \A l \in Leaves : l # "lone"
BY V8Constants DEF Plain

\* A primitive, with its padding behind it.
LEMMA PrimitiveGoesOn ==
  ASSUME Typed, Acts, pc = "read", NEW b, NEW s, NEW t, Chapter(b, s, t),
         Matches(stack, s.graph, s.open), Holds(heap, s.graph),
         NEW p \in Primitives, NEW pad \in {0, 1}, PrimitiveToken(b, padded, s, t, p, pad),
         pos = s.at + pad
  PROVE  Advances(b, s, t, pc', pos', stack', heap', val', raised')
<1>1. Sound(s) /\ b \in Seq(Byte) BY DEF Chapter, Survives
<1>2. Completes(s, t, s.graph, s.open, Prim(p)) /\ t.at = s.at + pad + Len(Encoding[p])
  BY <1>1, PrimitiveForm
<1>3. TopKind # "error" /\ ~ElementsDone
  <2>1. Ready(s, Prim(p)) BY DEF PrimitiveToken
  <2> QED BY <1>1, <2>1, MatchReady
<1>4. p \in Plain /\ p # "invalid" BY PlainIs
<1>5. Lies(b, pos, Encoding[p]) BY DEF PrimitiveToken
<1>6. AsPython(Prim(p)) = Python[p] BY DEF AsPython, Prim
<1>7. p = "lone" => ~Convertible
  <2>1. Prim(p) \in ValuesWritten BY <1>2, TakenValue
  <2> QED BY <2>1 DEF Convertible
<1>8. IF p \in {"lone", "invalid"} THEN ~Convertible ELSE AsPython(Prim(p)) = Python[p]
  BY <1>4, <1>6, <1>7
<1> QED BY <1>2, <1>3, <1>4, <1>5, <1>8, AtomGoesOn

\* An object without members, in the graph and in Python.
LEMMA LeafWritten ==
  ASSUME NEW b, NEW s, NEW t, Chapter(b, s, t), NEW l \in Leaves, LeafToken(b, s, t, l)
  PROVE  /\ Completes(s, t, Append(s.graph, Node(l, 0)), s.open, Obj(Number(s)))
         /\ Kindred(Append(s.graph, Node(l, 0))) /\ t.at = s.at + Len(Encoding[l])
         /\ l \in KindsWritten /\ AsPython(Obj(Number(s))) = Python[l]
         /\ Sound(s) /\ b \in Seq(Byte) /\ Survives(b)
<1>1. Sound(s) /\ b \in Seq(Byte) /\ Survives(b) BY DEF Chapter, Survives
<1> DEFINE g == Append(s.graph, Node(l, 0))
<1>2. Completes(s, t, g, s.open, Obj(Number(s))) /\ t.at = s.at + Len(Encoding[l])
  BY <1>1, LeafForm
<1>3. Kindred(g) BY <1>2, TakenKindred
<1>4. Len(s.graph) \in Nat /\ Len(g) = Len(s.graph) + 1 /\ g[Len(s.graph) + 1].kind = l
  <2>1. s.graph \in Seq(Nodes) /\ Len(s.graph) \in Nat BY <1>1, SoundIs
  <2>2. 0 \in Nat /\ l \in Leaves \cup Containers OBVIOUS
  <2> QED BY <2>1, <2>2, GrownIs
<1> HIDE DEF g
<1>5. graph[Number(s)].kind = l /\ Number(s) \in 1..Len(graph)
  <2>1. Len(graph) \in Nat BY ChapterIs
  <2>2. Number(s) \in 1..Len(g) /\ g[Number(s)].kind = l BY <1>4 DEF Number
  <2> QED BY <1>3, <1>4, <2>1, <2>2 DEF Kindred, Number
<1>6. l \in KindsWritten
  <2>1. DOMAIN graph = 1..Len(graph) BY ChapterIs
  <2> QED BY <1>5, <2>1 DEF KindsWritten
<1>7. AsPython(Obj(Number(s))) = Python[l]
  <2>1. ~IsContainer(Number(s)) BY <1>5, KindsApart DEF IsContainer
  <2>2. Obj(Number(s))[1] = "object" /\ Obj(Number(s))[2] = Number(s) BY DEF Obj
  <2> QED BY <1>5, <2>1, <2>2 DEF AsPython
<1> QED BY <1>1, <1>2, <1>3, <1>6, <1>7 DEF g

\* An object without members that is read at once is the value.
LEMMA LeafAtomGoesOn ==
  ASSUME Typed, Acts, pc = "read", NEW b, NEW s, NEW t, Chapter(b, s, t),
         Matches(stack, s.graph, s.open), Holds(heap, s.graph),
         NEW l \in Leaves, LeafToken(b, s, t, l), l \in {"date", "invalid", "wrapper", "buffer"},
         pos = s.at
  PROVE  Advances(b, s, t, pc', pos', stack', heap', val', raised')
<1> DEFINE g == Append(s.graph, Node(l, 0))
<1>1. /\ Completes(s, t, g, s.open, Obj(Number(s)))
      /\ Kindred(g) /\ t.at = s.at + Len(Encoding[l])
      /\ l \in KindsWritten /\ AsPython(Obj(Number(s))) = Python[l]
      /\ Sound(s) /\ b \in Seq(Byte)
  BY LeafWritten
<1>2. TopKind # "error" /\ ~ElementsDone
  <2>1. Ready(s, Obj(Number(s))) BY DEF LeafToken
  <2> QED BY <1>1, <2>1, MatchReady
<1>3. Matches(stack, g, s.open) /\ Holds(heap, g) BY <1>1, LeafMatches, LeafHolds
<1>4. l \in Plain /\ l # "lone" BY PlainIs
<1>5. Lies(b, pos, Encoding[l]) BY DEF LeafToken
<1>6. l = "invalid" => ~Convertible BY <1>1 DEF Convertible
<1>7. IF l \in {"lone", "invalid"} THEN ~Convertible ELSE AsPython(Obj(Number(s))) = Python[l]
  BY <1>1, <1>4, <1>6
<1> HIDE DEF g
<1> QED BY <1>1, <1>2, <1>3, <1>4, <1>5, <1>7, AtomGoesOn

\* The first of the bytes that lie somewhere.
LEMMA FirstByte ==
  ASSUME NEW b \in Seq(Byte), NEW p \in Nat, NEW e \in Seq(Byte), Lies(b, p, e), Len(e) >= 1
  PROVE  b[p + 1] = e[1]
<1>0. PICK k : k = Len(e) OBVIOUS
<1>1. k \in Nat /\ 1 \in 1..k BY <1>0, LenProperties
<1> QED BY <1>0, <1>1 DEF Lies

\* Where the bytes end before the token does, some are lost.
LEMMA ShortIsCut ==
  ASSUME Typed, NEW b, NEW s, NEW t, Chapter(b, s, t), AtEnd, pos < t.at
  PROVE  cut
<1>1. Survives(b) BY DEF Chapter
<1>2. Len(b) \in Nat /\ Len(bytes) \in Nat /\ (cut <=> Len(bytes) < Len(b)) BY <1>1, SurvivesIs
<1>3. t.at \in Nat /\ t.at <= Len(b) BY ChapterIs
<1>4. pos \in Nat BY TypedIs
<1>5. Len(bytes) < Len(b) BY <1>2, <1>3, <1>4 DEF AtEnd
<1> QED BY <1>2, <1>5

\* An object around another value, or an error, begins.
LEMMA WrappedBegins ==
  ASSUME Typed, Acts, pc = "read", NEW b, NEW s, NEW t, Chapter(b, s, t),
         Matches(stack, s.graph, s.open), Holds(heap, s.graph),
         NEW l \in Leaves, LeafToken(b, s, t, l), l \in {"string", "regexp", "error"},
         pos = s.at
  PROVE  Advances(b, s, t, pc', pos', stack', heap', val', raised')
<1>1. /\ t.at = s.at + Len(Encoding[l])
      /\ Sound(s) /\ b \in Seq(Byte) /\ Survives(b)
  BY LeafWritten
<1>2. TopKind # "error" /\ ~ElementsDone
  <2>1. Ready(s, Obj(Number(s))) BY DEF LeafToken
  <2> QED BY <1>1, <2>1, MatchReady
<1>3. s.at < t.at /\ t.at <= Len(b) /\ s.at \in Nat /\ Len(b) \in Nat /\ Len(bytes) \in Nat
      /\ (cut <=> Len(bytes) < Len(b))
  BY <1>1, ChapterIs, SurvivesIs
<1>4. CASE AtEnd
  <2>1. cut BY <1>3, <1>4, ShortIsCut
  <2> QED BY <1>2, <1>4, <2>1, NothingGoesOn
<1>5. CASE ~AtEnd
  <2>1. pos < Len(bytes) BY <1>3, <1>5 DEF AtEnd
  <2>2. Lies(b, pos, Encoding[l]) BY DEF LeafToken
  <2>3. PICK x \in Nat : /\ x < 256 /\ x = Encoding[l][1]
                         /\ x = IF l = "string" THEN 115 ELSE IF l = "regexp" THEN 82 ELSE 114
    <3>1. CASE l = "string"
      <4>1. PICK e : e = <<115, 34, 1, 97>> OBVIOUS
      <4>2. Encoding[l] = e /\ e[1] = 115 BY <3>1, <4>1, EncodingIs
      <4> QED BY <3>1, <4>2
    <3>2. CASE l = "regexp"
      <4>1. PICK e : e = <<82, 34, 1, 97, 2>> OBVIOUS
      <4>2. Encoding[l] = e /\ e[1] = 82 BY <3>2, <4>1, EncodingIs
      <4> QED BY <3>2, <4>2
    <3>3. CASE l = "error"
      <4>1. PICK e : e = <<114, 109, 34, 1, 97, 46>> OBVIOUS
      <4>2. Encoding[l] = e /\ e[1] = 114 BY <3>3, <4>1, EncodingIs
      <4> QED BY <3>3, <4>2
    <3> QED BY <3>1, <3>2, <3>3
  <2>4. b[pos + 1] = x
    <3>1. Encoding[l] \in Seq(Byte) /\ Len(Encoding[l]) >= 1 BY EncodingBytes
    <3> QED BY <1>1, <1>3, <2>2, <2>3, <3>1, FirstByte
  <2>5. Next1 = x BY <1>1, <2>1, <2>3, <2>4, TagRead
  <2>6. BeginWrapped
    <3>1. x \in {115, 82, 114} BY <2>3
    <3> QED BY <1>2, <2>5, <3>1, AtWrapped
  <2>7. Calls(Frame(l, 0, 0), pos + 1) /\ heap' = heap
    <3>1. Tag.STRING_OBJECT = 115 /\ Tag.REGEXP = 82 /\ Tag.ERROR = 114 BY DEF Tag
    <3>2. CASE l = "string" BY <2>3, <2>5, <2>6, <3>1, <3>2 DEF BeginWrapped
    <3>3. CASE l = "regexp" BY <2>3, <2>5, <2>6, <3>1, <3>3 DEF BeginWrapped
    <3>4. CASE l = "error" BY <2>3, <2>5, <2>6, <3>1, <3>4 DEF BeginWrapped
    <3> QED BY <3>2, <3>3, <3>4
  <2> DEFINE f == Frame(l, 0, 0)
             S == Append(stack, f)
  <2>8. stack' = S /\ pos' = s.at + 1 /\ heap' = heap /\ pc' = "read" /\ val' = val
        /\ raised' = raised
    BY <2>7 DEF Calls
  <2>9. f \in Frames /\ f.kind = l
    <3>1. /\ l \in ContainerKinds \cup {"string", "regexp", "error"}
          /\ NoValue \in PythonValue \cup {NoValue}
          /\ 0 \in Nat /\ 0 \in Int
      OBVIOUS
    <3> QED BY <3>1 DEF Frame, Frames
  <2> HIDE DEF f
  <2>10. stack \in Seq(Frames) BY TypedIs
  <2>11. S \in Seq(Frames) /\ S # <<>> /\ Last(S) = f /\ Front(S) = stack
    <3>1. S \in Seq(Frames) /\ Len(S) = Len(stack) + 1 /\ S[Len(stack) + 1] = f
          /\ Len(stack) \in Nat /\ \A i \in 1..Len(stack) : S[i] = stack[i]
      BY <2>9, <2>10, AppendProperties, LenProperties
    <3> HIDE DEF S
    <3>2. S # <<>> BY <3>1
    <3>3. Last(S) = f BY <3>1, <3>2, LastIs
    <3>4. Front(S) \in Seq(Frames) /\ Len(Front(S)) = Len(S) - 1
          /\ \A i \in 1..Len(S) - 1 : Front(S)[i] = S[i]
      BY <3>1, <3>2, FrontFrames
    <3>5. Front(S) = stack BY <2>10, <3>1, <3>4, SeqEqual
    <3> QED BY <3>1, <3>2, <3>3, <3>5
  <2> HIDE DEF S
  <2>12. \/ l \in {"string", "regexp"} /\ pc' = "read" /\ pos' = s.at + 1
         \/ l = "error" /\ pc' = "read" /\ pos' \in s.at + 1..s.at + 5
    BY <1>3, <2>8
  <2>13. Matches(Front(stack'), s.graph, s.open) /\ Holds(heap', s.graph) BY <2>8, <2>11
  <2>14. stack' \in Seq(Frames) /\ stack' # <<>> /\ Last(stack').kind = l BY <2>8, <2>9, <2>11
  <2>15. Wrapping(b, pc', pos', stack', heap', val', s, t) BY <2>12, <2>13, <2>14 DEF Wrapping
  <2> QED BY <2>15 DEF Advances, Within
<1> QED BY <1>4, <1>5

\* Part of what lies in b lies there.
LEMMA LiesPart ==
  ASSUME NEW b \in Seq(Byte), NEW p \in Nat, NEW e \in Seq(Byte), Lies(b, p, e),
         NEW d \in Seq(Byte), NEW k \in Nat, k + Len(d) <= Len(e),
         \A i \in 1..Len(d) : d[i] = e[k + i]
  PROVE  Lies(b, p + k, d)
<1> PICK m, n : m = Len(d) /\ n = Len(e) OBVIOUS
<1>1. m \in Nat /\ n \in Nat /\ k + m <= n /\ Len(b) \in Nat BY LenProperties
<1>2. p + k + m <= Len(b) BY <1>1 DEF Lies
<1>3. ASSUME NEW i \in 1..m PROVE b[p + k + i] = d[i]
  <2>1. k + i \in 1..n /\ p + (k + i) = p + k + i BY <1>1
  <2>2. b[p + (k + i)] = e[k + i] BY <2>1 DEF Lies
  <2> QED BY <2>1, <2>2
<1> QED BY <1>2, <1>3 DEF Lies

\* The string in a string object or a regular expression.
LEMMA TextInside ==
  ASSUME NEW b \in Seq(Byte), NEW p \in Nat, NEW l \in {"string", "regexp"},
         Lies(b, p, Encoding[l])
  PROVE  /\ Lies(b, p + 1, Encoding["narrow"]) /\ Len(Encoding["narrow"]) = 3
         /\ Len(Encoding["string"]) = 4 /\ Len(Encoding["regexp"]) = 5
         /\ l = "regexp" => Lies(b, p + 4, <<2>>)
<1>1. PICK d : d = <<34, 1, 97>> OBVIOUS
<1>2. Encoding["narrow"] = d /\ Len(d) = 3 /\ d[1] = 34 /\ d[2] = 1 /\ d[3] = 97
  BY <1>1, EncodingIs
<1>14. 34 \in Byte /\ 1 \in Byte /\ 97 \in Byte /\ 115 \in Byte /\ 82 \in Byte /\ 2 \in Byte
  BY DEF Byte
<1>15. d \in Seq(Byte) BY <1>1, <1>14
<1>3. PICK e : e = <<115, 34, 1, 97>> OBVIOUS
<1>4. Encoding["string"] = e /\ Len(e) = 4 /\ e[2] = 34 /\ e[3] = 1 /\ e[4] = 97
  BY <1>3, EncodingIs
<1>16. e \in Seq(Byte) BY <1>3, <1>14
<1>5. PICK f : f = <<82, 34, 1, 97, 2>> OBVIOUS
<1>6. Encoding["regexp"] = f /\ Len(f) = 5 /\ f[2] = 34 /\ f[3] = 1 /\ f[4] = 97 /\ f[5] = 2
  BY <1>5, EncodingIs
<1>17. f \in Seq(Byte) BY <1>5, <1>14
<1>7. PICK k \in Nat : k = 1 OBVIOUS
<1>8. PICK m \in Nat : m = 4 OBVIOUS
<1>9. PICK w : w = <<2>> OBVIOUS
<1>10. Len(w) = 1 /\ w[1] = 2 BY <1>9
<1>18. w \in Seq(Byte) BY <1>9, <1>14
<1>11. \A i \in 1..3 : i = 1 \/ i = 2 \/ i = 3 OBVIOUS
<1>12. CASE l = "string"
  <2>0. k + Len(d) <= Len(e) BY <1>2, <1>4, <1>7
  <2>1. \A i \in 1..Len(d) : d[i] = e[k + i] BY <1>2, <1>4, <1>7, <1>11
  <2>2. Lies(b, p, e) BY <1>4, <1>12
  <2>3. Lies(b, p + k, d) BY <1>15, <1>16, <2>0, <2>1, <2>2, LiesPart
  <2> QED BY <1>2, <1>4, <1>6, <1>7, <1>12, <2>3
<1>13. CASE l = "regexp"
  <2>0. k + Len(d) <= Len(f) /\ m + Len(w) <= Len(f) BY <1>2, <1>6, <1>7, <1>8, <1>10
  <2>1. \A i \in 1..Len(d) : d[i] = f[k + i] BY <1>2, <1>6, <1>7, <1>11
  <2>2. Lies(b, p, f) BY <1>6, <1>13
  <2>3. Lies(b, p + k, d) BY <1>15, <1>17, <2>0, <2>1, <2>2, LiesPart
  <2>4. \A i \in 1..Len(w) : w[i] = f[m + i] BY <1>6, <1>8, <1>10
  <2>5. Lies(b, p + m, w) BY <1>17, <1>18, <2>0, <2>2, <2>4, LiesPart
  <2> QED BY <1>2, <1>4, <1>6, <1>7, <1>8, <1>9, <2>3, <2>5
<1> QED BY <1>12, <1>13

\* The frame of an object around another value.
LEMMA WrappedTop ==
  ASSUME Typed, stack # <<>>, NEW l \in {"string", "regexp", "error"}, Last(stack).kind = l
  PROVE  TopKind = l /\ ~ElementsDone /\ ~Looping /\ Front(stack) \in Seq(Frames)
<1>1. TopKind = l BY DEF TopKind
<1>2. TopKind \notin {"dense", "set", "object", "map", "sparse"} BY <1>1
<1>3. ~ElementsDone /\ ~Looping BY <1>2 DEF ElementsDone, Looping, Keyed
<1>4. stack \in Seq(Frames) BY TypedIs
<1> QED BY <1>1, <1>3, <1>4, FrontFrames

\* It reads its string.
LEMMA TextGoesOn ==
  ASSUME Typed, Acts, pc = "read", NEW b, NEW s, NEW t, Chapter(b, s, t),
         NEW l \in Leaves, LeafToken(b, s, t, l), l \in {"string", "regexp"},
         stack # <<>>, Last(stack).kind = l,
         Matches(Front(stack), s.graph, s.open), Holds(heap, s.graph), pos = s.at + 1
  PROVE  Advances(b, s, t, pc', pos', stack', heap', val', raised')
<1>1. Sound(s) /\ b \in Seq(Byte) /\ Survives(b) /\ s.at \in Nat
  BY LeafWritten, ChapterIs
<1>2. Lies(b, s.at, Encoding[l]) BY DEF LeafToken
<1>3. Lies(b, pos, Encoding["narrow"]) /\ Len(Encoding["narrow"]) = 3 BY <1>1, <1>2, TextInside
<1>4. TopKind # "error" /\ ~ElementsDone
  <2>1. l \in {"string", "regexp", "error"} OBVIOUS
  <2> QED BY <2>1, WrappedTop
<1>5. PICK a : a = "narrow" OBVIOUS
<1>6. a \in Plain /\ a \notin {"lone", "invalid"} BY <1>5 DEF Plain
<1>7. Lies(b, pos, Encoding[a]) BY <1>3, <1>5
<1>8. \/ cut /\ Raises("V8Error")
      \/ a \in {"lone", "invalid"} /\ Raises("ValueError")
      \/ a \notin {"lone", "invalid"} /\ Returns(Python[a], pos + Len(Encoding[a]), stack)
  BY <1>1, <1>4, <1>6, <1>7, AtomIs
<1>9. CASE cut /\ Raises("V8Error")
  <2>1. Right("V8Error") BY <1>9 DEF Right
  <2> QED BY <1>9, <2>1, RaisesWithin
<1>10. CASE Returns(Python[a], pos + Len(Encoding[a]), stack)
  <2>1. Python[a] = <<"str", <<97>>>> BY <1>5, PythonIs
  <2>2. /\ pc' = "return" /\ val' = <<"str", <<97>>>> /\ pos' = pos + Len(Encoding[a])
        /\ stack' = stack /\ heap' = heap
    BY <1>10, <2>1 DEF Returns
  <2>3. pos' = s.at + 4 BY <1>1, <1>3, <1>5, <2>2
  <2>4. stack \in Seq(Frames) BY TypedIs
  <2>5. Wrapping(b, pc', pos', stack', heap', val', s, t)
    BY <2>2, <2>3, <2>4 DEF Wrapping
  <2> QED BY <2>5 DEF Advances, Within
<1> QED BY <1>6, <1>8, <1>9, <1>10

\* What it wraps, it returns.
LEMMA WrapReturns ==
  ASSUME Typed, NEW b, NEW s, NEW t, Chapter(b, s, t),
         NEW l \in Leaves, LeafToken(b, s, t, l),
         Matches(Front(stack), s.graph, s.open), Holds(heap, s.graph),
         NEW p, Reached(p, t.at), Returns(Python[l], p, Front(stack))
  PROVE  Advances(b, s, t, pc', pos', stack', heap', val', raised')
<1> DEFINE g == Append(s.graph, Node(l, 0))
           w == Obj(Number(s))
<1>1. /\ Completes(s, t, g, s.open, w) /\ Kindred(g) /\ AsPython(w) = Python[l] /\ Sound(s)
  BY LeafWritten
<1>2. Matches(Front(stack), g, s.open) /\ Holds(heap, g) BY <1>1, LeafMatches, LeafHolds
<1>3. /\ pc' = "return" /\ val' = Python[l] /\ pos' = p /\ stack' = Front(stack)
      /\ heap' = heap /\ bytes' = bytes
  BY DEF Returns
<1>4. Reached(pos', t.at) BY <1>3
<1>5. Matches(stack', g, s.open) /\ Holds(heap', g) BY <1>2, <1>3
<1>6. val' = AsPython(w) BY <1>1, <1>3
<1> HIDE DEF g, w
<1>7. Returning(pos', stack', heap', val', s, t) BY <1>1, <1>4, <1>5, <1>6 DEF Returning
<1> QED BY <1>3, <1>7 DEF Advances, Within

\* The handler of an object that wraps a string returns it, or is cut.
LEMMA TextReturned ==
  ASSUME Typed, Acts, pc = "return", NEW b, NEW s, NEW t, Chapter(b, s, t),
         NEW l \in Leaves, LeafToken(b, s, t, l), l \in {"string", "regexp"},
         stack # <<>>, Last(stack).kind = l, val = <<"str", << 97 >> >>,
         Matches(Front(stack), s.graph, s.open), Holds(heap, s.graph), pos = s.at + 4
  PROVE  Advances(b, s, t, pc', pos', stack', heap', val', raised')
<1>1. Sound(s) /\ b \in Seq(Byte) /\ Survives(b) /\ s.at \in Nat
      /\ t.at = s.at + Len(Encoding[l])
  BY LeafWritten, ChapterIs
<1>2. Lies(b, s.at, Encoding[l]) BY DEF LeafToken
<1>3. /\ Len(Encoding["string"]) = 4 /\ Len(Encoding["regexp"]) = 5
      /\ l = "regexp" => Lies(b, s.at + 4, <<2>>)
  BY <1>1, <1>2, TextInside
<1>4. TopKind = l
  <2>1. l \in {"string", "regexp", "error"} OBVIOUS
  <2> QED BY <2>1, WrappedTop
<1>5. ReturnWrapped BY <1>4, AtReturn
<1>6. PICK u : u = <<97>> OBVIOUS
<1>7. val[1] = "str" /\ val[2] = u BY <1>6
<1>8. CASE l = "string"
  <2>1. Returns(val, pos, Front(stack)) BY <1>4, <1>5, <1>7, <1>8 DEF ReturnWrapped
  <2>2. Python[l] = val BY <1>8, PythonIs
  <2>3. Reached(pos, t.at) BY <1>1, <1>3, <1>8 DEF Reached
  <2> QED BY <2>1, <2>2, <2>3, WrapReturns
<1>9. CASE l = "regexp"
  <2>1. pos \in Nat /\ pos <= Len(bytes) BY TypedIs
  <2>2. PICK n \in Nat : n = 2 OBVIOUS
  <2>3. n \in TwoByte /\ EncodeVarint(n) = <<2>> /\ Len(<<2>>) = 1 BY <2>2, SmallNumber
  <2>4. IF pos + 1 <= Len(bytes) THEN VarLen(pos) > 0 /\ VarVal(pos) = n /\ AfterVar(pos) = pos + 1
        ELSE VarLen(pos) = 0
    <3>1. Lies(b, pos, EncodeVarint(n)) BY <1>3, <1>9, <2>3
    <3>2. IF pos + Len(EncodeVarint(n)) <= Len(bytes)
          THEN VarLen(pos) > 0 /\ VarVal(pos) = n /\ AfterVar(pos) = pos + Len(EncodeVarint(n))
          ELSE VarLen(pos) = 0
      BY <1>1, <2>1, <2>3, <3>1, NumberRead
    <3> QED BY <2>3, <3>2
  <2>5. t.at = pos + 1
    <3>1. Len(Encoding[l]) = 5 BY <1>3, <1>9
    <3>2. t.at = s.at + 5 BY <1>1, <3>1
    <3> QED BY <1>1, <3>2
  <2>6. CASE VarLen(pos) = 0
    <3>1. Raises("V8Error") BY <1>4, <1>5, <1>9, <2>6 DEF ReturnWrapped
    <3>2. cut
      <4>1. AtEnd /\ pos < t.at
        <5>1. ~(pos + 1 <= Len(bytes)) BY <2>4, <2>6
        <5>2. Len(bytes) \in Nat BY TypedIs
        <5> QED BY <2>1, <2>5, <5>1, <5>2 DEF AtEnd
      <4> QED BY <4>1, ShortIsCut
    <3>3. Right("V8Error") BY <3>2 DEF Right
    <3> QED BY <3>1, <3>3, RaisesWithin
  <2>7. CASE VarLen(pos) # 0
    <3>1. VarVal(pos) = n /\ AfterVar(pos) = pos + 1 BY <2>4, <2>7
    <3>2. Returns(<<"regexp", u, n>>, pos + 1, Front(stack))
      BY <1>4, <1>5, <1>7, <1>9, <2>7, <3>1 DEF ReturnWrapped
    <3>3. Python[l] = <<"regexp", u, n>> BY <1>6, <1>9, <2>2, PythonIs
    <3>4. Reached(pos + 1, t.at) BY <2>5 DEF Reached
    <3> QED BY <3>2, <3>3, <3>4, WrapReturns
  <2> QED BY <2>6, <2>7
<1> QED BY <1>8, <1>9

\* The bytes of an error behind its tag: none of them but the last is the tag
\* of a field that is text or the end.
LEMMA ErrorBytes ==
  /\ Len(Encoding["error"]) = 6 /\ Encoding["error"][6] = 46
  /\ \A i \in 2..5 : Encoding["error"][i] \notin {46, 77, 83, 99, 256}
<1>1. PICK e : e = <<114, 109, 34, 1, 97, 46>> OBVIOUS
<1>2. Len(e) = 6 /\ e[2] = 109 /\ e[3] = 34 /\ e[4] = 1 /\ e[5] = 97 /\ e[6] = 46 BY <1>1
<1>3. \A i \in 2..5 : i = 2 \/ i = 3 \/ i = 4 \/ i = 5 OBVIOUS
<1>4. Encoding["error"] = e BY <1>1, EncodingIs
<1>5. \A i \in 2..5 : e[i] \notin {46, 77, 83, 99, 256} BY <1>2, <1>3
<1> QED BY <1>2, <1>4, <1>5

\* The loop of _r_error goes on to the end of an error, or of the bytes.
LEMMA ErrorGoesOn ==
  ASSUME Typed, Acts, pc = "read", NEW b, NEW s, NEW t, Chapter(b, s, t),
         NEW l \in Leaves, LeafToken(b, s, t, l), l = "error",
         stack # <<>>, Last(stack).kind = l,
         Matches(Front(stack), s.graph, s.open), Holds(heap, s.graph), pos \in s.at + 1..s.at + 5
  PROVE  Advances(b, s, t, pc', pos', stack', heap', val', raised')
<1>1. Sound(s) /\ b \in Seq(Byte) /\ Survives(b) /\ s.at \in Nat
      /\ t.at = s.at + Len(Encoding[l])
  BY LeafWritten, ChapterIs
<1>2. Lies(b, s.at, Encoding[l]) BY DEF LeafToken
<1>3. t.at = s.at + 6 BY <1>1, ErrorBytes
<1>4. TopKind = "error"
  <2>1. l \in {"string", "regexp", "error"} OBVIOUS
  <2> QED BY <2>1, WrappedTop
<1>5. ReadErrorField BY <1>4, AtError
<1>6. pos \in Nat /\ pos <= Len(bytes) /\ Len(bytes) \in Nat BY TypedIs
<1>7. Python[l] = <<"error">> BY PythonIs
<1>8. CASE AtEnd
  <2>1. Returns(<<"error">>, pos, Front(stack)) BY <1>5, <1>8 DEF ReadErrorField
  <2>2. Reached(pos, t.at) BY <1>1, <1>3, <1>6, <1>8 DEF AtEnd, Reached
  <2> QED BY <1>7, <2>1, <2>2, WrapReturns
<1>9. CASE ~AtEnd
  <2> DEFINE i == pos - s.at + 1
             e == Encoding[l]
  <2>1. pos < Len(bytes) BY <1>6, <1>9 DEF AtEnd
  <2>2. i \in 2..6 /\ i \in Nat /\ pos + 1 = s.at + i BY <1>1, <1>6
  <2>3. Len(e) = 6 /\ e[6] = 46 /\ \A j \in 2..5 : e[j] \notin {46, 77, 83, 99, 256}
    BY ErrorBytes
  <2> HIDE DEF i, e
  <2>4. Lies(b, s.at, e) BY <1>2 DEF e
  <2>5. bytes[pos + 1] = e[i]
    <3>1. i >= 1 /\ i <= Len(e) /\ Len(e) \in Nat BY <2>2, <2>3
    <3> QED BY <1>1, <1>6, <2>1, <2>2, <2>4, <3>1, ByteRead
  <2>6. Next1 = e[i] BY <1>9, <2>5 DEF Next1
  <2>7. CASE i = 6
    <3>1. Next1 = 46 BY <2>3, <2>6, <2>7
    <3>2. Returns(<<"error">>, pos + 1, Front(stack)) BY <1>5, <1>9, <3>1 DEF ReadErrorField
    <3>3. Reached(pos + 1, t.at) BY <1>3, <2>2, <2>7 DEF Reached
    <3> QED BY <1>7, <3>2, <3>3, WrapReturns
  <2>8. CASE i # 6
    <3>1. i \in 2..5 BY <2>2, <2>8
    <3>2. Next1 \notin {46, 77, 83, 99, 256} BY <2>3, <2>6, <3>1
    <3>3. Skips(pos + 1) BY <1>5, <1>9, <3>2 DEF ReadErrorField
    <3>4. /\ pos' = pos + 1 /\ pc' = "read" /\ stack' = stack /\ heap' = heap
      BY <3>3 DEF Skips
    <3>5. pos' \in s.at + 1..s.at + 5 BY <1>1, <1>6, <2>2, <3>1, <3>4 DEF i
    <3>6. stack \in Seq(Frames) BY TypedIs
    <3>7. Wrapping(b, pc', pos', stack', heap', val', s, t) BY <3>4, <3>5, <3>6 DEF Wrapping
    <3> QED BY <3>7 DEF Advances, Within
  <2> QED BY <2>7, <2>8
<1> QED BY <1>8, <1>9

\* Inside an object that wraps another the reader goes on, or raises what it
\* may.
LEMMA WrappingGoesOn ==
  ASSUME Typed, Acts, NEW b, NEW s, NEW t, Chapter(b, s, t),
         Wrapping(b, pc, pos, stack, heap, val, s, t)
  PROVE  Advances(b, s, t, pc', pos', stack', heap', val', raised')
<1>1. PICK l \in Leaves :
        /\ LeafToken(b, s, t, l)
        /\ stack \in Seq(Frames) /\ stack # <<>> /\ Last(stack).kind = l
        /\ Matches(Front(stack), s.graph, s.open) /\ Holds(heap, s.graph)
        /\ \/ l \in {"string", "regexp"} /\ pc = "read" /\ pos = s.at + 1
           \/ /\ l \in {"string", "regexp"} /\ pc = "return" /\ pos = s.at + 4
              /\ val = <<"str", <<97>>>>
           \/ l = "error" /\ pc = "read" /\ pos \in s.at + 1..s.at + 5
  BY DEF Wrapping
<1>2. CASE l \in {"string", "regexp"} /\ pc = "read" /\ pos = s.at + 1
  BY <1>1, <1>2, TextGoesOn
<1>3. CASE l \in {"string", "regexp"} /\ pc = "return" /\ pos = s.at + 4 /\ val = <<"str", <<97>>>>
  BY <1>1, <1>3, TextReturned
<1>4. CASE l = "error" /\ pc = "read" /\ pos \in s.at + 1..s.at + 5
  BY <1>1, <1>4, ErrorGoesOn
<1> QED BY <1>1, <1>2, <1>3, <1>4

\* The tag of a token that the bytes reach.
LEMMA TokenTag ==
  ASSUME Typed, NEW b, Survives(b), NEW e \in Seq(Byte), Len(e) >= 1, Lies(b, pos, e), ~AtEnd
  PROVE  Next1 = e[1] /\ pos < Len(bytes) /\ pos + 1 \in Nat /\ pos + 1 <= Len(bytes)
<1>1. b \in Seq(Byte) /\ Len(bytes) \in Nat BY SurvivesIs
<1>2. pos \in Nat BY TypedIs
<1>3. pos < Len(bytes) BY <1>1, <1>2 DEF AtEnd
<1>4. PICK x : x = e[1] OBVIOUS
<1>5. x \in Nat /\ x < 256
  <2>1. 1 \in 1..Len(e) BY LenProperties
  <2>2. x \in Byte BY <1>4, <2>1, ElementOfSeq
  <2> QED BY <2>2, ByteRange
<1>6. b[pos + 1] = x BY <1>1, <1>2, <1>4, FirstByte
<1>7. Next1 = x /\ pos + 1 \in Nat /\ pos + 1 <= Len(bytes) BY <1>3, <1>5, <1>6, TagRead
<1> QED BY <1>3, <1>4, <1>7

\* A tag and a number behind it.
LEMMA TagNumber ==
  ASSUME Typed, NEW b, Survives(b), NEW x \in Nat, x < 256, NEW n \in TwoByte,
         Lies(b, pos, <<x>> \o EncodeVarint(n)), ~AtEnd
  PROVE  /\ Next1 = x /\ pos + 1 \in Nat /\ pos + 1 <= Len(bytes)
         /\ Len(EncodeVarint(n)) \in Nat
         /\ Len(<<x>> \o EncodeVarint(n)) = 1 + Len(EncodeVarint(n))
         /\ IF pos + 1 + Len(EncodeVarint(n)) <= Len(bytes)
            THEN /\ VarLen(pos + 1) > 0 /\ VarVal(pos + 1) = n
                 /\ AfterVar(pos + 1) = pos + 1 + Len(EncodeVarint(n))
            ELSE VarLen(pos + 1) = 0
<1> DEFINE e == EncodeVarint(n)
           d == <<x>>
<1>1. d \in Seq(Byte) /\ Len(d) = 1 /\ d[1] = x BY OneIs
<1>2. e \in Seq(Byte) /\ Len(e) \in Nat BY EncodedLen
<1>3. b \in Seq(Byte) BY SurvivesIs
<1>4. pos \in Nat BY TypedIs
<1>5. Lies(b, pos, d \o e) OBVIOUS
<1> HIDE DEF d, e
<1>6. Lies(b, pos, d) /\ Lies(b, pos + Len(d), e) BY <1>1, <1>2, <1>3, <1>4, <1>5, LiesParts
<1>7. Len(d \o e) = 1 + Len(e)
  <2>1. Len(d \o e) = Len(d) + Len(e) BY <1>1, <1>2, <1>3, <1>4, LiesParts
  <2> QED BY <1>1, <2>1
<1>8. Next1 = d[1] /\ pos + 1 \in Nat /\ pos + 1 <= Len(bytes)
  <2>1. Len(d) >= 1 BY <1>1
  <2> QED BY <1>1, <1>6, <2>1, TokenTag
<1>9. PICK p \in Nat : p = pos + 1 BY <1>8
<1>10. p <= Len(bytes) /\ Lies(b, p, e) BY <1>1, <1>6, <1>8, <1>9
<1>11. IF p + Len(e) <= Len(bytes)
       THEN VarLen(p) > 0 /\ VarVal(p) = n /\ AfterVar(p) = p + Len(e)
       ELSE VarLen(p) = 0
  BY <1>10, NumberRead DEF e
<1> QED BY <1>1, <1>2, <1>7, <1>8, <1>9, <1>11 DEF d, e

\* Where bytes of a token are lost, some are cut.
LEMMA BehindIsCut ==
  ASSUME NEW b, NEW s, NEW t, Chapter(b, s, t), NEW q \in Nat, q <= t.at, ~(q <= Len(bytes))
  PROVE  cut
<1>1. Survives(b) BY DEF Chapter
<1>2. Len(b) \in Nat /\ Len(bytes) \in Nat /\ (cut <=> Len(bytes) < Len(b)) BY <1>1, SurvivesIs
<1>3. t.at \in Nat /\ t.at <= Len(b) BY ChapterIs
<1>4. Len(bytes) < Len(b) BY <1>2, <1>3
<1> QED BY <1>2, <1>4

\* An object that is met again.
LEMMA ReferenceGoesOn ==
  ASSUME Typed, Acts, pc = "read", NEW b, NEW s, NEW t, Chapter(b, s, t),
         Matches(stack, s.graph, s.open), Holds(heap, s.graph),
         NEW id \in Nat, ReferenceToken(b, referred, s, t, id), pos = s.at
  PROVE  Advances(b, s, t, pc', pos', stack', heap', val', raised')
<1>1. Sound(s) /\ b \in Seq(Byte) /\ Survives(b) BY DEF Chapter, Survives
<1>2. /\ Completes(s, t, s.graph, s.open, Obj(id)) /\ s.at < t.at
      /\ t.at = s.at + Len(Reference(id))
  BY <1>1, ReferenceForm
<1>3. TopKind # "error" /\ ~ElementsDone
  <2>1. Ready(s, Obj(id)) BY DEF ReferenceToken
  <2> QED BY <1>1, <2>1, MatchReady
<1>4. CASE AtEnd
  <2>1. cut BY <1>2, <1>4, ShortIsCut
  <2> QED BY <1>3, <1>4, <2>1, NothingGoesOn
<1>5. CASE ~AtEnd
  <2>1. /\ id \in 1..Len(s.graph) /\ id \in referred /\ Len(s.graph) \in Nat
        /\ Lies(b, pos, Reference(id)) /\ id <= MaxValues
    <3>1. s.graph \in Seq(Nodes) BY <1>1, SoundIs
    <3> QED BY <3>1, LenProperties DEF ReferenceToken
  <2>2. PICK n : n = id - 1 OBVIOUS
  <2>3. n \in Nat /\ n \in TwoByte /\ n + 1 = id
    <3>1. n \in Nat /\ n <= 16383 /\ n + 1 = id BY <2>1, <2>2, Bounds
    <3> QED BY <3>1, Bounds
  <2>4. PICK x \in Nat : x = 94 OBVIOUS
  <2>5. PICK k : k = Len(EncodeVarint(n)) OBVIOUS
  <2>6. Reference(id) = <<x>> \o EncodeVarint(n) /\ x < 256 BY <2>2, <2>4 DEF Reference
  <2>7. /\ Next1 = x /\ pos + 1 \in Nat /\ k \in Nat
        /\ Len(Reference(id)) = 1 + k
        /\ IF pos + 1 + k <= Len(bytes)
           THEN VarLen(pos + 1) > 0 /\ VarVal(pos + 1) = n /\ AfterVar(pos + 1) = pos + 1 + k
           ELSE VarLen(pos + 1) = 0
    <3>1. Lies(b, pos, <<x>> \o EncodeVarint(n)) BY <2>1, <2>6
    <3>2. /\ Next1 = x /\ pos + 1 \in Nat /\ k \in Nat
          /\ Len(<<x>> \o EncodeVarint(n)) = 1 + k
          /\ IF pos + 1 + k <= Len(bytes)
             THEN VarLen(pos + 1) > 0 /\ VarVal(pos + 1) = n /\ AfterVar(pos + 1) = pos + 1 + k
             ELSE VarLen(pos + 1) = 0
      BY <1>1, <1>5, <2>3, <2>5, <2>6, <3>1, TagNumber
    <3> QED BY <2>6, <3>2
  <2>8. PICK p : p = pos + 1 OBVIOUS
  <2>9. /\ p \in Nat /\ t.at \in Nat
        /\ IF t.at <= Len(bytes) THEN VarLen(p) > 0 /\ VarVal(p) = n /\ AfterVar(p) = t.at
           ELSE VarLen(p) = 0
    <3>1. pos \in Nat BY TypedIs
    <3>2. t.at = pos + 1 + k /\ t.at \in Nat BY <1>2, <2>7, <3>1
    <3> QED BY <2>7, <2>8, <3>2
  <2>10. ReadReference \/ (VarLen(p) = 0 /\ Raises("V8Error"))
    <3>1. Next1 = 94 BY <2>4, <2>7
    <3> QED BY <1>3, <2>8, <3>1, AtReference
  <2>12. CASE VarLen(p) = 0 /\ Raises("V8Error")
    <3>1. cut BY <2>9, <2>12, BehindIsCut
    <3>2. Right("V8Error") BY <3>1 DEF Right
    <3> QED BY <2>12, <3>2, RaisesWithin
  <2>13. CASE ReadReference
    <3>1. VarLen(p) > 0 BY <2>8, <2>13 DEF ReadReference
    <3>2. VarVal(p) = n /\ AfterVar(p) = t.at BY <2>9, <3>1
    <3>3. IF n < Len(heap) THEN Returns(<<"obj", n + 1>>, t.at, stack) ELSE Raises("V8Error")
      BY <2>8, <2>13, <3>2 DEF ReadReference
    <3>4. n + 1 = id BY <2>3
    <3>5. ReferencesAgree => \A j \in 1..id : IsContainer(j) BY <2>1 DEF ReferencesAgree
    <3>6. ReferencesAgree => Rank(id) = id BY <2>1, <3>5, RankAll
    <3>7. Len(heap) = Rank(Len(s.graph)) BY DEF Holds
    <3>8. CASE n < Len(heap)
      <4>1. Returns(<<"obj", id>>, t.at, stack) BY <3>3, <3>4, <3>8
      <4>2. /\ pc' = "return" /\ val' = <<"obj", id>> /\ pos' = t.at
            /\ stack' = stack /\ heap' = heap
        BY <4>1 DEF Returns
      <4>3. Reached(pos', t.at) BY <4>2 DEF Reached
      <4>4. ReferencesAgree => val' = AsPython(Obj(id))
        <5>1. SUFFICES ASSUME ReferencesAgree PROVE val' = AsPython(Obj(id)) OBVIOUS
        <5>2. IsContainer(id) /\ Rank(id) = id BY <2>1, <3>5, <3>6, <5>1
        <5>3. Obj(id)[1] = "object" /\ Obj(id)[2] = id BY DEF Obj
        <5>4. AsPython(Obj(id)) = <<"obj", Rank(id)>> BY <5>2, <5>3 DEF AsPython
        <5> QED BY <4>2, <5>2, <5>4
      <4>5. Matches(stack', s.graph, s.open) /\ Holds(heap', s.graph) BY <4>2
      <4>6. Returning(pos', stack', heap', val', s, t) BY <1>2, <4>3, <4>4, <4>5 DEF Returning
      <4> QED BY <4>2, <4>6 DEF Advances, Within
    <3>9. CASE ~(n < Len(heap))
      <4>1. Raises("V8Error") BY <3>3, <3>9
      <4>2. ~ReferencesAgree
        <5>1. SUFFICES ASSUME ReferencesAgree PROVE FALSE OBVIOUS
        <5>2. Rank(id) = id BY <3>6, <5>1
        <5>3. Rank(id) <= Rank(Len(s.graph)) BY <2>1, RankMonotone
        <5>4. Rank(Len(s.graph)) \in Nat BY <2>1, RankNext
        <5> QED BY <2>1, <3>4, <3>7, <3>9, <5>2, <5>3, <5>4, <2>3
      <4>3. Right("V8Error") BY <4>2 DEF Right
      <4> QED BY <4>1, <4>3, RaisesWithin
    <3> QED BY <3>8, <3>9
  <2> QED BY <2>10, <2>12, <2>13
<1> QED BY <1>4, <1>5

\* The call of an object that begins, and its container.
LEMMA BegunMatches ==
  ASSUME NEW s, Sound(s), NEW t, NEW c, NEW len, Opens(s, t, c, len), NEW S,
         Matches(S, s.graph, s.open), NEW f \in Frames, f.kind = c, f.id = Rank(Number(s)),
         f.key = NoValue, f.left = len
  PROVE  Matches(Append(S, f), t.graph, t.open)
<1> DEFINE U == Append(S, f)
           m == Len(s.open)
<1>1. /\ len \in Nat /\ Len(t.open) = m + 1
      /\ \A i \in 1..Len(s.graph) : t.graph[i] = s.graph[i]
      /\ t.graph[Number(s)].kind = c
      /\ t.graph[Number(s)].len = len /\ t.graph[Number(s)].items = <<>>
      /\ \A i \in 1..m : t.open[i] = s.open[i]
      /\ t.open[m + 1].id = Number(s) /\ t.open[m + 1].key = NoValue
  BY OpensIs DEF Number
<1>2. /\ m \in Nat /\ \A i \in 1..m : s.open[i].id \in 1..Len(s.graph)
  BY SoundIs
<1>3. /\ S \in Seq(Frames) /\ Len(S) = m
      /\ \A i \in 1..m : Stands(S[i], s.graph[s.open[i].id], s.open[i])
  BY DEF Matches
<1>4. /\ U \in Seq(Frames) /\ Len(U) = m + 1 /\ U[m + 1] = f /\ \A i \in 1..m : U[i] = S[i]
  BY <1>3, AppendProperties
<1> HIDE DEF U, m
<1>5. \A i \in 1..m : Stands(U[i], t.graph[t.open[i].id], t.open[i])
  <2>1. SUFFICES ASSUME NEW i \in 1..m PROVE Stands(U[i], t.graph[t.open[i].id], t.open[i])
    OBVIOUS
  <2>2. U[i] = S[i] /\ t.open[i] = s.open[i] /\ t.graph[s.open[i].id] = s.graph[s.open[i].id]
    BY <1>1, <1>2, <1>4
  <2>3. Stands(S[i], s.graph[s.open[i].id], s.open[i]) BY <1>3
  <2> QED BY <2>2, <2>3
<1>6. Stands(f, t.graph[Number(s)], t.open[m + 1])
  <2>1. Len(t.graph[Number(s)].items) = 0 BY <1>1
  <2>2. f.left = t.graph[Number(s)].len - Len(t.graph[Number(s)].items) BY <1>1, <2>1
  <2> QED BY <1>1, <2>2 DEF Stands
<1>7. Stands(U[m + 1], t.graph[t.open[m + 1].id], t.open[m + 1]) BY <1>1, <1>4, <1>6
<1>8. \A i \in 1..Len(t.open) : i \in 1..m \/ i = m + 1 BY <1>1, <1>2
<1>9. \A i \in 1..Len(t.open) : Stands(U[i], t.graph[t.open[i].id], t.open[i])
  BY <1>5, <1>7, <1>8
<1>10. Matches(U, t.graph, t.open) BY <1>1, <1>4, <1>9 DEF Matches
<1> QED BY <1>10 DEF U

\* Nothing is in a container that begins.
LEMMA EmptyPart ==
  ASSUME NEW n, n.kind \in ContainerKinds, n.len \in Nat, n.items = <<>>,
         n.kind \notin Arrays => n.len = 0
  PROVE  Part(n) = [i \in 1..n.len |-> None]
<1>1. Len(n.items) = 0 /\ DOMAIN n.items = {} BY LenProperties
<1>2. n.kind \in {"object", "sparse", "dense", "map", "set"} BY BeginEnd
<1>3. CASE n.kind = "dense"
  <2>1. \A i \in 1..n.len : ~(i <= Len(n.items)) BY <1>1
  <2> QED BY <1>3, <2>1 DEF Part
<1>4. CASE n.kind = "sparse" BY <1>4 DEF Part, ItemsAsPython
<1>5. CASE n.kind \in {"object", "map"}
  <2>1. n.len = 0 /\ 1..n.len = {} BY <1>5 DEF Arrays
  <2>2. Part(n) = [i \in DOMAIN n.items |->
                     <<AsPython(n.items[i][1]), AsPython(n.items[i][2])>>]
    BY <1>5 DEF Part, ItemsAsPython
  <2> QED BY <1>1, <2>1, <2>2
<1>6. CASE n.kind = "set"
  <2>1. n.len = 0 /\ 1..n.len = {} BY <1>6 DEF Arrays
  <2>2. Part(n) = [i \in DOMAIN n.items |-> AsPython(n.items[i])]
    BY <1>6 DEF Part, ItemsAsPython
  <2> QED BY <1>1, <2>1, <2>2
<1> QED BY <1>2, <1>3, <1>4, <1>5, <1>6

\* A container that is begun is the last there is, and empty.
LEMMA BegunHolds ==
  ASSUME NEW s, Sound(s), NEW t, NEW c, NEW len, Opens(s, t, c, len), Kindred(t.graph),
         c \notin Arrays => len = 0, NEW H \in Seq(Cells), Holds(H, s.graph),
         NEW cell \in Cells, cell.kind = c, cell.items = [i \in 1..len |-> None]
  PROVE  Holds(Append(H, cell), t.graph) /\ Rank(Number(s)) = Len(H) + 1
<1> DEFINE U == Append(H, cell)
           n == Len(s.graph)
           m == Len(H)
<1>1. /\ len \in Nat /\ Len(t.graph) = n + 1 /\ n \in Nat
      /\ \A i \in 1..n : t.graph[i] = s.graph[i]
      /\ t.graph[n + 1].kind = c
      /\ t.graph[n + 1].len = len /\ t.graph[n + 1].items = <<>>
  BY OpensIs, SoundIs
<1>2. c \in ContainerKinds BY KindsApart DEF Opens
<1>3. IsContainer(n + 1)
  <2>1. n + 1 \in 1..Len(t.graph) BY <1>1
  <2>2. graph[n + 1].kind = c BY <1>1, <2>1 DEF Kindred
  <2> QED BY <1>2, <2>2 DEF IsContainer
<1>4. m = Rank(n) BY DEF Holds
<1>5. m \in Nat /\ Rank(n + 1) = m + 1 BY <1>1, <1>3, <1>4, RankNext
<1>6. Len(U) = m + 1 /\ U[m + 1] = cell /\ \A i \in 1..m : U[i] = H[i] BY AppendProperties
<1>7. \A id \in 1..n : IsContainer(id) =>
        /\ H[Rank(id)].kind = s.graph[id].kind
        /\ Exact => H[Rank(id)].items = Part(s.graph[id])
  BY DEF Holds
<1> HIDE DEF U, m, n
<1>8. \A id \in 1..n : IsContainer(id) =>
        U[Rank(id)].kind = t.graph[id].kind /\ (Exact => U[Rank(id)].items = Part(t.graph[id]))
  <2>1. SUFFICES ASSUME NEW id \in 1..n, IsContainer(id)
                 PROVE  /\ U[Rank(id)].kind = t.graph[id].kind
                        /\ Exact => U[Rank(id)].items = Part(t.graph[id])
    OBVIOUS
  <2>2. Rank(id) \in 1..m
    <3>1. id \in Nat /\ 1 <= id /\ id <= n BY <1>1, <2>1
    <3> QED BY <1>1, <1>4, <2>1, <3>1, RankWithin
  <2>3. U[Rank(id)] = H[Rank(id)] /\ t.graph[id] = s.graph[id] BY <1>1, <1>6, <2>2
  <2> QED BY <1>7, <2>1, <2>3
<1>9. U[Rank(n + 1)].kind = t.graph[n + 1].kind /\ U[Rank(n + 1)].items = Part(t.graph[n + 1])
  <2>1. U[Rank(n + 1)] = cell BY <1>5, <1>6
  <2>2. PICK g : g = t.graph[n + 1] OBVIOUS
  <2>3. g.kind = c /\ g.len = len /\ g.items = <<>> BY <1>1, <2>2
  <2>4. Part(g) = [i \in 1..g.len |-> None] BY <1>1, <1>2, <2>3, EmptyPart
  <2>5. Part(g) = cell.items BY <2>3, <2>4
  <2> QED BY <2>1, <2>2, <2>3, <2>5
<1>10. \A id \in 1..Len(t.graph) : id \in 1..n \/ id = n + 1 BY <1>1
<1>11. \A id \in 1..Len(t.graph) : IsContainer(id) =>
         U[Rank(id)].kind = t.graph[id].kind /\ (Exact => U[Rank(id)].items = Part(t.graph[id]))
  BY <1>8, <1>9, <1>10
<1>12. Len(U) = Rank(Len(t.graph)) BY <1>1, <1>5, <1>6
<1>13. Holds(U, t.graph) BY <1>11, <1>12 DEF Holds
<1>14. Number(s) = n + 1 BY DEF Number, n
<1> QED BY <1>5, <1>13, <1>14 DEF U, m

\* The tag of a container and the length of an array are read, or are cut.
LEMMA HeaderRead ==
  ASSUME Typed, NEW b, NEW s, NEW t, Chapter(b, s, t),
         NEW c \in Containers, NEW len \in 0..MaxLength, BeginToken(b, s, t, c, len), pos = s.at,
         ~AtEnd
  PROVE  /\ Next1 = BeginTag[c]
         /\ c \notin Arrays => t.at = pos + 1
         /\ c \in Arrays =>
              IF t.at <= Len(bytes)
              THEN VarLen(pos + 1) > 0 /\ VarVal(pos + 1) = len /\ AfterVar(pos + 1) = t.at
              ELSE VarLen(pos + 1) = 0
<1>1. Sound(s) /\ b \in Seq(Byte) /\ Survives(b) BY DEF Chapter, Survives
<1>2. t.at = s.at + Len(Header(c, len)) BY <1>1, BeginForm
<1>3. c \in ContainerKinds /\ len \in Nat /\ len \in TwoByte
  <2>1. len \in Nat /\ len <= 16383 BY Bounds
  <2> QED BY <2>1, Bounds, KindsApart
<1>4. /\ <<BeginTag[c]>> \in Seq(Byte) /\ BeginTag[c] \in Nat /\ BeginTag[c] < 256
      /\ c \in Arrays => Header(c, len) = <<BeginTag[c]>> \o EncodeVarint(len)
      /\ c \notin Arrays => Header(c, len) = <<BeginTag[c]>>
      /\ Header(c, len) \in Seq(Byte) /\ Len(Header(c, len)) >= 1
  BY <1>3, HeaderIs
<1>5. Lies(b, pos, Header(c, len)) BY DEF BeginToken
<1>6. pos \in Nat BY TypedIs
<1>7. PICK x \in Nat : x = BeginTag[c] BY <1>4
<1>8. CASE c \in Arrays
  <2>1. PICK k : k = Len(EncodeVarint(len)) OBVIOUS
  <2>2. Header(c, len) = <<x>> \o EncodeVarint(len) /\ x < 256 BY <1>4, <1>7, <1>8
  <2>3. Lies(b, pos, <<x>> \o EncodeVarint(len)) BY <1>5, <2>2
  <2>4. /\ Next1 = x /\ k \in Nat
        /\ Len(<<x>> \o EncodeVarint(len)) = 1 + k
        /\ IF pos + 1 + k <= Len(bytes)
           THEN VarLen(pos + 1) > 0 /\ VarVal(pos + 1) = len /\ AfterVar(pos + 1) = pos + 1 + k
           ELSE VarLen(pos + 1) = 0
    BY <1>1, <1>3, <2>1, <2>2, <2>3, TagNumber
  <2>5. t.at = pos + 1 + k
    <3>1. Len(Header(c, len)) = 1 + k BY <2>2, <2>4
    <3> QED BY <1>2, <1>6, <2>4, <3>1
  <2> QED BY <1>7, <1>8, <2>4, <2>5
<1>9. CASE c \notin Arrays
  <2>1. <<x>> \in Seq(Byte) /\ Len(<<x>>) = 1 /\ <<x>>[1] = x BY <1>4, <1>7, OneIs
  <2>2. PICK e : e = <<x>> OBVIOUS
  <2>3. Header(c, len) = e BY <1>4, <1>7, <1>9, <2>2
  <2>4. e \in Seq(Byte) /\ Len(e) = 1 /\ e[1] = x BY <2>1, <2>2
  <2>5. Lies(b, pos, e) /\ Len(e) >= 1 BY <1>5, <2>3, <2>4
  <2>6. Next1 = e[1] BY <1>1, <2>4, <2>5, TokenTag
  <2> QED BY <1>2, <1>7, <1>9, <2>3, <2>4, <2>6
<1> QED BY <1>8, <1>9

\* A container begins.
LEMMA BeginGoesOn ==
  ASSUME Typed, Acts, pc = "read", NEW b, NEW s, NEW t, Chapter(b, s, t),
         Matches(stack, s.graph, s.open), Holds(heap, s.graph),
         NEW c \in Containers, NEW len \in 0..MaxLength, BeginToken(b, s, t, c, len), pos = s.at
  PROVE  Advances(b, s, t, pc', pos', stack', heap', val', raised')
<1>1. Sound(s) /\ b \in Seq(Byte) /\ Survives(b) BY DEF Chapter, Survives
<1>2. /\ Opens(s, t, c, len) /\ s.at < t.at /\ t.at = s.at + Len(Header(c, len))
  BY <1>1, BeginForm
<1>3. TopKind # "error" /\ ~ElementsDone
  <2>1. Ready(s, Obj(Number(s))) BY DEF BeginToken
  <2> QED BY <1>1, <2>1, MatchReady
<1>4. c \in ContainerKinds /\ len \in Nat /\ len \in TwoByte
  <2>1. len \in Nat /\ len <= 16383 BY Bounds
  <2> QED BY <2>1, Bounds, KindsApart
<1>6. c \notin Arrays => len = 0 BY DEF BeginToken
<1>7. pos \in Nat /\ t.at \in Nat BY TypedIs, ChapterIs
<1>8. CASE AtEnd
  <2>1. cut BY <1>2, <1>8, ShortIsCut
  <2> QED BY <1>3, <1>8, <2>1, NothingGoesOn
<1>9. CASE ~AtEnd
  <2>2. /\ Next1 = BeginTag[c]
        /\ c \notin Arrays => t.at = pos + 1
        /\ c \in Arrays =>
             IF t.at <= Len(bytes)
             THEN VarLen(pos + 1) > 0 /\ VarVal(pos + 1) = len /\ AfterVar(pos + 1) = t.at
             ELSE VarLen(pos + 1) = 0
    BY <1>9, HeaderRead
  <2>3. BeginContainer(c) \/ (c \in Arrays /\ VarLen(pos + 1) = 0 /\ Raises("V8Error"))
    BY <1>3, <1>4, <2>2, AtContainer
  <2>4. CASE c \in Arrays /\ VarLen(pos + 1) = 0 /\ Raises("V8Error")
    <3>1. ~(t.at <= Len(bytes)) BY <2>2, <2>4
    <3>2. cut
      <4>1. PICK q \in Nat : q = t.at BY <1>7
      <4>2. q <= t.at /\ ~(q <= Len(bytes)) BY <3>1, <4>1
      <4> QED BY <4>2, BehindIsCut
    <3>3. Right("V8Error") BY <3>2 DEF Right
    <3> QED BY <2>4, <3>3, RaisesWithin
  <2>5. CASE BeginContainer(c)
    <3> DEFINE f == Frame(c, Len(heap) + 1, len)
               cell == [kind |-> c, items |-> [i \in 1..len |-> None]]
    <3>1. c \in Arrays => VarVal(pos + 1) = len /\ AfterVar(pos + 1) = t.at
      <4>1. c \in Arrays => VarLen(pos + 1) > 0 BY <2>5 DEF BeginContainer
      <4> QED BY <2>2, <4>1
    <3>2. /\ heap' = Append(heap, cell) /\ stack' = Append(stack, f) /\ pos' = t.at /\ pc' = "read"
      <4>1. CASE c \in Arrays BY <2>5, <3>1, <4>1 DEF BeginContainer, Calls
      <4>2. CASE c \notin Arrays BY <1>6, <2>2, <2>5, <4>2 DEF BeginContainer, Calls
      <4> QED BY <4>1, <4>2
    <3>3. heap \in Seq(Cells) /\ Len(heap) \in Nat BY TypedIs, LenProperties
    <3>4. f \in Frames /\ f.kind = c /\ f.id = Len(heap) + 1 /\ f.key = NoValue /\ f.left = len
      <4>1. c \in ContainerKinds \cup {"string", "regexp", "error"}
            /\ NoValue \in PythonValue \cup {NoValue} /\ Len(heap) + 1 \in Nat /\ len \in Int
        BY <1>4, <3>3
      <4> QED BY <4>1 DEF Frame, Frames
    <3>5. cell \in Cells /\ cell.kind = c /\ cell.items = [i \in 1..len |-> None]
      <4>1. [i \in 1..len |-> None] \in Seq(Members(c))
        <5>1. CASE c \in {"object", "map"}
          <6>1. len = 0 BY <1>6, <5>1 DEF Arrays
          <6>2. [i \in 1..len |-> None] \in [1..len -> Members(c)] BY <6>1
          <6> QED BY <1>4, <6>2
        <5>2. CASE c \notin {"object", "map"}
          <6>1. None \in Members(c) BY <5>2, PythonValues DEF Members
          <6>2. [i \in 1..len |-> None] \in [1..len -> Members(c)] BY <6>1
          <6> QED BY <1>4, <6>2
        <5> QED BY <5>1, <5>2
      <4> QED BY <1>4, <4>1 DEF Cells
    <3> HIDE DEF f, cell
    <3>6. Kindred(t.graph) BY ChapterIs
    <3>7. Holds(heap', t.graph) /\ Rank(Number(s)) = Len(heap) + 1
      <4>1. Holds(Append(heap, cell), t.graph) /\ Rank(Number(s)) = Len(heap) + 1
        BY <1>1, <1>2, <1>6, <3>3, <3>5, <3>6, BegunHolds
      <4> QED BY <3>2, <4>1
    <3>8. Matches(stack', t.graph, t.open)
      <4>1. f.id = Rank(Number(s)) BY <3>4, <3>7
      <4>2. Matches(Append(stack, f), t.graph, t.open) BY <1>1, <1>2, <3>4, <4>1, BegunMatches
      <4> QED BY <3>2, <4>2
    <3>9. Between(pos', stack', heap', t) BY <3>2, <3>7, <3>8 DEF Between, Reached
    <3>10. t.open # <<>>
      <4>1. Len(t.open) = Len(s.open) + 1 /\ Len(s.open) \in Nat BY <1>1, <1>2, OpensIs, SoundIs
      <4> QED BY <4>1
    <3> QED BY <3>2, <3>9, <3>10 DEF Advances
  <2> QED BY <2>3, <2>4, <2>5
<1> QED BY <1>8, <1>9

\* The object that ends, its call and its number.
LEMMA EndIs ==
  ASSUME Typed, NEW b, NEW s, NEW t, Chapter(b, s, t), Matches(stack, s.graph, s.open),
         EndToken(b, s, t)
  PROVE  /\ Sound(s) /\ Survives(b) /\ b \in Seq(Byte) /\ s.open # <<>> /\ stack # <<>>
         /\ Completes(s, t, s.graph, Front(s.open), Obj(Last(s.open).id))
         /\ s.at < t.at /\ t.at = s.at + Len(Trailer(Into(s.graph, s.open)))
         /\ Into(s.graph, s.open) \in Nodes /\ Into(s.graph, s.open).kind \in Containers
         /\ Into(s.graph, s.open).len <= MaxLength
         /\ Len(Into(s.graph, s.open).items) <= MaxValues
         /\ Lies(b, s.at, Trailer(Into(s.graph, s.open)))
         /\ TopKind = Into(s.graph, s.open).kind /\ TopKind # "error"
         /\ TopKind # "dense" => ~ElementsDone /\ Looping
         /\ TopKind = "dense" => ElementsDone
         /\ Last(stack).id = Rank(Last(s.open).id)
         /\ Last(s.open).id \in 1..Len(s.graph)
         /\ graph[Last(s.open).id].kind = TopKind
<1>1. Sound(s) /\ b \in Seq(Byte) /\ Survives(b) BY DEF Chapter, Survives
<1>2. Shape(s.graph, s.open) /\ s.open \in Seq(Opened) BY <1>1, SoundIs
<1> DEFINE n == Into(s.graph, s.open)
           e == Last(s.open)
<1>3. /\ s.open # <<>> /\ e.key = NoValue /\ (n.kind = "dense" => Len(n.items) = n.len)
      /\ Len(n.items) <= MaxValues /\ Lies(b, s.at, Trailer(n))
  BY DEF EndToken
<1>4. /\ Completes(s, t, s.graph, Front(s.open), Obj(e.id))
      /\ s.at < t.at /\ t.at = s.at + Len(Trailer(n))
  BY <1>1, EndForm
<1>5. e.id \in 1..Len(s.graph) /\ n \in Nodes /\ n.kind \in Containers /\ n = s.graph[e.id]
  <2>1. e = s.open[Len(s.open)] /\ Len(s.open) \in 1..Len(s.open) BY <1>2, <1>3, TopIs
  <2> QED BY <1>1, <2>1, SoundIs DEF Into
<1>6. n.len <= MaxLength BY <1>2, <1>5 DEF Shape, NodeSound
<1>7. stack # <<>> /\ TopKind = Top.kind /\ Top.kind = n.kind /\ Stands(Top, n, e)
  BY <1>2, <1>3, MatchTop
<1>8. /\ TopKind # "error"
      /\ Looping <=> WantsKey(s.graph, s.open) \/ (s.open # <<>> /\ n.kind = "set")
      /\ ElementsDone <=> s.open # <<>> /\ n.kind = "dense" /\ Len(n.items) = n.len
  BY <1>2, MatchLoop
<1>9. n.kind \in {"object", "sparse", "dense", "map", "set"} BY <1>5, Bounds
<1>10. WantsKey(s.graph, s.open) <=> n.kind \in {"object", "sparse", "map"}
  BY <1>3 DEF WantsKey, Keyed
<1>11. Last(stack).id = Rank(e.id) BY <1>7 DEF Stands, Top
<1>12. graph[e.id].kind = TopKind
  <2>1. Kindred(s.graph) BY ChapterIs
  <2> QED BY <1>5, <1>7, <2>1 DEF Kindred
<1> HIDE DEF n, e
<1>13. TopKind # "dense" => ~ElementsDone /\ Looping BY <1>3, <1>7, <1>8, <1>9, <1>10
<1>14. TopKind = "dense" => ElementsDone BY <1>3, <1>7, <1>8
<1> QED BY <1>1, <1>3, <1>4, <1>5, <1>6, <1>7, <1>8, <1>11, <1>12, <1>13, <1>14 DEF n, e

\* A container is returned to whoever reads it.
LEMMA EndReturns ==
  ASSUME Typed, NEW b, NEW s, NEW t, Chapter(b, s, t), Matches(stack, s.graph, s.open),
         Holds(heap, s.graph), EndToken(b, s, t), NEW p,
         Returns(<<"obj", Last(stack).id>>, p, Front(stack)),
         Front(s.open) # <<>> => Reached(p, t.at)
  PROVE  Advances(b, s, t, pc', pos', stack', heap', val', raised')
<1> DEFINE id == Last(s.open).id
           o == Front(s.open)
<1>1. /\ Sound(s) /\ s.open # <<>> /\ Completes(s, t, s.graph, o, Obj(id))
      /\ Last(stack).id = Rank(id) /\ id \in 1..Len(s.graph) /\ graph[id].kind = TopKind
      /\ TopKind = Into(s.graph, s.open).kind /\ Into(s.graph, s.open).kind \in Containers
  BY EndIs
<1>2. s.open \in Seq(Opened) BY <1>1, SoundIs
<1>3. /\ pc' = "return" /\ val' = <<"obj", Rank(id)>> /\ pos' = p /\ stack' = Front(stack)
      /\ heap' = heap
  BY <1>1 DEF Returns
<1>4. AsPython(Obj(id)) = <<"obj", Rank(id)>>
  <2>1. IsContainer(id)
    <3>1. graph[id].kind \in Containers BY <1>1
    <3>2. PICK c \in Containers : c = graph[id].kind BY <3>1
    <3>3. c \in ContainerKinds BY KindsApart
    <3> QED BY <3>2, <3>3 DEF IsContainer
  <2>2. Obj(id)[1] = "object" /\ Obj(id)[2] = id BY DEF Obj
  <2> QED BY <2>1, <2>2 DEF AsPython
<1>5. Matches(Front(stack), s.graph, o) BY <1>1, <1>2, FrontMatches
<1> HIDE DEF id, o
<1>6. Matches(stack', s.graph, o) /\ Holds(heap', s.graph) /\ val' = AsPython(Obj(id))
  BY <1>3, <1>4, <1>5
<1>7. o # <<>> => Reached(pos', t.at) BY <1>3 DEF o
<1>8. Returning(pos', stack', heap', val', s, t) BY <1>1, <1>6, <1>7 DEF Returning
<1> QED BY <1>3, <1>8 DEF Advances, Within

\* The numbers at the end of an object are read, or are cut.
LEMMA LoopEnds ==
  ASSUME Typed, NEW b, NEW s, NEW t, Chapter(b, s, t), Matches(stack, s.graph, s.open),
         EndToken(b, s, t), TopKind # "dense", pos = s.at, ~AtEnd,
         NEW last, last = IF TopKind \in Arrays THEN AfterVar(pos + 1) ELSE pos + 1
  PROVE  /\ Next1 = EndTag[TopKind]
         /\ IF t.at <= Len(bytes)
            THEN VarLen(pos + 1) # 0 /\ VarLen(last) # 0 /\ AfterVar(last) = t.at
            ELSE VarLen(pos + 1) = 0 \/ VarLen(last) = 0
<1> DEFINE n == Into(s.graph, s.open)
<1>1. /\ Sound(s) /\ Survives(b) /\ b \in Seq(Byte)
      /\ t.at = s.at + Len(Trailer(n)) /\ n \in Nodes /\ n.kind \in Containers
      /\ n.len <= MaxLength /\ Len(n.items) <= MaxValues /\ Lies(b, s.at, Trailer(n))
      /\ TopKind = n.kind
  BY EndIs
<1> HIDE DEF n
<1>2. pos \in Nat /\ pos <= Len(bytes) /\ Len(bytes) \in Nat BY <1>1, TypedIs, SurvivesIs
<1>3. n.kind \in {"object", "sparse", "map", "set"} BY <1>1, Bounds
<1>4. /\ n.kind = "sparse" =>
           Trailer(n) = <<64>> \o EncodeVarint(Len(n.items)) \o EncodeVarint(n.len)
      /\ n.kind = "map" => Trailer(n) = <<58>> \o EncodeVarint(2 * Len(n.items))
      /\ n.kind \in {"object", "set"} =>
           Trailer(n) = <<EndTag[n.kind]>> \o EncodeVarint(Len(n.items))
      /\ n.len \in TwoByte /\ Len(n.items) \in TwoByte /\ 2 * Len(n.items) \in TwoByte
  BY <1>1, TrailerIs
<1>5. PICK x \in Nat : x = EndTag[n.kind] /\ x < 256 BY <1>3, BeginEnd
<1>6. CASE n.kind # "sparse"
  <2>1. PICK m \in TwoByte : Trailer(n) = <<x>> \o EncodeVarint(m)
    <3>1. CASE n.kind = "map"
      <4>1. x = 58 BY <1>5, <3>1, BeginEnd
      <4> QED BY <1>4, <3>1, <4>1
    <3>2. CASE n.kind # "map" BY <1>3, <1>4, <1>5, <1>6, <3>2
    <3> QED BY <3>1, <3>2
  <2>2. PICK k : k = Len(EncodeVarint(m)) OBVIOUS
  <2>3. Lies(b, pos, <<x>> \o EncodeVarint(m)) BY <1>1, <2>1
  <2>4. /\ Next1 = x /\ k \in Nat /\ Len(<<x>> \o EncodeVarint(m)) = 1 + k
        /\ IF pos + 1 + k <= Len(bytes)
           THEN VarLen(pos + 1) > 0 /\ VarVal(pos + 1) = m /\ AfterVar(pos + 1) = pos + 1 + k
           ELSE VarLen(pos + 1) = 0
    BY <1>1, <1>5, <2>2, <2>3, TagNumber
  <2>5. t.at = pos + 1 + k
    <3>1. Len(Trailer(n)) = 1 + k BY <2>1, <2>4
    <3>2. t.at = pos + Len(Trailer(n)) /\ k \in Nat BY <1>1, <2>4
    <3> QED BY <1>2, <3>1, <3>2
  <2>6. last = pos + 1 BY <1>1, <1>3, <1>6 DEF Arrays
  <2> QED BY <1>1, <1>5, <2>4, <2>5, <2>6
<1>7. CASE n.kind = "sparse"
  <2>1. PICK m \in TwoByte, l \in TwoByte :
          Trailer(n) = <<x>> \o EncodeVarint(m) \o EncodeVarint(l)
    <3>1. x = 64 BY <1>5, <1>7, BeginEnd
    <3> QED BY <1>4, <1>7, <3>1
  <2> DEFINE d == <<x>> \o EncodeVarint(m)
             e == EncodeVarint(l)
  <2>2. PICK k : k = Len(EncodeVarint(m)) OBVIOUS
  <2>3. e \in Seq(Byte) /\ Len(e) \in Nat BY EncodedLen
  <2>4. d \in Seq(Byte)
    <3>1. <<x>> \in Seq(Byte) /\ EncodeVarint(m) \in Seq(Byte) BY <1>5, OneIs, EncodedLen
    <3> QED BY <3>1, ConcatProperties
  <2> HIDE DEF d, e
  <2>5. Lies(b, pos, d \o e) /\ Trailer(n) = d \o e BY <1>1, <2>1 DEF d, e
  <2>6. Lies(b, pos, d) /\ Lies(b, pos + Len(d), e) BY <1>1, <1>2, <2>3, <2>4, <2>5, LiesParts
  <2>7. Len(d \o e) = Len(d) + Len(e) BY <1>1, <1>2, <2>3, <2>4, LiesParts
  <2>8. Lies(b, pos, <<x>> \o EncodeVarint(m)) BY <2>6 DEF d
  <2>9. /\ Next1 = x /\ k \in Nat /\ Len(<<x>> \o EncodeVarint(m)) = 1 + k
        /\ IF pos + 1 + k <= Len(bytes)
           THEN VarLen(pos + 1) > 0 /\ VarVal(pos + 1) = m /\ AfterVar(pos + 1) = pos + 1 + k
           ELSE VarLen(pos + 1) = 0
    BY <1>1, <1>5, <2>2, <2>8, TagNumber
  <2>10. Len(d) = 1 + k BY <2>9 DEF d
  <2>11. t.at = pos + 1 + k + Len(e)
    <3>1. Len(Trailer(n)) = 1 + k + Len(e) BY <2>5, <2>7, <2>10
    <3>2. t.at = pos + Len(Trailer(n)) /\ k \in Nat BY <1>1, <2>9
    <3> QED BY <1>2, <2>3, <3>1, <3>2
  <2>12. PICK p : p = pos + 1 + k OBVIOUS
  <2>13. p \in Nat /\ Lies(b, p, e) /\ t.at = p + Len(e)
    <3>1. p = pos + Len(d) /\ p \in Nat BY <1>2, <2>9, <2>10, <2>12
    <3> QED BY <2>6, <2>11, <2>12, <3>1
  <2>14. last = AfterVar(pos + 1) BY <1>1, <1>7 DEF Arrays
  <2>15. CASE p <= Len(bytes)
    <3>1. IF p + Len(e) <= Len(bytes)
          THEN VarLen(p) > 0 /\ AfterVar(p) = p + Len(e) ELSE VarLen(p) = 0
      <4>1. Lies(b, p, EncodeVarint(l)) BY <2>13 DEF e
      <4> QED BY <1>1, <2>13, <2>15, <4>1, NumberRead DEF e
    <3>2. VarLen(pos + 1) > 0 /\ last = p BY <2>9, <2>12, <2>14, <2>15
    <3> QED BY <1>1, <1>5, <2>9, <2>13, <3>1, <3>2
  <2>16. CASE ~(p <= Len(bytes))
    <3>1. VarLen(pos + 1) = 0 BY <2>9, <2>12, <2>16
    <3>2. ~(t.at <= Len(bytes)) BY <1>2, <2>3, <2>13, <2>16
    <3> QED BY <1>1, <1>5, <2>9, <3>1, <3>2
  <2> QED BY <2>15, <2>16
<1> QED BY <1>6, <1>7

\* At the end of a container that has a loop it is returned, or cut.
LEMMA LoopEndGoesOn ==
  ASSUME Typed, Acts, pc = "read", NEW b, NEW s, NEW t, Chapter(b, s, t),
         Matches(stack, s.graph, s.open), Holds(heap, s.graph), EndToken(b, s, t),
         TopKind # "dense", pos = s.at
  PROVE  Advances(b, s, t, pc', pos', stack', heap', val', raised')
<1>1. s.at < t.at /\ TopKind # "error" /\ ~ElementsDone /\ Looping BY EndIs
<1>2. CASE AtEnd
  <2>1. cut BY <1>1, <1>2, ShortIsCut
  <2> QED BY <1>1, <1>2, <2>1, NothingGoesOn
<1>3. CASE ~AtEnd
  <2>1. PICK last : last = IF TopKind \in Arrays THEN AfterVar(pos + 1) ELSE pos + 1 OBVIOUS
  <2>2. /\ Next1 = EndTag[TopKind]
        /\ IF t.at <= Len(bytes)
           THEN VarLen(pos + 1) # 0 /\ VarLen(last) # 0 /\ AfterVar(last) = t.at
           ELSE VarLen(pos + 1) = 0 \/ VarLen(last) = 0
    BY <1>3, <2>1, LoopEnds
  <2>3. EndContainer BY <1>1, <2>2, AtEndTag
  <2>4. IF VarLen(pos + 1) = 0 \/ VarLen(last) = 0
        THEN Raises("V8Error")
        ELSE Returns(<<"obj", Last(stack).id>>, AfterVar(last), Front(stack))
    BY <1>1, <2>1, <2>3 DEF EndContainer
  <2>5. CASE t.at <= Len(bytes)
    <3>1. Returns(<<"obj", Last(stack).id>>, t.at, Front(stack)) BY <2>2, <2>4, <2>5
    <3>2. Reached(t.at, t.at) BY DEF Reached
    <3> QED BY <3>1, <3>2, EndReturns
  <2>6. CASE ~(t.at <= Len(bytes))
    <3>1. Raises("V8Error") BY <2>2, <2>4, <2>6
    <3>2. PICK q \in Nat : q = t.at BY ChapterIs
    <3>3. q <= t.at /\ ~(q <= Len(bytes)) BY <2>6, <3>2
    <3>4. cut BY <3>3, BehindIsCut
    <3>5. Right("V8Error") BY <3>4 DEF Right
    <3> QED BY <3>1, <3>5, RaisesWithin
  <2> QED BY <2>5, <2>6
<1> QED BY <1>2, <1>3

\* Where no dense array is an element, one ends only at the outermost level.
LEMMA DenseAtRoot ==
  ASSUME Typed, DenseOnlyAtRoot, NEW b, NEW s, NEW t, Chapter(b, s, t),
         Matches(stack, s.graph, s.open), EndToken(b, s, t), TopKind = "dense"
  PROVE  Front(s.open) = <<>>
<1> DEFINE id == Last(s.open).id
           m == Len(s.open)
<1>1. Sound(s) /\ s.open # <<>> /\ id \in 1..Len(s.graph) /\ graph[id].kind = "dense" BY EndIs
<1>2. /\ s.open \in Seq(Opened) /\ Shape(s.graph, s.open) /\ Rooted(s) /\ m \in Nat
      /\ Len(s.graph) \in Nat
  BY <1>1, SoundIs
<1>3. id \in Nat /\ id \in DOMAIN graph
  <2>1. Kindred(s.graph) /\ DOMAIN graph = 1..Len(graph) /\ Len(graph) \in Nat BY ChapterIs
  <2>2. Len(s.graph) <= Len(graph) BY <2>1 DEF Kindred
  <2> QED BY <1>1, <1>2, <2>1, <2>2
<1>4. root = Obj(id) BY <1>1, <1>3 DEF DenseOnlyAtRoot
<1>5. id = 1
  <2>1. Rooted(Final(b)) /\ Final(b).root = root
    <3>1. Sound(Final(b)) BY DEF Chapter
    <3> QED BY <3>1, ChapterIs, SoundIs
  <2>2. \A j \in Nat : root = Obj(j) => j = 1 BY <2>1 DEF Rooted
  <2> QED BY <1>3, <1>4, <2>2
<1>6. s.open[1].id = 1 BY <1>1, <1>2 DEF Rooted
<1>7. Last(s.open) = s.open[m] /\ m \in 1..m BY <1>1, <1>2, TopIs
<1>8. s.open[m].id = 1 BY <1>5, <1>7
<1>9. m = 1
  <2>1. SUFFICES ASSUME m # 1 PROVE FALSE OBVIOUS
  <2>2. PICK i \in 1..m : i = 1 BY <1>7
  <2> HIDE DEF m
  <2>3. m # i /\ i \in 1..m /\ m \in 1..m BY <1>7, <2>1, <2>2
  <2>4. i < m BY <1>2, <2>3
  <2>5. \A j, l \in 1..m : j < l => s.open[j].id < s.open[l].id
    BY <1>2 DEF Shape, Increasing, m
  <2>6. s.open[i].id < s.open[m].id BY <2>3, <2>4, <2>5
  <2> QED BY <1>6, <1>8, <2>2, <2>6
<1>10. Front(s.open) \in Seq(Opened) /\ Len(Front(s.open)) = m - 1 BY <1>1, <1>2, FrontIs
<1>11. Len(Front(s.open)) = 0 BY <1>9, <1>10
<1> QED BY <1>10, <1>11, EmptySeq

\* The loop of a dense array takes two numbers, and V8 writes a tag before.
LEMMA DenseEndGoesOn ==
  ASSUME Typed, Acts, Aligned, pc = "read", NEW b, NEW s, NEW t, Chapter(b, s, t),
         Matches(stack, s.graph, s.open), Holds(heap, s.graph), EndToken(b, s, t),
         TopKind = "dense", Reached(pos, s.at)
  PROVE  Advances(b, s, t, pc', pos', stack', heap', val', raised')
<1> DEFINE n == Into(s.graph, s.open)
<1>1. /\ Sound(s) /\ Survives(b) /\ b \in Seq(Byte) /\ s.at < t.at
      /\ t.at = s.at + Len(Trailer(n)) /\ n \in Nodes /\ n.kind \in Containers
      /\ n.len <= MaxLength /\ Len(n.items) <= MaxValues /\ Lies(b, s.at, Trailer(n))
      /\ TopKind = n.kind /\ ElementsDone
  BY EndIs
<1> HIDE DEF n
<1>2. pos \in Nat /\ pos <= Len(bytes) /\ Len(bytes) \in Nat /\ s.at \in Nat /\ t.at \in Nat
  BY <1>1, TypedIs, SurvivesIs, ChapterIs
<1>3. EndContainer BY <1>1, AtElementsDone
<1>4. PICK last : last = AfterVar(pos) OBVIOUS
<1>5. IF VarLen(pos) = 0 \/ VarLen(last) = 0
      THEN Raises("V8Error")
      ELSE Returns(<<"obj", Last(stack).id>>, AfterVar(last), Front(stack))
  BY <1>1, <1>3, <1>4 DEF EndContainer, Arrays
<1>6. CASE VarLen(pos) = 0 \/ VarLen(last) = 0
  <2>1. cut
    <3>1. CASE pos = s.at
      <4>1. Trailer(n) = <<36, 0>> \o EncodeVarint(n.len) /\ n.len \in TwoByte BY <1>1, TrailerIs
      <4>2. PICK x \in Nat, y \in Nat : x = 36 /\ y = 0 OBVIOUS
      <4> DEFINE d == <<x, y>>
                 e == EncodeVarint(n.len)
      <4>3. d \in Seq(Byte) /\ Len(d) = 2 /\ d[1] = x /\ d[2] = y BY <4>2 DEF Byte
      <4>4. e \in Seq(Byte) /\ Len(e) \in Nat BY <4>1, EncodedLen
      <4>5. Trailer(n) = d \o e BY <4>1, <4>2
      <4> HIDE DEF d, e
      <4>6. Lies(b, pos, d \o e) BY <1>1, <3>1, <4>5
      <4>7. Lies(b, pos, d) BY <1>1, <1>2, <4>3, <4>4, <4>6, LiesParts
      <4>8. Len(d \o e) = Len(d) + Len(e) BY <4>3, <4>4, ConcatProperties
      <4>9. t.at >= pos + 2
        <5>1. Len(Trailer(n)) = 2 + Len(e) BY <4>3, <4>5, <4>8
        <5>2. t.at = pos + Len(Trailer(n)) BY <1>1, <3>1
        <5> QED BY <1>2, <4>4, <5>1, <5>2
      <4>10. SUFFICES ASSUME pos + 2 <= Len(bytes) PROVE FALSE
        <5>1. PICK q \in Nat : q = pos + 2 BY <1>2
        <5>2. ~(pos + 2 <= Len(bytes)) => q <= t.at /\ ~(q <= Len(bytes)) BY <4>9, <5>1
        <5> QED BY <5>2, BehindIsCut
      <4>11. b[pos + 1] = x /\ pos + 1 <= Len(b)
        <5>1. 1 \in 1..Len(d) BY <4>3
        <5>2. b[pos + 1] = d[1] /\ pos + Len(d) <= Len(b) BY <4>7, <5>1 DEF Lies
        <5>3. Len(b) \in Nat BY <1>1, LenProperties
        <5> QED BY <1>2, <4>3, <5>2, <5>3
      <4>12. b[pos + 1 + 1] = y /\ pos + 1 + 1 <= Len(b)
        <5>1. 2 \in 1..Len(d) BY <4>3
        <5>2. b[pos + 2] = d[2] /\ pos + Len(d) <= Len(b) BY <4>7, <5>1 DEF Lies
        <5>3. Len(b) \in Nat /\ pos + 2 = pos + 1 + 1 BY <1>1, <1>2, LenProperties
        <5> QED BY <1>2, <4>3, <5>2, <5>3
      <4>13. PICK p \in Nat : p = pos + 1 BY <1>2
      <4>14. Lies(b, pos, <<x>>) BY <1>1, <1>2, <4>11, LiesOne
      <4>15. Lies(b, p, <<y>>) BY <1>1, <4>12, <4>13, LiesOne
      <4>16. x \in TwoByte /\ EncodeVarint(x) = <<x>> /\ y \in TwoByte /\ EncodeVarint(y) = <<y>>
        <5>1. x < 128 /\ y < 128 BY <4>2
        <5> QED BY <5>1, SmallNumber
      <4>17. Len(<<x>>) = 1 /\ Len(<<y>>) = 1 OBVIOUS
      <4>18. VarLen(pos) > 0 /\ AfterVar(pos) = pos + 1
        <5>1. Lies(b, pos, EncodeVarint(x)) BY <4>14, <4>16
        <5>2. PICK k : k = Len(EncodeVarint(x)) OBVIOUS
        <5>3. IF pos + k <= Len(bytes) THEN VarLen(pos) > 0 /\ AfterVar(pos) = pos + k
              ELSE VarLen(pos) = 0
          BY <1>1, <1>2, <4>16, <5>1, <5>2, NumberRead
        <5>4. k = 1 BY <4>16, <4>17, <5>2
        <5>5. pos + 1 <= Len(bytes) BY <1>2, <4>10
        <5> QED BY <5>3, <5>4, <5>5
      <4>19. VarLen(p) > 0
        <5>1. Lies(b, p, EncodeVarint(y)) BY <4>15, <4>16
        <5>2. PICK k : k = Len(EncodeVarint(y)) OBVIOUS
        <5>3. p <= Len(bytes) /\ p + 1 <= Len(bytes) BY <1>2, <4>10, <4>13
        <5>4. IF p + k <= Len(bytes) THEN VarLen(p) > 0 ELSE VarLen(p) = 0
          BY <1>1, <4>16, <5>1, <5>2, <5>3, NumberRead
        <5>5. k = 1 BY <4>16, <4>17, <5>2
        <5> QED BY <5>3, <5>4, <5>5
      <4>20. last = p BY <1>4, <4>13, <4>18
      <4> QED BY <1>6, <4>18, <4>19, <4>20
    <3>2. CASE pos # s.at
      <4>1. pos = Len(bytes) /\ pos < s.at BY <3>2 DEF Reached
      <4>2. PICK q \in Nat : q = s.at BY <1>2
      <4>3. q <= t.at /\ ~(q <= Len(bytes)) BY <1>1, <1>2, <4>1, <4>2
      <4> QED BY <4>3, BehindIsCut
    <3> QED BY <3>1, <3>2
  <2>2. Right("V8Error") BY <2>1 DEF Right
  <2>3. Raises("V8Error") BY <1>5, <1>6
  <2> QED BY <2>2, <2>3, RaisesWithin
<1>7. CASE ~(VarLen(pos) = 0 \/ VarLen(last) = 0)
  <2>1. Returns(<<"obj", Last(stack).id>>, AfterVar(last), Front(stack)) BY <1>5, <1>7
  <2>2. Front(s.open) = <<>> BY DenseAtRoot DEF Aligned
  <2> QED BY <2>1, <2>2, EndReturns
<1> QED BY <1>6, <1>7

\* At the end of a container it is returned, or cut.
LEMMA EndGoesOn ==
  ASSUME Typed, Acts, Aligned, pc = "read", NEW b, NEW s, NEW t, Chapter(b, s, t),
         Matches(stack, s.graph, s.open), Holds(heap, s.graph), EndToken(b, s, t),
         Reached(pos, s.at)
  PROVE  Advances(b, s, t, pc', pos', stack', heap', val', raised')
<1>1. CASE TopKind = "dense" BY <1>1, DenseEndGoesOn
<1>2. CASE TopKind # "dense" /\ pos = s.at BY <1>2, LoopEndGoesOn
<1>3. CASE TopKind # "dense" /\ pos # s.at
  <2>1. pos = Len(bytes) /\ pos < s.at BY <1>3 DEF Reached
  <2>2. s.at < t.at /\ TopKind # "error" /\ ~ElementsDone BY <1>3, EndIs
  <2>3. pos \in Nat /\ s.at \in Nat /\ t.at \in Nat BY TypedIs, ChapterIs
  <2>4. AtEnd /\ pos < t.at BY <2>1, <2>2, <2>3 DEF AtEnd
  <2>5. cut BY <2>4, ShortIsCut
  <2> QED BY <2>2, <2>4, <2>5, NothingGoesOn
<1> QED BY <1>1, <1>2, <1>3

\* Where a value follows, and the bytes do not reach it.
LEMMA BehindGoesOn ==
  ASSUME Typed, Acts, pc = "read", NEW b, NEW s, NEW t, Chapter(b, s, t),
         Matches(stack, s.graph, s.open), NEW v, Ready(s, v), Reached(pos, s.at), pos # s.at
  PROVE  Advances(b, s, t, pc', pos', stack', heap', val', raised')
<1>1. pos = Len(bytes) /\ pos < s.at BY DEF Reached
<1>2. Sound(s) BY DEF Chapter
<1>3. TopKind # "error" /\ ~ElementsDone BY <1>2, MatchReady
<1>4. pos \in Nat /\ s.at \in Nat /\ t.at \in Nat /\ s.at < t.at BY TypedIs, ChapterIs
<1>5. AtEnd /\ pos < t.at BY <1>1, <1>4 DEF AtEnd
<1>6. cut BY <1>5, ShortIsCut
<1> QED BY <1>3, <1>5, <1>6, NothingGoesOn

\* Padding is skipped, but not where a loop reads the tag.
LEMMA PaddingGoesOn ==
  ASSUME Typed, Acts, pc = "read", NEW b, NEW s, NEW t, Chapter(b, s, t),
         Matches(stack, s.graph, s.open), Holds(heap, s.graph), NEW p \in Primitives,
         PrimitiveToken(b, padded, s, t, p, 1), pos = s.at
  PROVE  Advances(b, s, t, pc', pos', stack', heap', val', raised')
<1>1. Sound(s) /\ b \in Seq(Byte) /\ Survives(b) BY DEF Chapter, Survives
<1>2. s.at < t.at BY ChapterIs
<1>3. TopKind # "error" /\ ~ElementsDone /\ (Looping <=> InLoop(s))
  <2>1. Ready(s, Prim(p)) BY DEF PrimitiveToken
  <2> QED BY <1>1, <2>1, MatchReady
<1>4. CASE AtEnd
  <2>1. cut BY <1>2, <1>4, ShortIsCut
  <2> QED BY <1>3, <1>4, <2>1, NothingGoesOn
<1>5. CASE ~AtEnd
  <2>1. Next1 = 0
    <3>1. PICK x \in Nat : x = 0 OBVIOUS
    <3>2. <<x>> \in Seq(Byte) /\ Len(<<x>>) = 1 /\ <<x>>[1] = x
      <4>1. x < 256 BY <3>1
      <4> QED BY <4>1, OneIs
    <3>3. Lies(b, pos, <<0>>) BY DEF PrimitiveToken
    <3>4. Lies(b, pos, <<x>>) BY <3>1, <3>3
    <3>5. PICK e : e = <<x>> OBVIOUS
    <3>6. e \in Seq(Byte) /\ Len(e) >= 1 /\ e[1] = x /\ Lies(b, pos, e) BY <3>2, <3>4, <3>5
    <3>7. Next1 = e[1] BY <1>1, <1>5, <3>6, TokenTag
    <3> QED BY <3>1, <3>6, <3>7
  <2>2. IF Looping THEN Raises("V8Error") ELSE SkipPadding BY <1>3, <2>1, AtPadding
  <2>3. CASE Looping
    <3>1. padded = TRUE
      <4>1. InLoop(s) BY <1>3, <2>3
      <4>2. padded BY <4>1 DEF PrimitiveToken
      <4>3. padded \in BOOLEAN BY DEF Chapter
      <4> QED BY <4>2, <4>3
    <3>2. Right("V8Error") BY <3>1 DEF Right
    <3>3. Raises("V8Error") BY <2>2, <2>3
    <3> QED BY <3>2, <3>3, RaisesWithin
  <2>4. CASE ~Looping
    <3>1. Skips(pos + 1)
      <4>1. Next1 = Tag.PADDING BY <2>1, TagIs
      <4> QED BY <2>2, <2>4, <4>1 DEF SkipPadding
    <3>2. /\ pos' = s.at + 1 /\ pc' = "read" /\ stack' = stack /\ heap' = heap BY <3>1 DEF Skips
    <3>3. ~InLoop(s) BY <1>3, <2>4
    <3>4. Matches(stack', s.graph, s.open) /\ Holds(heap', s.graph) BY <3>2
    <3>5. Padding(b, pos', stack', heap', s, t) BY <3>2, <3>3, <3>4 DEF Padding
    <3> QED BY <3>2, <3>5 DEF Advances, Within
  <2> QED BY <2>3, <2>4
<1> QED BY <1>4, <1>5

\* Between two values the reader reads the one that follows.
LEMMA LeafGoesOn ==
  ASSUME Typed, Acts, Aligned, pc = "read", NEW b, NEW s, NEW t, Chapter(b, s, t),
         Matches(stack, s.graph, s.open), Holds(heap, s.graph),
         NEW l \in Leaves, LeafToken(b, s, t, l), pos = s.at
  PROVE  Advances(b, s, t, pc', pos', stack', heap', val', raised')
<1>1. l \in KindsWritten BY LeafWritten
<1>2. l # "host" /\ l # "errorc" BY <1>1 DEF Aligned
<1>3. l \in {"date", "invalid", "wrapper", "string", "regexp", "error", "errorc", "buffer", "host"}
  BY V8Constants
<1>4. CASE l \in {"date", "invalid", "wrapper", "buffer"} BY <1>4, LeafAtomGoesOn
<1>5. CASE l \in {"string", "regexp", "error"} BY <1>5, WrappedBegins
<1> QED BY <1>2, <1>3, <1>4, <1>5

\* In front of a token the reader goes on, or raises what it may.
LEMMA BetweenGoesOn ==
  ASSUME Typed, Acts, Aligned, pc = "read", NEW b, NEW s, NEW t, Chapter(b, s, t),
         Between(pos, stack, heap, s)
  PROVE  Advances(b, s, t, pc', pos', stack', heap', val', raised')
<1>1. Reached(pos, s.at) /\ Matches(stack, s.graph, s.open) /\ Holds(heap, s.graph)
  BY DEF Between
<1>2. Token(b, referred, padded, s, t) /\ s.at \in Nat BY ChapterIs DEF Chapter
<1>3. ASSUME NEW p \in Primitives, NEW pad \in {0, 1}, PrimitiveToken(b, padded, s, t, p, pad)
      PROVE  Advances(b, s, t, pc', pos', stack', heap', val', raised')
  <2>1. Ready(s, Prim(p)) BY <1>3 DEF PrimitiveToken
  <2>2. CASE pos # s.at BY <1>1, <2>1, <2>2, BehindGoesOn
  <2>3. CASE pos = s.at /\ pad = 0
    <3>1. pos = s.at + pad BY <1>2, <2>3
    <3> QED BY <1>1, <1>3, <3>1, PrimitiveGoesOn
  <2>4. CASE pos = s.at /\ pad = 1
    <3>1. PrimitiveToken(b, padded, s, t, p, 1) BY <1>3, <2>4
    <3> QED BY <1>1, <2>4, <3>1, PaddingGoesOn
  <2> QED BY <2>2, <2>3, <2>4
<1>4. ASSUME NEW l \in Leaves, LeafToken(b, s, t, l)
      PROVE  Advances(b, s, t, pc', pos', stack', heap', val', raised')
  <2>1. Ready(s, Obj(Number(s))) BY <1>4 DEF LeafToken
  <2>2. CASE pos # s.at BY <1>1, <2>1, <2>2, BehindGoesOn
  <2>3. CASE pos = s.at BY <1>1, <1>4, <2>3, LeafGoesOn
  <2> QED BY <2>2, <2>3
<1>5. ASSUME NEW c \in Containers, NEW len \in 0..MaxLength, BeginToken(b, s, t, c, len)
      PROVE  Advances(b, s, t, pc', pos', stack', heap', val', raised')
  <2>1. Ready(s, Obj(Number(s))) BY <1>5 DEF BeginToken
  <2>2. CASE pos # s.at BY <1>1, <2>1, <2>2, BehindGoesOn
  <2>3. CASE pos = s.at BY <1>1, <1>5, <2>3, BeginGoesOn
  <2> QED BY <2>2, <2>3
<1>6. ASSUME NEW id \in Nat, ReferenceToken(b, referred, s, t, id)
      PROVE  Advances(b, s, t, pc', pos', stack', heap', val', raised')
  <2>1. Ready(s, Obj(id)) BY <1>6 DEF ReferenceToken
  <2>2. CASE pos # s.at BY <1>1, <2>1, <2>2, BehindGoesOn
  <2>3. CASE pos = s.at BY <1>1, <1>6, <2>3, ReferenceGoesOn
  <2> QED BY <2>2, <2>3
<1>7. CASE EndToken(b, s, t) BY <1>1, <1>7, EndGoesOn
<1> QED BY <1>2, <1>3, <1>4, <1>5, <1>6, <1>7 DEF Token

(***************************************************************************)
(* What is too deep or too long for the reader was written so              *)
(***************************************************************************)
\* The calls are as deep as the objects, and one more inside a leaf.
LEMMA DeepIs ==
  ASSUME Typed, TooDeep, NEW b, NEW s, NEW t, Chapter(b, s, t),
         Within(b, s, t, pc, pos, stack, heap, val, raised)
  PROVE  ~CallsFit
<1>1. deepest \in Nat /\ Len(s.open) <= deepest /\ Sound(s) BY DEF Chapter
<1>2. pc = "read" /\ Len(stack) >= Depth BY DEF TooDeep
<1>3. Len(s.open) \in Nat BY <1>1, SoundIs
<1>4. Len(stack) <= Len(s.open) + 1
  <2>1. CASE Matches(stack, s.graph, s.open)
    <3>1. Len(stack) = Len(s.open) BY <2>1 DEF Matches
    <3> QED BY <1>3, <3>1
  <2>2. CASE Wrapping(b, pc, pos, stack, heap, val, s, t)
    <3>1. stack # <<>> /\ Len(Front(stack)) = Len(s.open) BY <2>2 DEF Wrapping, Matches
    <3>2. stack \in Seq(Frames) /\ Len(stack) \in Nat BY TypedIs, LenProperties
    <3>3. Len(Front(stack)) = Len(stack) - 1 BY <3>1, <3>2, FrontFrames
    <3> QED BY <1>3, <3>1, <3>2, <3>3
  <2> QED BY <1>2, <2>1, <2>2 DEF Within, Between, Padding
<1>5. Len(stack) \in Nat /\ Depth \in Nat
  <2>1. stack \in Seq(Frames) BY TypedIs
  <2> QED BY <2>1, V8Constants, LenProperties
<1> QED BY <1>1, <1>2, <1>3, <1>4, <1>5 DEF CallsFit

\* Nothing but an array begins as one.
LEMMA NoArrayTag == \A a \in Primitives \cup Leaves : Encoding[a][1] \notin {97, 65}
<1> SUFFICES ASSUME NEW a \in Primitives \cup Leaves PROVE Encoding[a][1] \notin {97, 65}
  OBVIOUS
<1>1. a \in {"undefined", "null", "true", "one", "narrow", "wide", "lone", "date", "invalid",
             "wrapper", "string", "regexp", "error", "errorc", "buffer", "host"}
  BY V8Constants
<1>2. CASE a \in {"date", "invalid"}
  <2>1. PICK w \in {Date, NaN} : Encoding[a] = <<68>> \o w BY <1>2, EncodingIs
  <2>2. PICK d : d = << 68 >> OBVIOUS
  <2>3. d \in Seq(Byte) /\ Len(d) = 1 /\ d[1] = 68
    <3>1. \A x \in Nat : x < 256 => <<x>> \in Seq(Byte) /\ Len(<<x>>) = 1 /\ <<x>>[1] = x
      BY OneIs
    <3>2. 68 \in Nat /\ 68 < 256 OBVIOUS
    <3> QED BY <2>2, <3>1, <3>2
  <2>4. w \in Seq(Byte) /\ Len(w) = 8 BY DatesIs
  <2>5. (d \o w)[1] = d[1] BY <2>3, <2>4, ConcatProperties
  <2> QED BY <2>1, <2>2, <2>3, <2>5
<1>3. ASSUME a \notin {"date", "invalid"} PROVE Encoding[a][1] \notin {97, 65}
  <2>1. CASE a = "undefined" BY <2>1, EncodingIs
  <2>2. CASE a = "null" BY <2>2, EncodingIs
  <2>3. CASE a = "true" BY <2>3, EncodingIs
  <2>4. CASE a = "wrapper" BY <2>4, EncodingIs
  <2>5. CASE a = "one" BY <2>5, EncodingIs
  <2>6. CASE a = "narrow" BY <2>6, EncodingIs
  <2>7. CASE a = "wide" BY <2>7, EncodingIs
  <2>8. CASE a = "lone" BY <2>8, EncodingIs
  <2>9. CASE a = "string" BY <2>9, EncodingIs
  <2>10. CASE a = "regexp" BY <2>10, EncodingIs
  <2>11. CASE a = "error" BY <2>11, EncodingIs
  <2>12. CASE a = "errorc" BY <2>12, EncodingIs
  <2>13. CASE a = "buffer" BY <2>13, EncodingIs
  <2>14. CASE a = "host" BY <2>14, EncodingIs
  <2> QED BY <1>1, <1>3, <2>1, <2>2, <2>3, <2>4, <2>5, <2>6, <2>7,
       <2>8, <2>9, <2>10, <2>11, <2>12, <2>13, <2>14
<1> QED BY <1>2, <1>3

\* Where something else is written, no array begins.
LEMMA NotLong ==
  ASSUME Typed, NEW b, Survives(b), NEW e \in Seq(Byte), Len(e) >= 1, Lies(b, pos, e),
         e[1] \notin {97, 65}, NEW c \in ContainerKinds, TooLong(c)
  PROVE  FALSE
<1>1. Next1 = BeginTag[c] /\ c \in Arrays BY DEF TooLong
<1>2. Next1 \in {97, 65} BY <1>1, TagsApart
<1>3. ~AtEnd BY <1>2, NextRange, TypedIs
<1>4. Next1 = e[1] BY <1>3, TokenTag
<1> QED BY <1>2, <1>4

\* In front of a token an array that is too long is one that was written.
LEMMA LongBetween ==
  ASSUME Typed, NEW b, NEW s, NEW t, Chapter(b, s, t), pos = s.at,
         Matches(stack, s.graph, s.open), NEW c \in ContainerKinds, TooLong(c)
  PROVE  ~ArraysFit
<1>1. Sound(s) /\ b \in Seq(Byte) /\ Survives(b) /\ Token(b, referred, padded, s, t)
  BY DEF Chapter, Survives
<1>2. /\ ReadingTag /\ Next1 = BeginTag[c] /\ c \in Arrays
      /\ VarLen(pos + 1) > 0 /\ VarVal(pos + 1) > Memory
  BY DEF TooLong
<1>3. Next1 \in {97, 65} /\ ~AtEnd
  <2>1. Next1 \in {97, 65} BY <1>2, TagsApart
  <2> QED BY <2>1, NextRange, TypedIs
<1>4. pos \in Nat BY TypedIs
<1>5. ASSUME NEW p \in Primitives, NEW pad \in {0, 1}, PrimitiveToken(b, padded, s, t, p, pad)
      PROVE  FALSE
  <2>1. CASE pad = 0
    <3>1. Lies(b, s.at + pad, Encoding[p]) /\ s.at + pad = pos
      BY <1>4, <1>5, <2>1 DEF PrimitiveToken
    <3>2. Encoding[p] \in Seq(Byte) /\ Len(Encoding[p]) >= 1 BY EncodingBytes
    <3> QED BY <1>1, <3>1, <3>2, NoArrayTag, NotLong
  <2>2. CASE pad = 1
    <3>1. PICK x \in Nat : x = 0 OBVIOUS
    <3>2. PICK e : e = <<x>> OBVIOUS
    <3>3. e \in Seq(Byte) /\ Len(e) = 1 /\ e[1] = x
      <4>1. x < 256 BY <3>1
      <4> QED BY <3>2, <4>1, OneIs
    <3>4. Lies(b, pos, e) BY <1>5, <2>2, <3>1, <3>2 DEF PrimitiveToken
    <3> QED BY <1>1, <3>1, <3>3, <3>4, NotLong
  <2> QED BY <2>1, <2>2
<1>6. ASSUME NEW l \in Leaves, LeafToken(b, s, t, l) PROVE FALSE
  <2>1. Lies(b, pos, Encoding[l]) BY <1>6 DEF LeafToken
  <2>2. Encoding[l] \in Seq(Byte) /\ Len(Encoding[l]) >= 1 BY EncodingBytes
  <2> QED BY <1>1, <2>1, <2>2, NoArrayTag, NotLong
<1>7. ASSUME NEW d \in Containers, NEW len \in 0..MaxLength, BeginToken(b, s, t, d, len)
      PROVE  ~ArraysFit
  <2>1. /\ Next1 = BeginTag[d]
        /\ d \in Arrays =>
             IF t.at <= Len(bytes)
             THEN VarLen(pos + 1) > 0 /\ VarVal(pos + 1) = len /\ AfterVar(pos + 1) = t.at
             ELSE VarLen(pos + 1) = 0
    BY <1>3, <1>7, HeaderRead
  <2>2. d = c
    <3>1. d \in ContainerKinds BY KindsApart
    <3>2. \A k, l \in ContainerKinds : BeginTag[k] = BeginTag[l] => k = l BY TagsApart
    <3>3. BeginTag[d] = BeginTag[c] BY <1>2, <2>1, Zenon
    <3> QED BY <3>1, <3>2, <3>3, Zenon
  <2>3. VarVal(pos + 1) = len
    <3>1. d \in Arrays /\ VarLen(pos + 1) # 0 BY <1>2, <2>2
    <3> QED BY <2>1, <3>1
  <2>4. len > Memory /\ Memory \in Nat /\ len \in Nat BY <1>2, <2>3, Bounds, V8Constants
  <2>5. /\ Len(t.graph) = Len(s.graph) + 1 /\ Len(s.graph) \in Nat
        /\ t.graph[Number(s)].kind = d /\ t.graph[Number(s)].len = len
    <3>1. Opens(s, t, d, len) BY <1>1, <1>7, BeginForm
    <3> QED BY <1>1, <3>1, OpensIs, SoundIs DEF Number
  <2>6. Number(s) \in 1..Len(t.graph) BY <2>5 DEF Number
  <2>7. Kindred(t.graph) /\ DOMAIN graph = 1..Len(graph) /\ Len(graph) \in Nat BY ChapterIs
  <2>8. /\ Number(s) \in DOMAIN graph
        /\ graph[Number(s)].kind = d /\ graph[Number(s)].len = len
    BY <2>5, <2>6, <2>7 DEF Kindred
  <2>9. ~(len <= Memory) BY <2>4
  <2> QED BY <1>2, <2>2, <2>8, <2>9 DEF ArraysFit
<1>8. ASSUME NEW id \in Nat, ReferenceToken(b, referred, s, t, id) PROVE FALSE
  <2>1. id \in 1..Len(s.graph) /\ id <= MaxValues /\ Lies(b, pos, Reference(id))
    <3>1. s.graph \in Seq(Nodes) BY <1>1, SoundIs
    <3> QED BY <1>8, <3>1, LenProperties DEF ReferenceToken
  <2>2. PICK n : n = id - 1 OBVIOUS
  <2>3. n \in TwoByte
    <3>1. n \in Nat /\ n <= 16383 BY <2>1, <2>2, Bounds
    <3> QED BY <3>1, Bounds
  <2>4. PICK x \in Nat : x = 94 OBVIOUS
  <2>5. Lies(b, pos, <<x>> \o EncodeVarint(n)) /\ x < 256 BY <2>1, <2>2, <2>4 DEF Reference
  <2>6. Next1 = x BY <1>1, <1>3, <2>3, <2>5, TagNumber
  <2> QED BY <1>3, <2>4, <2>6
<1>9. ASSUME EndToken(b, s, t) PROVE FALSE
  <2>1. CASE TopKind = "dense"
    <3>1. ElementsDone BY <1>9, <2>1, EndIs
    <3> QED BY <1>2, <3>1 DEF ReadingTag
  <2>2. CASE TopKind # "dense"
    <3>1. PICK last : last = IF TopKind \in Arrays THEN AfterVar(pos + 1) ELSE pos + 1 OBVIOUS
    <3>2. Next1 = EndTag[TopKind] BY <1>3, <1>9, <2>2, <3>1, LoopEnds
    <3>3. Looping BY <1>9, <2>2, EndIs
    <3> QED BY <1>3, <3>2, <3>3, TagsApart
  <2> QED BY <2>1, <2>2
<1> QED BY <1>1, <1>5, <1>6, <1>7, <1>8, <1>9 DEF Token

\* Wherever the reader is in a chapter, an array that is too long was written.
LEMMA LongIs ==
  ASSUME Typed, NEW b, NEW s, NEW t, Chapter(b, s, t),
         Within(b, s, t, pc, pos, stack, heap, val, raised),
         NEW c \in ContainerKinds, TooLong(c)
  PROVE  ~ArraysFit
<1>1. Survives(b) /\ b \in Seq(Byte) BY DEF Chapter, Survives
<1>2. pc = "read" /\ TopKind # "error" /\ Next1 = BeginTag[c] /\ c \in Arrays
  BY DEF TooLong, ReadingTag
<1>3. ~AtEnd /\ pos \in Nat /\ s.at \in Nat
  <2>1. Next1 \in {97, 65} BY <1>2, TagsApart
  <2> QED BY <2>1, NextRange, TypedIs, ChapterIs
<1>4. CASE Between(pos, stack, heap, s)
  <2>1. pos = s.at BY <1>3, <1>4 DEF Between, Reached, AtEnd
  <2> QED BY <1>4, <2>1, LongBetween DEF Between
<1>5. CASE Padding(b, pos, stack, heap, s, t)
  <2>1. PICK p \in Primitives : PrimitiveToken(b, padded, s, t, p, 1) BY <1>5 DEF Padding
  <2>2. Lies(b, s.at + 1, Encoding[p]) /\ pos = s.at + 1
    BY <1>5, <2>1 DEF PrimitiveToken, Padding
  <2>3. Encoding[p] \in Seq(Byte) /\ Len(Encoding[p]) >= 1 BY EncodingBytes
  <2> QED BY <1>1, <2>2, <2>3, NoArrayTag, NotLong
<1>6. CASE Wrapping(b, pc, pos, stack, heap, val, s, t)
  <2>1. PICK l \in Leaves :
          /\ LeafToken(b, s, t, l) /\ stack # <<>> /\ Last(stack).kind = l
          /\ l = "error" \/ (l \in {"string", "regexp"} /\ pos = s.at + 1)
    BY <1>2, <1>6 DEF Wrapping
  <2>2. l # "error" BY <1>2, <2>1 DEF TopKind
  <2>3. l \in {"string", "regexp"} /\ pos = s.at + 1 BY <2>1, <2>2
  <2>4. Lies(b, s.at, Encoding[l]) BY <2>1 DEF LeafToken
  <2>5. Lies(b, pos, Encoding["narrow"]) /\ Len(Encoding["narrow"]) = 3
    BY <1>1, <1>3, <2>3, <2>4, TextInside
  <2>6. PICK e : e = <<34, 1, 97>> OBVIOUS
  <2>7. Encoding["narrow"] = e /\ e[1] = 34 BY <2>6, EncodingIs
  <2>8. e \in Seq(Byte)
    <3>1. 34 \in Byte /\ 1 \in Byte /\ 97 \in Byte BY DEF Byte
    <3> QED BY <2>6, <3>1
  <2> QED BY <1>1, <2>5, <2>7, <2>8, NotLong
<1> QED BY <1>2, <1>4, <1>5, <1>6 DEF Within

\* One step of the reader: it stays with the writer, or goes on with it.
LEMMA ReadGoesOn ==
  ASSUME Typed, Read, Aligned, NEW b, NEW s, NEW t, Chapter(b, s, t),
         Within(b, s, t, pc, pos, stack, heap, val, raised)
  PROVE  Advances(b, s, t, pc', pos', stack', heap', val', raised')
<1>1. pc \in {"read", "return"} BY ReadKeeps
<1>6. CASE TooDeep
  <2>1. Right("RecursionError") BY <1>6, DeepIs DEF Right
  <2> QED BY <1>6, <2>1, RaisesWithin DEF TooDeep
<1>7. CASE \E c \in ContainerKinds : TooLong(c)
  <2>1. PICK c \in ContainerKinds : TooLong(c) BY <1>7
  <2>2. Right("MemoryError") BY <2>1, LongIs DEF Right
  <2> QED BY <2>1, <2>2, RaisesWithin DEF TooLong
<1>8. CASE ~Exhausted
  <2>1. Acts BY <1>8 DEF Acts
  <2>2. CASE pc = "read" /\ Between(pos, stack, heap, s) BY <2>2, <2>1, BetweenGoesOn
  <2>3. CASE pc = "read" /\ Padding(b, pos, stack, heap, s, t)
    <3>1. PICK p \in Primitives : PrimitiveToken(b, padded, s, t, p, 1) BY <2>3 DEF Padding
    <3>2. pos = s.at + 1 /\ Matches(stack, s.graph, s.open) /\ Holds(heap, s.graph)
      BY <2>3 DEF Padding
    <3>3. PICK pad \in {0, 1} : pad = 1 OBVIOUS
    <3>4. PrimitiveToken(b, padded, s, t, p, pad) /\ pos = s.at + pad BY <3>1, <3>2, <3>3
    <3> QED BY <2>3, <3>2, <3>4, <2>1, PrimitiveGoesOn
  <2>4. CASE pc = "return" /\ Returning(pos, stack, heap, val, s, t) BY <2>4, <2>1, ReturningGoesOn
  <2>5. CASE Wrapping(b, pc, pos, stack, heap, val, s, t) BY <2>5, <2>1, WrappingGoesOn
  <2> QED BY <1>1, <2>2, <2>3, <2>4, <2>5 DEF Within
<1> QED BY <1>6, <1>7, <1>8 DEF Exhausted

(***************************************************************************)
(* What was written stays as it is                                         *)
(***************************************************************************)
Still == bytes' = bytes /\ writer' = writer

\* What is the same when the bytes and the writer are.
LEMMA StillIs ==
  ASSUME Still
  PROVE  /\ bytes' = bytes /\ graph' = graph /\ open' = open /\ root' = root
         /\ referred' = referred /\ padded' = padded /\ cut' = cut /\ deepest' = deepest
BY DEF Still, writer

\* Values mean the same in Python then,
LEMMA StillPython ==
  ASSUME Still
  PROVE  /\ \A id : IsContainer(id)' <=> IsContainer(id)
         /\ \A id : Rank(id)' = Rank(id)
         /\ \A v : AsPython(v)' = AsPython(v)
         /\ \A n : ItemsAsPython(n)' = ItemsAsPython(n)
         /\ \A n : Part(n)' = Part(n)
<1>1. graph' = graph BY StillIs
<1>2. \A id : IsContainer(id)' <=> IsContainer(id) BY <1>1 DEF IsContainer
<1>3. \A id : Rank(id)' = Rank(id) BY <1>1 DEF Rank, IsContainer
<1>4. \A v : AsPython(v)' = AsPython(v) BY <1>1, <1>2, <1>3 DEF AsPython
<1>5. \A n : ItemsAsPython(n)' = ItemsAsPython(n)
  <2>1. SUFFICES ASSUME NEW n PROVE ItemsAsPython(n)' = ItemsAsPython(n) OBVIOUS
  <2> QED BY <1>4 DEF ItemsAsPython
<1>6. \A n : Part(n)' = Part(n)
  <2>1. SUFFICES ASSUME NEW n PROVE Part(n)' = Part(n) OBVIOUS
  <2> QED BY <1>4, <1>5 DEF Part
<1> QED BY <1>2, <1>3, <1>4, <1>5, <1>6

\* what was written has the same shapes,
LEMMA StillWritten ==
  ASSUME Still
  PROVE  /\ ReferencesAgree' <=> ReferencesAgree
         /\ KeysDiffer' <=> KeysDiffer
         /\ KeysHashable' <=> KeysHashable
         /\ Convertible' <=> Convertible
         /\ Aligned' <=> Aligned
         /\ ArraysFit' <=> ArraysFit
         /\ CallsFit' <=> CallsFit
         /\ Exact' <=> Exact
<1>1. graph' = graph /\ root' = root /\ referred' = referred BY StillIs
<1>2. /\ \A id : IsContainer(id)' <=> IsContainer(id)
      /\ \A v : AsPython(v)' = AsPython(v)
  BY StillPython
<1>3. ReferencesAgree' <=> ReferencesAgree BY <1>1, <1>2 DEF ReferencesAgree
<1>4. KeysDiffer' <=> KeysDiffer BY <1>1, <1>2 DEF KeysDiffer
<1>5. KeysHashable' <=> KeysHashable BY <1>1, <1>2 DEF KeysHashable
<1>6. ValuesWritten' = ValuesWritten BY <1>1 DEF ValuesWritten
<1>7. KindsWritten' = KindsWritten BY <1>1 DEF KindsWritten
<1>8. Convertible' <=> Convertible BY <1>6, <1>7 DEF Convertible
<1>9. Aligned' <=> Aligned BY <1>1, <1>7 DEF Aligned, DenseOnlyAtRoot
<1>10. ArraysFit' <=> ArraysFit BY <1>1 DEF ArraysFit
<1>11. CallsFit' <=> CallsFit BY StillIs DEF CallsFit
<1> QED BY <1>3, <1>4, <1>5, <1>8, <1>9, <1>10, <1>11 DEF Exact

\* frames and containers stand for the same,
LEMMA StillMatches ==
  ASSUME Still
  PROVE  /\ \A S, g, o : Matches(S, g, o) => Matches(S, g, o)'
         /\ \A H, g : Holds(H, g) => Holds(H, g)'
         /\ \A p, at : Reached(p, at) => Reached(p, at)'
<1>1. \A id : IsContainer(id)' <=> IsContainer(id) BY StillPython
<1>2. \A id : Rank(id)' = Rank(id) BY StillPython
<1>3. \A v : AsPython(v)' = AsPython(v) BY StillPython
<1>4. \A n : Part(n)' = Part(n) BY StillPython
<1>5. (ReferencesAgree' <=> ReferencesAgree) /\ (Exact' <=> Exact) BY StillWritten
<1>6. \A f, n, e : Stands(f, n, e) => Stands(f, n, e)'
  <2>1. SUFFICES ASSUME NEW f, NEW n, NEW e, Stands(f, n, e) PROVE Stands(f, n, e)' OBVIOUS
  <2> QED BY <1>2, <1>3, <1>5, <2>1 DEF Stands
<1>7. \A S, g, o : Matches(S, g, o) => Matches(S, g, o)'
  <2>1. SUFFICES ASSUME NEW S, NEW g, NEW o, Matches(S, g, o) PROVE Matches(S, g, o)' OBVIOUS
  <2>2. S \in Seq(Frames) /\ Len(S) = Len(o) BY <2>1 DEF Matches
  <2>3. \A i \in 1..Len(o) : Stands(S[i], g[o[i].id], o[i])' BY <1>6, <2>1 DEF Matches
  <2> QED BY <2>2, <2>3 DEF Matches
<1>8. \A H, g : Holds(H, g) => Holds(H, g)'
  <2>1. SUFFICES ASSUME NEW H, NEW g, Holds(H, g) PROVE Holds(H, g)' OBVIOUS
  <2>2. Len(H) = Rank(Len(g))' BY <1>2, <2>1 DEF Holds
  <2>3. \A id \in 1..Len(g) : IsContainer(id)' =>
          /\ H[Rank(id)'].kind = g[id].kind
          /\ Exact' => H[Rank(id)'].items = Part(g[id])'
    <3>1. SUFFICES ASSUME NEW id \in 1..Len(g), IsContainer(id)
                   PROVE  /\ H[Rank(id)'].kind = g[id].kind
                          /\ Exact' => H[Rank(id)'].items = Part(g[id])'
      BY <1>1
    <3>2. H[Rank(id)].kind = g[id].kind /\ (Exact => H[Rank(id)].items = Part(g[id]))
      BY <2>1, <3>1 DEF Holds
    <3>3. Rank(id)' = Rank(id) /\ Part(g[id])' = Part(g[id]) BY <1>2, <1>4
    <3> QED BY <1>5, <3>2, <3>3
  <2> QED BY <2>2, <2>3 DEF Holds
<1>9. bytes' = bytes BY StillIs
<1>10. \A p, at : Reached(p, at) => Reached(p, at)' BY <1>9 DEF Reached
<1> QED BY <1>7, <1>8, <1>10

\* and the reader is in the same chapter.
LEMMA StillWithin ==
  ASSUME Still, NEW b, NEW s, NEW t, NEW c, NEW p, NEW S, NEW H, NEW v, NEW x
  PROVE  /\ Within(b, s, t, c, p, S, H, v, x) => Within(b, s, t, c, p, S, H, v, x)'
         /\ Advances(b, s, t, c, p, S, H, v, x) => Advances(b, s, t, c, p, S, H, v, x)'
<1>1. /\ \A g, o : Matches(S, g, o) => Matches(S, g, o)'
      /\ \A g : Holds(H, g) => Holds(H, g)'
      /\ \A at : Reached(p, at) => Reached(p, at)'
  BY StillMatches
<1>2. Matches(Front(S), s.graph, s.open) => Matches(Front(S), s.graph, s.open)' BY StillMatches
<1>3. \A u : Between(p, S, H, u) => Between(p, S, H, u)' BY <1>1 DEF Between
<1>4. Padding(b, p, S, H, s, t) => Padding(b, p, S, H, s, t)'
  <2>1. SUFFICES ASSUME Padding(b, p, S, H, s, t) PROVE Padding(b, p, S, H, s, t)' OBVIOUS
  <2>2. padded' = padded BY StillIs
  <2>3. PICK q \in Primitives : PrimitiveToken(b, padded, s, t, q, 1) BY <2>1 DEF Padding
  <2>4. PrimitiveToken(b, padded, s, t, q, 1)' BY <2>2, <2>3
  <2>5. p = s.at + 1 /\ ~InLoop(s) /\ Matches(S, s.graph, s.open) /\ Holds(H, s.graph)
    BY <2>1 DEF Padding
  <2>6. Matches(S, s.graph, s.open)' /\ Holds(H, s.graph)' BY <1>1, <2>5
  <2> QED BY <2>4, <2>5, <2>6 DEF Padding
<1>5. Returning(p, S, H, v, s, t) => Returning(p, S, H, v, s, t)'
  <2>1. SUFFICES ASSUME Returning(p, S, H, v, s, t) PROVE Returning(p, S, H, v, s, t)' OBVIOUS
  <2>2. PICK g, o, w :
          /\ Completes(s, t, g, o, w)
          /\ o # <<>> => Reached(p, t.at)
          /\ Matches(S, g, o) /\ Holds(H, g)
          /\ ReferencesAgree => v = AsPython(w)
    BY <2>1 DEF Returning
  <2>3. o # <<>> => Reached(p, t.at)' BY <1>1, <2>2
  <2>4. Matches(S, g, o)' /\ Holds(H, g)' BY <1>1, <2>2
  <2>5. ReferencesAgree' => v = AsPython(w)' BY <2>2, StillWritten, StillPython
  <2> QED BY <2>2, <2>3, <2>4, <2>5 DEF Returning
<1>6. Wrapping(b, c, p, S, H, v, s, t) => Wrapping(b, c, p, S, H, v, s, t)'
  <2>1. SUFFICES ASSUME Wrapping(b, c, p, S, H, v, s, t) PROVE Wrapping(b, c, p, S, H, v, s, t)'
    OBVIOUS
  <2>2. Matches(Front(S), s.graph, s.open)' /\ Holds(H, s.graph)' BY <1>1, <1>2, <2>1 DEF Wrapping
  <2> QED BY <2>1, <2>2 DEF Wrapping
<1>7. Right(x) => Right(x)'
  <2>1. padded' = padded /\ cut' = cut BY StillIs
  <2>2. /\ ReferencesAgree' <=> ReferencesAgree
        /\ KeysHashable' <=> KeysHashable
        /\ Convertible' <=> Convertible
        /\ ArraysFit' <=> ArraysFit
        /\ CallsFit' <=> CallsFit
    BY StillWritten
  <2> QED BY <2>1, <2>2, Zenon DEF Right
<1>8. DoneRight(H, v) => DoneRight(H, v)'
  <2>1. SUFFICES ASSUME DoneRight(H, v), Exact PROVE DoneRight(H, v)'
    BY StillWritten DEF DoneRight
  <2>2. graph' = graph /\ root' = root BY StillIs
  <2>3. v = AsPython(root) /\ Len(H) = Rank(Len(graph)) BY <2>1 DEF DoneRight
  <2>4. v = AsPython(root)' /\ Len(H) = Rank(Len(graph))'
    BY <2>2, <2>3 DEF AsPython, Rank, IsContainer
  <2>5. \A id \in 1..Len(graph) : IsContainer(id) =>
          H[Rank(id)].kind = graph[id].kind /\ H[Rank(id)].items = ItemsAsPython(graph[id])
    BY <2>1 DEF DoneRight
  <2>6. PICK G : G = graph OBVIOUS
  <2>7. \A id \in 1..Len(G) : IsContainer(id)' =>
          H[Rank(id)'].kind = G[id].kind /\ H[Rank(id)'].items = ItemsAsPython(G[id])'
    <3>1. SUFFICES ASSUME NEW id \in 1..Len(G), IsContainer(id)
                   PROVE  /\ H[Rank(id)'].kind = G[id].kind
                          /\ H[Rank(id)'].items = ItemsAsPython(G[id])'
      BY StillPython
    <3>2. H[Rank(id)].kind = G[id].kind /\ H[Rank(id)].items = ItemsAsPython(G[id])
      BY <2>5, <2>6, <3>1
    <3>3. Rank(id)' = Rank(id) BY StillPython
    <3>4. ItemsAsPython(G[id])' = ItemsAsPython(G[id]) BY StillPython
    <3> QED BY <3>2, <3>3, <3>4
  <2>8. graph' = G BY <2>2, <2>6
  <2> QED BY <2>2, <2>4, <2>6, <2>7, <2>8 DEF DoneRight
<1>9. Within(b, s, t, c, p, S, H, v, x) => Within(b, s, t, c, p, S, H, v, x)'
  BY <1>3, <1>4, <1>5, <1>6, <1>7, <1>8 DEF Within
<1> QED BY <1>3, <1>9 DEF Advances

(***************************************************************************)
(* The invariant: the reader is where the writer was, and has what it had  *)
(***************************************************************************)
Exceptions ==
  {"no", "V8Error", "BlinkError", "TypeError", "ValueError", "RecursionError", "MemoryError"}

\* While it reads bytes b of the story T, the reader is within the chapter
\* from T[k] to T[k + 1].
Follows ==
  pc # "write" /\ Aligned =>
    \E b, T, k, c, p, S, H, v, x :
      /\ Written(b, T) /\ k \in 1..Len(T) - 1
      /\ c = pc /\ p = pos /\ S = stack /\ H = heap /\ v = val /\ x = raised
      /\ Within(b, T[k], T[k + 1], c, p, S, H, v, x)

IInv == TypeInv /\ raised \in Exceptions /\ Follows

\* IInv holds at first,
LEMMA InitFollows == Init => IInv
<1> SUFFICES ASSUME Init PROVE IInv OBVIOUS
<1>1. pc = "write" /\ raised = "no" BY DEF Init
<1> QED BY <1>1, InitKnown DEF IInv, Follows, Exceptions

\* Nothing is read yet.
LEMMA DeliverFollows ==
  ASSUME TypeInv', Fresh', pc' = "read", NEW b, NEW T, Written(b, T)'
  PROVE  Follows'
<1>1. /\ Tells(b, T, referred', padded', Final(b)') /\ root' # NoValue
  BY DEF Written
<1>2. /\ T \in Seq(Moments) /\ Len(T) >= 1 /\ T[1] = Begin /\ T[Len(T)] = Final(b)'
  BY <1>1 DEF Tells
<1>3. Final(b)'.root = root' BY MomentIs DEF Final
<1>4. Begin.at = 0 /\ Begin.graph = <<>> /\ Begin.open = <<>> /\ Begin.root = NoValue
  BY MomentIs DEF Begin
<1>5. Len(T) # 1 BY <1>1, <1>2, <1>3, <1>4
<1>6. PICK k \in Nat : k = 1 OBVIOUS
<1>7. k \in 1..Len(T) - 1
  <2>1. Len(T) \in Nat BY <1>2, LenProperties
  <2>2. Len(T) >= 1 BY <1>2
  <2>3. PICK m \in Nat : m = Len(T) /\ m # 1 /\ m >= 1 BY <1>5, <2>1, <2>2
  <2>4. k \in 1..m - 1 BY <1>6, <2>3
  <2> QED BY <2>3, <2>4
<1>8. PICK c, p, S, H, v, x :
        c = pc' /\ p = pos' /\ S = stack' /\ H = heap' /\ v = val' /\ x = raised'
  <2>1. \E c, p, S, H, v, x :
          c = pc' /\ p = pos' /\ S = stack' /\ H = heap' /\ v = val' /\ x = raised'
    BY Zenon
  <2> QED BY <2>1
<1>9. p = 0 /\ S = <<>> /\ H = <<>> /\ c = "read" BY <1>8 DEF Fresh
<1>10. Len(<<>>) = 0 /\ <<>> \in Seq(Frames) OBVIOUS
<1>11. Reached(p, Begin.at)' BY <1>4, <1>9 DEF Reached
<1>12. Matches(S, Begin.graph, Begin.open)' BY <1>4, <1>9, <1>10 DEF Matches
<1>13. Holds(H, Begin.graph)'
  <2>1. {j \in 1..0 : IsContainer(j)'} = {} OBVIOUS
  <2>2. Cardinality({}) = 0 BY FS_EmptySet
  <2>3. Rank(0)' = 0 BY <2>1, <2>2 DEF Rank
  <2> QED BY <1>4, <1>9, <1>10, <2>3 DEF Holds
<1>14. Between(p, S, H, Begin)' BY <1>11, <1>12, <1>13 DEF Between
<1>15. T[k] = Begin BY <1>2, <1>6
<1>16. Within(b, T[k], T[k + 1], c, p, S, H, v, x)' BY <1>9, <1>14, <1>15 DEF Within
<1> QED BY <1>7, <1>8, <1>16 DEF Follows

\* A step of the reader.
LEMMA ReadFollows ==
  ASSUME TypeInv, Follows, Read
  PROVE  Follows'
<1>1. Still BY ReadKeeps DEF Still
<1>2. Aligned' <=> Aligned BY <1>1, StillWritten
<1>3. SUFFICES ASSUME Aligned PROVE Follows' BY <1>2 DEF Follows
<1>4. pc # "write" BY ReadKeeps
<1>5. PICK b, T, k, d, q, U, I, w, y :
        /\ Written(b, T) /\ k \in 1..Len(T) - 1
        /\ d = pc /\ q = pos /\ U = stack /\ I = heap /\ w = val /\ y = raised
        /\ Within(b, T[k], T[k + 1], d, q, U, I, w, y)
  BY <1>3, <1>4 DEF Follows
<1>6. Within(b, T[k], T[k + 1], pc, pos, stack, heap, val, raised) BY <1>5
<1>7. /\ Chapter(b, T[k], T[k + 1])
      /\ T[k + 1].open # <<>> => k + 1 \in 1..Len(T) - 1
  BY <1>5, WrittenChapter
<1>8. Typed BY DEF TypeInv
<1>9. Advances(b, T[k], T[k + 1], pc', pos', stack', heap', val', raised')
  BY <1>3, <1>6, <1>7, <1>8, ReadGoesOn
<1>10. PICK c, p, S, H, v, x :
        c = pc' /\ p = pos' /\ S = stack' /\ H = heap' /\ v = val' /\ x = raised'
  <2>1. \E c, p, S, H, v, x :
          c = pc' /\ p = pos' /\ S = stack' /\ H = heap' /\ v = val' /\ x = raised'
    BY Zenon
  <2> QED BY <2>1
<1>11. Advances(b, T[k], T[k + 1], c, p, S, H, v, x) BY <1>9, <1>10
<1>12. Written(b, T)' BY <1>5, WrittenKept
<1>13. PICK j : j \in 1..Len(T) - 1 /\ Within(b, T[j], T[j + 1], c, p, S, H, v, x)
  <2>1. CASE Within(b, T[k], T[k + 1], c, p, S, H, v, x) BY <1>5, <2>1
  <2>2. CASE c = "read" /\ T[k + 1].open # <<>> /\ Between(p, S, H, T[k + 1])
    <3>1. k + 1 \in 1..Len(T) - 1 BY <1>7, <2>2
    <3>2. Within(b, T[k + 1], T[k + 1 + 1], c, p, S, H, v, x) BY <2>2 DEF Within
    <3> QED BY <3>1, <3>2
  <2> QED BY <1>11, <2>1, <2>2 DEF Advances
<1>14. Within(b, T[j], T[j + 1], c, p, S, H, v, x)' BY <1>1, <1>13, StillWithin
<1> QED BY <1>10, <1>12, <1>13, <1>14 DEF Follows

\* The exceptions that there are.
LEMMA RaisedIs ==
  ASSUME Read, raised \in Exceptions
  PROVE  raised' \in Exceptions
<1>1. {"V8Error", "BlinkError", "TypeError", "ValueError", "RecursionError", "MemoryError"}
        \subseteq Exceptions
  BY DEF Exceptions
<1>2. CASE SkipPadding BY <1>2 DEF SkipPadding, Skips
<1>3. CASE ReadAtom
  <2>1. Raises("ValueError") \/ \E v, p : Returns(v, p, stack) BY <1>3 DEF ReadAtom
  <2> QED BY <1>1, <2>1 DEF Raises, Returns
<1>4. CASE BeginWrapped BY <1>4 DEF BeginWrapped, Calls
<1>5. CASE \E c \in ContainerKinds : BeginContainer(c) BY <1>5 DEF BeginContainer, Calls
<1>6. CASE ReadReference BY <1>1, <1>6 DEF ReadReference, Raises, Returns
<1>7. CASE EndContainer
  <2>1. Raises("V8Error") \/ \E v, p : Returns(v, p, Front(stack)) BY <1>7 DEF EndContainer
  <2> QED BY <1>1, <2>1 DEF Raises, Returns
<1>8. CASE ReadErrorField BY <1>1, <1>8 DEF ReadErrorField, Raises, Returns, Skips
<1>9. CASE Malformed BY <1>1, <1>9 DEF Malformed, Refusal, Raises
<1>10. CASE StoreKey BY <1>10 DEF StoreKey, Continues
<1>11. CASE StoreValue
  <2>1. Raises("TypeError") \/ \E f, items : Continues(f, items) BY <1>11 DEF StoreValue
  <2> QED BY <1>1, <2>1 DEF Raises, Continues
<1>12. CASE StoreSparse
  <2>1. \E f, items : Continues(f, items) BY <1>12 DEF StoreSparse
  <2> QED BY <2>1 DEF Continues
<1>13. CASE StoreElement BY <1>13 DEF StoreElement, Continues
<1>14. CASE AddMember
  <2>1. Raises("TypeError") \/ \E f, items : Continues(f, items) BY <1>14 DEF AddMember
  <2> QED BY <1>1, <2>1 DEF Raises, Continues
<1>15. CASE ReturnWrapped BY <1>1, <1>15 DEF ReturnWrapped, Raises, Returns
<1>16. CASE ReturnRoot BY <1>16 DEF ReturnRoot
<1>17. CASE TooDeep BY <1>1, <1>17 DEF TooDeep, Raises
<1>18. CASE \E c \in ContainerKinds : TooLong(c) BY <1>1, <1>18 DEF TooLong, Raises
<1> QED BY <1>2, <1>3, <1>4, <1>5, <1>6, <1>7, <1>8, <1>9, <1>10, <1>11, <1>12, <1>13,
          <1>14, <1>15, <1>16, <1>17, <1>18 DEF Read

\* and every step keeps it.
LEMMA NextFollows == IInv /\ [Next]_vars => IInv'
<1> SUFFICES ASSUME IInv, [Next]_vars PROVE IInv' OBVIOUS
<1>1. TypeInv /\ raised \in Exceptions /\ Follows BY DEF IInv
<1>2. TypeInv' BY <1>1, NextKnown
<1>3. CASE Write
  <2>1. pc = "write" /\ Fresh /\ pc' \in {"write", "read"} BY <1>1, <1>3, WriteKeeps DEF TypeInv
  <2>2. raised' \in Exceptions BY <1>1, <1>3, WriteKeeps
  <2>3. Fresh' BY <1>3, <2>1, WriteKeeps DEF Fresh
  <2>4. CASE pc' = "write" BY <1>2, <2>2, <2>4 DEF IInv, Follows
  <2>5. CASE pc' = "read"
    <3>1. PICK b, T : Written(b, T)' BY <1>2, <2>5 DEF TypeInv
    <3>2. Follows' BY <1>2, <2>3, <2>5, <3>1, DeliverFollows
    <3> QED BY <1>2, <2>2, <3>2 DEF IInv
  <2> QED BY <2>1, <2>4, <2>5
<1>4. CASE Read
  <2>1. Follows' BY <1>1, <1>4, ReadFollows
  <2>2. raised' \in Exceptions BY <1>1, <1>4, RaisedIs
  <2> QED BY <1>2, <2>1, <2>2 DEF IInv
<1>5. CASE UNCHANGED vars
  <2>1. /\ pc' = pc /\ pos' = pos /\ stack' = stack /\ heap' = heap /\ val' = val
        /\ raised' = raised /\ Still
    BY <1>5 DEF vars, Still
  <2>2. \A b, T : Written(b, T) => Written(b, T)'
    BY <2>1, StillIs DEF Written, Survives, Final, Reaches
  <2>3. Follows'
    <3>1. Aligned' <=> Aligned BY <2>1, StillWritten
    <3>2. SUFFICES ASSUME pc # "write", Aligned PROVE Follows' BY <2>1, <3>1 DEF Follows
    <3>3. PICK b, T, k, c, p, S, H, v, x :
            /\ Written(b, T) /\ k \in 1..Len(T) - 1
            /\ c = pc /\ p = pos /\ S = stack /\ H = heap /\ v = val /\ x = raised
            /\ Within(b, T[k], T[k + 1], c, p, S, H, v, x)
      BY <1>1, <3>2 DEF Follows
    <3>4. Within(b, T[k], T[k + 1], c, p, S, H, v, x)' BY <2>1, <3>3, StillWithin
    <3>5. Written(b, T)' BY <2>2, <3>3
    <3>6. c = pc' /\ p = pos' /\ S = stack' /\ H = heap' /\ v = val' /\ x = raised'
      BY <2>1, <3>3
    <3> QED BY <3>3, <3>4, <3>5, <3>6 DEF Follows
  <2> QED BY <1>1, <1>2, <2>1, <2>3 DEF IInv
<1> QED BY <1>3, <1>4, <1>5 DEF Next

(***************************************************************************)
(* The theorems                                                            *)
(***************************************************************************)
\* Every exception of a value that the reader follows has its reason.
LEMMA RaisedRight ==
  ASSUME IInv, Aligned, pc = "raised"
  PROVE  Right(raised)
<1>1. PICK b, T, k, c, p, S, H, v, x :
        /\ Written(b, T) /\ k \in 1..Len(T) - 1
        /\ c = pc /\ p = pos /\ S = stack /\ H = heap /\ v = val /\ x = raised
        /\ Within(b, T[k], T[k + 1], c, p, S, H, v, x)
  BY DEF IInv, Follows
<1>2. c = "raised" BY <1>1
<1>3. ~Wrapping(b, c, p, S, H, v, T[k], T[k + 1]) BY <1>2 DEF Wrapping
<1>4. Right(x) BY <1>1, <1>2, <1>3 DEF Within
<1> QED BY <1>1, <1>4

\* What the reader returned is what was stored.
LEMMA DoneIsRight ==
  ASSUME IInv, Aligned, pc = "done"
  PROVE  DoneRight(heap, val)
<1>1. PICK b, T, k, c, p, S, H, v, x :
        /\ Written(b, T) /\ k \in 1..Len(T) - 1
        /\ c = pc /\ p = pos /\ S = stack /\ H = heap /\ v = val /\ x = raised
        /\ Within(b, T[k], T[k + 1], c, p, S, H, v, x)
  BY DEF IInv, Follows
<1>2. c = "done" BY <1>1
<1>3. ~Wrapping(b, c, p, S, H, v, T[k], T[k + 1]) BY <1>2 DEF Wrapping
<1>4. DoneRight(H, v) BY <1>1, <1>2, <1>3 DEF Within
<1> QED BY <1>1, <1>4

\* What the invariant says of exceptions is Recovered.
LEMMA InvRecovered == IInv => Recovered
<1> SUFFICES ASSUME IInv, Supported, ArraysFit, CallsFit, ~cut, pc = "raised" PROVE FALSE
  BY DEF Recovered
<1>1. Aligned /\ ReferencesAgree /\ KeysHashable /\ Convertible /\ ~padded BY DEF Supported
<1>2. Right(raised) BY <1>1, RaisedRight
<1> QED BY <1>1, <1>2, Zenon DEF Right

\* What it says of what is returned is RightOrNothing.
LEMMA InvRight == IInv => RightOrNothing
<1> SUFFICES ASSUME IInv, Supported, pc = "done" PROVE val = AsPython(root) /\ HeapAsWritten
  BY DEF RightOrNothing
<1>1. Aligned /\ Exact BY DEF Supported, Exact
<1>2. /\ val = AsPython(root) /\ Len(heap) = Rank(Len(graph))
      /\ \A id \in 1..Len(graph) : IsContainer(id) =>
           heap[Rank(id)].kind = graph[id].kind /\ heap[Rank(id)].items = ItemsAsPython(graph[id])
  BY <1>1, DoneIsRight DEF DoneRight
<1>3. Typed BY DEF IInv, TypeInv
<1>4. DOMAIN graph = 1..Len(graph) /\ Len(graph) \in Nat
  <2>1. PICK b, T : Written(b, T) BY DEF IInv, TypeInv
  <2>2. Sound(Final(b))
    <3>1. Tells(b, T, referred, padded, Final(b)) BY <2>1 DEF Written
    <3>2. /\ T \in Seq(Moments) /\ Len(T) >= 1 /\ T[Len(T)] = Final(b)
          /\ \A k \in 1..Len(T) : Sound(T[k])
      BY <3>1 DEF Tells
    <3>3. Len(T) \in Nat BY <3>2, LenProperties
    <3>4. Len(T) \in 1..Len(T) BY <3>2, <3>3
    <3> QED BY <3>2, <3>4
  <2>3. Final(b).graph = graph BY MomentIs DEF Final
  <2> QED BY <2>2, <2>3, SoundIs, LenProperties
<1>5. ASSUME NEW id \in 1..Len(graph), IsContainer(id)
      PROVE  heap[Rank(id)] = [kind |-> graph[id].kind, items |-> ItemsAsPython(graph[id])]
  <2>1. Rank(id) \in 1..Len(heap)
    <3>1. id \in Nat /\ 1 <= id /\ id <= Len(graph) BY <1>4, <1>5
    <3> QED BY <1>2, <1>4, <1>5, <3>1, RankWithin
  <2>2. heap[Rank(id)] \in Cells
    <3>1. heap \in Seq(Cells) BY <1>3, TypedIs
    <3> QED BY <2>1, <3>1, ElementOfSeq
  <2>3. PICK cell : cell = heap[Rank(id)] OBVIOUS
  <2>4. PICK kind \in ContainerKinds : cell \in [kind : {kind}, items : Seq(Members(kind))]
    BY <2>2, <2>3 DEF Cells
  <2>5. cell = [kind |-> cell.kind, items |-> cell.items] BY <2>4
  <2>6. cell.kind = graph[id].kind /\ cell.items = ItemsAsPython(graph[id]) BY <1>2, <1>5, <2>3
  <2> QED BY <2>3, <2>5, <2>6
<1>6. HeapAsWritten BY <1>2, <1>4, <1>5 DEF HeapAsWritten
<1> QED BY <1>2, <1>6

\* And no exception has another cause than V8ErrorOnly says.
LEMMA InvErrors == IInv => V8ErrorOnly
<1> SUFFICES ASSUME IInv PROVE V8ErrorOnly OBVIOUS
<1>1. raised \in Exceptions /\ TypeOK BY DEF IInv, TypeInv, Typed
<1>2. raised # "no" => pc = "raised" BY <1>1 DEF TypeOK
<1>3. raised # "no" /\ Aligned => Right(raised) BY <1>2, RaisedRight
<1>4. raised = "TypeError" => ~KeysHashable \/ ~ReferencesAgree \/ ~Aligned
  BY <1>3 DEF Right
<1>5. raised = "ValueError" => ~Convertible \/ ~Aligned BY <1>3 DEF Right
<1>6. raised = "BlinkError" => ~Aligned BY <1>3 DEF Right
<1>7. raised = "RecursionError" => ~CallsFit \/ ~Aligned BY <1>3 DEF Right
<1>8. raised = "MemoryError" => ~ArraysFit \/ ~Aligned BY <1>3 DEF Right
<1> QED BY <1>1, <1>4, <1>5, <1>6, <1>7, <1>8 DEF V8ErrorOnly, Exceptions

\* A value that is whole, of a shape the reader is made for, and no deeper and
\* no longer than Python's stack and memory take, is read without an exception
\* (_read_object, _dispatch and the handlers of the containers).
THEOREM Recovery == Spec => []Recovered
BY InitFollows, NextFollows, InvRecovered, PTL DEF Spec

\* What read_value returns is the graph that was stored, cycles and shared
\* containers included, and never another one or a part of it.
THEOREM Fidelity == Spec => []RightOrNothing
BY InitFollows, NextFollows, InvRight, PTL DEF Spec

\* Every exception but V8Error has its cause in what was stored: keys without
\* a hash, text and dates Python does not have, depth, length, or a value that
\* the reader does not stay aligned with.
THEOREM Errors == Spec => []V8ErrorOnly
BY InitFollows, NextFollows, InvErrors, PTL DEF Spec
=============================================================================
