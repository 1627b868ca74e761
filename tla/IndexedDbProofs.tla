----------------------------- MODULE IndexedDbProofs -----------------------------
(***************************************************************************)
(* What holds of IndexedDb for every set of names, ids, keys and values:   *)
(* that the keys and values the browser lays out are read back as what     *)
(* they are, that no record is shown under a name of another database or   *)
(* store, that every store is found under the name it has unless an older  *)
(* one is read later, and that what the databases held is shown if the     *)
(* bytes of the origin hold no zero, and nothing is shown if the origin    *)
(* has a character below 256.                                              *)
(***************************************************************************)
EXTENDS IndexedDb, RawLevelDbProofs

(***************************************************************************)
(* Byte strings                                                            *)
(***************************************************************************)
\* A number below n is its own remainder.
LEMMA SmallRemainder == \A x \in Nat, n \in Nat : x < n => x % n = x
OBVIOUS

LEMMA ByteRange == \A x \in Byte : x \in Nat /\ x < 256
BY DEF Byte

\* What is left of a byte string without its first n bytes.
LEMMA Dropped ==
  ASSUME NEW s \in Seq(Byte), NEW n \in 0..Len(s)
  PROVE  /\ Drop(s, n) \in Seq(Byte) /\ Len(Drop(s, n)) = Len(s) - n
         /\ \A i \in 1..Len(s) - n : Drop(s, n)[i] = s[n + i]
<1>1. Len(s) \in Nat /\ n \in Nat /\ n <= Len(s) BY LenProperties
<1>2. \A i \in n + 1..Len(s) : s[i] \in Byte BY <1>1, ElementOfSeq
<1>3. /\ SubSeq(s, n + 1, Len(s)) \in Seq(Byte)
      /\ Len(SubSeq(s, n + 1, Len(s))) = IF n + 1 <= Len(s) THEN Len(s) - (n + 1) + 1 ELSE 0
      /\ \A i \in 1..Len(s) - (n + 1) + 1 : SubSeq(s, n + 1, Len(s))[i] = s[n + 1 + i - 1]
  BY <1>1, <1>2, SubSeqProperties
<1>4. \A i \in 1..Len(s) - n : SubSeq(s, n + 1, Len(s))[i] = s[n + i] BY <1>1, <1>3
<1> QED BY <1>1, <1>3, <1>4 DEF Drop

\* The bytes of a concatenation.
LEMMA Concat ==
  ASSUME NEW s \in Seq(Byte), NEW t \in Seq(Byte)
  PROVE  /\ s \o t \in Seq(Byte) /\ Len(s \o t) = Len(s) + Len(t)
         /\ Len(s) \in Nat /\ Len(t) \in Nat /\ DOMAIN (s \o t) = 1..Len(s) + Len(t)
         /\ \A i \in 1..Len(s) : (s \o t)[i] = s[i] /\ s[i] \in Byte
         /\ \A i \in 1..Len(t) : (s \o t)[Len(s) + i] = t[i] /\ t[i] \in Byte
<1> DEFINE u == s \o t
<1>1. Len(s) \in Nat /\ Len(t) \in Nat BY LenProperties
<1>2. /\ u \in Seq(Byte) /\ Len(u) = Len(s) + Len(t)
      /\ \A i \in 1..Len(s) + Len(t) : u[i] = IF i <= Len(s) THEN s[i] ELSE t[i - Len(s)]
  BY ConcatProperties
<1>3. DOMAIN u = 1..Len(u) BY <1>2, LenProperties
<1> HIDE DEF u
<1>4. \A i \in 1..Len(s) : i \in 1..Len(s) + Len(t) /\ i <= Len(s) BY <1>1
<1>5. ASSUME NEW i \in 1..Len(t) PROVE u[Len(s) + i] = t[i]
  <2> DEFINE j == Len(s) + i
  <2>1. j \in 1..Len(s) + Len(t) /\ ~(j <= Len(s)) /\ j - Len(s) = i BY <1>1
  <2> HIDE DEF j
  <2>2. u[j] = t[j - Len(s)] BY <1>2, <2>1
  <2> QED BY <2>1, <2>2 DEF j
<1>6. (\A i \in 1..Len(s) : s[i] \in Byte) /\ (\A i \in 1..Len(t) : t[i] \in Byte)
  BY ElementOfSeq
<1>7. \A i \in 1..Len(s) : u[i] = s[i] BY <1>2, <1>4
<1> QED BY <1>1, <1>2, <1>3, <1>5, <1>6, <1>7 DEF u

\* What is left of s \o t behind s.
LEMMA DropFront ==
  ASSUME NEW s \in Seq(Byte), NEW t \in Seq(Byte)
  PROVE  Drop(s \o t, Len(s)) = t
<1> DEFINE u == s \o t
           w == Drop(u, Len(s))
<1>1. /\ Len(s) \in Nat /\ Len(t) \in Nat /\ u \in Seq(Byte) /\ Len(u) = Len(s) + Len(t)
      /\ \A i \in 1..Len(t) : u[Len(s) + i] = t[i]
  BY Concat
<1> HIDE DEF u
<1>2. Len(s) \in 0..Len(u) /\ Len(u) - Len(s) = Len(t) BY <1>1
<1>3. /\ w \in Seq(Byte) /\ Len(w) = Len(t)
      /\ \A i \in 1..Len(t) : w[i] = u[Len(s) + i]
  BY <1>1, <1>2, Dropped
<1> HIDE DEF w
<1>4. w = t BY <1>1, <1>3, SeqEqual
<1> QED BY <1>4 DEF w, u

(***************************************************************************)
(* Varints of one byte and of two                                          *)
(***************************************************************************)
\* A varint whose first byte has no continuation bit is that byte.
LEMMA OneByte ==
  ASSUME NEW s \in Seq(Byte), NEW cap \in Nat, cap >= 1, Len(s) >= 1, s[1] < 128
  PROVE  VarintLen(s, cap) = 1 /\ VarintValue(s, cap) = s[1]
<1>1. Len(s) \in Nat /\ DOMAIN s = 1..Len(s) /\ s[1] \in Byte BY LenProperties, ElementOfSeq
<1>2. VarintLen(s, cap) = 1
  <2> DEFINE ends == {i \in DOMAIN s : i <= cap /\ s[i] < 128}
  <2>1. 1 \in ends /\ \A j \in ends : j \in Nat /\ 1 <= j BY <1>1
  <2>2. \A i \in ends : (\A j \in ends : i <= j) => i = 1 BY <2>1
  <2>3. ends # {} BY <2>1
  <2>4. VarintLen(s, cap) = CHOOSE i \in ends : \A j \in ends : i <= j
    BY <2>3 DEF VarintLen
  <2> HIDE DEF ends
  <2> QED BY <2>1, <2>2, <2>4
<1> DEFINE R(f) == [i \in 1..1 + 1 |-> IF i > 1 THEN 0 ELSE (s[i] % 128) + 128 * f[i + 1]]
           v == CHOOSE f : f = R(f)
           w == [i \in 1..2 |-> IF i = 2 THEN 0 ELSE s[1]]
<1>3. VarintValue(s, cap) = v[1] BY <1>2 DEF VarintValue
<1>r. s[1] % 128 = s[1]
  <2>1. s[1] \in Nat BY <1>1, ByteRange
  <2> QED BY <2>1, SmallRemainder
<1>4. w = R(w)
  <2>1. /\ w[1] = s[1] /\ w[2] = 0 OBVIOUS
  <2>a. R(w)[1] = (s[1] % 128) + 128 * w[2] OBVIOUS
  <2>2. R(w)[1] = s[1]
    <3>1. \A x \in Nat : \A y : y = 0 => x + 128 * y = x OBVIOUS
    <3>2. s[1] \in Nat BY <1>1, ByteRange
    <3> HIDE DEF R, w
    <3> QED BY <1>r, <2>1, <2>a, <3>1, <3>2
  <2>3. R(w)[2] = 0 OBVIOUS
  <2>4. 1..2 = {1, 2} /\ 1..1 + 1 = {1, 2} OBVIOUS
  <2>5. w = [i \in {1, 2} |-> w[i]] BY <2>4
  <2>6. R(w) = [i \in {1, 2} |-> R(w)[i]] BY <2>4
  <2> HIDE DEF w, R
  <2> QED BY <2>1, <2>2, <2>3, <2>5, <2>6
<1>5. v = R(v)
  <2> HIDE DEF w, R
  <2> QED BY <1>4
<1> HIDE DEF v
<1>6. v[2] = 0 BY <1>5
<1>7. v[1] = (s[1] % 128) + 128 * v[2] BY <1>5
<1> QED BY <1>1, <1>2, <1>3, <1>r, <1>6, <1>7, ByteRange

\* A varint of two bytes.
LEMMA TwoBytes ==
  ASSUME NEW s \in Seq(Byte), NEW cap \in Nat, cap >= 2, Len(s) >= 2,
         s[1] >= 128, s[2] < 128
  PROVE  VarintLen(s, cap) = 2 /\ VarintValue(s, cap) = (s[1] % 128) + 128 * s[2]
<1>1. Len(s) \in Nat /\ DOMAIN s = 1..Len(s) /\ s[1] \in Byte /\ s[2] \in Byte
  BY LenProperties, ElementOfSeq
<1>2. VarintLen(s, cap) = 2
  <2> DEFINE ends == {i \in DOMAIN s : i <= cap /\ s[i] < 128}
  <2>1. 2 \in ends /\ \A j \in ends : j \in Nat /\ 2 <= j
    <3>1. ASSUME NEW j \in ends PROVE j \in Nat /\ 2 <= j
      <4>1. j \in 1..Len(s) /\ s[j] < 128 BY <1>1
      <4>2. j # 1 BY <1>1, <4>1, ByteRange
      <4> QED BY <1>1, <4>1, <4>2
    <3> QED BY <1>1, <3>1
  <2>2. \A i \in ends : (\A j \in ends : i <= j) => i = 2 BY <2>1
  <2>3. ends # {} BY <2>1
  <2>4. VarintLen(s, cap) = CHOOSE i \in ends : \A j \in ends : i <= j
    BY <2>3 DEF VarintLen
  <2> HIDE DEF ends
  <2> QED BY <2>1, <2>2, <2>4
<1> DEFINE R(f) == [i \in 1..2 + 1 |-> IF i > 2 THEN 0 ELSE (s[i] % 128) + 128 * f[i + 1]]
           v == CHOOSE f : f = R(f)
           w == [i \in 1..3 |-> IF i = 3 THEN 0 ELSE
                                IF i = 2 THEN s[2] ELSE (s[1] % 128) + 128 * s[2]]
<1>3. VarintValue(s, cap) = v[1] BY <1>2 DEF VarintValue
<1>r. s[2] % 128 = s[2]
  <2>1. s[2] \in Nat BY <1>1, ByteRange
  <2> QED BY <2>1, SmallRemainder
<1>4. w = R(w)
  <2>1. w[1] = (s[1] % 128) + 128 * s[2] /\ w[2] = s[2] /\ w[3] = 0 OBVIOUS
  <2>a. R(w)[1] = (s[1] % 128) + 128 * w[2] /\ R(w)[2] = (s[2] % 128) + 128 * w[3] OBVIOUS
  <2>2. R(w)[1] = w[1] /\ R(w)[2] = w[2]
    <3> HIDE DEF R, w
    <3> QED BY <1>1, <1>r, <2>1, <2>a, ByteRange
  <2>3. R(w)[3] = 0 OBVIOUS
  <2>4. 1..3 = {1, 2, 3} /\ 1..2 + 1 = {1, 2, 3} OBVIOUS
  <2>5. w = [i \in {1, 2, 3} |-> w[i]] BY <2>4
  <2>6. R(w) = [i \in {1, 2, 3} |-> R(w)[i]] BY <2>4
  <2> HIDE DEF w, R
  <2> QED BY <2>1, <2>2, <2>3, <2>5, <2>6
<1>5. v = R(v)
  <2> HIDE DEF w, R
  <2> QED BY <1>4
<1> HIDE DEF v
<1>6. v[3] = 0 BY <1>5
<1>7. v[2] = (s[2] % 128) + 128 * v[3] BY <1>5
<1>8. v[1] = (s[1] % 128) + 128 * v[2] BY <1>5
<1>9. v[2] = s[2] BY <1>1, <1>r, <1>6, <1>7, ByteRange
<1> QED BY <1>2, <1>3, <1>8, <1>9

\* The bytes end within the varint.
LEMMA NoVarint ==
  ASSUME NEW s \in Seq(Byte), NEW cap \in Nat, \A i \in 1..Len(s) : s[i] >= 128
  PROVE  VarintLen(s, cap) = 0
<1>1. DOMAIN s = 1..Len(s) /\ \A i \in 1..Len(s) : s[i] \in Byte
  BY LenProperties, ElementOfSeq
<1>2. {i \in DOMAIN s : i <= cap /\ s[i] < 128} = {} BY <1>1, ByteRange
<1> QED BY <1>2 DEF VarintLen

\* A function on 1..n is a sequence of length n.
LEMMA IsSeq ==
  ASSUME NEW S, NEW n \in Nat, NEW f \in [1..n -> S]
  PROVE  f \in Seq(S) /\ Len(f) = n
<1>1. f \in Seq(S) BY SeqDef
<1>2. Len(f) \in Nat /\ DOMAIN f = 1..Len(f) /\ DOMAIN f = 1..n BY <1>1, LenProperties
<1>3. \A a, b \in Nat : 1..a = 1..b => a = b
  <2>1. SUFFICES ASSUME NEW a \in Nat, NEW b \in Nat, 1..a = 1..b PROVE a <= b /\ b <= a
    BY <2>1
  <2>2. a \in 1..a \/ a = 0 OBVIOUS
  <2>3. b \in 1..b \/ b = 0 OBVIOUS
  <2> QED BY <2>1, <2>2, <2>3
<1> QED BY <1>1, <1>2, <1>3

\* Concatenations, grouped to the right.
LEMMA Regroup ==
  ASSUME NEW p \in Seq(Byte), NEW q \in Seq(Byte), NEW r \in Seq(Byte)
  PROVE  p \o q \in Seq(Byte) /\ (p \o q) \o r = p \o (q \o r)
BY ConcatProperties, ConcatAssociative

(***************************************************************************)
(* Numbers                                                                 *)
(***************************************************************************)
\* The two groups of seven bits of a number.
LEMMA Halves ==
  ASSUME NEW n \in TwoByte
  PROVE  /\ n \in Nat /\ n % 128 \in Nat /\ n % 128 < 128
         /\ n \div 128 \in Nat /\ n \div 128 < 128
         /\ (128 + (n % 128)) % 128 = n % 128
         /\ n = (n % 128) + (128 * (n \div 128))
         /\ n >= 128 => n \div 128 >= 1
<1>1. \A x \in Nat : x < 128 => (128 + x) % 128 = x OBVIOUS
<1>0. n \in Nat /\ n < 16384 BY DEF TwoByte
<1>2. n % 128 \in Nat /\ n % 128 < 128 BY <1>0
<1>3. n \div 128 \in Nat /\ n \div 128 < 128 BY <1>0
<1>4. n = (n % 128) + (128 * (n \div 128)) BY <1>0
<1>5. n >= 128 => n \div 128 >= 1 BY <1>0
<1>6. (128 + (n % 128)) % 128 = n % 128 BY <1>1, <1>2
<1> QED BY <1>0, <1>2, <1>3, <1>4, <1>5, <1>6

\* The bytes of EncodeVarint.
LEMMA EncodedBytes ==
  ASSUME NEW n \in TwoByte
  PROVE  LET v == EncodeVarint(n)
         IN  /\ v \in Seq(Byte)
             /\ n < 128 => Len(v) = 1 /\ v[1] = n
             /\ n >= 128 => Len(v) = 2 /\ v[1] = 128 + (n % 128) /\ v[2] = n \div 128
<1> DEFINE v == EncodeVarint(n)
<1>0. n \in Nat BY Halves
<1>1. \A x \in Nat : x < 256 => x \in Byte BY DEF Byte
<1>2. CASE n < 128
  <2>1. v = <<n>> BY <1>2 DEF EncodeVarint
  <2>2. n \in Byte BY <1>0, <1>1, <1>2
  <2> QED BY <1>0, <1>2, <2>1, <2>2
<1>3. CASE n >= 128
  <2> DEFINE x == 128 + (n % 128)
             y == n \div 128
  <2>1. v = <<x, y>> BY <1>0, <1>3 DEF EncodeVarint
  <2>2. x \in Nat /\ x < 256 /\ y \in Nat /\ y < 256 BY Halves
  <2>3. x \in Byte /\ y \in Byte BY <1>1, <2>2
  <2> HIDE DEF x, y
  <2>4. v \in Seq(Byte) /\ Len(v) = 2 /\ v[1] = x /\ v[2] = y BY <2>1, <2>3
  <2> QED BY <1>0, <1>3, <2>4 DEF x, y
<1> QED BY <1>0, <1>2, <1>3

\* A number is read back, whatever comes behind it.
LEMMA NumberRead ==
  ASSUME NEW n \in TwoByte, NEW t \in Seq(Byte), NEW cap \in Nat, cap >= 2
  PROVE  LET u == EncodeVarint(n) \o t
         IN  /\ u \in Seq(Byte) /\ Len(u) >= 1 + Len(t) /\ (u[1] = 0 => n = 0)
             /\ VarintLen(u, cap) = Len(EncodeVarint(n)) /\ VarintLen(u, cap) \in {1, 2}
             /\ VarintValue(u, cap) = n
             /\ Drop(u, VarintLen(u, cap)) = t
<1> DEFINE v == EncodeVarint(n)
           u == v \o t
<1>0. n \in Nat BY Halves
<1>1. v \in Seq(Byte) BY EncodedBytes
<1>2. n < 128 => Len(v) = 1 /\ v[1] = n BY EncodedBytes
<1>3. n >= 128 => Len(v) = 2 /\ v[1] = 128 + (n % 128) /\ v[2] = n \div 128 BY EncodedBytes
<1> HIDE DEF v
<1>4. /\ u \in Seq(Byte) /\ Len(u) = Len(v) + Len(t) /\ Len(t) \in Nat
      /\ \A i \in 1..Len(v) : u[i] = v[i]
  BY <1>1, Concat
<1>5. Drop(u, Len(v)) = t BY <1>1, DropFront
<1> HIDE DEF u
<1>6. CASE n < 128
  <2>a. Len(v) = 1 /\ v[1] = n BY <1>2, <1>6
  <2>b. 1 \in 1..Len(v) BY <2>a
  <2>1. u[1] = n /\ Len(v) = 1 /\ Len(u) >= 1 /\ Len(u) >= 1 + Len(t) BY <1>4, <2>a, <2>b
  <2>2. VarintLen(u, cap) = 1 /\ VarintValue(u, cap) = n BY <1>4, <1>6, <2>1, OneByte
  <2> QED BY <1>4, <1>5, <2>1, <2>2 DEF u, v
<1>7. CASE n >= 128
  <2>a. Len(v) = 2 /\ v[1] = 128 + (n % 128) /\ v[2] = n \div 128 BY <1>3, <1>7
  <2>b. 1 \in 1..Len(v) /\ 2 \in 1..Len(v) BY <2>a
  <2>c. Len(u) >= 2 /\ Len(u) >= 1 + Len(t) BY <1>4, <2>a
  <2>1. u[1] = 128 + (n % 128) /\ u[2] = n \div 128 BY <1>4, <2>a, <2>b
  <2>h. n % 128 \in Nat /\ n \div 128 < 128 BY Halves
  <2>2. u[1] >= 128 /\ u[2] < 128 /\ u[1] # 0 BY <2>1, <2>h
  <2>3. VarintLen(u, cap) = 2 /\ VarintValue(u, cap) = (u[1] % 128) + 128 * u[2]
    BY <1>4, <2>2, <2>c, TwoBytes
  <2>4. VarintValue(u, cap) = (n % 128) + (128 * (n \div 128)) BY <2>1, <2>3, Halves
  <2>5. VarintValue(u, cap) = n BY <2>4, Halves
  <2> QED BY <1>4, <1>5, <2>2, <2>3, <2>5, <2>a, <2>c DEF u, v
<1> QED BY <1>0, <1>6, <1>7

\* _read_short_id reads back an id, and what follows it is left.
LEMMA IdRead ==
  ASSUME NEW n \in TwoByte, NEW t \in Seq(Byte), NEW u, u = EncodeVarint(n) \o t
  PROVE  /\ u \in Seq(Byte) /\ HasId(u) /\ IdAt(u) = n /\ AfterId(u) = t
         /\ Len(u) >= 1 + Len(t) /\ (u[1] = 0 => n = 0)
<1>1. 5 \in Nat /\ 5 >= 2 OBVIOUS
<1>2. /\ u \in Seq(Byte) /\ VarintLen(u, 5) \in {1, 2} /\ VarintValue(u, 5) = n
      /\ Drop(u, VarintLen(u, 5)) = t
      /\ Len(u) >= 1 + Len(t) /\ (u[1] = 0 => n = 0)
  BY <1>1, NumberRead, Zenon
<1>3. HasId(u) /\ IdAt(u) = n /\ AfterId(u) = t BY <1>2 DEF HasId, IdAt, AfterId
<1> QED BY <1>2, <1>3

(***************************************************************************)
(* Strings                                                                 *)
(***************************************************************************)
\* The two bytes of a code unit.
LEMMA UnitBytes ==
  ASSUME NEW x \in CodeUnit
  PROVE  /\ x \div 256 \in Byte /\ x % 256 \in Byte
         /\ 256 * (x \div 256) + (x % 256) = x
<1>1. \A y \in Nat : y < 256 => y \in Byte BY DEF Byte
<1>2. x \in Nat /\ x < 65536 BY DEF CodeUnit
<1>3. x \div 256 \in Nat /\ x \div 256 < 256 BY <1>2
<1>4. x % 256 \in Nat /\ x % 256 < 256 BY <1>2
<1>5. 256 * (x \div 256) + (x % 256) = x BY <1>2
<1> QED BY <1>1, <1>3, <1>4, <1>5

\* The bytes of a text.
LEMMA UnitsSplit ==
  ASSUME NEW s, Text(s)
  PROVE  /\ Len(s) \in Nat /\ Len(s) \in TwoByte
         /\ Units(s) \in Seq(Byte) /\ Len(Units(s)) = 2 * Len(s)
         /\ \A i \in 1..Len(s) : /\ Units(s)[2 * i - 1] = s[i] \div 256
                                 /\ Units(s)[2 * i] = s[i] % 256
<1>1. s \in Seq(CodeUnit) /\ Len(s) \in TwoByte BY DEF Text
<1>2. Len(s) \in Nat BY <1>1, LenProperties
<1>3. ASSUME NEW i \in 1..Len(s)
      PROVE  s[i] \div 256 \in Byte /\ s[i] % 256 \in Byte
  <2>1. s[i] \in CodeUnit BY <1>1, ElementOfSeq
  <2> QED BY <2>1, UnitBytes
<1> DEFINE f == Units(s)
<1>4. f = [i \in 1..2 * Len(s) |-> IF i % 2 = 1 THEN s[(i + 1) \div 2] \div 256
                                               ELSE s[i \div 2] % 256]
  BY DEF Units
<1>5. 2 * Len(s) \in Nat BY <1>2
<1> HIDE DEF f
<1>6. ASSUME NEW i \in 1..2 * Len(s) PROVE f[i] \in Byte
  <2>1. CASE i % 2 = 1
    <3>1. (i + 1) \div 2 \in 1..Len(s) BY <1>2, <2>1
    <3> QED BY <1>3, <1>4, <2>1, <3>1
  <2>2. CASE i % 2 # 1
    <3>1. i \div 2 \in 1..Len(s) BY <1>2, <2>2
    <3> QED BY <1>3, <1>4, <2>2, <3>1
  <2> QED BY <2>1, <2>2
<1>7. f \in [1..2 * Len(s) -> Byte] BY <1>4, <1>6
<1>8. f \in Seq(Byte) /\ Len(f) = 2 * Len(s) BY <1>5, <1>7, IsSeq
<1>9. ASSUME NEW i \in 1..Len(s)
      PROVE  f[2 * i - 1] = s[i] \div 256 /\ f[2 * i] = s[i] % 256
  <2>1. 2 * i - 1 \in 1..2 * Len(s) /\ 2 * i \in 1..2 * Len(s) BY <1>2
  <2>2. (2 * i - 1) % 2 = 1 /\ (2 * i - 1 + 1) \div 2 = i BY <1>2
  <2>3. (2 * i) % 2 # 1 /\ (2 * i) \div 2 = i BY <1>2
  <2> QED BY <1>4, <2>1, <2>2, <2>3
<1> QED BY <1>1, <1>2, <1>8, <1>9 DEF f

\* A string is read back, whatever comes behind it, if its surrogates are paired.
LEMMA StringRead ==
  ASSUME NEW s, Text(s), NEW t \in Seq(Byte)
  PROVE  LET u == EncodeString(s) \o t
         IN  /\ EncodeString(s) \in Seq(Byte) /\ u \in Seq(Byte)
             /\ DecodeString(u) = s /\ (Decodes(u) <=> Paired(s))
<1> DEFINE n == Len(s)
           v == EncodeVarint(n)
           w == Units(s)
           x == w \o t
           u == v \o x
<1>1. /\ n \in Nat /\ n \in TwoByte /\ w \in Seq(Byte) /\ Len(w) = 2 * n
      /\ \A i \in 1..n : w[2 * i - 1] = s[i] \div 256 /\ w[2 * i] = s[i] % 256
  BY UnitsSplit
<1>2. v \in Seq(Byte) BY <1>1, EncodedBytes
<1> HIDE DEF n, v, w
<1>3. x \in Seq(Byte) /\ Len(x) = Len(w) + Len(t) /\ Len(t) \in Nat
      /\ (\A i \in 1..Len(w) : x[i] = w[i])
  <2>1. w \in Seq(Byte) BY <1>1
  <2> QED BY <2>1, Concat
<1>c. v \o w \in Seq(Byte) /\ (v \o w) \o t = u BY <1>1, <1>2, Regroup, Zenon
<1>4. EncodeString(s) = v \o w BY DEF EncodeString, v, w, n
<1> HIDE DEF x
<1>5. u \in Seq(Byte) /\ HasId(u) /\ IdAt(u) = n /\ AfterId(u) = x
  BY <1>1, <1>3, IdRead DEF v
<1> HIDE DEF u
<1>6. DecodeString(u) = s
  <2>1. DecodeString(u) = [i \in 1..n |-> 256 * x[2 * i - 1] + x[2 * i]]
    BY <1>5 DEF DecodeString
  <2>2. ASSUME NEW i \in 1..n PROVE 256 * x[2 * i - 1] + x[2 * i] = s[i]
    <3>1. 2 * i - 1 \in 1..Len(w) /\ 2 * i \in 1..Len(w) BY <1>1
    <3>2. x[2 * i - 1] = s[i] \div 256 /\ x[2 * i] = s[i] % 256 BY <1>1, <1>3, <3>1
    <3>3. s[i] \in CodeUnit BY ElementOfSeq DEF Text, n
    <3> QED BY <3>2, <3>3, UnitBytes
  <2>3. s = [i \in 1..n |-> s[i]]
    <3>1. s \in [1..n -> CodeUnit] BY LenProperties DEF Text, n
    <3> QED BY <3>1
  <2> QED BY <2>1, <2>2, <2>3
<1>7. Decodes(u) <=> Paired(s)
  <2>1. Len(AfterId(u)) >= 2 * IdAt(u) BY <1>1, <1>3, <1>5
  <2> QED BY <1>5, <1>6, <2>1, Zenon DEF Decodes
<1> QED BY <1>c, <1>4, <1>5, <1>6, <1>7 DEF u, x

LEMMA StringBack ==
  ASSUME NEW s, Text(s)
  PROVE  LET u == EncodeString(s)
         IN  u \in Seq(Byte) /\ DecodeString(u) = s /\ (Decodes(u) <=> Paired(s))
<1> DEFINE u == EncodeString(s)
<1>1. <<>> \in Seq(Byte) OBVIOUS
<1>2. /\ u \in Seq(Byte) /\ DecodeString(u \o <<>>) = s
      /\ Decodes(u \o <<>>) <=> Paired(s)
  BY <1>1, StringRead
<1> HIDE DEF u
<1>3. u \o <<>> = u BY <1>2, ConcatEmptySeq
<1> QED BY <1>2, <1>3 DEF u

\* A string that is cut off is not read.
LEMMA StringCut ==
  ASSUME NEW s, Text(s), NEW m \in Nat, m < Len(EncodeString(s))
  PROVE  ~Decodes(SubSeq(EncodeString(s), 1, m))
<1> DEFINE n == Len(s)
           v == EncodeVarint(n)
           e == EncodeString(s)
           p == SubSeq(e, 1, m)
<1>1. /\ n \in Nat /\ n \in TwoByte /\ Units(s) \in Seq(Byte) /\ Len(Units(s)) = 2 * n
  BY UnitsSplit
<1>2. v \in Seq(Byte) BY <1>1, EncodedBytes
<1>3. n < 128 => Len(v) = 1 /\ v[1] = n BY <1>1, EncodedBytes
<1>4. n >= 128 => Len(v) = 2 /\ v[1] = 128 + (n % 128) /\ v[2] = n \div 128
  BY <1>1, EncodedBytes
<1> HIDE DEF v
<1>5. /\ e \in Seq(Byte) /\ Len(e) = Len(v) + 2 * n /\ Len(v) \in Nat
      /\ \A i \in 1..Len(v) : e[i] = v[i]
  BY <1>1, <1>2, Concat DEF EncodeString, v
<1>f. /\ n < 128 => e[1] = n
      /\ n >= 128 => e[1] = 128 + (n % 128) /\ e[2] = n \div 128
  <2> HIDE DEF e, n
  <2>1. ASSUME n < 128 PROVE e[1] = n
    <3>1. 1 \in 1..Len(v) BY <1>3, <2>1
    <3> QED BY <1>3, <1>5, <2>1, <3>1
  <2>2. ASSUME n >= 128 PROVE e[1] = 128 + (n % 128) /\ e[2] = n \div 128
    <3>a. Len(v) = 2 BY <1>4, <2>2
    <3>1. 1 \in 1..Len(v) /\ 2 \in 1..Len(v) BY <3>a
    <3> QED BY <1>4, <1>5, <2>2, <3>1
  <2> QED BY <2>1, <2>2
<1> HIDE DEF n, e
<1>6. p \in Seq(Byte) /\ Len(p) = m /\ \A i \in 1..m : p[i] = e[i]
  <2>1. \A i \in 1..m : e[i] \in Byte BY <1>5, ElementOfSeq DEF e
  <2>2. /\ p \in Seq(Byte) /\ Len(p) = IF 1 <= m THEN m - 1 + 1 ELSE 0
        /\ \A i \in 1..m - 1 + 1 : p[i] = e[1 + i - 1]
    BY <2>1, SubSeqProperties
  <2>3. \A i \in 1..m : i \in 1..m - 1 + 1 /\ 1 + i - 1 = i OBVIOUS
  <2> HIDE DEF p
  <2> QED BY <2>2, <2>3
<1> HIDE DEF p
<1>g. (m >= 1 => p[1] = e[1]) /\ (m >= 2 => p[2] = e[2])
  <2>1. (m >= 1 => 1 \in 1..m) /\ (m >= 2 => 2 \in 1..m) OBVIOUS
  <2> QED BY <1>6, <2>1
<1>7. m < Len(v) + 2 * n BY <1>5 DEF e
<1>8. CASE m = 0 \/ (m = 1 /\ n >= 128)
  <2>1. \A i \in 1..Len(p) : p[i] >= 128
    <3>1. n >= 128 => 128 + (n % 128) >= 128 BY <1>1, Halves
    <3>2. m = 1 => p[1] = 128 + (n % 128) BY <1>8, <1>f, <1>g
    <3> QED BY <1>6, <1>8, <3>1, <3>2
  <2>2. VarintLen(p, 5) = 0 BY <1>6, <2>1, NoVarint
  <2> QED BY <2>2 DEF Decodes, HasId, p, e
<1>9. CASE m >= 1 /\ n < 128
  <2>1. p[1] = n /\ Len(v) = 1
    <3>1. p[1] = e[1] BY <1>9, <1>g
    <3> QED BY <1>3, <1>9, <1>f, <3>1
  <2>2. VarintLen(p, 5) = 1 /\ VarintValue(p, 5) = n BY <1>6, <1>9, <2>1, OneByte
  <2>3. Len(Drop(p, 1)) = m - 1 BY <1>6, <1>9, Dropped
  <2>4. m - 1 < 2 * n BY <1>1, <1>7, <2>1
  <2>5. ~(m - 1 >= 2 * n) BY <1>1, <2>4
  <2> QED BY <2>2, <2>3, <2>5 DEF Decodes, AfterId, IdAt, p, e
<1>10. CASE m >= 2 /\ n >= 128
  <2>1. p[1] = 128 + (n % 128) /\ p[2] = n \div 128 /\ Len(v) = 2
    <3>1. p[1] = e[1] /\ p[2] = e[2]
      <4>1. m >= 1 BY <1>10
      <4> QED BY <1>10, <1>g, <4>1
    <3> QED BY <1>4, <1>10, <1>f, <3>1
  <2>2. p[1] >= 128 /\ p[2] < 128 BY <1>1, <2>1, Halves
  <2>3. VarintLen(p, 5) = 2 /\ VarintValue(p, 5) = (p[1] % 128) + 128 * p[2]
    BY <1>6, <1>10, <2>2, TwoBytes
  <2>4. VarintValue(p, 5) = (n % 128) + (128 * (n \div 128)) BY <1>1, <2>1, <2>3, Halves
  <2>5. VarintValue(p, 5) = n BY <1>1, <2>4, Halves
  <2>6. Len(Drop(p, 2)) = m - 2
    <3>1. p \in Seq(Byte) /\ 2 \in 0..Len(p) BY <1>6, <1>10
    <3>2. Len(Drop(p, 2)) = Len(p) - 2 BY <3>1, Dropped, Zenon
    <3> QED BY <1>6, <3>2
  <2>7. m - 2 < 2 * n BY <1>1, <1>7, <2>1
  <2>8. ~(m - 2 >= 2 * n) BY <1>1, <2>7
  <2> QED BY <2>3, <2>5, <2>6, <2>8 DEF Decodes, AfterId, IdAt, p, e
<1>11. (m = 0 \/ (m = 1 /\ n >= 128)) \/ (m >= 1 /\ n < 128) \/ (m >= 2 /\ n >= 128)
  BY <1>1
<1> QED BY <1>8, <1>9, <1>10, <1>11

\* A byte string behind one byte.
LEMMA OneFront ==
  ASSUME NEW x \in Byte, NEW t \in Seq(Byte)
  PROVE  LET u == <<x>> \o t
         IN  /\ u \in Seq(Byte) /\ Len(u) = 1 + Len(t) /\ Len(t) \in Nat
             /\ u # <<>> /\ u[1] = x /\ Tail(u) = t /\ Drop(u, 1) = t
             /\ \A i \in 1..Len(t) : u[1 + i] = t[i]
             /\ \A y : IsPrefix(<<y>>, u) <=> y = x
<1> DEFINE s == <<x>>
           u == s \o t
<1>1. s \in Seq(Byte) /\ Len(s) = 1 /\ s[1] = x OBVIOUS
<1> HIDE DEF s
<1>2. /\ u \in Seq(Byte) /\ Len(u) = 1 + Len(t) /\ Len(t) \in Nat
      /\ \A i \in 1..1 : u[i] = s[i]
      /\ \A i \in 1..Len(t) : u[1 + i] = t[i]
  BY <1>1, Concat
<1>3. u[1] = x
  <2>1. 1 \in 1..1 OBVIOUS
  <2> HIDE DEF u
  <2> QED BY <1>1, <1>2, <2>1
<1>4. Drop(u, 1) = t BY <1>1, DropFront
<1> HIDE DEF u
<1>5. u # <<>> BY <1>2, EmptySeq
<1>6. Tail(u) = t BY <1>2, <1>4, <1>5, TailIsSubSeq DEF Drop
<1>7. ASSUME NEW y PROVE IsPrefix(<<y>>, u) <=> y = x
  <2>1. Len(<<y>>) = 1 /\ SubSeq(<<y>>, 1, 1) = <<y>>
    <3> DEFINE q == <<y>>
    <3>1. q \in Seq({y}) /\ Len(q) = 1 OBVIOUS
    <3> HIDE DEF q
    <3> QED BY <3>1, SubSeqFull DEF q
  <2>2. SubSeq(u, 1, 1) = <<x>>
    <3>1. \A i \in 1..1 : u[i] \in Byte BY <1>3
    <3>2. /\ SubSeq(u, 1, 1) \in Seq(Byte) /\ Len(SubSeq(u, 1, 1)) = IF 1 <= 1 THEN 1 - 1 + 1 ELSE 0
          /\ \A i \in 1..1 - 1 + 1 : SubSeq(u, 1, 1)[i] = u[1 + i - 1]
      BY <3>1, SubSeqProperties
    <3>3. SubSeq(u, 1, 1)[1] = x
      <4>1. 1 \in 1..1 - 1 + 1 /\ 1 + 1 - 1 = 1 OBVIOUS
      <4> QED BY <1>3, <3>2, <4>1
    <3>4. <<x>> \in Seq(Byte) /\ Len(<<x>>) = 1 /\ <<x>>[1] = x OBVIOUS
    <3> DEFINE p == SubSeq(u, 1, 1)
               q == <<x>>
    <3>5. p \in Seq(Byte) /\ q \in Seq(Byte) /\ Len(p) = 1 /\ Len(q) = 1 /\ p[1] = q[1]
      BY <3>2, <3>3, <3>4
    <3> HIDE DEF p, q
    <3>6. \A i \in 1..Len(p) : p[i] = q[i] BY <3>5
    <3>7. p = q BY <3>5, <3>6, SeqEqual
    <3> QED BY <3>7 DEF p, q
  <2>3. 1 <= Len(u) BY <1>2
  <2>4. <<y>> = <<x>> <=> y = x OBVIOUS
  <2> QED BY <2>1, <2>2, <2>3, <2>4 DEF IsPrefix
<1> QED BY <1>2, <1>3, <1>4, <1>5, <1>6, <1>7 DEF u, s

LEMMA Assoc ==
  ASSUME NEW p \in Seq(Byte), NEW q \in Seq(Byte), NEW r \in Seq(Byte)
  PROVE  (p \o q) \o r = p \o (q \o r)
BY Regroup, Zenon

\* The bytes that keys are laid out with.
LEMMA SmallBytes ==
  /\ \A x \in {0, 1, 50, 201} : x \in Byte
  /\ <<>> \in Seq(Byte) /\ <<0>> \in Seq(Byte) /\ <<1>> \in Seq(Byte) /\ <<50>> \in Seq(Byte)
  /\ <<0, 50>> = <<0>> \o <<50>>
<1>1. \A x \in {0, 1, 50, 201} : x \in Nat /\ x < 256 OBVIOUS
<1>2. \A x \in Nat : x < 256 => x \in Byte BY DEF Byte
<1>3. \A x \in {0, 1, 50, 201} : x \in Byte BY <1>1, <1>2
<1>4. \A x \in Byte : <<x>> \in Seq(Byte) OBVIOUS
<1>5. <<0, 50>> = <<0>> \o <<50>> OBVIOUS
<1> QED BY <1>3, <1>4, <1>5

(***************************************************************************)
(* Keys of a database                                                      *)
(***************************************************************************)
InDatabase(d, x, b) == <<0>> \o (EncodeVarint(d) \o (<<x>> \o b))

\* Id, section and body of a key of a database are read back.
LEMMA DatabaseSection ==
  ASSUME NEW d \in TwoByte, d # 0, NEW x \in Byte, NEW b \in Seq(Byte), Len(b) >= 1,
         NEW z, z = InDatabase(d, x, b)
  PROVE  /\ z \in Seq(Byte) /\ ~IsGlobal(z)
         /\ \A y : InSection(z, y) <=> y = x
         /\ DbIdOf(z) = d /\ Body(z) = b
<1>a. PICK c : c = <<x>> \o b BY Zenon
<1>b. PICK u : u = EncodeVarint(d) \o c BY Zenon
<1>1. /\ c \in Seq(Byte) /\ Len(c) >= 2 /\ Tail(c) = b /\ \A y : IsPrefix(<<y>>, c) <=> y = x
  <2>1. /\ c \in Seq(Byte) /\ Len(c) = 1 + Len(b) /\ Len(b) \in Nat /\ Tail(c) = b
        /\ \A y : IsPrefix(<<y>>, c) <=> y = x
    BY <1>a, OneFront
  <2> QED BY <2>1
<1>2. /\ u \in Seq(Byte) /\ HasId(u) /\ IdAt(u) = d /\ AfterId(u) = c
      /\ Len(u) >= 1 + Len(c) /\ (u[1] = 0 => d = 0)
  BY <1>1, <1>b, IdRead
<1>3. Len(u) >= 3 /\ u[1] # 0
  <2>1. Len(u) \in Nat /\ Len(c) \in Nat BY <1>1, <1>2, LenProperties
  <2> QED BY <1>1, <1>2, <2>1
<1>5. /\ z \in Seq(Byte) /\ Len(z) = 1 + Len(u) /\ Len(u) \in Nat /\ z[1] = 0
      /\ Tail(z) = u /\ \A i \in 1..Len(u) : z[1 + i] = u[i]
  <2>1. z = <<0>> \o u BY <1>a, <1>b DEF InDatabase
  <2> QED BY <1>2, <2>1, OneFront, SmallBytes
<1>6. IsKey(z)
  <2>1. Len(z) >= 4 BY <1>3, <1>5
  <2> QED BY <1>5, <2>1 DEF IsKey
<1>7. ~IsGlobal(z)
  <2>1. z[2] # 0
    <3>1. 1 \in 1..Len(u) /\ 1 + 1 = 2 BY <1>3, <1>5
    <3> QED BY <1>3, <1>5, <3>1
  <2>2. SubSeq(z, 2, 4)[1] = z[2]
    <3>1. \A i \in 2..4 : z[i] \in Byte
      <4>1. \A i \in 2..4 : i \in 1..Len(z) BY <1>3, <1>5
      <4> QED BY <1>5, <4>1, ElementOfSeq
    <3>2. \A i \in 1..4 - 2 + 1 : SubSeq(z, 2, 4)[i] = z[2 + i - 1]
      BY <3>1, SubSeqProperties
    <3>3. 1 \in 1..4 - 2 + 1 /\ 2 + 1 - 1 = 2 OBVIOUS
    <3> QED BY <3>2, <3>3
  <2>3. <<0, 0, 0>>[1] = 0 OBVIOUS
  <2>4. PICK p : p = SubSeq(z, 2, 4) BY Zenon
  <2>5. p # <<0, 0, 0>> BY <2>1, <2>2, <2>3, <2>4, Zenon
  <2> QED BY <2>4, <2>5 DEF IsGlobal
<1>8. \A y : InSection(z, y) <=> y = x
  BY <1>1, <1>2, <1>5, <1>6, <1>7, Zenon DEF InSection
<1>9. DbIdOf(z) = d /\ Body(z) = b BY <1>1, <1>2, <1>5, Zenon DEF DbIdOf, Body
<1> QED BY <1>5, <1>7, <1>8, <1>9

\* The layouts of StoreKey and RecordKey, grouped from the end.
LEMMA StoreKeyLayout ==
  ASSUME NEW d \in TwoByte, NEW s \in TwoByte
  PROVE  StoreKey(d, s) = InDatabase(d, 0, <<50>> \o (EncodeVarint(s) \o <<0>>))
<1>1. PICK a : a = <<0>> BY Zenon
<1>2. PICK f : f = <<50>> BY Zenon
<1>3. PICK c : c = <<0, 50>> BY Zenon
<1>4. PICK v : v = EncodeVarint(d) BY Zenon
<1>5. PICK w : w = EncodeVarint(s) BY Zenon
<1>6. a \in Seq(Byte) /\ f \in Seq(Byte) /\ c = a \o f BY <1>1, <1>2, <1>3, SmallBytes
<1>7. v \in Seq(Byte) /\ w \in Seq(Byte) BY <1>4, <1>5, EncodedBytes
<1>8. c \in Seq(Byte) /\ w \o a \in Seq(Byte) BY <1>6, <1>7, Regroup, Zenon
<1>9. a \o v \in Seq(Byte) BY <1>6, <1>7, Regroup, Zenon
<1>10. (a \o v) \o c \in Seq(Byte) BY <1>8, <1>9, Regroup, Zenon
<1>11. c \o (w \o a) \in Seq(Byte) BY <1>8, Regroup, Zenon
<1>12. (((a \o v) \o c) \o w) \o a = ((a \o v) \o c) \o (w \o a)
  BY <1>6, <1>7, <1>10, Assoc, Zenon
<1>13. ((a \o v) \o c) \o (w \o a) = (a \o v) \o (c \o (w \o a))
  BY <1>8, <1>9, Assoc, Zenon
<1>14. (a \o v) \o (c \o (w \o a)) = a \o (v \o (c \o (w \o a)))
  BY <1>6, <1>7, <1>11, Assoc, Zenon
<1>15. c \o (w \o a) = a \o (f \o (w \o a)) BY <1>6, <1>8, Assoc, Zenon
<1>16. StoreKey(d, s) = (((a \o v) \o c) \o w) \o a
  BY <1>1, <1>3, <1>4, <1>5, Zenon DEF StoreKey
<1>17. InDatabase(d, 0, <<50>> \o (EncodeVarint(s) \o <<0>>))
         = a \o (v \o (a \o (f \o (w \o a))))
  BY <1>1, <1>2, <1>4, <1>5, Zenon DEF InDatabase
<1> QED BY <1>12, <1>13, <1>14, <1>15, <1>16, <1>17, Zenon

LEMMA RecordKeyLayout ==
  ASSUME NEW d \in TwoByte, NEW s \in TwoByte, NEW k \in Seq(Byte)
  PROVE  RecordKey(d, s, k) = InDatabase(d, 1, EncodeVarint(s) \o (<<0>> \o k))
<1>1. PICK a : a = <<0>> BY Zenon
<1>2. PICK f : f = <<1>> BY Zenon
<1>4. PICK v : v = EncodeVarint(d) BY Zenon
<1>5. PICK w : w = EncodeVarint(s) BY Zenon
<1>6. a \in Seq(Byte) /\ f \in Seq(Byte) BY <1>1, <1>2, SmallBytes
<1>7. v \in Seq(Byte) /\ w \in Seq(Byte) BY <1>4, <1>5, EncodedBytes
<1>8. a \o v \in Seq(Byte) /\ a \o k \in Seq(Byte) BY <1>6, <1>7, Regroup, Zenon
<1>9. (a \o v) \o f \in Seq(Byte) /\ w \o (a \o k) \in Seq(Byte)
  BY <1>6, <1>7, <1>8, Regroup, Zenon
<1>10. ((a \o v) \o f) \o w \in Seq(Byte) /\ f \o (w \o (a \o k)) \in Seq(Byte)
  BY <1>6, <1>7, <1>9, Regroup, Zenon
<1>11. ((((a \o v) \o f) \o w) \o a) \o k = (((a \o v) \o f) \o w) \o (a \o k)
  BY <1>6, <1>10, Assoc, Zenon
<1>12. (((a \o v) \o f) \o w) \o (a \o k) = ((a \o v) \o f) \o (w \o (a \o k))
  <2>1. w \in Seq(Byte) BY <1>7
  <2>2. a \o k \in Seq(Byte) BY <1>8, Zenon
  <2>3. (a \o v) \o f \in Seq(Byte) BY <1>9, Zenon
  <2> QED BY <2>1, <2>2, <2>3, Assoc, Zenon
<1>13. ((a \o v) \o f) \o (w \o (a \o k)) = (a \o v) \o (f \o (w \o (a \o k)))
  BY <1>6, <1>8, <1>9, Assoc, Zenon
<1>14. (a \o v) \o (f \o (w \o (a \o k))) = a \o (v \o (f \o (w \o (a \o k))))
  BY <1>6, <1>7, <1>10, Assoc, Zenon
<1>15. RecordKey(d, s, k) = ((((a \o v) \o f) \o w) \o a) \o k
  BY <1>1, <1>2, <1>4, <1>5, Zenon DEF RecordKey
<1>16. InDatabase(d, 1, EncodeVarint(s) \o (<<0>> \o k)) = a \o (v \o (f \o (w \o (a \o k))))
  BY <1>1, <1>2, <1>4, <1>5, Zenon DEF InDatabase
<1> QED BY <1>11, <1>12, <1>13, <1>14, <1>15, <1>16, Zenon

(***************************************************************************)
(* Keys the browser stores                                                 *)
(***************************************************************************)
\* What IndexedDbConstants says of ids and names, in parts.
LEMMA Ids ==
  /\ \A d \in DbIds : d \in TwoByte /\ d # 0 /\ d \in Nat /\ d \in Byte
  /\ \A s \in StoreIds : s \in TwoByte /\ s # 0 /\ s \in Nat
  /\ IdbKeys \subseteq Seq(Byte)
  /\ Text(Origin) /\ Paired(Origin) /\ \A n \in DbNames \cup StoreNames : Text(n)
<1>1. DbIds \subseteq Byte \ {0} BY IndexedDbConstants, Zenon
<1>2. StoreIds \subseteq TwoByte \ {0} BY IndexedDbConstants, Zenon
<1>3. IdbKeys \subseteq Seq(Byte) /\ Text(Origin) /\ Paired(Origin) BY IndexedDbConstants, Zenon
<1>4. \A n \in DbNames \cup StoreNames : Text(n) BY IndexedDbConstants, Zenon
<1>5. \A d \in Byte : d \in TwoByte /\ d \in Nat BY DEF TwoByte, Byte
<1>6. \A s \in TwoByte : s \in Nat BY DEF TwoByte
<1>7. \A d \in DbIds : d \in TwoByte /\ d # 0 /\ d \in Nat /\ d \in Byte BY <1>1, <1>5
<1>8. \A s \in StoreIds : s \in TwoByte /\ s # 0 /\ s \in Nat BY <1>2, <1>6
<1> QED BY <1>3, <1>4, <1>7, <1>8, Zenon

\* The key of a store name is taken for one and for nothing else.
LEMMA StoreKeyRead ==
  ASSUME NEW d \in DbIds, NEW s \in StoreIds, NEW z, z = StoreKey(d, s)
  PROVE  /\ z \in Seq(Byte) /\ ~IsGlobal(z) /\ IsStoreName(z) /\ ~IsRecord(z)
         /\ DbIdOf(z) = d /\ IdAt(Tail(Body(z))) = s
<1>1. d \in TwoByte /\ d # 0 /\ s \in TwoByte BY Ids
<1>2. PICK u : u = EncodeVarint(s) \o <<0>> BY Zenon
<1>3. PICK b : b = <<50>> \o u BY Zenon
<1>4. u \in Seq(Byte) /\ HasId(u) /\ IdAt(u) = s /\ AfterId(u) = <<0>>
  BY <1>1, <1>2, IdRead, SmallBytes
<1>5. b \in Seq(Byte) /\ Len(b) = 1 + Len(u) /\ Len(u) \in Nat /\ Tail(b) = u
      /\ \A y : IsPrefix(<<y>>, b) <=> y = 50
  BY <1>3, <1>4, OneFront, SmallBytes
<1>6. Len(b) >= 1 BY <1>5
<1>7. z = InDatabase(d, 0, b) BY <1>1, <1>2, <1>3, StoreKeyLayout, Zenon
<1>8. /\ z \in Seq(Byte) /\ ~IsGlobal(z) /\ DbIdOf(z) = d /\ Body(z) = b
      /\ \A y : InSection(z, y) <=> y = 0
  <2>1. 0 \in Byte BY SmallBytes
  <2> QED BY <1>1, <1>5, <1>6, <1>7, <2>1, DatabaseSection
<1>9. IsStoreName(z) BY <1>4, <1>5, <1>8, Zenon DEF IsStoreName
<1>10. ~IsRecord(z)
  <2>1. 1 # 0 OBVIOUS
  <2> QED BY <1>8, <2>1, Zenon DEF IsRecord
<1>11. IdAt(Tail(Body(z))) = s BY <1>4, <1>5, <1>8, Zenon
<1> QED BY <1>8, <1>9, <1>10, <1>11

\* The key of a record is taken for one and for nothing else.
LEMMA RecordKeyRead ==
  ASSUME NEW d \in DbIds, NEW s \in StoreIds, NEW k \in IdbKeys, NEW z, z = RecordKey(d, s, k)
  PROVE  /\ z \in Seq(Byte) /\ ~IsGlobal(z) /\ IsRecord(z) /\ ~IsStoreName(z)
         /\ DbIdOf(z) = d /\ IdAt(Body(z)) = s /\ Tail(AfterId(Body(z))) = k
<1>1. d \in TwoByte /\ d # 0 /\ s \in TwoByte /\ k \in Seq(Byte) BY Ids
<1>2. PICK u : u = <<0>> \o k BY Zenon
<1>3. PICK b : b = EncodeVarint(s) \o u BY Zenon
<1>4. u \in Seq(Byte) /\ Tail(u) = k /\ \A y : IsPrefix(<<y>>, u) <=> y = 0
  BY <1>1, <1>2, OneFront, SmallBytes
<1>5. b \in Seq(Byte) /\ HasId(b) /\ IdAt(b) = s /\ AfterId(b) = u /\ Len(b) >= 1 + Len(u)
  BY <1>1, <1>3, <1>4, IdRead
<1>6. Len(b) >= 1
  <2>1. Len(u) \in Nat /\ Len(b) \in Nat BY <1>4, <1>5, LenProperties
  <2> QED BY <1>5, <2>1
<1>7. z = InDatabase(d, 1, b) BY <1>1, <1>2, <1>3, RecordKeyLayout, Zenon
<1>8. /\ z \in Seq(Byte) /\ ~IsGlobal(z) /\ DbIdOf(z) = d /\ Body(z) = b
      /\ \A y : InSection(z, y) <=> y = 1
  <2>1. 1 \in Byte BY SmallBytes
  <2> QED BY <1>1, <1>5, <1>6, <1>7, <2>1, DatabaseSection
<1>9. IsRecord(z) BY <1>4, <1>5, <1>8, Zenon DEF IsRecord
<1>10. ~IsStoreName(z)
  <2>1. 1 # 0 OBVIOUS
  <2> QED BY <1>8, <2>1, Zenon DEF IsStoreName
<1>11. IdAt(Body(z)) = s /\ Tail(AfterId(Body(z))) = k BY <1>4, <1>5, <1>8, Zenon
<1> QED BY <1>8, <1>9, <1>10, <1>11

(***************************************************************************)
(* Keys of the global section                                              *)
(***************************************************************************)
InGlobal(t, b) == <<0, 0, 0, 0, t>> \o b

\* Type and body of a key of the global section are read back.
LEMMA GlobalSection ==
  ASSUME NEW t \in Byte, NEW b \in Seq(Byte), NEW z, z = InGlobal(t, b)
  PROVE  /\ z \in Seq(Byte) /\ Len(z) >= 5 /\ IsGlobal(z) /\ z[5] = t /\ Drop(z, 5) = b
         /\ \A y : ~InSection(z, y)
<1>1. PICK p : p = <<0, 0, 0, 0, t>> BY Zenon
<1>2. p \in Seq(Byte) /\ Len(p) = 5 /\ p[1] = 0 /\ p[2] = 0 /\ p[3] = 0 /\ p[4] = 0 /\ p[5] = t
  <2>1. 0 \in Byte BY SmallBytes
  <2> QED BY <1>1, <2>1
<1>3. z = p \o b BY <1>1, Zenon DEF InGlobal
<1>4. z \in Seq(Byte) /\ Len(z) = 5 + Len(b) /\ Len(b) \in Nat
      /\ \A i \in 1..5 : z[i] = p[i]
  <2>1. /\ z \in Seq(Byte) /\ Len(z) = Len(p) + Len(b) /\ Len(b) \in Nat
        /\ \A i \in 1..Len(p) : z[i] = p[i]
    <3>1. /\ p \o b \in Seq(Byte) /\ Len(p \o b) = Len(p) + Len(b) /\ Len(b) \in Nat
          /\ \A i \in 1..Len(p) : (p \o b)[i] = p[i]
      BY <1>2, Concat
    <3> QED BY <1>3, <3>1, Zenon
  <2> QED BY <1>2, <2>1
<1>5. Len(z) >= 5 /\ Len(z) >= 4 BY <1>4
<1>6. /\ z[1] = 0 /\ z[2] = 0 /\ z[3] = 0 /\ z[4] = 0 /\ z[5] = t
  <2>1. \A i \in {1, 2, 3, 4, 5} : i \in 1..5 OBVIOUS
  <2> QED BY <1>2, <1>4, <2>1
<1>7. Drop(z, 5) = b BY <1>2, <1>3, DropFront
<1>8. IsGlobal(z)
  <2>1. PICK q : q = SubSeq(z, 2, 4) BY Zenon
  <2>2. q \in Seq(Byte) /\ Len(q) = 3 /\ q[1] = 0 /\ q[2] = 0 /\ q[3] = 0
    <3>1. \A i \in 2..4 : z[i] \in Byte
      <4>1. \A i \in 2..4 : i \in 1..Len(z) BY <1>4, <1>5
      <4> QED BY <1>4, <4>1, ElementOfSeq
    <3>2. /\ q \in Seq(Byte) /\ Len(q) = IF 2 <= 4 THEN 4 - 2 + 1 ELSE 0
          /\ \A i \in 1..4 - 2 + 1 : q[i] = z[2 + i - 1]
      BY <2>1, <3>1, SubSeqProperties
    <3>3. /\ 1 \in 1..4 - 2 + 1 /\ 2 \in 1..4 - 2 + 1 /\ 3 \in 1..4 - 2 + 1
          /\ 2 + 1 - 1 = 2 /\ 2 + 2 - 1 = 3 /\ 2 + 3 - 1 = 4
      OBVIOUS
    <3>4. q[1] = z[2] /\ q[2] = z[3] /\ q[3] = z[4] BY <3>2, <3>3
    <3> QED BY <1>6, <3>2, <3>4
  <2>3. PICK o : o = <<0, 0, 0>> BY Zenon
  <2>4. o \in Seq(Byte) /\ Len(o) = 3 /\ o[1] = 0 /\ o[2] = 0 /\ o[3] = 0
    <3>1. 0 \in Byte BY SmallBytes
    <3> QED BY <2>3, <3>1
  <2>5. q = o
    <3>1. \A i \in 1..3 : i = 1 \/ i = 2 \/ i = 3 OBVIOUS
    <3>2. \A i \in 1..Len(q) : q[i] = o[i] BY <2>2, <2>4, <3>1
    <3> QED BY <2>2, <2>4, <3>2, SeqEqual
  <2>6. SubSeq(z, 2, 4) = <<0, 0, 0>> BY <2>1, <2>3, <2>5, Zenon
  <2> QED BY <1>5, <1>6, <2>6, Zenon DEF IsGlobal, IsKey
<1>9. \A y : ~InSection(z, y) BY <1>8, Zenon DEF InSection
<1> QED BY <1>4, <1>5, <1>6, <1>7, <1>8, <1>9

\* The type of a key of the global section is that of database names.
NameTagged(z) == z[5] = 201

\* A key of the schema is taken for nothing.
LEMMA SchemaKeyRead ==
  ASSUME NEW t \in SchemaTag, NEW z, z = SchemaKey(t)
  PROVE  z \in Seq(Byte) /\ ~NameTagged(z) /\ IsGlobal(z) /\ ~IsStoreName(z) /\ ~IsRecord(z)
         /\ ~IsDatabaseName(z)
<1>1. t \in Byte /\ t # 201 BY DEF Byte, SchemaTag
<1>2. z = InGlobal(t, <<>>)
  <2>1. SchemaKey(t) \in Seq(Byte)
    <3>1. 0 \in Byte BY SmallBytes
    <3> QED BY <1>1, <3>1 DEF SchemaKey
  <2>2. z \o <<>> = z BY <2>1, ConcatEmptySeq
  <2> QED BY <2>2 DEF InGlobal, SchemaKey
<1>3. z \in Seq(Byte) /\ IsGlobal(z) /\ z[5] = t /\ \A y : ~InSection(z, y)
  BY <1>1, <1>2, GlobalSection, SmallBytes
<1> QED BY <1>1, <1>3 DEF IsStoreName, IsRecord, IsDatabaseName, NameTagged

\* The layout of NameKey, grouped from the end.
LEMMA NameKeyLayout ==
  ASSUME NEW n \in DbNames
  PROVE  /\ EncodeString(Origin) \in Seq(Byte) /\ EncodeString(n) \in Seq(Byte)
         /\ NameKey(n) = InGlobal(201, EncodeString(Origin) \o (<<0>> \o EncodeString(n)))
<1>1. PICK p : p = <<0, 0, 0, 0, 201>> BY Zenon
<1>2. PICK o : o = EncodeString(Origin) BY Zenon
<1>3. PICK a : a = <<0>> BY Zenon
<1>4. PICK e : e = EncodeString(n) BY Zenon
<1>5. p \in Seq(Byte) /\ a \in Seq(Byte)
  <2>1. 0 \in Byte /\ 201 \in Byte BY SmallBytes
  <2> QED BY <1>1, <1>3, <2>1
<1>6. o \in Seq(Byte) /\ e \in Seq(Byte)
  <2>1. Text(Origin) /\ Text(n) BY Ids
  <2> QED BY <1>2, <1>4, <2>1, StringBack
<1>7. p \o o \in Seq(Byte) /\ a \o e \in Seq(Byte) BY <1>5, <1>6, Regroup, Zenon
<1>8. (p \o o) \o a \in Seq(Byte) BY <1>5, <1>7, Regroup, Zenon
<1>9. ((p \o o) \o a) \o e = (p \o o) \o (a \o e) BY <1>5, <1>6, <1>7, Assoc, Zenon
<1>10. (p \o o) \o (a \o e) = p \o (o \o (a \o e)) BY <1>5, <1>6, <1>7, Assoc, Zenon
<1>11. NameKey(n) = ((p \o o) \o a) \o e BY <1>1, <1>2, <1>3, <1>4, Zenon DEF NameKey
<1>12. InGlobal(201, EncodeString(Origin) \o (<<0>> \o EncodeString(n))) = p \o (o \o (a \o e))
  BY <1>1, <1>2, <1>3, <1>4, Zenon DEF InGlobal
<1>13. NameKey(n) = InGlobal(201, EncodeString(Origin) \o (<<0>> \o EncodeString(n)))
  BY <1>9, <1>10, <1>11, <1>12, Zenon
<1> QED BY <1>2, <1>4, <1>6, <1>13, Zenon

\* Where there is a zero byte there is a first one.
LEMMA FirstZeroIs ==
  ASSUME NEW x \in Seq(Byte), ZeroesOf(x) # {}
  PROVE  FirstZero(x) \in ZeroesOf(x) /\ \A j \in ZeroesOf(x) : FirstZero(x) <= j
<1> DEFINE R == OpToRel(<, Nat)
           T == ZeroesOf(x)
<1>1. T \subseteq Nat /\ T # {} BY LenProperties DEF ZeroesOf
<1>2. IsWellFoundedOn(R, Nat) BY NatLessThanWellFounded
<1> HIDE DEF T
<1>3. PICK i \in T : \A j \in T : <<j, i>> \notin R
  <2> HIDE DEF R
  <2> QED BY <1>1, <1>2, WFMin, Zenon
<1>4. \A j \in T : ~(j < i) BY <1>1, <1>3 DEF OpToRel
<1>5. \A j \in T : i <= j BY <1>1, <1>4
<1> QED BY <1>5 DEF FirstZero, T

\* The origin and the name of a database are parted at the right place if no
\* byte of the encoded origin is zero; if one is, the key is passed over, and
\* so it is if the surrogates of the name are not paired.
LEMMA NameKeyRead ==
  ASSUME NEW n \in DbNames, NEW z, z = NameKey(n)
  PROVE  /\ z \in Seq(Byte) /\ NameTagged(z) /\ IsGlobal(z) /\ ~IsStoreName(z) /\ ~IsRecord(z)
         /\ ZeroesOf(EncodeString(Origin)) = {} =>
              DecodeString(NamePart(Drop(z, 5))) = n /\ (IsDatabaseName(z) <=> Paired(n))
         /\ ZeroesOf(EncodeString(Origin)) # {} => ~IsDatabaseName(z)
<1>1. PICK o : o = EncodeString(Origin) BY Zenon
<1>2. PICK e : e = EncodeString(n) BY Zenon
<1>3. PICK c : c = <<0>> \o e BY Zenon
<1>4. PICK x : x = o \o c BY Zenon
<1>5. o \in Seq(Byte) /\ e \in Seq(Byte) /\ z = InGlobal(201, x)
  BY <1>1, <1>2, <1>3, <1>4, NameKeyLayout, Zenon
<1>6. /\ c \in Seq(Byte) /\ Len(c) = 1 + Len(e) /\ Len(e) \in Nat /\ c[1] = 0
      /\ \A i \in 1..Len(e) : c[1 + i] = e[i]
  BY <1>3, <1>5, OneFront, SmallBytes
<1>7. /\ x \in Seq(Byte) /\ Len(x) = Len(o) + Len(c) /\ Len(o) \in Nat /\ Len(c) \in Nat
      /\ DOMAIN x = 1..Len(o) + Len(c)
      /\ (\A i \in 1..Len(o) : x[i] = o[i])
      /\ (\A i \in 1..Len(c) : x[Len(o) + i] = c[i])
  BY <1>4, <1>5, <1>6, Concat
<1>8. /\ z \in Seq(Byte) /\ Len(z) >= 5 /\ IsGlobal(z) /\ z[5] = 201 /\ Drop(z, 5) = x
      /\ \A y : ~InSection(z, y)
  <2>1. 201 \in Byte BY SmallBytes
  <2> QED BY <1>5, <1>7, <2>1, GlobalSection
<1>9. x[Len(o) + 1] = 0 /\ Len(o) + 1 \in ZeroesOf(x)
  <2>1. 1 \in 1..Len(c) /\ Len(o) + 1 \in 1..Len(o) + Len(c) BY <1>6, <1>7
  <2> QED BY <1>6, <1>7, <2>1 DEF ZeroesOf
<1>10. DOMAIN o = 1..Len(o) BY <1>5, LenProperties
<1>11. Text(Origin) /\ Paired(Origin) /\ Text(n) BY Ids
<1>12. FirstZero(x) \in ZeroesOf(x) /\ \A j \in ZeroesOf(x) : FirstZero(x) <= j
  BY <1>7, <1>9, FirstZeroIs
<1>13. PICK f : f = FirstZero(x) BY Zenon
<1>14. f \in 1..Len(o) + Len(c) /\ x[f] = 0 /\ f <= Len(o) + 1
  BY <1>7, <1>9, <1>12, <1>13 DEF ZeroesOf
<1>15. CASE ZeroesOf(EncodeString(Origin)) = {}
  <2>1. f = Len(o) + 1
    <3>1. ASSUME f <= Len(o) PROVE FALSE
      <4>1. f \in 1..Len(o) BY <1>14, <3>1, <1>7
      <4>2. f \in ZeroesOf(o) BY <1>7, <1>10, <1>14, <4>1 DEF ZeroesOf
      <4> QED BY <1>1, <1>15, <4>2
    <3> QED BY <1>7, <1>14, <3>1
  <2>2. OriginPart(x) = o
    <3>1. PICK q : q = SubSeq(x, 1, Len(o)) BY Zenon
    <3>2. q \in Seq(Byte) /\ Len(q) = Len(o) /\ \A i \in 1..Len(o) : q[i] = x[i]
      <4>1. \A i \in 1..Len(o) : x[i] \in Byte BY <1>5, <1>7, ElementOfSeq
      <4>2. /\ q \in Seq(Byte) /\ Len(q) = IF 1 <= Len(o) THEN Len(o) - 1 + 1 ELSE 0
            /\ \A i \in 1..Len(o) - 1 + 1 : q[i] = x[1 + i - 1]
        BY <1>7, <3>1, <4>1, SubSeqProperties
      <4> QED BY <1>7, <4>2
    <3>3. q = o BY <1>5, <1>7, <3>2, SeqEqual
    <3>4. f - 1 = Len(o) BY <1>7, <2>1
    <3> QED BY <1>13, <3>1, <3>3, <3>4, Zenon DEF OriginPart
  <2>3. NamePart(x) = e
    <3>1. PICK q : q = Drop(x, Len(o) + 1) BY Zenon
    <3>2. Len(o) + 1 \in 0..Len(x) BY <1>6, <1>7
    <3>3. /\ q \in Seq(Byte) /\ Len(q) = Len(x) - (Len(o) + 1)
          /\ \A i \in 1..Len(x) - (Len(o) + 1) : q[i] = x[(Len(o) + 1) + i]
      BY <1>7, <3>1, <3>2, Dropped
    <3>4. Len(x) - (Len(o) + 1) = Len(e) BY <1>6, <1>7
    <3>5. ASSUME NEW i \in 1..Len(e) PROVE q[i] = e[i]
      <4>1. 1 + i \in 1..Len(c) /\ Len(o) + (1 + i) = (Len(o) + 1) + i BY <1>6, <1>7
      <4>2. x[(Len(o) + 1) + i] = c[1 + i] BY <1>7, <4>1
      <4> QED BY <1>6, <3>3, <3>4, <4>2
    <3>6. q = e BY <1>5, <3>3, <3>4, <3>5, SeqEqual
    <3> QED BY <1>13, <2>1, <3>1, <3>6, Zenon DEF NamePart
  <2>4. Decodes(o) /\ (Decodes(e) <=> Paired(n)) /\ DecodeString(e) = n
    BY <1>1, <1>2, <1>11, StringBack
  <2>5. ZeroesOf(x) # {} BY <1>9
  <2>6. Decodes(OriginPart(x)) /\ (Decodes(NamePart(x)) <=> Paired(n))
    BY <2>2, <2>3, <2>4, Zenon
  <2>7. IsDatabaseName(z) <=> Paired(n) BY <1>8, <2>5, <2>6, Zenon DEF IsDatabaseName
  <2>8. DecodeString(NamePart(Drop(z, 5))) = n BY <1>8, <2>3, <2>4, Zenon
  <2> QED BY <1>8, <1>15, <2>7, <2>8, Zenon DEF IsStoreName, IsRecord, NameTagged
<1>16. CASE ZeroesOf(EncodeString(Origin)) # {}
  <2>1. PICK j \in ZeroesOf(o) : TRUE BY <1>1, <1>16
  <2>2. j \in 1..Len(o) /\ o[j] = 0 BY <1>10, <2>1 DEF ZeroesOf
  <2>3. j \in ZeroesOf(x)
    <3>1. j \in 1..Len(o) + Len(c) BY <1>7, <2>2
    <3> QED BY <1>7, <2>2, <3>1 DEF ZeroesOf
  <2>4. f <= Len(o) BY <1>12, <1>13, <1>14, <2>2, <2>3, <1>7
  <2>5. PICK m : m = f - 1 BY Zenon
  <2>6. m \in Nat /\ m < Len(o) BY <1>7, <1>14, <2>4, <2>5
  <2>7. SubSeq(x, 1, m) = SubSeq(o, 1, m)
    <3>1. PICK q : q = SubSeq(x, 1, m) BY Zenon
    <3>2. PICK r : r = SubSeq(o, 1, m) BY Zenon
    <3>3. \A i \in 1..m : i \in 1..Len(o) BY <1>7, <2>6
    <3>4. \A i \in 1..m : x[i] = o[i] /\ o[i] \in Byte BY <1>5, <1>7, <3>3, ElementOfSeq
    <3>5. q \in Seq(Byte) /\ Len(q) = m /\ \A i \in 1..m : q[i] = x[i]
      <4>1. \A i \in 1..m : x[i] \in Byte BY <3>4
      <4>2. /\ q \in Seq(Byte) /\ Len(q) = IF 1 <= m THEN m - 1 + 1 ELSE 0
            /\ \A i \in 1..m - 1 + 1 : q[i] = x[1 + i - 1]
        BY <2>6, <3>1, <4>1, SubSeqProperties
      <4> QED BY <2>6, <4>2
    <3>6. r \in Seq(Byte) /\ Len(r) = m /\ \A i \in 1..m : r[i] = o[i]
      <4>1. \A i \in 1..m : o[i] \in Byte BY <3>4
      <4>2. /\ r \in Seq(Byte) /\ Len(r) = IF 1 <= m THEN m - 1 + 1 ELSE 0
            /\ \A i \in 1..m - 1 + 1 : r[i] = o[1 + i - 1]
        BY <2>6, <3>2, <4>1, SubSeqProperties
      <4> QED BY <2>6, <4>2
    <3>7. q = r BY <3>4, <3>5, <3>6, SeqEqual
    <3> QED BY <3>1, <3>2, <3>7, Zenon
  <2>8. ~Decodes(SubSeq(o, 1, m)) BY <1>1, <1>11, <2>6, StringCut, Zenon
  <2>9. ~Decodes(OriginPart(x)) BY <1>13, <2>5, <2>7, <2>8, Zenon DEF OriginPart
  <2>10. ~IsDatabaseName(z) BY <1>8, <2>9, Zenon DEF IsDatabaseName
  <2> QED BY <1>8, <1>16, <2>10, Zenon DEF IsStoreName, IsRecord, NameTagged
<1> QED BY <1>15, <1>16, Zenon

(***************************************************************************)
(* Values                                                                  *)
(***************************************************************************)
\* int.from_bytes of one byte.
LEMMA OneByteNumber ==
  ASSUME NEW d
  PROVE  FromBytes(<<d>>) = d + 256 * 0
<1> DEFINE s == <<d>>
           R(f) == [i \in 1..1 + 1 |-> IF i > 1 THEN 0 ELSE s[i] + 256 * f[i + 1]]
           v == CHOOSE f : f = R(f)
           w == [i \in 1..2 |-> IF i = 2 THEN 0 ELSE d + 256 * 0]
<1>1. Len(s) = 1 /\ s[1] = d OBVIOUS
<1>2. FromBytes(s) = v[1] BY <1>1 DEF FromBytes
<1>3. w = R(w)
  <2>1. w[1] = d + 256 * 0 /\ w[2] = 0 OBVIOUS
  <2>2. R(w)[1] = s[1] + 256 * w[2] /\ R(w)[2] = 0 OBVIOUS
  <2>3. 1..2 = {1, 2} /\ 1..1 + 1 = {1, 2} OBVIOUS
  <2>4. w = [i \in {1, 2} |-> w[i]] BY <2>3
  <2>5. R(w) = [i \in {1, 2} |-> R(w)[i]] BY <2>3
  <2> HIDE DEF w, R, s
  <2>6. R(w)[1] = w[1] /\ R(w)[2] = w[2] BY <1>1, <2>1, <2>2
  <2> QED BY <2>4, <2>5, <2>6
<1>4. v = R(v)
  <2> HIDE DEF w, R
  <2> QED BY <1>3
<1> HIDE DEF v
<1>5. v[2] = 0 /\ v[1] = s[1] + 256 * v[2] BY <1>4
<1> HIDE DEF s
<1>6. v[1] = d + 256 * 0 BY <1>1, <1>5
<1> QED BY <1>2, <1>6 DEF s

\* The id of a database is read back from the value it is stored as.
LEMMA DbIdRead ==
  ASSUME NEW d \in DbIds
  PROVE  FromBytes(<<d>>) = d
<1>1. d \in Nat BY Ids
<1>2. d + 256 * 0 = d BY <1>1
<1> QED BY <1>2, OneByteNumber, Zenon

\* The header of V8, and what follows it.
LEMMA Tagged ==
  ASSUME NEW y \in Seq(Byte), Len(y) >= 2, y[2] < 128
  PROVE  /\ y # <<>> /\ Head(y) = y[1]
         /\ VarintLen(Tail(y), 10) = 1 /\ VarintValue(Tail(y), 10) = y[2]
<1>1. y # <<>> /\ Len(y) \in Nat BY EmptySeq, LenProperties
<1>2. PICK t : t = Tail(y) BY Zenon
<1>3. t \in Seq(Byte) /\ Len(t) = Len(y) - 1 /\ t[1] = y[2]
  <2>1. t = Drop(y, 1) BY <1>1, <1>2, TailIsSubSeq DEF Drop
  <2>2. 1 \in 0..Len(y) /\ 1 \in 1..Len(y) - 1 /\ 1 + 1 = 2 BY <1>1
  <2>3. /\ t \in Seq(Byte) /\ Len(t) = Len(y) - 1
        /\ \A i \in 1..Len(y) - 1 : t[i] = y[1 + i]
    BY <2>1, <2>2, Dropped
  <2>4. t[1] = y[1 + 1] BY <2>2, <2>3
  <2> QED BY <2>2, <2>3, <2>4
<1>4. VarintLen(t, 10) = 1 /\ VarintValue(t, 10) = t[1]
  <2>1. 10 \in Nat /\ 10 >= 1 /\ Len(t) >= 1 /\ t[1] < 128 BY <1>1, <1>3
  <2> QED BY <1>3, <2>1, OneByte
<1>5. Head(y) = y[1] BY <1>1, HeadTailProperties
<1> QED BY <1>1, <1>2, <1>3, <1>4, <1>5, Zenon

\* Dropping twice.
LEMMA DropDrop ==
  ASSUME NEW s \in Seq(Byte), NEW m \in Nat, NEW n \in Nat, m + n <= Len(s)
  PROVE  Drop(Drop(s, m), n) = Drop(s, m + n)
<1>0. Len(s) \in Nat BY LenProperties
<1>1. PICK y : y = Drop(s, m) BY Zenon
<1>2. PICK p : p = Drop(y, n) BY Zenon
<1>3. PICK q : q = Drop(s, m + n) BY Zenon
<1>4. m \in 0..Len(s) /\ m + n \in 0..Len(s) BY <1>0
<1>5. y \in Seq(Byte) /\ Len(y) = Len(s) - m /\ \A i \in 1..Len(s) - m : y[i] = s[m + i]
  BY <1>1, <1>4, Dropped
<1>6. n \in 0..Len(y) BY <1>0, <1>5
<1>7. p \in Seq(Byte) /\ Len(p) = Len(y) - n /\ \A i \in 1..Len(y) - n : p[i] = y[n + i]
  BY <1>2, <1>5, <1>6, Dropped
<1>8. /\ q \in Seq(Byte) /\ Len(q) = Len(s) - (m + n)
      /\ \A i \in 1..Len(s) - (m + n) : q[i] = s[(m + n) + i]
  BY <1>3, <1>4, Dropped
<1>9. Len(p) = Len(q) /\ Len(p) = Len(s) - (m + n) BY <1>0, <1>5, <1>7, <1>8
<1>10. ASSUME NEW i \in 1..Len(p) PROVE p[i] = q[i]
  <2>1. /\ i \in 1..Len(y) - n /\ n + i \in 1..Len(s) - m /\ m + (n + i) = (m + n) + i
        /\ i \in 1..Len(s) - (m + n)
    BY <1>0, <1>5, <1>9
  <2>2. p[i] = y[n + i] /\ y[n + i] = s[m + (n + i)] BY <1>5, <1>7, <2>1
  <2> QED BY <1>8, <2>1, <2>2
<1>11. p = q BY <1>7, <1>8, <1>9, <1>10, SeqEqual
<1> QED BY <1>1, <1>2, <1>3, <1>11, Zenon

\* V8's header is read.
LEMMA V8Read ==
  ASSUME NEW y \in Seq(Byte), Len(y) >= 2, y[1] = HEADER_TAG, y[2] \in 13..16
  PROVE  ~V8HeaderBroken(y) /\ 1 + VarintLen(Tail(y), 10) = 2
<1>1. y[2] < 128 /\ ~(y[2] < 13) OBVIOUS
<1>2. /\ y # <<>> /\ Head(y) = HEADER_TAG
      /\ VarintLen(Tail(y), 10) = 1 /\ VarintValue(Tail(y), 10) = y[2]
  BY <1>1, Tagged
<1>3. 1 + 1 = 2 /\ 1 # 0 OBVIOUS
<1>4. ~V8HeaderBroken(y) BY <1>1, <1>2, <1>3, Zenon DEF V8HeaderBroken
<1> QED BY <1>2, <1>3, <1>4

\* What follows V8's header alone, and what follows Blink's and V8's.
LEMMA Bare ==
  ASSUME NEW w \in Seq(Byte), Len(w) >= 2, w[1] = HEADER_TAG, w[2] \in 13..16
  PROVE  Deserialize(w) = ReadValue(Drop(w, 2))
<1>1. w[2] < 128 /\ w[2] < 17 OBVIOUS
<1>2. /\ w # <<>> /\ Head(w) = HEADER_TAG
      /\ VarintLen(Tail(w), 10) = 1 /\ VarintValue(Tail(w), 10) = w[2]
  BY <1>1, Tagged
<1>3. ~BlinkHeaderBroken(w)
  <2>1. 1 # 0 OBVIOUS
  <2> QED BY <1>2, <2>1, Zenon DEF BlinkHeaderBroken
<1>4. AfterBlinkHeader(w) = w BY <1>1, <1>2, Zenon DEF AfterBlinkHeader
<1>5. ~V8HeaderBroken(w) /\ 1 + VarintLen(Tail(w), 10) = 2 BY V8Read
<1> QED BY <1>3, <1>4, <1>5, Zenon DEF Deserialize

LEMMA Wrapped ==
  ASSUME NEW w \in Seq(Byte), Len(w) >= 4, w[1] = HEADER_TAG, w[2] \in 17..20,
         w[3] = HEADER_TAG, w[4] \in 13..16
  PROVE  Deserialize(w) = ReadValue(Drop(w, 4))
<1>0. Len(w) \in Nat BY LenProperties
<1>1. w[2] < 128 /\ ~(w[2] < 17) /\ Len(w) >= 2 BY <1>0
<1>2. /\ w # <<>> /\ Head(w) = HEADER_TAG
      /\ VarintLen(Tail(w), 10) = 1 /\ VarintValue(Tail(w), 10) = w[2]
  BY <1>1, Tagged
<1>3. ~BlinkHeaderBroken(w)
  <2>1. 1 # 0 OBVIOUS
  <2> QED BY <1>2, <2>1, Zenon DEF BlinkHeaderBroken
<1>4. PICK y : y = Drop(w, 2) BY Zenon
<1>5. AfterBlinkHeader(w) = y
  <2>1. 1 + 1 = 2 OBVIOUS
  <2> QED BY <1>1, <1>2, <1>4, <2>1, Zenon DEF AfterBlinkHeader
<1>6. y \in Seq(Byte) /\ Len(y) = Len(w) - 2 /\ \A i \in 1..Len(w) - 2 : y[i] = w[2 + i]
  <2>1. 2 \in 0..Len(w) BY <1>0
  <2> QED BY <1>4, <2>1, Dropped
<1>7. Len(y) >= 2 /\ y[1] = w[3] /\ y[2] = w[4]
  <2>1. 1 \in 1..Len(w) - 2 /\ 2 \in 1..Len(w) - 2 /\ 2 + 1 = 3 /\ 2 + 2 = 4 BY <1>0
  <2>2. y[1] = w[2 + 1] /\ y[2] = w[2 + 2] BY <1>6, <2>1
  <2> QED BY <1>0, <1>6, <2>1, <2>2
<1>8. ~V8HeaderBroken(y) /\ 1 + VarintLen(Tail(y), 10) = 2 BY <1>6, <1>7, V8Read
<1>9. Drop(y, 2) = Drop(w, 4)
  <2>1. 2 \in Nat /\ 2 + 2 = 4 /\ 2 + 2 <= Len(w) BY <1>0
  <2>2. Drop(Drop(w, 2), 2) = Drop(w, 2 + 2) BY <2>1, DropDrop
  <2> QED BY <1>4, <2>1, <2>2, Zenon
<1> QED BY <1>3, <1>5, <1>8, <1>9, Zenon DEF Deserialize

\* The bytes of a prefix.
LEMMA PrefixBytes ==
  ASSUME NEW f \in Seq(Byte), NEW b \in Seq(Byte), IsPrefix(f, b)
  PROVE  Len(f) <= Len(b) /\ \A i \in 1..Len(f) : b[i] = f[i]
<1>1. Len(f) \in Nat /\ Len(b) \in Nat BY LenProperties
<1>2. Len(f) <= Len(b) /\ SubSeq(f, 1, Len(f)) = SubSeq(b, 1, Len(f)) BY DEF IsPrefix
<1>3. PICK p : p = SubSeq(b, 1, Len(f)) BY Zenon
<1>4. SubSeq(f, 1, Len(f)) = f BY SubSeqFull
<1>5. p = f BY <1>2, <1>3, <1>4, Zenon
<1>6. \A i \in 1..Len(f) - 1 + 1 : p[i] = b[1 + i - 1]
  <2>1. \A i \in 1..Len(f) : i \in 1..Len(b) BY <1>1, <1>2
  <2>2. \A i \in 1..Len(f) : b[i] \in Byte BY <2>1, ElementOfSeq
  <2> QED BY <1>1, <1>3, <2>2, SubSeqProperties
<1>7. ASSUME NEW i \in 1..Len(f) PROVE p[i] = b[i]
  <2>1. i \in 1..Len(f) - 1 + 1 /\ 1 + i - 1 = i BY <1>1
  <2> QED BY <1>6, <2>1
<1> QED BY <1>2, <1>5, <1>7

\* A header is not taken for a version, and a short version is passed over.
LEMMA NoVersion ==
  ASSUME NEW raw \in Seq(Byte), Len(raw) >= 2, raw[1] = HEADER_TAG, raw[2] \in 13..20
  PROVE  DecodeValue(raw) = Deserialize(raw)
<1>1. raw[1] >= 128 /\ raw[2] < 128 BY DEF HEADER_TAG
<1>2. 10 \in Nat /\ 10 >= 2 OBVIOUS
<1>3. VarintLen(raw, 10) = 2 /\ VarintValue(raw, 10) = (raw[1] % 128) + 128 * raw[2]
  BY <1>1, <1>2, TwoBytes
<1>4. PICK v : v = (raw[1] % 128) + 128 * raw[2] BY Zenon
<1>5. ~(VarintValue(raw, 10) = 255 \/ VarintValue(raw, 10) < 16)
  <2>1. v \in Nat /\ v >= 256 BY <1>4 DEF HEADER_TAG
  <2>2. ~(v = 255 \/ v < 16) BY <2>1
  <2> QED BY <1>3, <1>4, <2>2, Zenon
<1>6. 2 # 0 OBVIOUS
<1> QED BY <1>3, <1>5, <1>6, Zenon DEF DecodeValue

LEMMA Version1 ==
  ASSUME NEW raw \in Seq(Byte), Len(raw) >= 1, raw[1] < 16
  PROVE  DecodeValue(raw) = Deserialize(Drop(raw, 1))
<1>0. raw[1] \in Byte
  <2>1. 1 \in 1..Len(raw) BY LenProperties
  <2> QED BY <2>1, ElementOfSeq
<1>1. raw[1] < 128 BY <1>0, ByteRange
<1>2. 10 \in Nat /\ 10 >= 1 /\ 1 # 0 OBVIOUS
<1>3. VarintLen(raw, 10) = 1 /\ VarintValue(raw, 10) = raw[1] BY <1>1, <1>2, OneByte
<1>4. VarintValue(raw, 10) < 16 BY <1>3
<1> QED BY <1>2, <1>3, <1>4, Zenon DEF DecodeValue

\* A frame without a header of Blink's, and one without a version.
LEMMA FrameOfThree ==
  ASSUME NEW m \in Byte, NEW t \in Byte, NEW v \in Byte, NEW f,
         f = <<m>> \o <<>> \o <<t, v>>
  PROVE  f \in Seq(Byte) /\ Len(f) = 3 /\ f[1] = m /\ f[2] = t /\ f[3] = v
OBVIOUS

LEMMA FrameOfFour ==
  ASSUME NEW t \in Byte, NEW c \in Byte, NEW v \in Byte, NEW f,
         f = <<>> \o <<t, c>> \o <<t, v>>
  PROVE  f \in Seq(Byte) /\ Len(f) = 4 /\ f[1] = t /\ f[2] = c /\ f[3] = t /\ f[4] = v
OBVIOUS

\* What a browser stored is decoded, behind no version or a short one.
LEMMA ValueRead ==
  ASSUME NEW p \in Payloads, p.value # "none", Short(p.bytes)
  PROVE  p.bytes \in Values /\ Decoded[p.bytes] = Outcome("value", p.value)
<1>1. PICK raw : raw = p.bytes BY Zenon
<1>2. raw \in Values /\ raw \in Seq(Byte) /\ Framed(p)
  BY <1>1, IndexedDbConstants, Zenon
<1>3. Decoded[raw] = DecodeValue(raw) BY <1>2 DEF Decoded
<1>4. PICK version \in {<<>>} \cup {<<n>> : n \in 0..127}, v8 \in 13..16,
           blink \in {<<>>} \cup {<<HEADER_TAG, n>> : n \in 17..20} :
        LET front == version \o blink \o <<HEADER_TAG, v8>>
        IN  /\ IsPrefix(front, raw)
            /\ ReadValue(Drop(raw, Len(front))) = Outcome("value", p.value)
  BY <1>1, <1>2, Zenon DEF Framed
<1>5. PICK f : f = version \o blink \o <<HEADER_TAG, v8>> BY Zenon
<1>6. IsPrefix(f, raw) /\ ReadValue(Drop(raw, Len(f))) = Outcome("value", p.value)
  BY <1>4, <1>5, Zenon
<1>7. Len(raw) \in Nat BY <1>2, LenProperties
<1>8. ASSUME f \in Seq(Byte) PROVE Len(f) <= Len(raw) /\ \A i \in 1..Len(f) : raw[i] = f[i]
  BY <1>2, <1>6, <1>8, PrefixBytes
<1>9. Len(raw) >= 1 => Head(raw) = raw[1] BY <1>2, HeadTailProperties, EmptySeq
<1>10. Short(raw) BY <1>1, Zenon
<1>f. /\ HEADER_TAG \in Byte /\ v8 \in Byte
      /\ (\A m \in 0..127 : m \in Byte) /\ (\A c \in 17..20 : c \in Byte)
  BY DEF HEADER_TAG, Byte
<1>11. CASE version = <<>> /\ blink = <<>>
  <2>1. f \in Seq(Byte) /\ Len(f) = 2 /\ f[1] = HEADER_TAG /\ f[2] = v8
    BY <1>f, <1>5, <1>11
  <2>2. Len(raw) >= 2 /\ raw[1] = HEADER_TAG /\ raw[2] = v8
    <3>1. 1 \in 1..Len(f) /\ 2 \in 1..Len(f) BY <2>1
    <3> QED BY <1>8, <2>1, <3>1
  <2>3. DecodeValue(raw) = Deserialize(raw)
    <3>1. raw[2] \in 13..20 BY <2>2
    <3> QED BY <1>2, <2>2, <3>1, NoVersion
  <2>4. Deserialize(raw) = ReadValue(Drop(raw, 2)) BY <1>2, <2>2, Bare
  <2> QED BY <1>1, <1>2, <1>3, <1>6, <2>1, <2>3, <2>4, Zenon
<1>12. ASSUME NEW c \in 17..20, version = <<>>, blink = <<HEADER_TAG, c>>
       PROVE  Decoded[raw] = Outcome("value", p.value)
  <2>1. /\ f \in Seq(Byte) /\ Len(f) = 4
        /\ f[1] = HEADER_TAG /\ f[2] = c /\ f[3] = HEADER_TAG /\ f[4] = v8
    <3>1. c \in Byte /\ HEADER_TAG \in Byte /\ v8 \in Byte BY <1>f
    <3>2. f = <<>> \o <<HEADER_TAG, c>> \o <<HEADER_TAG, v8>> BY <1>5, <1>12, Zenon
    <3> QED BY <3>1, <3>2, FrameOfFour
  <2>2. /\ Len(raw) >= 4 /\ raw[1] = HEADER_TAG /\ raw[2] = c
        /\ raw[3] = HEADER_TAG /\ raw[4] = v8
    <3>1. \A i \in {1, 2, 3, 4} : i \in 1..Len(f) BY <2>1
    <3> QED BY <1>8, <2>1, <3>1
  <2>3. DecodeValue(raw) = Deserialize(raw)
    <3>1. raw[2] \in 13..20 /\ Len(raw) >= 2 BY <1>7, <2>2
    <3> QED BY <1>2, <2>2, <3>1, NoVersion
  <2>4. Deserialize(raw) = ReadValue(Drop(raw, 4)) BY <1>2, <2>2, Wrapped
  <2> QED BY <1>1, <1>2, <1>3, <1>6, <2>1, <2>3, <2>4, Zenon
<1>13. ASSUME NEW m \in 0..127, version = <<m>>, blink = <<>>
       PROVE  Decoded[raw] = Outcome("value", p.value)
  <2>1. f \in Seq(Byte) /\ Len(f) = 3 /\ f[1] = m /\ f[2] = HEADER_TAG /\ f[3] = v8
    <3>1. m \in Byte /\ HEADER_TAG \in Byte /\ v8 \in Byte BY <1>f
    <3>2. f = <<m>> \o <<>> \o <<HEADER_TAG, v8>> BY <1>5, <1>13, Zenon
    <3> QED BY <3>1, <3>2, FrameOfThree
  <2>2. Len(raw) >= 3 /\ raw[1] = m /\ raw[2] = HEADER_TAG /\ raw[3] = v8
    <3>1. \A i \in {1, 2, 3} : i \in 1..Len(f) BY <2>1
    <3> QED BY <1>8, <2>1, <3>1
  <2>3. DecodeValue(raw) = Deserialize(Drop(raw, 1))
    <3>a. Len(raw) >= 1 BY <1>7, <2>2
    <3>b. m < 16 \/ m = HEADER_TAG BY <1>9, <1>10, <2>2, <3>a DEF Short
    <3>1. raw[1] < 16 /\ Len(raw) >= 1 BY <2>2, <3>a, <3>b DEF HEADER_TAG
    <3> QED BY <1>2, <3>1, Version1
  <2>4. PICK w : w = Drop(raw, 1) BY Zenon
  <2>5. w \in Seq(Byte) /\ Len(w) >= 2 /\ w[1] = HEADER_TAG /\ w[2] = v8
    <3>1. 1 \in 0..Len(raw) BY <1>7, <2>2
    <3>2. /\ w \in Seq(Byte) /\ Len(w) = Len(raw) - 1
          /\ \A i \in 1..Len(raw) - 1 : w[i] = raw[1 + i]
      BY <1>2, <2>4, <3>1, Dropped
    <3>3. \A i \in {1, 2} : i \in 1..Len(raw) - 1 BY <1>7, <2>2
    <3>4. w[1] = raw[1 + 1] /\ w[2] = raw[1 + 2] BY <3>2, <3>3
    <3> QED BY <1>7, <2>2, <3>2, <3>4
  <2>6. Deserialize(w) = ReadValue(Drop(w, 2)) BY <2>5, Bare
  <2>7. Drop(w, 2) = Drop(raw, 3)
    <3>1. 1 \in Nat /\ 2 \in Nat /\ 1 + 2 <= Len(raw) /\ 1 + 2 = 3 BY <1>7, <2>2
    <3>2. Drop(Drop(raw, 1), 2) = Drop(raw, 1 + 2) BY <1>2, <3>1, DropDrop
    <3> QED BY <2>4, <3>1, <3>2, Zenon
  <2> QED BY <1>1, <1>2, <1>3, <1>6, <2>1, <2>3, <2>4, <2>6, <2>7, Zenon
<1>14. ASSUME NEW m \in 0..127, NEW c \in 17..20, version = <<m>>, blink = <<HEADER_TAG, c>>
       PROVE  Decoded[raw] = Outcome("value", p.value)
  <2>1. /\ f \in Seq(Byte) /\ Len(f) = 5 /\ f[1] = m
        /\ f[2] = HEADER_TAG /\ f[3] = c /\ f[4] = HEADER_TAG /\ f[5] = v8
    BY <1>f, <1>5, <1>14
  <2>2. /\ Len(raw) >= 5 /\ raw[1] = m /\ raw[2] = HEADER_TAG /\ raw[3] = c
        /\ raw[4] = HEADER_TAG /\ raw[5] = v8
    <3>1. \A i \in {1, 2, 3, 4, 5} : i \in 1..Len(f) BY <2>1
    <3> QED BY <1>8, <2>1, <3>1
  <2>3. DecodeValue(raw) = Deserialize(Drop(raw, 1))
    <3>a. Len(raw) >= 1 BY <1>7, <2>2
    <3>b. m < 16 \/ m = HEADER_TAG BY <1>9, <1>10, <2>2, <3>a DEF Short
    <3>1. raw[1] < 16 /\ Len(raw) >= 1 BY <2>2, <3>a, <3>b DEF HEADER_TAG
    <3> QED BY <1>2, <3>1, Version1
  <2>4. PICK w : w = Drop(raw, 1) BY Zenon
  <2>5. /\ w \in Seq(Byte) /\ Len(w) >= 4 /\ w[1] = HEADER_TAG /\ w[2] = c
        /\ w[3] = HEADER_TAG /\ w[4] = v8
    <3>1. 1 \in 0..Len(raw) BY <1>7, <2>2
    <3>2. /\ w \in Seq(Byte) /\ Len(w) = Len(raw) - 1
          /\ \A i \in 1..Len(raw) - 1 : w[i] = raw[1 + i]
      BY <1>2, <2>4, <3>1, Dropped
    <3>3. \A i \in {1, 2, 3, 4} : i \in 1..Len(raw) - 1 BY <1>7, <2>2
    <3>4. w[1] = raw[1 + 1] /\ w[2] = raw[1 + 2] /\ w[3] = raw[1 + 3] /\ w[4] = raw[1 + 4]
      BY <3>2, <3>3
    <3> QED BY <1>7, <2>2, <3>2, <3>4
  <2>6. Deserialize(w) = ReadValue(Drop(w, 4)) BY <2>5, Wrapped
  <2>7. Drop(w, 4) = Drop(raw, 5)
    <3>1. 1 \in Nat /\ 4 \in Nat /\ 1 + 4 <= Len(raw) /\ 1 + 4 = 5 BY <1>7, <2>2
    <3>2. Drop(Drop(raw, 1), 4) = Drop(raw, 1 + 4) BY <1>2, <3>1, DropDrop
    <3> QED BY <2>4, <3>1, <3>2, Zenon
  <2> QED BY <1>1, <1>2, <1>3, <1>6, <2>1, <2>3, <2>4, <2>6, <2>7, Zenon
<1> QED BY <1>1, <1>2, <1>11, <1>12, <1>13, <1>14, Zenon

(***************************************************************************)
(* User keys by their numbers                                              *)
(***************************************************************************)
\* User keys differ, and those of the browser have numbers.
LEMMA OneNumber == \A i, j \in Keys : UserKey[i] = UserKey[j] => i = j
<1>1. \A i, j \in Keys : i < j => UserKey[i] # UserKey[j] BY IndexedDbConstants, Zenon
<1>2. \A i, j \in Keys : i < j \/ j < i \/ i = j BY DbConstants
<1> QED BY <1>1, <1>2, Zenon

LEMMA Numbered ==
  ASSUME NEW z \in StoredNames \cup StoredStores \cup StoredRecords
  PROVE  KeyNo(z) \in Keys /\ UserKey[KeyNo(z)] = z
<1>1. \E k \in Keys : UserKey[k] = z
  <2>1. StoredNames \cup StoredStores \cup StoredRecords \subseteq {UserKey[k] : k \in Keys}
    BY IndexedDbConstants, Zenon
  <2> QED BY <2>1, Zenon
<1> QED BY <1>1, Zenon DEF KeyNo

NoZero == ZeroesOf(EncodeString(Origin)) = {}

\* The user keys that name databases and stores and hold records, by number.
LEMMA NameNumber ==
  ASSUME NEW n \in DbNames, NEW k, k = NameNo[n]
  PROVE  /\ k \in Keys /\ UserKey[k] = NameKey(n) /\ NameTagged(UserKey[k]) /\ IsGlobal(UserKey[k])
         /\ k \notin StoreKeys /\ k \notin RecordKeys
         /\ NoZero /\ Paired(n) => k \in NameKeys /\ NameAt[k] = n
         /\ ~NoZero \/ ~Paired(n) => k \notin NameKeys
         /\ NoZero => DecodeString(NamePart(Drop(UserKey[k], 5))) = n
<1>1. PICK z : z = NameKey(n) BY Zenon
<1>2. z \in StoredNames BY <1>1, Zenon DEF StoredNames
<1>3. k = KeyNo(z) BY <1>1, Zenon DEF NameNo
<1>4. k \in Keys /\ UserKey[k] = z BY <1>2, <1>3, Numbered, Zenon
<1>5. /\ NameTagged(z) /\ IsGlobal(z) /\ ~IsStoreName(z) /\ ~IsRecord(z)
      /\ NoZero => DecodeString(NamePart(Drop(z, 5))) = n /\ (IsDatabaseName(z) <=> Paired(n))
      /\ ~NoZero => ~IsDatabaseName(z)
  BY <1>1, NameKeyRead, Zenon DEF NoZero
<1>6. k \notin StoreKeys /\ k \notin RecordKeys BY <1>4, <1>5, Zenon DEF StoreKeys, RecordKeys
<1>7. ASSUME NoZero, Paired(n) PROVE k \in NameKeys /\ NameAt[k] = n
  <2>1. k \in NameKeys BY <1>4, <1>5, <1>7, Zenon DEF NameKeys
  <2>2. NameAt[k] = DecodeString(NamePart(Drop(UserKey[k], 5))) BY <2>1, Zenon DEF NameAt
  <2> QED BY <1>4, <1>5, <1>7, <2>1, <2>2, Zenon
<1>8. ~NoZero \/ ~Paired(n) => k \notin NameKeys BY <1>4, <1>5, Zenon DEF NameKeys
<1> QED BY <1>1, <1>4, <1>5, <1>6, <1>7, <1>8, Zenon

LEMMA StoreNumber ==
  ASSUME NEW d \in DbIds, NEW s \in StoreIds, NEW k, k = StoreNo[<<d, s>>]
  PROVE  /\ k \in Keys /\ UserKey[k] = StoreKey(d, s) /\ ~IsGlobal(UserKey[k])
         /\ k \in StoreKeys /\ StoreAt[k] = <<d, s>> /\ k \notin NameKeys /\ k \notin RecordKeys
<1>1. PICK z : z = StoreKey(d, s) BY Zenon
<1>2. z \in StoredStores BY <1>1 DEF StoredStores
<1>3. k = KeyNo(z) BY <1>1 DEF StoreNo
<1>4. k \in Keys /\ UserKey[k] = z BY <1>2, <1>3, Numbered, Zenon
<1>5. ~IsGlobal(z) /\ IsStoreName(z) /\ ~IsRecord(z) /\ DbIdOf(z) = d /\ IdAt(Tail(Body(z))) = s
  BY <1>1, StoreKeyRead, Zenon
<1>6. k \in StoreKeys BY <1>4, <1>5, Zenon DEF StoreKeys
<1>7. StoreAt[k] = <<DbIdOf(UserKey[k]), IdAt(Tail(Body(UserKey[k])))>>
  BY <1>6, Zenon DEF StoreAt
<1>8. StoreAt[k] = <<d, s>> BY <1>4, <1>5, <1>7, Zenon
<1>9. k \notin NameKeys BY <1>4, <1>5, Zenon DEF NameKeys, IsDatabaseName
<1>10. k \notin RecordKeys BY <1>4, <1>5, Zenon DEF RecordKeys
<1> QED BY <1>1, <1>4, <1>5, <1>6, <1>8, <1>9, <1>10, Zenon

LEMMA RecordNumber ==
  ASSUME NEW d \in DbIds, NEW s \in StoreIds, NEW x \in IdbKeys
  PROVE  LET k == RecordNo[<<d, s, x>>]
         IN  /\ k \in Keys /\ UserKey[k] = RecordKey(d, s, x) /\ ~IsGlobal(UserKey[k])
             /\ k \in RecordKeys /\ RecordAt[k] = [db |-> d, store |-> s, key |-> x]
             /\ k \notin NameKeys /\ k \notin StoreKeys
<1>0. PICK k : k = RecordNo[<<d, s, x>>] BY Zenon
<1>1. PICK z : z = RecordKey(d, s, x) BY Zenon
<1>2. z \in StoredRecords BY <1>1 DEF StoredRecords
<1>3. k = KeyNo(z) BY <1>0, <1>1 DEF RecordNo
<1>4. k \in Keys /\ UserKey[k] = z BY <1>2, <1>3, Numbered, Zenon
<1>5. /\ ~IsGlobal(z) /\ ~IsStoreName(z) /\ IsRecord(z) /\ DbIdOf(z) = d
      /\ IdAt(Body(z)) = s /\ Tail(AfterId(Body(z))) = x
  BY <1>1, RecordKeyRead, Zenon
<1>6. k \in RecordKeys BY <1>4, <1>5, Zenon DEF RecordKeys
<1>7. RecordAt[k] = [db |-> DbIdOf(UserKey[k]), store |-> IdAt(Body(UserKey[k])),
                     key |-> Tail(AfterId(Body(UserKey[k])))]
  BY <1>6, Zenon DEF RecordAt
<1>8. RecordAt[k] = [db |-> d, store |-> s, key |-> x] BY <1>4, <1>5, <1>7, Zenon
<1>9. k \notin NameKeys BY <1>4, <1>5, Zenon DEF NameKeys, IsDatabaseName
<1>10. k \notin StoreKeys BY <1>4, <1>5, Zenon DEF StoreKeys
<1> QED BY <1>0, <1>1, <1>4, <1>5, <1>6, <1>8, <1>9, <1>10, Zenon

NameNos == {NameNo[n] : n \in DbNames}

\* A key of the schema is nothing else.
LEMMA SchemaNumber ==
  ASSUME NEW k \in Keys, UserKey[k] \in SchemaKeys
  PROVE  k \notin NameKeys /\ k \notin StoreKeys /\ k \notin RecordKeys /\ k \notin NameNos
<1>1. PICK t \in SchemaTag : UserKey[k] = SchemaKey(t) BY DEF SchemaKeys
<1>2. PICK z : z = UserKey[k] BY Zenon
<1>3. z = SchemaKey(t) BY <1>1, <1>2, Zenon
<1>4. ~NameTagged(z) /\ ~IsStoreName(z) /\ ~IsRecord(z) /\ ~IsDatabaseName(z)
  BY <1>3, SchemaKeyRead
<1>5. \A n \in DbNames : k # NameNo[n] BY <1>2, <1>4, NameNumber, Zenon
<1> QED BY <1>2, <1>4, <1>5, Zenon DEF NameKeys, StoreKeys, RecordKeys, NameNos

\* There are no other user keys.
LEMMA Kinds ==
  ASSUME NEW k \in Keys
  PROVE  \/ \E n \in DbNames : k = NameNo[n]
         \/ \E d \in DbIds, s \in StoreIds : k = StoreNo[<<d, s>>]
         \/ \E d \in DbIds, s \in StoreIds, x \in IdbKeys : k = RecordNo[<<d, s, x>>]
         \/ UserKey[k] \in SchemaKeys
<1>1. UserKey[k] \in StoredNames \cup StoredStores \cup StoredRecords \cup SchemaKeys
  BY IndexedDbConstants, Zenon
<1>2. ASSUME NEW n \in DbNames, UserKey[k] = NameKey(n) PROVE k = NameNo[n]
  BY <1>2, NameNumber, OneNumber, Zenon
<1>3. ASSUME NEW d \in DbIds, NEW s \in StoreIds, UserKey[k] = StoreKey(d, s)
      PROVE  k = StoreNo[<<d, s>>]
  <2>1. PICK j : j = StoreNo[<<d, s>>] BY Zenon
  <2>2. j \in Keys /\ UserKey[j] = StoreKey(d, s) BY <2>1, StoreNumber
  <2> QED BY <1>3, <2>1, <2>2, OneNumber, Zenon
<1>4. ASSUME NEW d \in DbIds, NEW s \in StoreIds, NEW x \in IdbKeys,
             UserKey[k] = RecordKey(d, s, x)
      PROVE  k = RecordNo[<<d, s, x>>]
  <2>1. PICK j : j = RecordNo[<<d, s, x>>] BY Zenon
  <2>2. j \in Keys /\ UserKey[j] = RecordKey(d, s, x) BY <2>1, RecordNumber, Zenon
  <2> QED BY <1>4, <2>1, <2>2, OneNumber, Zenon
<1> QED BY <1>1, <1>2, <1>3, <1>4 DEF StoredNames, StoredStores, StoredRecords

\* What the reader takes for the name of a database is one, and so on.
LEMMA NameKeyIs ==
  ASSUME NEW k \in NameKeys
  PROVE  NoZero /\ \E n \in DbNames : k = NameNo[n] /\ Paired(n)
<1>1. k \in Keys BY DEF NameKeys
<1>2. \A d \in DbIds, s \in StoreIds : k # StoreNo[<<d, s>>] BY StoreNumber
<1>3. ASSUME NEW d \in DbIds, NEW s \in StoreIds, NEW x \in IdbKeys
      PROVE  k # RecordNo[<<d, s, x>>]
  <2>1. RecordNo[<<d, s, x>>] \notin NameKeys BY RecordNumber, Zenon
  <2> QED BY <2>1
<1>4. UserKey[k] \notin SchemaKeys BY <1>1, SchemaNumber
<1>5. PICK n \in DbNames : k = NameNo[n] BY <1>1, <1>2, <1>3, <1>4, Kinds, Zenon
<1> QED BY <1>5, NameNumber, Zenon

LEMMA StoreKeyIs ==
  ASSUME NEW k \in StoreKeys
  PROVE  \E d \in DbIds, s \in StoreIds : k = StoreNo[<<d, s>>]
<1>1. k \in Keys BY DEF StoreKeys
<1>2. \A n \in DbNames : k # NameNo[n] BY NameNumber, Zenon
<1>3. ASSUME NEW d \in DbIds, NEW s \in StoreIds, NEW x \in IdbKeys
      PROVE  k # RecordNo[<<d, s, x>>]
  <2>1. RecordNo[<<d, s, x>>] \notin StoreKeys BY RecordNumber, Zenon
  <2> QED BY <2>1
<1>4. UserKey[k] \notin SchemaKeys BY <1>1, SchemaNumber
<1> QED BY <1>1, <1>2, <1>3, <1>4, Kinds, Zenon

LEMMA RecordKeyIs ==
  ASSUME NEW k \in RecordKeys
  PROVE  \E d \in DbIds, s \in StoreIds, x \in IdbKeys : k = RecordNo[<<d, s, x>>]
<1>1. k \in Keys BY DEF RecordKeys
<1>2. \A n \in DbNames : k # NameNo[n] BY NameNumber, Zenon
<1>3. \A d \in DbIds, s \in StoreIds : k # StoreNo[<<d, s>>] BY StoreNumber
<1>4. UserKey[k] \notin SchemaKeys BY <1>1, SchemaNumber
<1> QED BY <1>1, <1>2, <1>3, <1>4, Kinds, Zenon

\* Databases of one name are one database.
LEMMA OneName ==
  ASSUME NoZero, NEW n \in DbNames, NEW m \in DbNames, NameNo[n] = NameNo[m]
  PROVE  n = m
<1>1. PICK k : k = NameNo[n] BY Zenon
<1>2. DecodeString(NamePart(Drop(UserKey[k], 5))) = n BY <1>1, NameNumber, Zenon
<1>3. DecodeString(NamePart(Drop(UserKey[k], 5))) = m BY <1>1, NameNumber, Zenon
<1> QED BY <1>2, <1>3, Zenon

\* No user key is of two kinds.
LEMMA Apart ==
  /\ NameNos \subseteq Keys /\ NameKeys \subseteq NameNos /\ StoreKeys \subseteq Keys
  /\ RecordKeys \subseteq Keys
  /\ \A k \in NameNos : k \notin StoreKeys /\ k \notin RecordKeys
  /\ \A k \in StoreKeys : k \notin NameKeys /\ k \notin RecordKeys
<1>1. \A k \in NameNos : k \in Keys /\ k \notin StoreKeys /\ k \notin RecordKeys
  BY NameNumber, Zenon DEF NameNos
<1>2. NameKeys \subseteq NameNos BY NameKeyIs, Zenon DEF NameNos
<1>3. StoreKeys \subseteq Keys /\ RecordKeys \subseteq Keys BY DEF StoreKeys, RecordKeys
<1>4. ASSUME NEW k \in StoreKeys PROVE k \notin NameKeys /\ k \notin RecordKeys
  <2>1. PICK d \in DbIds, s \in StoreIds : k = StoreNo[<<d, s>>] BY StoreKeyIs
  <2> QED BY <2>1, StoreNumber
<1> QED BY <1>1, <1>2, <1>3, <1>4

LEMMA KeysOfKinds ==
  /\ \A n \in DbNames : NameNo[n] \in NameNos
  /\ \A d \in DbIds, s \in StoreIds : StoreNo[<<d, s>>] \in StoreKeys
  /\ \A d \in DbIds, s \in StoreIds, x \in IdbKeys : RecordNo[<<d, s, x>>] \in RecordKeys
<1>1. \A n \in DbNames : NameNo[n] \in NameNos BY DEF NameNos
<1>2. \A d \in DbIds, s \in StoreIds : StoreNo[<<d, s>>] \in StoreKeys BY StoreNumber
<1>3. \A d \in DbIds, s \in StoreIds, x \in IdbKeys : RecordNo[<<d, s, x>>] \in RecordKeys
  BY RecordNumber, Zenon
<1> QED BY <1>1, <1>2, <1>3

\* What the browser stores.
LEMMA StoredValues ==
  /\ \A d \in DbIds : <<d>> \in Values
  /\ \A m \in StoreNames : EncodeString(m) \in Values
  /\ \A p \in Payloads : p.bytes \in Values
  /\ <<>> \in Values
<1>1. {<<d>> : d \in DbIds} \cup {EncodeString(n) : n \in StoreNames} \subseteq Values
  BY IndexedDbConstants, Zenon
<1>2. (\A p \in Payloads : p.bytes \in Values) /\ <<>> \in Values
  BY IndexedDbConstants, Zenon
<1> QED BY <1>1, <1>2

LEMMA OpTypes ==
  ASSUME NEW k \in Keys
  PROVE  /\ \A v \in Values : Put(k, v) \in Op /\ Put(k, v).key = k /\ Put(k, v).value = v
         /\ Delete(k) \in Op /\ ~Delete(k).live
BY StoredValues DEF Put, Delete, Op

(***************************************************************************)
(* What the browser stores                                                 *)
(***************************************************************************)
IsNamed(e) == e.live /\ e.key \in NameNos
IsStored(e) == e.live /\ e.key \in StoreKeys
NamesStore(e) == \E m \in StoreNames : e.value = EncodeString(m)

\* the entries that name a store to the reader
IsNamer(e) == IsStored(e) /\ Decodes(e.value)

\* The id of a database is stored once, and the name of a store is a string.
IdsOnce ==
  /\ \A e \in Written : IsNamed(e) => \E d \in DbIds : e.value = <<d>>
  /\ \A e, o \in Written : IsNamed(e) /\ IsNamed(o) /\ e.value = o.value => e = o
  /\ \A e \in Written : IsStored(e) => NamesStore(e)

\* A batch gives out a new id, or none.
Safe(batch) ==
  /\ batch \in Seq(Op)
  /\ \/ \E o \in Op, d \in DbIds \ UsedDbs : batch = <<o>> /\ IsNamed(o) /\ o.value = <<d>>
     \/ \A i \in DOMAIN batch : ~IsNamed(batch[i]) /\ (IsStored(batch[i]) => NamesStore(batch[i]))

\* A batch of one operation that gives out no id.
LEMMA SafeOne ==
  ASSUME NEW o \in Op, ~IsNamed(o), IsStored(o) => NamesStore(o)
  PROVE  Safe(<<o>>)
<1>1. <<o>> \in Seq(Op) /\ \A i \in DOMAIN <<o>> : <<o>>[i] = o OBVIOUS
<1> QED BY <1>1 DEF Safe

\* What is deleted was written.
LEMMA DeleteSafe ==
  ASSUME BrowserInv, NEW S, \A o \in S : \E e \in Written : o = Delete(e.key)
  PROVE  Safe(SetToSeq(S))
<1> DEFINE f == [e \in Written |-> Delete(e.key)]
<1>1. f = [e \in Written |-> f[e]] OBVIOUS
<1>2. S \subseteq {f[e] : e \in Written} OBVIOUS
<1>3. IsFiniteSet(S)
  <2> HIDE DEF f
  <2>1. IsFiniteSet({f[e] : e \in Written}) BY <1>1, WrittenFinite, FiniteImage
  <2> QED BY <1>2, <2>1, FS_Subset
<1>4. ASSUME NEW o \in S PROVE o \in Op /\ ~o.live
  <2>1. PICK e \in Written : o = Delete(e.key) OBVIOUS
  <2>2. e.key \in Keys BY WrittenTypes DEF Entry
  <2> QED BY <2>1, <2>2, OpTypes
<1>5. S \in SUBSET Op BY <1>4
<1>6. SetToSeq(S) \in Seq(Op) /\ \A i \in DOMAIN SetToSeq(S) : SetToSeq(S)[i] \in S
  BY <1>3, <1>5, Listed
<1>7. \A i \in DOMAIN SetToSeq(S) : ~SetToSeq(S)[i].live BY <1>4, <1>6
<1> QED BY <1>6, <1>7 DEF Safe, IsNamed, IsStored

\* What a look-up finds was written.
LEMMA Found ==
  ASSUME NEW k, NEW v \in Has(k)
  PROVE  \E e \in Written : e.key = k /\ e.live /\ e.value = v /\ e \in Lookup(k)
BY DEF Has, Lookup, NewestOf

\* The id of a database that exists was stored under its name.
LEMMA IdsFound ==
  ASSUME IdsOnce, NEW n \in DbNames, NEW d \in IdOf(n)
  PROVE  /\ d \in DbIds
         /\ \E e \in Written : /\ IsNamed(e) /\ e.key = NameNo[n] /\ e.value = <<d>>
                               /\ e \in Lookup(NameNo[n])
<1>1. PICK v \in Has(NameNo[n]) : d = v[1] BY DEF IdOf
<1>2. PICK e \in Written : e.key = NameNo[n] /\ e.live /\ e.value = v /\ e \in Lookup(NameNo[n])
  BY Found
<1>3. IsNamed(e) BY <1>2, KeysOfKinds DEF IsNamed
<1>4. PICK x \in DbIds : e.value = <<x>> BY <1>3 DEF IdsOnce
<1>5. x = d BY <1>1, <1>2, <1>4
<1> QED BY <1>2, <1>3, <1>4, <1>5

\* What Cleared deletes was written.
LEMMA ClearedWritten ==
  ASSUME NEW d \in DbIds, NEW s \in Stores(d), NEW o \in Cleared(d, s)
  PROVE  \E e \in Written : o = Delete(e.key)
<1>1. CASE o = Delete(StoreNo[<<d, s>>])
  <2>1. PICK v \in Has(StoreNo[<<d, s>>]) : TRUE BY DEF Stores
  <2> QED BY <1>1, <2>1, Found
<1>2. ASSUME NEW k \in StoredKeys(d, s), o = Delete(RecordNo[<<d, s, k>>])
      PROVE  \E e \in Written : o = Delete(e.key)
  <2>1. PICK v \in Has(RecordNo[<<d, s, k>>]) : TRUE BY DEF StoredKeys
  <2> QED BY <1>2, <2>1, Found
<1> QED BY <1>1, <1>2 DEF Cleared

\* Every batch that Browse writes is safe.
LEMMA BrowseSafe ==
  ASSUME BrowserInv, IdsOnce, Browse
  PROVE  \E batch : Safe(batch) /\ Write(batch)
<1> DEFINE Goal == \E batch : Safe(batch) /\ Write(batch)
<1>1. ASSUME NEW n \in DbNames, CreateDatabase(n) PROVE Goal
  <2>1. PICK d \in NewIds(DbIds, UsedDbs) : Write(<<Put(NameNo[n], <<d>>)>>)
    BY <1>1 DEF CreateDatabase
  <2>2. d \in DbIds \ UsedDbs BY DEF NewIds
  <2>3. PICK o : o = Put(NameNo[n], <<d>>) BY Zenon
  <2>4. o \in Op /\ o.key = NameNo[n] /\ o.value = <<d>>
    <3>1. NameNo[n] \in Keys BY KeysOfKinds, Apart
    <3>2. <<d>> \in Values BY <2>2, StoredValues
    <3> QED BY <2>3, <3>1, <3>2, OpTypes
  <2>5. IsNamed(o)
    <3>1. o.live BY <2>3 DEF Put
    <3> QED BY <2>4, <3>1, KeysOfKinds DEF IsNamed
  <2>6. <<o>> \in Seq(Op) BY <2>4
  <2>7. Safe(<<o>>) BY <2>2, <2>4, <2>5, <2>6 DEF Safe
  <2> QED BY <2>1, <2>3, <2>7
<1>2. ASSUME NEW n \in DbNames, DeleteDatabase(n) PROVE Goal
  <2>1. PICK d \in IdOf(n) :
          Write(SetToSeq({Delete(NameNo[n])} \cup UNION {Cleared(d, s) : s \in Stores(d)}))
    BY <1>2 DEF DeleteDatabase
  <2>2. d \in DbIds /\ \E e \in Written : e.key = NameNo[n] BY IdsFound
  <2>3. \A o \in {Delete(NameNo[n])} \cup UNION {Cleared(d, s) : s \in Stores(d)} :
          \E e \in Written : o = Delete(e.key)
    BY <2>2, ClearedWritten
  <2> QED BY <2>1, <2>3, DeleteSafe
<1>3. ASSUME NEW d \in DbIds, NEW s \in StoreIds, NEW m \in StoreNames,
             Write(<<Put(StoreNo[<<d, s>>], EncodeString(m))>>)
      PROVE  Goal
  <2>1. PICK o : o = Put(StoreNo[<<d, s>>], EncodeString(m)) BY Zenon
  <2>2. o \in Op /\ o.key \in StoreKeys /\ o.value = EncodeString(m)
    <3>1. StoreNo[<<d, s>>] \in StoreKeys /\ StoreNo[<<d, s>>] \in Keys BY KeysOfKinds, Apart
    <3> QED BY <2>1, <3>1, StoredValues, OpTypes
  <2>3. ~IsNamed(o) /\ NamesStore(o) BY <2>2, Apart DEF IsNamed, NamesStore
  <2> QED BY <1>3, <2>1, <2>2, <2>3, SafeOne
<1>4. ASSUME NEW d \in DbIds, NEW s \in StoreIds, NEW k \in IdbKeys, NEW o \in Op,
             o.key = RecordNo[<<d, s, k>>], Write(<<o>>)
      PROVE  Goal
  <2>1. o.key \notin NameNos /\ o.key \notin StoreKeys BY <1>4, KeysOfKinds, Apart
  <2> QED BY <1>4, <2>1, SafeOne DEF IsNamed, IsStored
<1>5. ASSUME NEW d \in DbIds, NEW s \in StoreIds, NEW k \in IdbKeys, NEW p \in Payloads,
             PutRecord(d, s, k, p)
      PROVE  Goal
  <2>1. RecordNo[<<d, s, k>>] \in Keys BY KeysOfKinds, Apart
  <2>2. PICK o : o = Put(RecordNo[<<d, s, k>>], p.bytes) BY Zenon
  <2>3. o \in Op /\ o.key = RecordNo[<<d, s, k>>] BY <2>1, <2>2, StoredValues, OpTypes
  <2>4. Write(<<o>>) BY <1>5, <2>2 DEF PutRecord
  <2> QED BY <1>4, <2>3, <2>4
<1>6. ASSUME NEW d \in DbIds, NEW s \in StoreIds, NEW k \in IdbKeys, DeleteRecord(d, s, k)
      PROVE  Goal
  <2>1. RecordNo[<<d, s, k>>] \in Keys BY KeysOfKinds, Apart
  <2>2. PICK o : o = Delete(RecordNo[<<d, s, k>>]) BY Zenon
  <2>3. o \in Op /\ o.key = RecordNo[<<d, s, k>>] BY <2>1, <2>2, OpTypes DEF Delete
  <2>4. Write(<<o>>) BY <1>6, <2>2 DEF DeleteRecord
  <2> QED BY <1>4, <2>3, <2>4
<1>7. ASSUME NEW d \in DbIds, NEW s \in Stores(d), DeleteStore(d, s) PROVE Goal
  BY <1>7, ClearedWritten, DeleteSafe DEF DeleteStore
<1>8. ASSUME NEW d \in DbIds, NEW m \in StoreNames, CreateStore(d, m) PROVE Goal
  BY <1>3, <1>8 DEF CreateStore, NewIds
<1>9. ASSUME NEW d \in DbIds, NEW s \in StoreIds, NEW m \in StoreNames, RenameStore(d, s, m)
      PROVE  Goal
  BY <1>3, <1>9 DEF RenameStore
<1>10. \A n \in DbNames : \A d \in IdOf(n) : d \in DbIds BY IdsFound
<1>11. \A d : Stores(d) \subseteq StoreIds BY DEF Stores
<1>12. \A d, s : StoredKeys(d, s) \subseteq IdbKeys BY DEF StoredKeys
<1> QED BY <1>1, <1>2, <1>5, <1>6, <1>7, <1>8, <1>9, <1>10, <1>11, <1>12 DEF Browse

\* IndexedDbReader and its browser do to the directory what RawLevelDb and a
\* browser that writes any batches do.
LEMMA IdbStep == BrowserInv /\ IdsOnce /\ [IdbNext]_idbVars => [AnyNext]_vars
<1> SUFFICES ASSUME BrowserInv, IdsOnce, [IdbNext]_idbVars PROVE [AnyNext]_vars OBVIOUS
<1>1. CASE Browse BY <1>1, BrowseSafe DEF Safe, AnyNext, AnyWrite
<1>2. CASE Writes BY <1>2, DbConstants DEF Writes, AnyNext, AnyWrite
<1>3. CASE Classify BY <1>3 DEF Classify, AnyNext, Read
<1>4. CASE Maintain \/ Open \/ NextFile \/ Exhausted \/ Close BY <1>4 DEF AnyNext, Read
<1>5. CASE Iterate(FALSE) BY <1>5 DEF AnyNext, Read
<1>6. CASE UNCHANGED idbVars BY <1>6 DEF idbVars
<1> QED BY <1>1, <1>2, <1>3, <1>4, <1>5, <1>6 DEF IdbNext

\* A safe batch keeps ids apart.
LEMMA SafeIds ==
  ASSUME BrowserInv, LogsInv, IdsOnce, NEW batch, Safe(batch), Write(batch)
  PROVE  IdsOnce'
<1> DEFINE entry(i) == [key |-> batch[i].key, live |-> batch[i].live,
                        value |-> batch[i].value, seq |-> seq + i]
           new == {entry(i) : i \in DOMAIN batch}
<1>1. Written' = Written \cup new BY BatchWritten
<1>2. \A i \in DOMAIN batch : /\ entry(i).key = batch[i].key
                              /\ entry(i).value = batch[i].value
                              /\ entry(i).live = batch[i].live
  OBVIOUS
<1>3. \A e \in new : \E i \in DOMAIN batch : e = entry(i) OBVIOUS
<1> HIDE DEF entry, new
<1>4. ASSUME NEW e \in new
      PROVE  \E i \in DOMAIN batch : /\ e.value = batch[i].value
                                     /\ IsNamed(e) <=> IsNamed(batch[i])
                                     /\ IsStored(e) <=> IsStored(batch[i])
                                     /\ e = entry(i)
  BY <1>2, <1>3 DEF IsNamed, IsStored
<1>5. CASE \A i \in DOMAIN batch :
             ~IsNamed(batch[i]) /\ (IsStored(batch[i]) => NamesStore(batch[i]))
  <2>1. \A e \in new : ~IsNamed(e) /\ (IsStored(e) => NamesStore(e))
    BY <1>4, <1>5 DEF NamesStore
  <2> QED BY <1>1, <2>1 DEF IdsOnce, IsNamed, IsStored, NamesStore
<1>6. ASSUME NEW o \in Op, NEW d \in DbIds \ UsedDbs,
             batch = <<o>>, IsNamed(o), o.value = <<d>>
      PROVE  IdsOnce'
  <2>1. DOMAIN batch = {1} /\ batch[1] = o BY <1>6
  <2>2. \A e \in new : e = entry(1) BY <1>3, <2>1
  <2>3. ASSUME NEW e \in new PROVE IsNamed(e) /\ e.value = <<d>> /\ ~IsStored(e)
    <3>1. IsNamed(e) /\ e.value = <<d>> BY <1>4, <1>6, <2>1
    <3> QED BY <3>1, Apart DEF IsNamed, IsStored
  <2>4. ASSUME NEW e \in Written, IsNamed(e) PROVE e.value # <<d>>
    <3>1. PICK n \in DbNames : e.key = NameNo[n] BY <2>4 DEF IsNamed, NameNos
    <3>2. e.value \in Given(NameNo[n]) BY <2>4, <3>1 DEF Given, IsNamed
    <3>3. e.value[1] \in UsedDbs BY <3>2 DEF UsedDbs
    <3>4. <<d>>[1] = d OBVIOUS
    <3> QED BY <3>3, <3>4
  <2> QED BY <1>1, <2>2, <2>3, <2>4 DEF IdsOnce, IsNamed, IsStored, NamesStore
<1> QED BY <1>5, <1>6 DEF Safe

\* WriteBatches writes keys of the schema only.
LEMMA Schemas ==
  \A k \in Keys : UserKey[k] \in SchemaKeys => k \notin NameNos /\ k \notin StoreKeys
BY SchemaNumber, Zenon

LEMMA NextIdsOnce ==
  BrowserInv /\ LogsInv /\ IdsOnce /\ [IdbNext]_idbVars => IdsOnce'
<1> SUFFICES ASSUME BrowserInv, LogsInv, IdsOnce, [IdbNext]_idbVars PROVE IdsOnce' OBVIOUS
<1>1. CASE Browse BY <1>1, BrowseSafe, SafeIds
<1>2. CASE Writes
  <2>1. PICK batch \in WriteBatches : Write(batch) BY <1>2 DEF Writes
  <2>2. batch \in Seq(Op) BY DbConstants
  <2>3. \A i \in DOMAIN batch : batch[i] \in Op
    BY <2>2, LenProperties, ElementOfSeq, Zenon
  <2>7. \A i \in DOMAIN batch : batch[i].key \in Keys BY <2>3 DEF Op
  <2>4. \A i \in DOMAIN batch : UserKey[batch[i].key] \in SchemaKeys
    BY IndexedDbConstants, Zenon
  <2>5. \A i \in DOMAIN batch : batch[i].key \notin NameNos /\ batch[i].key \notin StoreKeys
    BY <2>4, <2>7, Schemas
  <2>6. Safe(batch) BY <2>2, <2>5 DEF Safe, IsNamed, IsStored
  <2> QED BY <2>1, <2>6, SafeIds
<1>3. ASSUME Maintain \/ Open \/ Read \/ Close \/ UNCHANGED vars PROVE IdsOnce'
  <2>1. Written' \subseteq Written BY <1>3, NothingWritten
  <2> QED BY <2>1 DEF IdsOnce, IsNamed, IsStored, NamesStore
<1>4. Classify \/ Iterate(FALSE) \/ NextFile \/ Exhausted => Read BY DEF Classify, Read
<1>5. CASE UNCHANGED idbVars BY <1>3, <1>5 DEF idbVars
<1> QED BY <1>1, <1>2, <1>3, <1>4, <1>5 DEF IdbNext

(***************************************************************************)
(* What the reader keeps was stored                                        *)
(***************************************************************************)
\* What is read of a key of each kind.
LEMMA NamesAt ==
  ASSUME NEW k \in NameKeys
  PROVE  k \in NameNos /\ \E n \in DbNames : k = NameNo[n] /\ NameAt[k] = n
<1>1. NoZero /\ \E n \in DbNames : k = NameNo[n] /\ Paired(n) BY NameKeyIs, Zenon
<1>2. PICK n \in DbNames : k = NameNo[n] /\ Paired(n) BY <1>1
<1>3. NameAt[k] = n BY <1>1, <1>2, NameNumber, Zenon
<1> QED BY <1>2, <1>3, KeysOfKinds

LEMMA StoresAt ==
  ASSUME NEW k \in StoreKeys
  PROVE  \E d \in DbIds, s \in StoreIds : k = StoreNo[<<d, s>>] /\ StoreAt[k] = <<d, s>>
<1>1. PICK d \in DbIds, s \in StoreIds : k = StoreNo[<<d, s>>] BY StoreKeyIs
<1> QED BY <1>1, StoreNumber

LEMMA RecordsAt ==
  ASSUME NEW k \in RecordKeys
  PROVE  \E d \in DbIds, s \in StoreIds, x \in IdbKeys :
           k = RecordNo[<<d, s, x>>] /\ RecordAt[k] = [db |-> d, store |-> s, key |-> x]
<1>1. PICK d \in DbIds, s \in StoreIds, x \in IdbKeys : k = RecordNo[<<d, s, x>>]
  BY RecordKeyIs
<1>2. RecordAt[k] = [db |-> d, store |-> s, key |-> x] BY <1>1, RecordNumber, Zenon
<1> QED BY <1>1, <1>2

\* The name of a store is read back, if its surrogates are paired.
LEMMA NamesBack ==
  ASSUME NEW m \in StoreNames
  PROVE  DecodeString(EncodeString(m)) = m /\ (Decodes(EncodeString(m)) <=> Paired(m))
<1>1. Text(m) BY Ids, Zenon
<1> QED BY <1>1, StringBack, Zenon

\* The entry of _raw_records that _classify makes of a record.
RawOf(e) ==
  [db |-> RecordAt[e.key].db, store |-> RecordAt[e.key].store, key |-> RecordAt[e.key].key,
   value |-> e.value, seq |-> e.seq, live |-> e.live]

IsRead(e) == e.key \in RecordKeys
NameGiven(d, n) == d \in DbIds /\ n \in DbNames /\ <<d>> \in Given(NameNo[n])
StoreGiven(x, m) ==
  x \in DbIds \X StoreIds /\ m \in StoreNames /\ EncodeString(m) \in Given(StoreNo[x])

\* What the reader holds, it found in the files.
FromFiles ==
  /\ rest \subseteq EntriesOf(Files)
  /\ \A d \in DOMAIN databases : NameGiven(d, databases[d])
  /\ \A x \in DOMAIN objectStores : StoreGiven(x, objectStores[x])
  /\ rawRecords \in Seq(RawRecord)
  /\ \A i \in DOMAIN rawRecords : \E e \in Written : IsRead(e) /\ rawRecords[i] = RawOf(e)

LEMMA GivenGrows ==
  ASSUME Written \subseteq Written', NEW k
  PROVE  Given(k) \subseteq Given(k)'
BY DEF Given

LEMMA RawTypes ==
  ASSUME NEW e \in Entry, IsRead(e)
  PROVE  RawOf(e) \in RawRecord
<1>1. PICK d \in DbIds, s \in StoreIds, x \in IdbKeys :
        RecordAt[e.key] = [db |-> d, store |-> s, key |-> x]
  <2>1. PICK k \in RecordKeys : k = e.key BY Zenon DEF IsRead
  <2>2. \E d \in DbIds, s \in StoreIds, x \in IdbKeys :
          k = RecordNo[<<d, s, x>>] /\ RecordAt[k] = [db |-> d, store |-> s, key |-> x]
    BY RecordsAt, Zenon
  <2> QED BY <2>1, <2>2
<1>2. d \in Nat /\ s \in Nat /\ x \in Seq(Byte) BY Ids
<1>3. RawOf(e) = [db |-> d, store |-> s, key |-> x, value |-> e.value, seq |-> e.seq,
                  live |-> e.live]
  BY <1>1 DEF RawOf
<1>4. e.value \in Values /\ e.seq \in Nat /\ e.live \in BOOLEAN BY DEF Entry
<1> QED BY <1>2, <1>3, <1>4 DEF RawRecord

\* What a name entry does to the reader.
LEMMA GlobalStep ==
  ASSUME IdsOnce, NEW e \in Written, ClassifyGlobal(e)
  PROVE  /\ UNCHANGED <<objectStores, rawRecords>>
         /\ e.key \in NameKeys
         /\ ~e.live => databases' = databases
         /\ e.live => \E d, n :
              /\ NameGiven(d, n) /\ e.value = <<d>> /\ FromBytes(e.value) = d
              /\ databases' = [k \in DOMAIN databases \cup {d} |->
                                 IF k = d THEN n ELSE databases[k]]
<1>1. e.key \in NameKeys /\ UNCHANGED <<objectStores, rawRecords>>
  BY Zenon DEF ClassifyGlobal
<1>2. databases' = IF e.live THEN Assigned(databases, FromBytes(e.value), NameAt[e.key])
                   ELSE databases
  BY Zenon DEF ClassifyGlobal
<1>3. PICK n \in DbNames : e.key = NameNo[n] /\ NameAt[e.key] = n BY <1>1, NamesAt
<1>4. ASSUME e.live
      PROVE  \E d, m :
               /\ NameGiven(d, m) /\ e.value = <<d>> /\ FromBytes(e.value) = d
               /\ databases' = [k \in DOMAIN databases \cup {d} |->
                                  IF k = d THEN m ELSE databases[k]]
  <2>1. IsNamed(e) BY <1>1, <1>4, NamesAt DEF IsNamed
  <2>2. PICK d \in DbIds : e.value = <<d>> BY <2>1 DEF IdsOnce
  <2>3. FromBytes(e.value) = d BY <2>2, DbIdRead
  <2>4. NameGiven(d, n) BY <1>3, <1>4, <2>2 DEF NameGiven, Given
  <2>5. databases' = Assigned(databases, d, n) BY <1>2, <1>3, <1>4, <2>3
  <2> QED BY <2>2, <2>3, <2>4, <2>5 DEF Assigned
<1> QED BY <1>1, <1>2, <1>4

\* What a store entry and a record do to the reader.
LEMMA StoreStep ==
  ASSUME IdsOnce, NEW e \in Written, ClassifyDatabaseMeta(e)
  PROVE  /\ UNCHANGED <<databases, rawRecords>>
         /\ e.key \in StoreKeys
         /\ ~IsNamer(e) => objectStores' = objectStores
         /\ IsNamer(e) => \E x, m :
              /\ StoreGiven(x, m) /\ StoreAt[e.key] = x /\ e.value = EncodeString(m)
              /\ objectStores' = [k \in DOMAIN objectStores \cup {x} |->
                                    IF k = x THEN m ELSE objectStores[k]]
<1>1. e.key \in StoreKeys /\ UNCHANGED <<databases, rawRecords>>
  BY Zenon DEF ClassifyDatabaseMeta
<1>2. objectStores' = IF e.live /\ Decodes(e.value)
                      THEN Assigned(objectStores, StoreAt[e.key], DecodeString(e.value))
                      ELSE objectStores
  BY Zenon DEF ClassifyDatabaseMeta
<1>3. PICK d \in DbIds, s \in StoreIds : e.key = StoreNo[<<d, s>>] /\ StoreAt[e.key] = <<d, s>>
  BY <1>1, StoresAt
<1>4. ASSUME IsNamer(e)
      PROVE  \E x, m :
               /\ StoreGiven(x, m) /\ StoreAt[e.key] = x /\ e.value = EncodeString(m)
               /\ objectStores' = [k \in DOMAIN objectStores \cup {x} |->
                                     IF k = x THEN m ELSE objectStores[k]]
  <2>1. IsStored(e) /\ Decodes(e.value) BY <1>4 DEF IsNamer
  <2>2. PICK m \in StoreNames : e.value = EncodeString(m) BY <2>1 DEF IdsOnce, NamesStore
  <2>3. DecodeString(e.value) = m BY <2>2, NamesBack
  <2>4. PICK x : x = <<d, s>> BY Zenon
  <2>5. e.live BY <2>1 DEF IsStored
  <2>6. StoreGiven(x, m) BY <1>3, <2>2, <2>4, <2>5 DEF StoreGiven, Given
  <2>7. objectStores' = Assigned(objectStores, x, m) BY <1>2, <1>3, <2>1, <2>3, <2>4, <2>5
  <2> QED BY <1>3, <2>2, <2>4, <2>6, <2>7 DEF Assigned
<1> QED BY <1>1, <1>2, <1>4 DEF IsNamer, IsStored

LEMMA RecordStep ==
  ASSUME FromFiles, NEW e \in Entry, ClassifyRecord(e)
  PROVE  /\ UNCHANGED <<databases, objectStores>>
         /\ IsRead(e) /\ rawRecords' \in Seq(RawRecord)
         /\ Len(rawRecords) \in Nat /\ DOMAIN rawRecords = 1..Len(rawRecords)
         /\ DOMAIN rawRecords' = 1..Len(rawRecords) + 1
         /\ \A i \in 1..Len(rawRecords) : rawRecords'[i] = rawRecords[i]
         /\ rawRecords'[Len(rawRecords) + 1] = RawOf(e)
<1>1. IsRead(e) /\ UNCHANGED <<databases, objectStores>> BY Zenon DEF ClassifyRecord, IsRead
<1>2. PICK p : p = RawOf(e) BY Zenon
<1>3. rawRecords' = Append(rawRecords, p) BY <1>2, Zenon DEF ClassifyRecord, RawOf
<1>4. p \in RawRecord BY <1>1, <1>2, RawTypes
<1>5. rawRecords \in Seq(RawRecord) BY DEF FromFiles
<1>6. /\ rawRecords' \in Seq(RawRecord) /\ Len(rawRecords') = Len(rawRecords) + 1
      /\ \A i \in 1..Len(rawRecords) : rawRecords'[i] = rawRecords[i]
      /\ rawRecords'[Len(rawRecords) + 1] = p
  BY <1>3, <1>4, <1>5, AppendProperties
<1>7. /\ Len(rawRecords) \in Nat /\ DOMAIN rawRecords = 1..Len(rawRecords)
      /\ DOMAIN rawRecords' = 1..Len(rawRecords')
  BY <1>5, <1>6, LenProperties
<1> QED BY <1>1, <1>2, <1>6, <1>7

\* The record that _classify is given was written.
LEMMA ClassifyCases ==
  ASSUME BrowserInv, LogsInv, FromFiles, Classify
  PROVE  \E e \in rest :
           /\ rest' = rest \ {e} /\ Yielded' = Yielded \cup {e}
           /\ e \in Entry /\ e \in Written /\ Written' = Written
           /\ pc = "iter" /\ pc' = "iter"
           /\ ClassifyGlobal(e) \/ ClassifyDatabaseMeta(e) \/ ClassifyRecord(e) \/ SkipEntry(e)
<1>1. YieldRecord BY Zenon DEF Classify
<1>2. PICK e \in rest : rest' = rest \ {e} /\ Yielded' = Yielded \cup {e}
  BY <1>1, YieldStep DEF BrowserInv
<1>3. \E x \in rest \ rest' : \/ ClassifyGlobal(x) \/ ClassifyDatabaseMeta(x)
                              \/ ClassifyRecord(x) \/ SkipEntry(x)
  BY Zenon DEF Classify
<1>4. rest \ rest' = {e} BY <1>2
<1>5. ClassifyGlobal(e) \/ ClassifyDatabaseMeta(e) \/ ClassifyRecord(e) \/ SkipEntry(e)
  BY <1>3, <1>4, Zenon
<1>6. e \in Written BY FilesWritten DEF FromFiles
<1>7. e \in Entry BY <1>6, WrittenTypes
<1>8. pc = "iter" /\ pc' = "iter" /\ Written' = Written
  BY <1>1 DEF YieldRecord, browser, Written, EntriesOf
<1> QED BY <1>2, <1>5, <1>6, <1>7, <1>8

LEMMA IdbAside ==
  ASSUME [IdbNext]_idbVars
  PROVE  Classify \/ UNCHANGED <<databases, objectStores, rawRecords>>
BY DEF IdbNext, idbVars, reader

LEMMA NextFromFiles ==
  BrowserInv /\ LogsInv /\ LogsInv' /\ BrowserInv' /\ IdsOnce /\ FromFiles
    /\ [IdbNext]_idbVars => FromFiles'
<1> SUFFICES ASSUME BrowserInv, LogsInv, LogsInv', BrowserInv', IdsOnce, FromFiles,
                    [IdbNext]_idbVars
             PROVE  FromFiles'
  OBVIOUS
<1>1. [AnyNext]_vars BY IdbStep
<1>2. rest' \subseteq EntriesOf(Files)' BY <1>1, RestInFiles DEF FromFiles
<1>3. EntriesOf(Files)' = Written'
  BY DEF BrowserInv, TypeInv, TypeOK, LogsInv, FromLogs, EntriesOf, Written
<1>4. Written \subseteq Written' BY <1>1, <1>3, FilesWritten, FilesGrow
<1>5. \A d, n : NameGiven(d, n) => NameGiven(d, n)' BY <1>4 DEF NameGiven, Given
<1>6. \A x, m : StoreGiven(x, m) => StoreGiven(x, m)' BY <1>4 DEF StoreGiven, Given
<1> DEFINE Kept(p) == \E e \in Written : IsRead(e) /\ p = RawOf(e)
<1>7. ASSUME \A d \in DOMAIN databases' : NameGiven(d, databases'[d]),
             \A x \in DOMAIN objectStores' : StoreGiven(x, objectStores'[x]),
             rawRecords' \in Seq(RawRecord),
             \A i \in DOMAIN rawRecords' : Kept(rawRecords'[i])
      PROVE  FromFiles'
  BY <1>2, <1>4, <1>5, <1>6, <1>7 DEF FromFiles, IsRead, RawOf
<1>8. /\ \A d \in DOMAIN databases : NameGiven(d, databases[d])
      /\ \A x \in DOMAIN objectStores : StoreGiven(x, objectStores[x])
      /\ rawRecords \in Seq(RawRecord)
      /\ \A i \in DOMAIN rawRecords : Kept(rawRecords[i])
  BY DEF FromFiles
<1>9. ASSUME NEW p \in Written, IsRead(p) PROVE Kept(RawOf(p)) BY <1>9
<1> HIDE DEF Kept
<1>10. CASE UNCHANGED <<databases, objectStores, rawRecords>> BY <1>7, <1>8, <1>10
<1>11. ASSUME NEW e \in Written, ClassifyGlobal(e) PROVE FromFiles'
  BY <1>7, <1>8, <1>11, GlobalStep
<1>12. ASSUME NEW e \in Written, ClassifyDatabaseMeta(e) PROVE FromFiles'
  BY <1>7, <1>8, <1>12, StoreStep
<1>13. ASSUME NEW e \in Written, e \in Entry, ClassifyRecord(e) PROVE FromFiles'
  <2>1. Kept(RawOf(e)) BY <1>9, <1>13, RecordStep
  <2> QED BY <1>7, <1>8, <1>13, <2>1, RecordStep
<1>14. ASSUME NEW e, SkipEntry(e) PROVE FromFiles'
  BY <1>10, <1>14 DEF SkipEntry, reader
<1>15. CASE Classify BY <1>11, <1>12, <1>13, <1>14, <1>15, ClassifyCases
<1> QED BY <1>10, <1>15, IdbAside

(***************************************************************************)
(* The invariant, and that names are right                                 *)
(***************************************************************************)
IdbInv == BrowserInv /\ LogsInv /\ IdsOnce /\ FromFiles

LEMMA IdbCorrect == IdbSpec => []IdbInv
<1>1. IdbInit => IdbInv
  <2> SUFFICES ASSUME IdbInit PROVE IdbInv OBVIOUS
  <2>1. BrowserInv /\ LogsInv
    BY InitTypes, InitFiles, InitLogs DEF IdbInit, BrowserInv
  <2>2. Written = {}
    <3>1. 1 \in Files /\ logs = {1} /\ content = [f \in Files |-> {}]
      BY DbConstants DEF IdbInit, Init, Files
    <3> QED BY <3>1 DEF Written, EntriesOf
  <2>3. IdsOnce BY <2>2 DEF IdsOnce
  <2>4. DOMAIN databases = {} /\ DOMAIN objectStores = {} /\ rawRecords = <<>> /\ rest = {}
    BY DEF IdbInit, Init
  <2>5. FromFiles BY <2>4, EmptySeq DEF FromFiles
  <2> QED BY <2>1, <2>3, <2>5 DEF IdbInv
<1>2. IdbInv /\ [IdbNext]_idbVars => IdbInv'
  <2> SUFFICES ASSUME IdbInv, [IdbNext]_idbVars PROVE IdbInv' OBVIOUS
  <2> USE DEF IdbInv
  <2>1. [AnyNext]_vars BY IdbStep
  <2>2. BrowserInv' BY <2>1, NextTypes, NextFiles, NextSeqs DEF BrowserInv
  <2>3. LogsInv' BY <2>1, NextLogs
  <2> QED BY <2>2, <2>3, NextIdsOnce, NextFromFiles
<1> QED BY <1>1, <1>2, PTL DEF IdbSpec

\* Every variable of IndexedDbReader keeps its type: _databases and
\* _object_stores hold names, and only those of ids the browser gives out.
THEOREM IdbTypeCorrect == IdbSpec => []IdbTypeOK
<1>1. IdbInv => IdbTypeOK
  BY DEF IdbInv, BrowserInv, TypeInv, FromFiles, NameGiven, StoreGiven, IdbTypeOK
<1> QED BY <1>1, IdbCorrect, PTL

\* A raw record is of a key that the browser keeps a value under.
LEMMA RawIs ==
  ASSUME FromFiles, NEW i \in DOMAIN rawRecords
  PROVE  \E e \in Written, d \in DbIds, s \in StoreIds, x \in IdbKeys :
           /\ e.key = RecordNo[<<d, s, x>>]
           /\ rawRecords[i].db = d /\ rawRecords[i].store = s /\ rawRecords[i].key = x
           /\ rawRecords[i].seq = e.seq
<1>1. PICK e \in Written : IsRead(e) /\ rawRecords[i] = RawOf(e) BY DEF FromFiles
<1>2. PICK k \in RecordKeys : k = e.key BY <1>1, Zenon DEF IsRead
<1>3. \E d \in DbIds, s \in StoreIds, x \in IdbKeys :
        k = RecordNo[<<d, s, x>>] /\ RecordAt[k] = [db |-> d, store |-> s, key |-> x]
  BY RecordsAt, Zenon
<1>4. PICK d \in DbIds, s \in StoreIds, x \in IdbKeys :
        e.key = RecordNo[<<d, s, x>>] /\ RecordAt[e.key] = [db |-> d, store |-> s, key |-> x]
  BY <1>2, <1>3
<1>5. /\ rawRecords[i].db = d /\ rawRecords[i].store = s /\ rawRecords[i].key = x
      /\ rawRecords[i].seq = e.seq
  BY <1>1, <1>4 DEF RawOf
<1> QED BY <1>4, <1>5

\* records() shows a record under a name its own database had and one its own
\* store had at some time, whatever order _classify saw the three in.
THEOREM NamesAlwaysRight == IdbSpec => []NamesRight
<1>1. ASSUME IdbInv PROVE NamesRight
  <2> SUFFICES ASSUME NEW r \in AllRecords(TRUE)
               PROVE  \E d \in DbIds, s \in StoreIds :
                        /\ <<d>> \in Given(NameNo[r.database])
                        /\ EncodeString(r.store) \in Given(StoreNo[<<d, s>>])
                        /\ \E e \in Written : e.seq = r.seq /\ e.key = RecordNo[<<d, s, r.key>>]
    BY DEF NamesRight
  <2>1. PICK i \in DOMAIN rawRecords : Named(rawRecords[i]) /\ r = RecordOf(rawRecords[i])
    BY DEF AllRecords, Records, Selected
  <2>2. PICK e \in Written, d \in DbIds, s \in StoreIds, x \in IdbKeys :
          /\ e.key = RecordNo[<<d, s, x>>]
          /\ rawRecords[i].db = d /\ rawRecords[i].store = s /\ rawRecords[i].key = x
          /\ rawRecords[i].seq = e.seq
    BY <1>1, RawIs, Zenon DEF IdbInv
  <2>3. d \in DOMAIN databases /\ <<d, s>> \in DOMAIN objectStores BY <2>1, <2>2 DEF Named
  <2>4. /\ r.database = databases[d] /\ r.store = objectStores[<<d, s>>]
        /\ r.key = x /\ r.seq = e.seq
    BY <2>1, <2>2 DEF RecordOf
  <2>5. NameGiven(d, databases[d]) /\ StoreGiven(<<d, s>>, objectStores[<<d, s>>])
    BY <1>1, <2>3, Zenon DEF IdbInv, FromFiles
  <2> QED BY <2>2, <2>4, <2>5 DEF NameGiven, StoreGiven
<1> QED BY <1>1, IdbCorrect, PTL

(***************************************************************************)
(* What was read is there                                                  *)
(***************************************************************************)
IsName(e) == e.live /\ e.key \in NameKeys

\* Every name, every store and every record yielded is kept.
Kept ==
  /\ \A e \in Yielded : IsName(e) => FromBytes(e.value) \in DOMAIN databases
  /\ \A e \in Yielded : IsNamer(e) => StoreAt[e.key] \in DOMAIN objectStores
  /\ \A e \in Yielded : IsRead(e) => \E i \in DOMAIN rawRecords : rawRecords[i] = RawOf(e)

\* No user key is taken for two kinds.
LEMMA OneKind ==
  /\ \A k \in NameKeys : k \notin StoreKeys /\ k \notin RecordKeys
  /\ \A k \in StoreKeys : k \notin NameKeys /\ k \notin RecordKeys
  /\ \A k \in RecordKeys : k \notin NameKeys /\ k \notin StoreKeys
<1>1. \A k \in NameKeys : k \in NameNos BY Apart, Zenon
<1> QED BY <1>1, Apart, Zenon

LEMMA ClassifyKept ==
  ASSUME BrowserInv, LogsInv, IdsOnce, FromFiles, Kept, Classify
  PROVE  Kept'
<1>1. PICK e \in rest :
        /\ rest' = rest \ {e} /\ Yielded' = Yielded \cup {e}
        /\ e \in Entry /\ e \in Written /\ Written' = Written
        /\ pc = "iter" /\ pc' = "iter"
        /\ ClassifyGlobal(e) \/ ClassifyDatabaseMeta(e) \/ ClassifyRecord(e) \/ SkipEntry(e)
  BY ClassifyCases
<1> DEFINE Raw(p) == \E i \in DOMAIN rawRecords : rawRecords[i] = p
<1>2. ASSUME DOMAIN databases \subseteq DOMAIN databases',
             DOMAIN objectStores \subseteq DOMAIN objectStores',
             \A p : Raw(p) => Raw(p)',
             e.key \in NameKeys /\ e.live => FromBytes(e.value) \in DOMAIN databases',
             IsNamer(e) => StoreAt[e.key] \in DOMAIN objectStores',
             e.key \in RecordKeys => Raw(RawOf(e))'
      PROVE  Kept'
  BY <1>1, <1>2, Zenon DEF Kept, IsName, IsNamer, IsStored, IsRead, RawOf
<1>3. CASE ClassifyGlobal(e)
  <2>1. /\ UNCHANGED <<objectStores, rawRecords>> /\ e.key \in NameKeys
        /\ DOMAIN databases \subseteq DOMAIN databases'
        /\ e.live => FromBytes(e.value) \in DOMAIN databases'
    BY <1>1, <1>3, GlobalStep
  <2>2. e.key \notin StoreKeys /\ e.key \notin RecordKeys BY <2>1, OneKind, Zenon
  <2> QED BY <1>2, <2>1, <2>2 DEF IsNamer, IsStored
<1>4. CASE ClassifyDatabaseMeta(e)
  <2>1. /\ UNCHANGED <<databases, rawRecords>> /\ e.key \in StoreKeys
        /\ DOMAIN objectStores \subseteq DOMAIN objectStores'
        /\ IsNamer(e) => StoreAt[e.key] \in DOMAIN objectStores'
    BY <1>1, <1>4, StoreStep
  <2>2. e.key \notin NameKeys /\ e.key \notin RecordKeys BY <2>1, OneKind, Zenon
  <2> QED BY <1>2, <2>1, <2>2
<1>5. CASE ClassifyRecord(e)
  <2>1. /\ UNCHANGED <<databases, objectStores>>
        /\ IsRead(e) /\ Len(rawRecords) \in Nat /\ DOMAIN rawRecords = 1..Len(rawRecords)
        /\ DOMAIN rawRecords' = 1..Len(rawRecords) + 1
        /\ \A i \in 1..Len(rawRecords) : rawRecords'[i] = rawRecords[i]
        /\ rawRecords'[Len(rawRecords) + 1] = RawOf(e)
    BY <1>1, <1>5, RecordStep
  <2>2. e.key \notin NameKeys /\ e.key \notin StoreKeys BY <2>1, OneKind, Zenon DEF IsRead
  <2>3. \E i \in DOMAIN rawRecords' : rawRecords'[i] = RawOf(e) BY <2>1
  <2>4. ASSUME NEW p, \E i \in DOMAIN rawRecords : rawRecords[i] = p
        PROVE  \E i \in DOMAIN rawRecords' : rawRecords'[i] = p
    BY <2>1, <2>4
  <2>5. RawOf(e)' = RawOf(e) BY DEF RawOf
  <2> QED BY <1>2, <2>1, <2>2, <2>3, <2>4, <2>5 DEF IsNamer, IsStored
<1>6. CASE SkipEntry(e)
  <2>1. /\ UNCHANGED reader
        /\ e.key \notin NameKeys /\ e.key \notin StoreKeys /\ e.key \notin RecordKeys
    BY <1>6 DEF SkipEntry
  <2> QED BY <1>2, <2>1 DEF reader, IsNamer, IsStored
<1> QED BY <1>1, <1>3, <1>4, <1>5, <1>6

LEMMA NextKept ==
  ReadInv /\ IdsOnce /\ FromFiles /\ Kept /\ [IdbNext]_idbVars => Kept'
<1> SUFFICES ASSUME ReadInv, IdsOnce, FromFiles, Kept, [IdbNext]_idbVars PROVE Kept' OBVIOUS
<1>1. ASSUME UNCHANGED reader, yielded' = yielded PROVE Kept'
  <2>1. UNCHANGED <<Yielded, databases, objectStores, rawRecords>>
    BY <1>1 DEF Yielded, reader
  <2> QED BY <2>1, Zenon DEF Kept, IsName, IsNamer, IsStored, IsRead, RawOf
<1>2. CASE Browse /\ UNCHANGED reader
  <2>1. AnyWrite BY <1>2, BrowseSafe DEF ReadInv, Safe, AnyWrite
  <2> QED BY <1>1, <1>2, <2>1, BrowserStep DEF ReadInv
<1>3. CASE (Writes \/ Maintain) /\ UNCHANGED reader
  <2>1. AnyWrite \/ Maintain BY <1>3, DbConstants DEF Writes, AnyWrite
  <2> QED BY <1>1, <1>3, <2>1, BrowserStep DEF ReadInv
<1>4. CASE Open /\ UNCHANGED reader
  BY <1>1, <1>4 DEF Open, List, CheckEntry, OpenEntry, Constructed, handles, iteration
<1>5. CASE Iterate(FALSE)
  <2>1. Yielded' = {} BY <1>5 DEF Iterate, Yielded
  <2> QED BY <2>1, Zenon DEF Kept
<1>6. CASE (NextFile \/ Exhausted \/ Close) /\ UNCHANGED reader
  BY <1>1, <1>6 DEF NextFile, Exhausted, Close, iteration
<1>7. CASE Classify BY <1>7, ClassifyKept DEF ReadInv
<1>8. CASE UNCHANGED idbVars BY <1>1, <1>8 DEF idbVars, vars, reader
<1> QED BY <1>2, <1>3, <1>4, <1>5, <1>6, <1>7, <1>8 DEF IdbNext

(***************************************************************************)
(* Which name of a store is read last                                      *)
(***************************************************************************)
\* What the iteration has yielded of a file it has come to.
Passed(f) == content[f] \ (IF f = file THEN rest ELSE {})

\* Of a quiet directory files are read in the order of their numbers, and a
\* file in its own order.
Ordered ==
  /\ pc \in {"new", "scan", "open"} => DOMAIN objectStores = {}
  /\ pc \in {"iter", "done"} /\ ~LiveBrowser =>
       /\ reverse = FALSE /\ left \subseteq opened /\ file \notin left
       /\ \A f \in opened \ left : f <= file /\ \A g \in left : f < g
       /\ rest # {} => file \in opened
       /\ file \in opened =>
            rest \subseteq content[file] /\ \A o \in Passed(file), p \in rest : Before(file, o, p)
  /\ pc = "done" => left = {} /\ rest = {}

\* a, of file g, is behind every other entry of its key that names a store.
ReadLast(g, a) ==
  \A f \in opened \ left : \A o \in Passed(f) :
    IsNamer(o) /\ o.key = a.key => f < g \/ (f = g /\ (o = a \/ Before(g, o, a)))

\* A store goes by the name that was read last.
Latest ==
  pc \in {"iter", "done"} /\ ~LiveBrowser =>
    \A x \in DOMAIN objectStores : \E g \in opened \ left : \E a \in Passed(g) :
      /\ IsNamer(a) /\ StoreAt[a.key] = x /\ a.value = EncodeString(objectStores[x])
      /\ ReadLast(g, a)

\* Nothing is lost or reordered while the iteration stands still.
LEMMA StillOrdered ==
  ASSUME Ordered, Latest,
         UNCHANGED <<pc, opened, left, reverse, file, rest, objectStores, content, logs>>
  PROVE  Ordered' /\ Latest'
BY DEF Ordered, Latest, ReadLast, Passed, Before

\* The next file has a higher number than those before, and is read from its start.
LEMMA NextFileOrdered ==
  ASSUME ReadInv, Ordered, Latest, NextFile, UNCHANGED objectStores
  PROVE  Ordered' /\ Latest'
<1>1. PICK f \in left :
        /\ \A g \in left : IF reverse THEN g <= f ELSE f <= g
        /\ file' = f /\ left' = left \ {f} /\ rest' = content[f]
  BY DEF NextFile
<1>2. /\ pc = "iter" /\ pc' = "iter" /\ rest = {} /\ reverse' = reverse /\ opened' = opened
      /\ content' = content /\ logs' = logs
  BY DEF NextFile, handles, browser
<1> SUFFICES ASSUME ~LiveBrowser PROVE Ordered' /\ Latest' BY <1>2 DEF Ordered, Latest
<1>3. /\ reverse = FALSE /\ left \subseteq opened /\ file \notin left
      /\ \A g \in opened \ left : g <= file /\ \A h \in left : g < h
  BY <1>2 DEF Ordered
<1>4. opened \subseteq Nat /\ f \in Nat
  BY <1>3 DEF ReadInv, BrowserInv, TypeInv, TypeOK, Files
<1>5. \A g \in opened \ left : g # f /\ Passed(g)' = Passed(g)
  BY <1>1, <1>2 DEF Passed
<1>6. Passed(f)' = {} BY <1>1, <1>2 DEF Passed
<1>7. opened' \ left' = (opened \ left) \cup {f} BY <1>1, <1>2, <1>3
<1>8. Ordered'
  <2>1. ASSUME NEW g \in (opened \ left) \cup {f} PROVE g <= f /\ \A h \in left \ {f} : g < h
    <3>1. CASE g = f
      <4>1. \A h \in left \ {f} : f <= h /\ f # h /\ h \in Nat BY <1>1, <1>3, <1>4
      <4> QED BY <1>4, <3>1, <4>1
    <3>2. CASE g \in opened \ left
      <4>1. g < f /\ \A h \in left : g < h BY <1>3, <3>2
      <4> QED BY <1>4, <3>2, <4>1
    <3> QED BY <3>1, <3>2
  <2> QED BY <1>1, <1>2, <1>3, <1>6, <1>7, <2>1 DEF Ordered
<1>9. Latest'
  <2> SUFFICES ASSUME NEW x \in DOMAIN objectStores
               PROVE  \E g \in opened' \ left' : \E a \in Passed(g)' :
                        /\ IsNamer(a) /\ StoreAt[a.key] = x
                        /\ a.value = EncodeString(objectStores[x]) /\ ReadLast(g, a)'
    BY DEF Latest, IsNamer, IsStored
  <2>1. PICK g \in opened \ left : \E a \in Passed(g) :
          /\ IsNamer(a) /\ StoreAt[a.key] = x /\ a.value = EncodeString(objectStores[x])
          /\ ReadLast(g, a)
    BY <1>2 DEF Latest
  <2>2. PICK a \in Passed(g) :
          /\ IsNamer(a) /\ StoreAt[a.key] = x /\ a.value = EncodeString(objectStores[x])
          /\ ReadLast(g, a)
    BY <2>1
  <2>3. \A o : Before(g, o, a)' = Before(g, o, a) BY <1>2 DEF Before
  <2>4. ReadLast(g, a)' BY <1>5, <1>6, <1>7, <2>2, <2>3 DEF ReadLast, IsNamer, IsStored
  <2> QED BY <1>5, <1>7, <2>2, <2>4
<1> QED BY <1>8, <1>9

\* The entry that is yielded is behind all that were.
LEMMA ClassifyOrdered ==
  ASSUME ReadInv, IdsOnce, FromFiles, Ordered, Latest, Classify
  PROVE  Ordered' /\ Latest'
<1>1. PICK e \in rest :
        /\ rest' = rest \ {e} /\ Yielded' = Yielded \cup {e}
        /\ e \in Entry /\ e \in Written /\ Written' = Written
        /\ pc = "iter" /\ pc' = "iter"
        /\ ClassifyGlobal(e) \/ ClassifyDatabaseMeta(e) \/ ClassifyRecord(e) \/ SkipEntry(e)
  BY ClassifyCases DEF ReadInv
<1>2. YieldRecord BY Zenon DEF Classify
<1>3. UNCHANGED <<left, reverse, file, opened, content, logs>>
  BY <1>2 DEF YieldRecord, handles, browser
<1>4. \A o \in rest \ {e} : Before(file, e, o)
  <2>1. PICK b \in rest : rest' = rest \ {b} /\ \A o \in rest \ {b} : Before(file, b, o)
    BY <1>2 DEF YieldRecord
  <2> QED BY <1>1, <2>1
<1> SUFFICES ASSUME ~LiveBrowser PROVE Ordered' /\ Latest' BY <1>1 DEF Ordered, Latest
<1>5. /\ reverse = FALSE /\ left \subseteq opened /\ file \notin left /\ file \in opened
      /\ \A f \in opened \ left : f <= file /\ \A g \in left : f < g
      /\ rest \subseteq content[file] /\ \A o \in Passed(file), p \in rest : Before(file, o, p)
  BY <1>1 DEF Ordered
<1>f. PICK h : h = file BY Zenon
<1>6. Passed(h)' = Passed(h) \cup {e} BY <1>1, <1>3, <1>5, <1>f DEF Passed
<1>7. \A f \in opened \ left : f # h => Passed(f)' = Passed(f) BY <1>3, <1>f DEF Passed
<1>8. \A f, o, p : Before(f, o, p)' = Before(f, o, p) BY <1>3 DEF Before
<1>9. Ordered'
  <2>1. \A o \in Passed(h) \cup {e}, p \in rest \ {e} : Before(h, o, p)
    BY <1>4, <1>5, <1>f
  <2>2. Passed(file)' = Passed(h)' BY <1>3, <1>f DEF Passed
  <2>3. \A o, p : Before(file, o, p)' = Before(h, o, p) BY <1>3, <1>f DEF Before
  <2> QED BY <1>1, <1>3, <1>5, <1>6, <2>1, <2>2, <2>3 DEF Ordered
<1>10. ASSUME NEW x \in DOMAIN objectStores,
              ~(IsNamer(e) /\ ClassifyDatabaseMeta(e) /\ StoreAt[e.key] = x)
       PROVE  \E g \in opened \ left : \E a \in Passed(g)' :
                /\ IsNamer(a) /\ StoreAt[a.key] = x
                /\ a.value = EncodeString(objectStores[x]) /\ ReadLast(g, a)'
  <2>1. PICK g \in opened \ left : \E a \in Passed(g) :
          /\ IsNamer(a) /\ StoreAt[a.key] = x /\ a.value = EncodeString(objectStores[x])
          /\ ReadLast(g, a)
    BY <1>1 DEF Latest
  <2>a. PICK a \in Passed(g) :
          /\ IsNamer(a) /\ StoreAt[a.key] = x /\ a.value = EncodeString(objectStores[x])
          /\ ReadLast(g, a)
    BY <2>1
  <2>2. ~(IsNamer(e) /\ e.key = a.key)
    <3>1. SUFFICES ASSUME IsNamer(e), e.key = a.key PROVE FALSE OBVIOUS
    <3>2. e.key \in StoreKeys BY <3>1 DEF IsNamer, IsStored
    <3>3. e.key \notin NameKeys /\ e.key \notin RecordKeys BY <3>2, OneKind, Zenon
    <3>4. ClassifyDatabaseMeta(e)
      BY <1>1, <3>2, <3>3, Zenon DEF ClassifyGlobal, ClassifyRecord, SkipEntry
    <3> QED BY <1>10, <2>a, <3>1, <3>4
  <2>3. ReadLast(g, a)' BY <1>3, <1>6, <1>7, <1>8, <2>a, <2>2 DEF ReadLast, IsNamer, IsStored
  <2>4. a \in Passed(g)' BY <1>6, <1>7, <2>a
  <2> QED BY <2>a, <2>3, <2>4
<1>11. CASE ~(IsNamer(e) /\ ClassifyDatabaseMeta(e))
  <2>1. objectStores' = objectStores
    BY <1>1, <1>11, StoreStep DEF ClassifyGlobal, ClassifyRecord, SkipEntry, reader
  <2>2. Latest' BY <1>3, <1>10, <1>11, <2>1 DEF Latest, IsNamer, IsStored
  <2> QED BY <1>9, <2>2
<1>12. CASE IsNamer(e) /\ ClassifyDatabaseMeta(e)
  <2>a. IsNamer(e) => \E x, m :
          /\ StoreGiven(x, m) /\ StoreAt[e.key] = x /\ e.value = EncodeString(m)
          /\ objectStores' = [k \in DOMAIN objectStores \cup {x} |->
                                IF k = x THEN m ELSE objectStores[k]]
    BY <1>1, <1>12, StoreStep, Zenon
  <2>1. PICK x, m : /\ StoreAt[e.key] = x /\ e.value = EncodeString(m)
                    /\ objectStores' = [k \in DOMAIN objectStores \cup {x} |->
                                          IF k = x THEN m ELSE objectStores[k]]
    BY <1>12, <2>a, Zenon
  <2>2. ReadLast(h, e)'
    <3>1. ASSUME NEW f \in opened \ left, NEW o \in Passed(f)'
          PROVE  f < h \/ (f = h /\ (o = e \/ Before(h, o, e)))
      <4>1. CASE f = h BY <1>5, <1>6, <1>f, <3>1, <4>1
      <4>2. CASE f # h
        <5>1. f \in Nat /\ h \in Nat /\ f <= h
          BY <1>5, <1>f, <3>1 DEF ReadInv, BrowserInv, TypeInv, TypeOK, Files
        <5> QED BY <4>2, <5>1
      <4> QED BY <4>1, <4>2
    <3> QED BY <1>3, <1>8, <3>1 DEF ReadLast
  <2>3. ASSUME NEW y \in DOMAIN objectStores'
        PROVE  \E g \in opened \ left : \E a \in Passed(g)' :
                 /\ IsNamer(a) /\ StoreAt[a.key] = y
                 /\ a.value = EncodeString(objectStores'[y]) /\ ReadLast(g, a)'
    <3>1. CASE y = x
      <4>1. objectStores'[y] = m BY <2>1, <3>1
      <4>2. h \in opened \ left /\ e \in Passed(h)' BY <1>5, <1>6, <1>f
      <4> QED BY <1>12, <2>1, <2>2, <3>1, <4>1, <4>2
    <3>2. CASE y # x
      <4>1. y \in DOMAIN objectStores /\ objectStores'[y] = objectStores[y] BY <2>1, <3>2
      <4> QED BY <1>10, <2>1, <3>2, <4>1
    <3> QED BY <3>1, <3>2
  <2>4. Latest' BY <1>3, <2>3 DEF Latest, IsNamer, IsStored
  <2> QED BY <1>9, <2>4
<1> QED BY <1>11, <1>12

LEMMA NextOrdered ==
  ReadInv /\ IdsOnce /\ FromFiles /\ Ordered /\ Latest /\ [IdbNext]_idbVars
     => Ordered' /\ Latest'
<1> SUFFICES ASSUME ReadInv, IdsOnce, FromFiles, Ordered, Latest, [IdbNext]_idbVars
             PROVE  Ordered' /\ Latest'
  OBVIOUS
<1>1. CASE (Browse \/ Writes \/ Maintain) /\ UNCHANGED reader
  <2>1. AnyWrite \/ Maintain
    BY <1>1, BrowseSafe, DbConstants DEF ReadInv, Safe, AnyWrite, Writes
  <2>2. UNCHANGED <<pc, left, rest, objectStores>> /\ up
    BY <1>1, <2>1, BrowserStep DEF ReadInv, reader
  <2>3. LiveBrowser \/ pc = "new" BY <2>2 DEF ReadInv, Quiet
  <2> QED BY <2>2, <2>3 DEF Ordered, Latest
<1>2. CASE Open /\ UNCHANGED reader
  <2>1. pc \in {"new", "scan"} /\ pc' \in {"scan", "open", "failed"}
    BY <1>2 DEF Open, List, CheckEntry, OpenEntry, Constructed
  <2> QED BY <1>2, <2>1 DEF Ordered, Latest, reader
<1>3. CASE pc = "open" /\ Iterate(FALSE) /\ UNCHANGED reader
  <2>1. /\ pc' = "iter" /\ left' = opened /\ reverse' = FALSE /\ file' = 0 /\ rest' = {}
        /\ opened' = opened /\ objectStores' = objectStores
    BY <1>3 DEF Iterate, handles, reader
  <2>2. DOMAIN objectStores = {} /\ 0 \notin opened
    BY <1>3 DEF Ordered, ReadInv, BrowserInv, TypeInv, TypeOK, Files
  <2>3. opened' \ left' = {} BY <2>1
  <2> QED BY <2>1, <2>2, <2>3 DEF Ordered, Latest
<1>4. CASE NextFile /\ UNCHANGED reader BY <1>4, NextFileOrdered DEF reader
<1>5. CASE Exhausted /\ UNCHANGED reader
  <2>1. /\ pc = "iter" /\ pc' = "done" /\ rest = {} /\ left = {}
        /\ UNCHANGED <<opened, left, reverse, file, rest, objectStores, content, logs>>
    BY <1>5 DEF Exhausted, handles, iteration, browser, reader
  <2> QED BY <2>1 DEF Ordered, Latest, ReadLast, Passed, Before
<1>6. CASE Close /\ UNCHANGED reader
  <2>1. pc' = "closed" BY <1>6 DEF Close
  <2> QED BY <2>1 DEF Ordered, Latest
<1>7. CASE Classify BY <1>7, ClassifyOrdered
<1>8. CASE UNCHANGED idbVars BY <1>8, StillOrdered DEF idbVars, vars
<1> QED BY <1>1, <1>2, <1>3, <1>4, <1>5, <1>6, <1>7, <1>8 DEF IdbNext

IdbReadInv == ReadInv /\ LiveKept /\ Kept /\ Ordered /\ Latest

LEMMA IdbReadCorrect == IdbSpec => [](IdbInv /\ IdbReadInv)
<1>1. IdbInv /\ [IdbNext]_idbVars => [AnyNext]_vars BY IdbStep DEF IdbInv
<1>2. IdbInit => Init /\ Kept /\ Ordered /\ Latest
  <2> SUFFICES ASSUME IdbInit PROVE Init /\ Kept /\ Ordered /\ Latest OBVIOUS
  <2>1. Init BY DEF IdbInit
  <2>2. Yielded = {} BY <2>1 DEF Init, Yielded
  <2>3. Kept BY <2>2, Zenon DEF Kept
  <2>4. pc = "new" /\ DOMAIN objectStores = {} BY <2>1 DEF Init, IdbInit
  <2> QED BY <2>1, <2>3, <2>4 DEF Ordered, Latest
<1>3. IdbSpec => []ReadInv BY <1>1, <1>2, IdbCorrect, InitRead, NextRead, PTL DEF IdbSpec
<1>4. ReadInv => BrowserInv /\ LogsInv BY DEF ReadInv
<1>5. IdbSpec => []LiveKept
  BY <1>1, <1>2, <1>3, <1>4, IdbCorrect, InitLive, NextLive, PTL DEF IdbSpec
<1>6. IdbInv => IdsOnce /\ FromFiles BY DEF IdbInv
<1>7. IdbSpec => []Kept BY <1>2, <1>3, <1>6, IdbCorrect, NextKept, PTL DEF IdbSpec
<1>8. IdbSpec => [](Ordered /\ Latest)
  BY <1>2, <1>3, <1>6, IdbCorrect, NextOrdered, PTL DEF IdbSpec
<1> QED BY <1>3, <1>5, <1>7, <1>8, IdbCorrect, PTL DEF IdbReadInv

\* What a look-up finds was yielded when the iteration is done.
LEMMA FoundYielded ==
  ASSUME IdbReadInv, pc = "done", ~LiveBrowser, NEW k \in Keys, NEW e \in Lookup(k)
  PROVE  /\ e \in Yielded /\ e \in Written /\ e.live /\ e.key = k
         /\ \E f \in opened : e \in content[f]
<1>1. Yielded = EntriesOf(opened) /\ opened = dir /\ Version \subseteq dir
  BY DEF IdbReadInv, ReadInv, AllRead, BrowserInv, FileInv
<1> QED BY <1>1 DEF Lookup, NewestOf, IdbReadInv, LiveKept, EntriesOf

\* A store that exists goes by the name it has, or by one that was read after it.
LEMMA StoreShown ==
  ASSUME IdbInv, IdbReadInv, pc = "done", ~LiveBrowser,
         NEW d \in DbIds, NEW s \in Stores(d), NEW x, x = <<d, s>>,
         \A v \in Has(StoreNo[<<d, s>>]) : Decodes(v)
  PROVE  x \in DOMAIN objectStores /\ objectStores[x] \in NamesOf(d, s)
<1>1. PICK k : k = StoreNo[<<d, s>>] BY Zenon
<1>2. k \in Keys /\ k \in StoreKeys /\ StoreAt[k] = x
  <2>1. s \in StoreIds BY DEF Stores
  <2> QED BY <1>1, <2>1, StoreNumber
<1>3. PICK e \in Lookup(k) : TRUE BY <1>1 DEF Stores, Has
<1>4. e \in Yielded /\ e \in Written /\ e.live /\ e.key = k BY <1>2, FoundYielded
<1>5. IsNamer(e) /\ e.value \in Has(k) BY <1>1, <1>2, <1>3, <1>4 DEF IsNamer, IsStored, Has
<1>6. x \in DOMAIN objectStores
  BY <1>2, <1>4, <1>5, Zenon DEF IdbReadInv, Kept
<1>7. StoreGiven(x, objectStores[x]) BY <1>6, Zenon DEF IdbInv, FromFiles
<1>8. PICK m : m = objectStores[x] BY Zenon
<1>9. m \in StoreNames /\ EncodeString(m) \in Given(k) BY <1>1, <1>7, <1>8, Zenon
  DEF StoreGiven
<1>10. NamesOf(d, s) = {n \in StoreNames :
                          EncodeString(n) \in IF Overtaken(k) THEN Given(k) ELSE Has(k)}
  BY <1>1 DEF NamesOf
<1>11. ASSUME ~Overtaken(k) PROVE EncodeString(m) \in Has(k)
  <2>1. /\ left = {} /\ rest = {}
        /\ \A f : Passed(f) = content[f]
    BY DEF IdbReadInv, Ordered, Passed
  <2>a. PICK g \in opened : \E a \in content[g] :
          /\ IsNamer(a) /\ StoreAt[a.key] = x /\ a.value = EncodeString(m) /\ ReadLast(g, a)
    BY <1>6, <1>8, <2>1 DEF IdbReadInv, Latest
  <2>2. PICK a \in content[g] :
          /\ IsNamer(a) /\ StoreAt[a.key] = x /\ a.value = EncodeString(m) /\ ReadLast(g, a)
    BY <2>a
  <2>3. a.key = k
    <3>1. a.key \in StoreKeys BY <2>2 DEF IsNamer, IsStored
    <3>2. PICK b \in DbIds, c \in StoreIds : a.key = StoreNo[<<b, c>>] /\ StoreAt[a.key] = <<b, c>>
      BY <3>1, StoresAt
    <3> QED BY <1>1, <2>2, <3>2
  <2>4. a \in Written /\ a.live /\ Decodes(a.value) /\ opened \subseteq Files
    BY <2>2 DEF IdbInv, LogsInv, FromLogs, BrowserInv, TypeInv, TypeOK, IsNamer, IsStored
  <2>5. ASSUME a # e PROVE FALSE
    <3>1. ASSUME NEW b \in NewestOf(Written, k)
          PROVE  /\ a.seq < b.seq
                 /\ \A f \in opened : b \in content[f] => f < g \/ (f = g /\ g \notin logs)
      <4>1. /\ a.seq \in Nat /\ b.seq \in Nat /\ e.seq \in Nat
            /\ \A o \in {a, b, e}, p \in {a, b, e} : o.seq = p.seq => o = p
        BY <1>4, <2>4, <3>1
           DEF NewestOf, IdbInv, BrowserInv, SeqInv, TypeInv, TypeOK, Entry, Written, EntriesOf
      <4>2. a.seq <= b.seq /\ e.seq <= b.seq /\ b.seq <= e.seq
        BY <1>3, <1>4, <2>3, <2>4, <3>1 DEF NewestOf, Lookup
      <4>3. b = e BY <4>1, <4>2
      <4>4. a.seq < b.seq BY <2>5, <4>1, <4>2, <4>3
      <4>5. ASSUME NEW f \in opened, b \in content[f] PROVE f < g \/ (f = g /\ g \notin logs)
        <5>1. f < g \/ (f = g /\ (e = a \/ Before(g, e, a)))
          BY <1>4, <1>5, <2>1, <2>2, <2>3, <4>3, <4>5 DEF ReadLast
        <5>2. g \in logs => ~Before(g, e, a) BY <4>1, <4>3, <4>4 DEF Before
        <5> QED BY <2>5, <5>1, <5>2
      <4> QED BY <4>4, <4>5
    <3> QED BY <1>11, <2>2, <2>3, <2>4, <3>1 DEF Overtaken
  <2> QED BY <1>5, <2>2, <2>5
<1> QED BY <1>6, <1>8, <1>9, <1>10, <1>11

\* The database of an id that exists is known by its name, if that can be read.
LEMMA DatabaseShown ==
  ASSUME IdbInv, IdbReadInv, pc = "done", ~LiveBrowser, NoZero,
         NEW n \in DbNames, Paired(n), NEW d \in IdOf(n)
  PROVE  d \in DOMAIN databases /\ databases[d] = n
<1>1. IdsOnce /\ FromFiles /\ Kept BY DEF IdbInv, IdbReadInv
<1>2. PICK b \in Written : /\ IsNamed(b) /\ b.key = NameNo[n] /\ b.value = <<d>>
                           /\ b \in Lookup(NameNo[n])
  BY <1>1, IdsFound
<1>3. NameNo[n] \in Keys /\ NameNo[n] \in NameKeys BY NameNumber, Zenon
<1>4. b \in Yielded BY <1>2, <1>3, FoundYielded
<1>5. IsName(b) BY <1>2, <1>3 DEF IsName, IsNamed
<1>6. FromBytes(b.value) = d
  <2>1. d \in DbIds BY <1>1, IdsFound
  <2> QED BY <1>2, <2>1, DbIdRead
<1>7. d \in DOMAIN databases BY <1>1, <1>4, <1>5, <1>6, Zenon DEF Kept
<1>8. PICK m \in DbNames : m = databases[d] /\ <<d>> \in Given(NameNo[m])
  BY <1>1, <1>7 DEF FromFiles, NameGiven
<1>9. PICK o \in Written : o.key = NameNo[m] /\ o.live /\ o.value = <<d>> BY <1>8 DEF Given
<1>10. IsNamed(o) BY <1>9, KeysOfKinds DEF IsNamed
<1>11. o = b BY <1>1, <1>2, <1>9, <1>10 DEF IdsOnce
<1>12. m = n BY <1>2, <1>9, <1>11, OneName
<1> QED BY <1>7, <1>8, <1>12

\* Every store there is when the browser stopped is in object_stores(), under
\* the name it has, unless an older one is read after it; and with an origin
\* whose bytes hold no zero what it holds is among the records, under its
\* database and that name, with the value that was stored, unless a value read
\* before raised what records() does not catch: although names and records are
\* read in the order of files.
THEOREM CurrentAlwaysVisible == IdbSpec => []CurrentVisible
<1>1. ASSUME IdbInv, IdbReadInv PROVE CurrentVisible
  <2> SUFFICES ASSUME pc = "done", ~LiveBrowser,
                      NEW n \in DbNames, NEW d \in IdOf(n), NEW s \in Stores(d),
                      \A v \in Has(StoreNo[<<d, s>>]) : Decodes(v)
               PROVE  /\ <<d, s>> \in DOMAIN objectStores
                      /\ objectStores[<<d, s>>] \in NamesOf(d, s)
                      /\ NoZero /\ Paired(n) => <<d, s>> \in ObjectStores(n) /\ Shown(n, d, s)
    BY DEF CurrentVisible, NoZero
  <2>1. d \in DbIds /\ s \in StoreIds BY <1>1, IdsFound DEF IdbInv, Stores
  <2>2. PICK x : x = <<d, s>> BY Zenon
  <2>3. x \in DOMAIN objectStores /\ objectStores[x] \in NamesOf(d, s)
    BY <1>1, <2>1, <2>2, StoreShown
  <2>4. ASSUME NoZero, Paired(n)
        PROVE  <<d, s>> \in ObjectStores(n) /\ Shown(n, d, s)
    <3>1. d \in DOMAIN databases /\ databases[d] = n BY <1>1, <2>4, DatabaseShown
    <3>2. <<d, s>> \in ObjectStores(n) BY <2>2, <2>3, <3>1 DEF ObjectStores
    <3>3. ASSUME NEW k \in IdbKeys, NEW e \in Lookup(RecordNo[<<d, s, k>>]), NEW p \in Payloads,
                 e.value = p.bytes, p.value # "none", Short(p.bytes),
                 ~ \E i, j \in DOMAIN rawRecords :
                     /\ i < j /\ rawRecords[j].seq = e.seq
                     /\ Named(rawRecords[i]) /\ Ends(rawRecords[i])
          PROVE  \E r \in AllRecords(FALSE) :
                   /\ r.database = n /\ r.store \in NamesOf(d, s)
                   /\ r.key = k /\ r.seq = e.seq /\ r.value = Outcome("value", p.value)
      <4>1. PICK i \in DOMAIN rawRecords :
              /\ rawRecords[i].db = d /\ rawRecords[i].store = s /\ rawRecords[i].key = k
              /\ rawRecords[i].value = e.value /\ rawRecords[i].seq = e.seq /\ rawRecords[i].live
        <5>1. PICK key : key = RecordNo[<<d, s, k>>] BY Zenon
        <5>2. /\ key \in Keys /\ key \in RecordKeys
              /\ RecordAt[key] = [db |-> d, store |-> s, key |-> k]
          BY <2>1, <5>1, RecordNumber, Zenon
        <5>3. e \in Yielded /\ e.live /\ e.key = key BY <1>1, <5>1, <5>2, FoundYielded
        <5>4. IsRead(e) BY <5>2, <5>3 DEF IsRead
        <5>5. PICK i \in DOMAIN rawRecords : rawRecords[i] = RawOf(e)
          BY <1>1, <5>3, <5>4, Zenon DEF Kept, IdbReadInv
        <5> QED BY <5>2, <5>3, <5>5 DEF RawOf
      <4> DEFINE raw == rawRecords[i]
                 r == RecordOf(raw)
      <4>2. Named(raw) /\ Selected(raw, DbNames, StoreNames, FALSE)
        BY <2>2, <2>3, <3>1, <4>1 DEF Named, Selected, NamesOf
      <4>3. Decoded[raw.value] = Outcome("value", p.value) BY <3>3, <4>1, ValueRead, Zenon
      <4>4. Decoded[raw.value].kind = "value" BY <4>3 DEF Outcome
      <4>5. \A j \in 1..i - 1 :
              ~(Selected(rawRecords[j], DbNames, StoreNames, FALSE) /\ Ends(rawRecords[j]))
        <5>1. rawRecords \in Seq(RawRecord) BY <1>1 DEF IdbInv, FromFiles
        <5>2. Len(rawRecords) \in Nat /\ DOMAIN rawRecords = 1..Len(rawRecords)
          BY <5>1, LenProperties
        <5> QED BY <3>3, <4>1, <5>2 DEF Selected
      <4>6. r \in AllRecords(FALSE) BY <4>2, <4>4, <4>5 DEF AllRecords, Records
      <4>7. /\ r.database = n /\ r.store = objectStores[x] /\ r.key = k /\ r.seq = e.seq
            /\ r.value = Outcome("value", p.value)
        BY <2>2, <3>1, <4>1, <4>3 DEF RecordOf
      <4> HIDE DEF r
      <4> QED BY <2>3, <4>6, <4>7
    <3>4. Shown(n, d, s) BY <3>3 DEF Shown
    <3> QED BY <3>2, <3>4
  <2> QED BY <2>2, <2>3, <2>4
<1> QED BY <1>1, IdbReadCorrect, PTL

(***************************************************************************)
(* An origin of ASCII characters                                           *)
(***************************************************************************)
LEMMA HighByte == \A x \in CodeUnit : x < 256 => x \div 256 = 0
<1> SUFFICES ASSUME NEW x \in CodeUnit, x < 256 PROVE x \div 256 = 0 OBVIOUS
<1>1. x \in Nat BY DEF CodeUnit
<1> QED BY <1>1

\* The high byte of a code unit below 256 is zero.
LEMMA ZeroByte ==
  ASSUME NEW i \in DOMAIN Origin, Origin[i] < 256
  PROVE  ~NoZero
<1>1. Text(Origin) /\ Origin \in Seq(CodeUnit) BY Ids, Zenon DEF Text
<1>2. PICK u : u = Units(Origin) BY Zenon
<1>3. /\ Len(Origin) \in Nat /\ Len(Origin) \in TwoByte
      /\ u \in Seq(Byte) /\ Len(u) = 2 * Len(Origin)
      /\ \A j \in 1..Len(Origin) : u[2 * j - 1] = Origin[j] \div 256
  BY <1>1, <1>2, UnitsSplit
<1>4. i \in 1..Len(Origin) /\ Origin[i] \in CodeUnit
  BY <1>1, LenProperties, ElementOfSeq
<1>5. PICK v : v = EncodeVarint(Len(Origin)) BY Zenon
<1>6. v \in Seq(Byte) BY <1>3, <1>5, EncodedBytes, Zenon
<1>7. u[2 * i - 1] = 0
  <2>1. PICK c \in CodeUnit : c = Origin[i] BY <1>4, Zenon
  <2>4. c \div 256 = 0 BY <2>1, HighByte, Zenon
  <2>2. Origin[i] \div 256 = 0 BY <2>1, <2>4
  <2> QED BY <1>3, <1>4, <2>2
<1>8. PICK z : z = v \o u BY Zenon
<1>9. /\ Len(v) \in Nat /\ DOMAIN z = 1..Len(v) + Len(u)
      /\ \A j \in 1..Len(u) : z[Len(v) + j] = u[j]
  BY <1>3, <1>6, <1>8, Concat
<1>10. Len(v) + (2 * i - 1) \in DOMAIN z /\ z[Len(v) + (2 * i - 1)] = 0
  <2>1. 2 * i - 1 \in 1..Len(u) BY <1>3, <1>4
  <2> QED BY <1>3, <1>7, <1>9, <2>1
<1>11. z = EncodeString(Origin) BY <1>2, <1>5, <1>8, Zenon DEF EncodeString
<1>12. ZeroesOf(z) # {} BY <1>10 DEF ZeroesOf
<1> QED BY <1>11, <1>12, Zenon DEF NoZero

\* With an origin that has a character below 256, as every URL has, the reader
\* keeps the name of no database and shows no record, live or deleted: its
\* search for the zero byte that ends the origin stops inside the origin.
THEOREM OriginHidesAll ==
  (\E i \in DOMAIN Origin : Origin[i] < 256)
    => (IdbSpec => [](databases = [d \in {} |-> <<>>] /\ AllRecords(TRUE) = {}))
<1> DEFINE Unnamed == databases = [d \in {} |-> <<>>]
<1> SUFFICES ASSUME \E i \in DOMAIN Origin : Origin[i] < 256
             PROVE  IdbSpec => [](Unnamed /\ AllRecords(TRUE) = {})
  OBVIOUS
<1>1. NameKeys = {} BY ZeroByte, NameKeyIs
<1>2. IdbInit => Unnamed BY DEF IdbInit
<1>3. Unnamed /\ [IdbNext]_idbVars => Unnamed'
  <2> SUFFICES ASSUME [IdbNext]_idbVars PROVE databases' = databases OBVIOUS
  <2>1. \A e : ~ClassifyGlobal(e) BY <1>1 DEF ClassifyGlobal
  <2>2. Classify => databases' = databases
    BY <2>1 DEF Classify, ClassifyDatabaseMeta, ClassifyRecord, SkipEntry, reader
  <2> QED BY <2>2, IdbAside
<1>4. Unnamed => AllRecords(TRUE) = {} BY DEF AllRecords, Records, Selected, Named
<1> QED BY <1>2, <1>3, <1>4, PTL DEF IdbSpec
=================================================================================
