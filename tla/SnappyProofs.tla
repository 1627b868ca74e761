----------------------------- MODULE SnappyProofs -----------------------------
(***************************************************************************)
(* What holds of Snappy for texts of any bytes and any length: its types,  *)
(* that the output is the text whatever elements the compressor chose, and *)
(* that a cut is noticed.                                                  *)
(***************************************************************************)
EXTENDS Snappy, SequenceTheorems, WellFoundedInduction, TLAPS

(***************************************************************************)
(* Numbers                                                                 *)
(***************************************************************************)
LEMMA Least ==
  ASSUME NEW T \in SUBSET Nat, T # {}
  PROVE  \E m \in T : \A n \in T : m <= n
<1> DEFINE R == OpToRel(<, Nat)
<1>1. IsWellFoundedOn(R, Nat) BY NatLessThanWellFounded
<1>2. PICK x \in T : \A y \in T : <<y, x>> \notin R
  <2> HIDE DEF R
  <2> QED BY <1>1, WFMin, Zenon
<1>3. \A y \in T : ~(y < x) BY <1>2 DEF OpToRel
<1> QED BY <1>3

LEMMA ModSmall ==
  ASSUME NEW n \in Nat, NEW b \in Nat, n < b
  PROVE  n % b = n
OBVIOUS

LEMMA ModRange ==
  ASSUME NEW n \in Nat, NEW b \in Nat \ {0}
  PROVE  n % b \in 0..b - 1
OBVIOUS

\* A remainder is determined by the number and the divisor.
LEMMA RemainderUnique ==
  ASSUME NEW b \in Nat \ {0}, NEW q \in Int, NEW p \in Int, NEW r \in 0..b - 1,
         NEW s \in 0..b - 1, b * q + r = b * p + s
  PROVE  r = s
<1>1. ASSUME NEW x \in Int, NEW y \in Int, x < y PROVE b * x + b <= b * y
  <2>1. b * (y - x) >= b BY <1>1
  <2>2. b * (y - x) = b * y - b * x OBVIOUS
  <2> QED BY <2>1, <2>2
<1>2. CASE q = p BY <1>2
<1>3. CASE q < p
  <2>1. b * q + b <= b * p BY <1>1, <1>3
  <2> QED BY <2>1
<1>4. CASE p < q
  <2>1. b * p + b <= b * q BY <1>1, <1>4
  <2> QED BY <2>1
<1> QED BY <1>2, <1>3, <1>4

LEMMA ModStep ==
  ASSUME NEW n \in Nat, NEW b \in Nat \ {0}, b <= n
  PROVE  n % b = (n - b) % b
<1> DEFINE q == n \div b
           p == (n - b) \div b
<1>1. n = b * q + (n % b) /\ q \in Int OBVIOUS
<1>2. n - b = b * p + ((n - b) % b) /\ p \in Int OBVIOUS
<1>3. n % b \in 0..b - 1 /\ (n - b) % b \in 0..b - 1 BY ModRange
<1> HIDE DEF q, p
<1>4. b * (p + 1) = b * p + b BY <1>2
<1>5. b * q + (n % b) = b * (p + 1) + ((n - b) % b) BY <1>1, <1>2, <1>3, <1>4
<1> DEFINE r == n % b
           s == (n - b) % b
<1>6. r \in 0..b - 1 /\ s \in 0..b - 1 /\ b * q + r = b * (p + 1) + s BY <1>3, <1>5
<1>7. p + 1 \in Int BY <1>2
<1> HIDE DEF r, s
<1>8. r = s BY <1>1, <1>6, <1>7, RemainderUnique
<1> QED BY <1>8 DEF r, s

(***************************************************************************)
(* Copies                                                                  *)
(***************************************************************************)
\* Where in the last `offset` bytes the i-th byte of a copy is.
Turn(i, offset) == (i - 1) % offset

LEMMA Turns ==
  ASSUME NEW i \in Nat \ {0}, NEW offset \in Nat \ {0}
  PROVE  /\ Turn(i, offset) \in 0..offset - 1
         /\ i <= offset => Turn(i, offset) = i - 1
         /\ offset < i => Turn(i, offset) = Turn(i - offset, offset)
<1> DEFINE k == i - 1
<1>1. k \in Nat /\ Turn(i, offset) = k % offset BY DEF Turn
<1>2. (i - offset) - 1 = k - offset OBVIOUS
<1>3. Turn(i - offset, offset) = (k - offset) % offset BY <1>2 DEF Turn
<1>4. i <= offset => k < offset OBVIOUS
<1>5. offset < i => offset <= k OBVIOUS
<1>6. i <= offset => k % offset = i - 1
  <2> HIDE DEF k
  <2>1. i <= offset => k % offset = k BY <1>1, <1>4, ModSmall
  <2> QED BY <2>1 DEF k
<1> HIDE DEF k
<1>7. k % offset \in 0..offset - 1 BY <1>1, ModRange
<1>8. offset < i => k % offset = (k - offset) % offset BY <1>1, <1>5, ModStep
<1> QED BY <1>1, <1>3, <1>6, <1>7, <1>8

\* What is copied is as long as the copy, also where it runs into itself: the
\* bytes behind the offset, over and over.
LEMMA CopiedIs ==
  ASSUME NEW offset \in 1..Len(out), NEW length \in Nat \ {0}, NEW S, out \in Seq(S)
  PROVE  /\ Copied(offset, length) \in Seq(S)
         /\ Len(Copied(offset, length)) = length
         /\ \A i \in 1..length :
              Copied(offset, length)[i] = out[Len(out) - offset + Turn(i, offset) + 1]
<1> DEFINE n == Len(out)
           target == n - offset
           end == IF target + length < n THEN target + length ELSE n
           buf == SubSeq(out, target + 1, end)
<1>1. n \in Nat /\ target \in 0..n - 1 /\ end \in target + 1..n BY LenProperties
<1>2. /\ buf \in Seq(S) /\ Len(buf) = end - target
      /\ \A i \in 1..end - target : buf[i] = out[target + i]
  <2> HIDE DEF end, target
  <2>1. target + 1 \in Int /\ end \in Int /\ target + 1 <= end BY <1>1
  <2>2. \A i \in target + 1..end : out[i] \in S
    <3> TAKE i \in target + 1..end
    <3>1. i \in 1..n BY <1>1
    <3> QED BY <3>1, ElementOfSeq
  <2>3. /\ buf \in Seq(S)
        /\ Len(buf) = IF target + 1 <= end THEN end - (target + 1) + 1 ELSE 0
        /\ \A i \in 1..end - (target + 1) + 1 : buf[i] = out[target + 1 + i - 1]
    BY <2>1, <2>2, SubSeqProperties
  <2> HIDE DEF buf
  <2>4. ASSUME NEW i \in 1..end - target PROVE buf[i] = out[target + i]
    <3>1. /\ i \in 1..end - (target + 1) + 1
          /\ target + 1 + i - 1 = target + i
      BY <1>1
    <3> QED BY <2>3, <3>1
  <2>5. end - (target + 1) + 1 = end - target BY <1>1
  <2> QED BY <2>1, <2>3, <2>4, <2>5
<1>3. Slice(offset, length) = buf BY DEF Slice
<1>4. CASE offset - length <= 0
  <2> DEFINE rep == [i \in 1..length |-> buf[((i - 1) % Len(buf)) + 1]]
  <2>1. Copied(offset, length) = rep BY <1>3, <1>4 DEF Copied
  <2>2. end - target = offset BY <1>1, <1>4
  <2>3. ASSUME NEW i \in 1..length
        PROVE  Turn(i, offset) + 1 \in 1..offset
    <3>1. i \in Nat \ {0} /\ offset \in Nat \ {0} BY <1>1
    <3>2. Turn(i, offset) \in 0..offset - 1 BY <3>1, Turns
    <3> QED BY <3>2
  <2>4. ASSUME NEW i \in 1..length
        PROVE  rep[i] = out[target + Turn(i, offset) + 1] /\ rep[i] \in S
    <3> DEFINE j == Turn(i, offset) + 1
    <3>1. j \in 1..offset BY <2>3
    <3>2. rep[i] = buf[j] BY <1>2, <2>2 DEF Turn
    <3>3. target + Turn(i, offset) + 1 = target + j
      <4>1. i \in Nat \ {0} /\ offset \in Nat \ {0} BY <1>1
      <4>2. Turn(i, offset) \in Int BY <4>1, Turns
      <4> QED BY <1>1, <4>2
    <3> HIDE DEF j, rep, buf
    <3>4. buf[j] = out[target + j] /\ buf[j] \in S
      BY <1>2, <2>2, <3>1, ElementOfSeq
    <3> QED BY <3>2, <3>3, <3>4
  <2>5. rep \in [1..length -> S] BY <2>4
  <2>6. rep \in Seq(S) /\ Len(rep) = length BY <2>5, SeqDef
  <2> QED BY <2>1, <2>4, <2>6
<1>5. CASE ~(offset - length <= 0)
  <2>1. Copied(offset, length) = buf BY <1>3, <1>5 DEF Copied
  <2>2. end - target = length BY <1>1, <1>5
  <2>3. ASSUME NEW i \in 1..length PROVE Turn(i, offset) = i - 1
    <3>1. i \in Nat \ {0} /\ offset \in Nat \ {0} /\ i <= offset BY <1>1, <1>5
    <3> QED BY <3>1, Turns
  <2>4. \A i \in 1..length : buf[i] = out[target + Turn(i, offset) + 1]
    <3> SUFFICES ASSUME NEW i \in 1..length
                 PROVE  buf[i] = out[target + Turn(i, offset) + 1]
      OBVIOUS
    <3>1. target + (i - 1) + 1 = target + i BY <1>1
    <3> HIDE DEF target, buf, end
    <3> QED BY <1>2, <2>2, <2>3, <3>1
  <2> HIDE DEF target, buf, end
  <2> QED BY <1>2, <2>1, <2>2, <2>4 DEF target
<1> QED BY <1>1, <1>4, <1>5

Periodic(s, n, offset, length) ==
  \A i \in n + 1 .. n + length : s[i] = s[i - offset]

\* A text that repeats itself after `offset` bytes repeats the last `offset`
\* bytes over and over.
LEMMA Repeats ==
  ASSUME NEW n \in Nat, NEW offset \in 1..n, NEW length \in Nat, NEW s,
         Periodic(s, n, offset, length)
  PROVE  \A i \in 1..length : s[n + i] = s[n - offset + Turn(i, offset) + 1]
<1> DEFINE Good(i) == s[n + i] = s[n - offset + Turn(i, offset) + 1]
           Bad == {i \in 1..length : ~Good(i)}
<1>1. SUFFICES ASSUME Bad # {} PROVE FALSE OBVIOUS
<1>2. PICK i \in Bad : \A j \in Bad : i <= j
  <2>1. Bad \in SUBSET Nat OBVIOUS
  <2> HIDE DEF Bad
  <2> QED BY <1>1, <2>1, Least
<1>3. i \in 1..length /\ ~Good(i) OBVIOUS
<1>4. \A j \in 1..length : j < i => Good(j) BY <1>2, <1>3
<1> HIDE DEF Bad
<1>5. s[n + i] = s[n + (i - offset)]
  <2> DEFINE k == n + i
  <2>1. k \in n + 1..n + length /\ k - offset = n + (i - offset) BY <1>3
  <2> HIDE DEF k
  <2>2. s[k] = s[k - offset] BY <2>1 DEF Periodic
  <2> QED BY <2>1, <2>2 DEF k
<1>6. CASE i <= offset
  <2>1. Turn(i, offset) = i - 1 BY <1>3, <1>6, Turns
  <2>2. n - offset + (i - 1) + 1 = n + (i - offset) BY <1>3
  <2> QED BY <1>3, <1>5, <2>1, <2>2
<1>7. CASE offset < i
  <2>1. i - offset \in 1..length /\ i - offset < i BY <1>3, <1>7
  <2>2. Good(i - offset) BY <1>4, <2>1
  <2>3. Turn(i, offset) = Turn(i - offset, offset) BY <1>3, <1>7, Turns
  <2> QED BY <1>3, <1>5, <2>2, <2>3
<1> QED BY <1>3, <1>6, <1>7

(***************************************************************************)
(* The inductive invariant                                                 *)
(***************************************************************************)
\* The output stands for the first `at` bytes of the text, and is those bytes
\* until a copy is damaged; only a cut leaves the declared length unmet.
IInv ==
  /\ TypeOK
  /\ text \in Texts
  /\ Len(out) = at
  /\ pc = "header" => at = 0 /\ damaged = "no"
  /\ pc = "element" => declared = Len(text) /\ damaged # "cut"
  /\ damaged = "cut" => pc \in Errors
  /\ damaged = "no" => pc \notin Errors /\ \A i \in 1..at : out[i] = text[i]
  /\ damaged = "no" /\ pc = "done" => at = Len(text)

\* A text is a sequence of bytes, of bounded length.
LEMMA TextsAre ==
  ASSUME NEW t
  PROVE  t \in Texts <=> t \in Seq(Bytes) /\ Len(t) \in 0..MaxText
<1>1. MaxText \in Nat BY SnappyConstants
<1>2. ASSUME t \in Texts PROVE t \in Seq(Bytes) /\ Len(t) \in 0..MaxText
  <2>1. PICK n \in 0..MaxText : t \in [1..n -> Bytes] BY <1>2 DEF Texts
  <2>2. t \in Seq(Bytes) BY <1>1, <2>1, SeqDef
  <2> QED BY <1>1, <2>1, <2>2
<1>3. ASSUME t \in Seq(Bytes), Len(t) \in 0..MaxText PROVE t \in Texts
  <2>1. t \in [1..Len(t) -> Bytes] BY <1>3, LenProperties
  <2> QED BY <1>3, <2>1 DEF Texts
<1> QED BY <1>2, <1>3

\* What an element adds: bytes of the text, unless damaged.
Adds(more) ==
  /\ pc = "element"
  /\ at' = at + Len(more) /\ at' <= Len(text)
  /\ out' = out \o more
  /\ UNCHANGED <<text, declared, pc>>
  /\ damaged' \in {damaged, "copy"}
  /\ damaged' = "no" =>
       damaged = "no" /\ \A i \in 1..Len(more) : more[i] = text[at + i]

LEMMA Extends ==
  ASSUME IInv, NEW more \in Seq(Bytes), Adds(more)
  PROVE  IInv'
<1>1. /\ text \in Seq(Bytes) /\ Len(text) \in 0..MaxText /\ MaxText \in Nat
      /\ out \in Seq(Bytes) /\ Len(out) = at /\ at \in Nat
  BY TextsAre, SnappyConstants DEF IInv, TypeOK
<1>0. Len(more) \in Nat /\ at' = at + Len(more) /\ at' \in 0..MaxText /\ at' \in Nat
  <2>1. Len(more) \in Nat BY LenProperties
  <2>2. at' = at + Len(more) /\ at' <= Len(text) BY DEF Adds
  <2> QED BY <1>1, <2>1, <2>2
<1>2. /\ out' \in Seq(Bytes) /\ Len(out') = at'
      /\ \A i \in 1..at' : out'[i] = IF i <= at THEN out[i] ELSE more[i - at]
  <2>1. /\ out' \in Seq(Bytes) /\ Len(out') = at + Len(more)
        /\ \A i \in 1..at + Len(more) : out'[i] = IF i <= at THEN out[i] ELSE more[i - at]
    <3>1. /\ out \o more \in Seq(Bytes) /\ Len(out \o more) = Len(out) + Len(more)
          /\ \A i \in 1..Len(out) + Len(more) :
               (out \o more)[i] = IF i <= Len(out) THEN out[i] ELSE more[i - Len(out)]
      BY <1>1, ConcatProperties, Zenon
    <3>2. out' = out \o more BY DEF Adds
    <3> QED BY <1>1, <3>1, <3>2, Zenon
  <2> QED BY <1>0, <2>1, Zenon
<1>3. out' \in Texts
  <2>1. Len(out') \in 0..MaxText BY <1>0, <1>2
  <2> QED BY <1>2, <2>1, TextsAre, Zenon
<1>4. TypeOK'
  <2>1. at' \in 0..Len(text') BY <1>0, <1>1 DEF Adds
  <2> QED BY <1>3, <2>1 DEF IInv, TypeOK, Adds
<1>5. damaged' # "cut" /\ pc' = "element" /\ declared' = Len(text') /\ text' \in Texts
  BY DEF IInv, Adds
<1>6. ASSUME damaged' = "no", NEW i \in 1..at' PROVE out'[i] = text'[i]
  <2>1. CASE i <= at
    <3>1. out[i] = text[i] BY <1>0, <1>1, <1>6, <2>1 DEF IInv, Adds
    <3> QED BY <1>2, <2>1, <3>1 DEF Adds
  <2>2. CASE at < i
    <3> DEFINE j == i - at
    <3>1. j \in 1..Len(more) /\ at + j = i /\ j \in Int BY <1>0, <1>1, <2>2
    <3>2. out'[i] = more[j] BY <1>0, <1>1, <1>2, <2>2
    <3> HIDE DEF j
    <3>3. more[j] = text[at + j] BY <1>6, <3>1 DEF Adds
    <3> QED BY <3>1, <3>2, <3>3 DEF Adds
  <2> QED BY <1>0, <1>1, <2>1, <2>2
<1> QED BY <1>2, <1>4, <1>5, <1>6 DEF IInv, Errors

\* An exception keeps the invariant, if there was damage.
LEMMA Raises ==
  ASSUME IInv, NEW error \in Errors, Raise(error), damaged' \in {"cut", "copy"}
  PROVE  IInv'
BY DEF IInv, TypeOK, Raise, Errors

LEMMA LiteralKeeps ==
  ASSUME IInv, NEW n \in 1..MaxText, Literal(n)
  PROVE  IInv'
<1> DEFINE more == SubSeq(text, at + 1, at + n)
<1>1. /\ text \in Seq(Bytes) /\ at \in Nat /\ n \in Nat /\ at + n <= Len(text)
      /\ Len(text) \in Nat
  BY TextsAre, SnappyConstants, LenProperties DEF IInv, TypeOK, Literal
<1>2. /\ more \in Seq(Bytes) /\ Len(more) = n
      /\ \A i \in 1..n : more[i] = text[at + i]
  BY <1>1, SubSeqProperties
<1>3. Adds(more) BY <1>2 DEF Literal, Adds
<1> HIDE DEF more
<1> QED BY <1>2, <1>3, Extends

\* A copy that is refused was damaged; one that is not adds `length` bytes.
LEMMA CopyKeeps ==
  ASSUME IInv, pc = "element", NEW offset \in Nat, NEW length \in Nat \ {0},
         at + length <= Len(text), ReadCopy(offset, length),
         \/ Matches(offset, length) /\ damaged' = damaged
         \/ damaged' = "copy"
  PROVE  IInv'
<1>1. /\ text \in Seq(Bytes) /\ Len(text) \in Nat
      /\ out \in Seq(Bytes) /\ Len(out) = at /\ at \in Nat
  BY TextsAre, SnappyConstants, LenProperties DEF IInv, TypeOK
<1>2. CASE offset = 0 \/ Len(out) - offset < 0
  <2>1. damaged' = "copy" BY <1>1, <1>2 DEF Matches
  <2>2. Raise("SnappyError") BY <1>2 DEF ReadCopy
  <2> QED BY <2>1, <2>2, Raises DEF Errors
<1>3. CASE ~(offset = 0 \/ Len(out) - offset < 0)
  <2> DEFINE more == Copied(offset, length)
  <2>1. offset \in 1..at /\ offset \in 1..Len(out) BY <1>1, <1>3
  <2>2. /\ more \in Seq(Bytes) /\ Len(more) = length
        /\ \A i \in 1..length : more[i] = out[Len(out) - offset + Turn(i, offset) + 1]
    BY <1>1, <2>1, CopiedIs
  <2>3. /\ at' = at + length /\ out' = out \o more
        /\ UNCHANGED <<text, declared, pc>>
    BY <1>3 DEF ReadCopy
  <2> HIDE DEF more
  <2>4. ASSUME damaged' = "no"
        PROVE  damaged = "no" /\ \A i \in 1..length : more[i] = text[at + i]
    <3>1. Matches(offset, length) /\ damaged = "no" BY <2>4
    <3>2. Periodic(text, at, offset, length) BY <3>1 DEF Matches, Periodic
    <3>3. length \in Nat OBVIOUS
    <3>4. \A i \in 1..length : text[at + i] = text[at - offset + Turn(i, offset) + 1]
      BY <1>1, <2>1, <3>2, <3>3, Repeats
    <3> SUFFICES ASSUME NEW i \in 1..length PROVE more[i] = text[at + i]
      BY <3>1
    <3> DEFINE j == at - offset + Turn(i, offset) + 1
    <3>5. j \in 1..at
      <4>1. i \in Nat \ {0} /\ offset \in Nat \ {0} BY <1>1, <2>1
      <4>2. Turn(i, offset) \in 0..offset - 1 BY <4>1, Turns
      <4> QED BY <1>1, <2>1, <4>2
    <3>6. more[i] = out[j] /\ text[at + i] = text[j] BY <1>1, <2>2, <3>4
    <3> HIDE DEF j
    <3>7. out[j] = text[j] BY <3>1, <3>5 DEF IInv
    <3> QED BY <3>6, <3>7
  <2>5. Adds(more) BY <2>2, <2>3, <2>4 DEF Adds
  <2> QED BY <2>2, <2>5, Extends
<1> QED BY <1>2, <1>3

LEMMA Inductive ==
  ASSUME IInv, [Next]_vars
  PROVE  IInv'
<1>1. /\ text \in Seq(Bytes) /\ Len(text) \in 0..MaxText /\ MaxText \in Nat
      /\ Len(out) = at /\ at \in 0..Len(text)
  BY TextsAre, SnappyConstants DEF IInv, TypeOK
<1>2. ASSUME NEW error \in Errors, Raise(error), damaged' = "cut" PROVE IInv'
  BY <1>2, Raises
<1>3. ASSUME NEW bytes PROVE ShortRead(bytes) \in Errors BY DEF ShortRead, Errors
<1>4. CASE ReadHeader
  <2>1. CASE damaged' = "cut" /\ Raise("SnappyError") BY <1>2, <2>1 DEF Errors
  <2>2. CASE /\ declared' = Len(text) /\ pc' = "element"
             /\ UNCHANGED <<text, at, damaged, out>>
    BY <1>1, <1>4, <2>2 DEF ReadHeader, IInv, TypeOK, Errors
  <2> QED BY <1>4, <2>1, <2>2 DEF ReadHeader
<1>5. CASE Read
  <2>1. CASE \E n \in 1..MaxText : Literal(n) BY <2>1, LiteralKeeps
  <2>2. CASE \E form \in CopyForms : \E length \in Lengths(form) \cap (1..MaxText) :
               \E offset \in 1..at : Copy(offset, length)
    <3>1. PICK length \in 1..MaxText, offset \in 1..at : Copy(offset, length)
      BY <2>2
    <3>2. offset \in Nat /\ length \in Nat \ {0} BY <1>1
    <3>3. /\ pc = "element" /\ at + length <= Len(text) /\ ReadCopy(offset, length)
          /\ Matches(offset, length) /\ damaged' = damaged
      BY <3>1 DEF Copy, Matches
    <3> QED BY <3>2, <3>3, CopyKeeps
  <2> QED BY <1>5, <2>1, <2>2 DEF Read
<1>6. CASE Damage
  <2>1. CASE LiteralCut BY <1>2, <1>3, <2>1 DEF LiteralCut, Errors
  <2>2. CASE CopyCut BY <1>2, <1>3, <2>2 DEF CopyCut
  <2>3. CASE \E form \in CopyForms : \E length \in Lengths(form) \cap (1..MaxText) :
               \E offset \in 0..MaxOffset : CopyDamaged(offset, length)
    <3>1. PICK length \in 1..MaxText, offset \in 0..MaxOffset :
            CopyDamaged(offset, length)
      BY <2>3
    <3>2. offset \in Nat /\ length \in Nat \ {0} BY <1>1, SnappyConstants
    <3>3. /\ pc = "element" /\ at + length <= Len(text) /\ ReadCopy(offset, length)
          /\ damaged' = "copy"
      BY <3>1 DEF CopyDamaged
    <3> QED BY <3>2, <3>3, CopyKeeps
  <2> QED BY <1>6, <2>1, <2>2, <2>3 DEF Damage
<1>7. CASE End
  BY <1>1, <1>7 DEF End, Result, IInv, TypeOK, Errors
<1>8. CASE UNCHANGED vars BY <1>8 DEF vars, IInv, TypeOK
<1> QED BY <1>4, <1>5, <1>6, <1>7, <1>8 DEF Next

LEMMA Initially == Init => IInv
<1> SUFFICES ASSUME Init PROVE IInv OBVIOUS
<1>1. <<>> \in Seq(Bytes) /\ Len(<<>>) = 0 BY EmptySeq
<1>2. <<>> \in Texts
  <2>1. Len(<<>>) \in 0..MaxText BY <1>1, SnappyConstants
  <2> QED BY <1>1, <2>1, TextsAre, Zenon
<1>3. Len(text) \in Nat BY TextsAre, SnappyConstants, LenProperties DEF Init
<1> QED BY <1>1, <1>2, <1>3, SnappyConstants DEF Init, IInv, TypeOK, Errors

LEMMA Invariant == Spec => []IInv
<1>1. IInv /\ [Next]_vars => IInv' BY Inductive
<1> QED BY Initially, <1>1, PTL DEF Spec

(***************************************************************************)
(* What decompress promises                                                *)
(***************************************************************************)
\* The output is a string of bytes no longer than the longest text, and
\* decompress ends with a result or with one of three exceptions, for any
\* bytes, lengths and offsets.
THEOREM TypeCorrect == Spec => []TypeOK
<1>1. IInv => TypeOK BY DEF IInv
<1> QED BY <1>1, Invariant, PTL

\* A compressed block that was neither cut nor damaged gives the text back,
\* and no exception, whatever literals and copies the compressor chose: also
\* where a copy of `length` bytes begins fewer than `length` bytes before the
\* end of the output, so that decompress repeats what is there.
THEOREM RoundTripHolds == Spec => []RoundTrip
<1>1. IInv => RoundTrip
  <2> SUFFICES ASSUME IInv, damaged = "no"
               PROVE  /\ pc \notin Errors
                      /\ out = SubSeq(text, 1, at)
                      /\ pc = "done" => out = text
    BY DEF RoundTrip
  <2>1. /\ text \in Seq(Bytes) /\ at \in 0..Len(text) /\ Len(text) \in Nat
        /\ out \in Seq(Bytes) /\ Len(out) = at
        /\ \A i \in 1..at : out[i] = text[i]
    BY TextsAre, LenProperties DEF IInv, TypeOK
  <2>2. out = SubSeq(text, 1, at)
    <3> DEFINE piece == SubSeq(text, 1, at)
    <3>1. /\ piece \in Seq(Bytes) /\ Len(piece) = at
          /\ \A i \in 1..at : piece[i] = text[i]
      BY <2>1, SubSeqProperties
    <3> HIDE DEF piece
    <3>2. out = piece BY <2>1, <3>1, SeqEqual
    <3> QED BY <3>2 DEF piece
  <2>3. pc = "done" => out = text
    <3>1. pc = "done" => Len(out) = Len(text) BY <2>1 DEF IInv
    <3> QED BY <2>1, <3>1, SeqEqual
  <2> QED BY <2>2, <2>3 DEF IInv
<1> QED BY <1>1, Invariant, PTL

\* A block that lost its end, in the header, in the length or the bytes of an
\* element or between two elements, is never decompressed to a result: each
\* read that comes up short raises, and what the elements before the cut gave
\* is shorter than the declared length.
THEOREM CutNoticed == Spec => []CutDetected
<1>1. IInv => CutDetected BY DEF IInv, CutDetected, Errors
<1> QED BY <1>1, Invariant, PTL
=============================================================================
