-------------------------------- MODULE Varints --------------------------------
(***************************************************************************)
(* Byte strings and the variable-length numbers in them, as all readers of *)
(* chromium_reader take them: leveldb._read_le_varint and the _read_varint *)
(* of _blink_deserializer and _v8_deserializer.  A byte string is a        *)
(* sequence of 0..255.                                                     *)
(***************************************************************************)
EXTENDS Integers, Sequences

Byte == 0..255

Drop(s, n) == SubSeq(s, n + 1, Len(s))

\* Numbers whose varint takes a byte or two, and that varint.
TwoByte == 0..16383
EncodeVarint(n) == IF n < 128 THEN <<n>> ELSE <<128 + (n % 128), n \div 128>>

\* The bytes that the varint at the head of s takes, 0 if it does not end
\* within cap bytes: at the end of s, or because it is too long.
VarintLen(s, cap) ==
  LET ends == {i \in DOMAIN s : i <= cap /\ s[i] < 128}
  IN  IF ends = {} THEN 0 ELSE CHOOSE i \in ends : \A j \in ends : i <= j

\* seven bits of each byte, the lowest first
VarintValue(s, cap) ==
  LET n == VarintLen(s, cap)
      value[i \in 1..n + 1] ==
        IF i > n THEN 0 ELSE (s[i] % 128) + 128 * value[i + 1]
  IN  value[1]
=============================================================================
