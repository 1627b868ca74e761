-------------------------------- MODULE Snappy --------------------------------
(***************************************************************************)
(* chromium_reader._snappy.decompress, one element at a time.              *)
(*                                                                         *)
(* The environment is a compressor with a text: it emits a literal for any *)
(* piece of what is left, or a copy wherever the text repeats itself, also *)
(* from bytes of the copy itself.  What it wrote may have been cut, or a   *)
(* copy of it damaged.  Little-endian numbers are read as what they        *)
(* encode; an element is known by its tag and the bytes after the tag.     *)
(***************************************************************************)
EXTENDS Integers, Sequences

CONSTANTS
  Bytes,        (* bytes of a text                                         *)
  MaxText,      (* bound: length of a text                                 *)
  MaxOffset     (* bound: offset in a damaged copy                         *)

ASSUME SnappyConstants == MaxText \in Nat /\ MaxOffset \in Nat

VARIABLES
  text,         (* what was compressed                                     *)
  at,           (* how much of it the elements read so far stand for       *)
  damaged,      (* "no", or how the compressed block was                   *)
  declared,     (* declared_length                                         *)
  out,          (* the output                                              *)
  pc            (* "header", "element", "done", or the exception raised    *)

vars == <<text, at, damaged, declared, out, pc>>

Errors == {"SnappyError", "IndexError", "struct.error"}

Texts == UNION {[1..n -> Bytes] : n \in 0..MaxText}

Init ==
  /\ text \in Texts
  /\ at = 0 /\ damaged = "no" /\ declared = 0 /\ out = <<>> /\ pc = "header"

Raise(error) ==
  /\ pc' = error
  /\ UNCHANGED <<text, at, declared, out>>

\* _read_le_varint; None if the data ends before it does
ReadHeader ==
  /\ pc = "header"
  /\ \/ /\ declared' = Len(text) /\ pc' = "element"
        /\ UNCHANGED <<text, at, damaged, out>>
     \/ damaged' = "cut" /\ Raise("SnappyError")

(***************************************************************************)
(* Literals                                                                *)
(***************************************************************************)
\* the number of bytes that hold the length, after the tag
LiteralForms == 0..4

\* the compressor's: the next n bytes of the text
Literal(n) ==
  /\ pc = "element" /\ at + n <= Len(text)
  /\ at' = at + n
  /\ out' = out \o SubSeq(text, at + 1, at + n)
  /\ UNCHANGED <<text, damaged, declared, pc>>

\* stream.read(1)[0] and struct.unpack find nothing or too little
ShortRead(bytes) == IF bytes = 1 THEN "IndexError" ELSE "struct.error"

\* The data ends in the length of a literal, or in its bytes.
LiteralCut ==
  /\ pc = "element" /\ at < Len(text)
  /\ damaged' = "cut"
  /\ \/ \E form \in LiteralForms \ {0} : Raise(ShortRead(form))
     \/ Raise("SnappyError")

(***************************************************************************)
(* Copies                                                                  *)
(***************************************************************************)
\* the number of bytes that hold the offset, and the lengths the tag can hold
CopyForms == {1, 2, 4}
Lengths(form) == IF form = 1 THEN 4..11 ELSE 1..64

\* bytes(out.getbuffer()[target : target + length])
Slice(offset, length) ==
  LET target == Len(out) - offset
      end == IF target + length < Len(out) THEN target + length ELSE Len(out)
  IN  SubSeq(out, target + 1, end)

\* Mutant: a copy that ends where the output ends, or beyond, is not repeated.
CopiedShort(offset, length) == Slice(offset, length)

\* Mutant: what is repeated is not cut at the length of the copy.
CopiedUncut(offset, length) ==
  LET buf == Slice(offset, length)
  IN  IF offset - length <= 0
      THEN [i \in 1..length * Len(buf) |-> buf[((i - 1) % Len(buf)) + 1]]
      ELSE buf

\* repeated if the copy runs into itself: (buf * length)[:length]
Copied(offset, length) ==
  LET buf == Slice(offset, length)
  IN  IF offset - length <= 0
      THEN [i \in 1..length |-> buf[((i - 1) % Len(buf)) + 1]]
      ELSE buf

\* the compressor's: the text repeats itself for `length` bytes
Matches(offset, length) ==
  /\ offset \in 1..at /\ at + length <= Len(text)
  /\ \A i \in at + 1 .. at + length : text[i] = text[i - offset]

\* an offset of zero and one beyond the output are refused
ReadCopy(offset, length) ==
  IF offset = 0 \/ Len(out) - offset < 0
  THEN Raise("SnappyError")
  ELSE /\ at' = at + length
       /\ out' = out \o Copied(offset, length)
       /\ UNCHANGED <<text, declared, pc>>

Copy(offset, length) ==
  /\ pc = "element" /\ Matches(offset, length)
  /\ ReadCopy(offset, length)
  /\ UNCHANGED damaged

\* A copy of which the offset is any number.
CopyDamaged(offset, length) ==
  /\ pc = "element" /\ at + length <= Len(text) /\ ~Matches(offset, length)
  /\ ReadCopy(offset, length)
  /\ damaged' = "copy"

CopyCut ==
  /\ pc = "element" /\ at < Len(text)
  /\ damaged' = "cut"
  /\ \E form \in CopyForms : Raise(ShortRead(form))

(***************************************************************************)
(* The end of the data                                                     *)
(***************************************************************************)
\* Mutant: the declared length is not compared with that of the output.
ResultUnchecked == "done"

Result == IF declared = Len(out) THEN "done" ELSE "SnappyError"

\* Cut between two elements, or at the end of what was compressed.
End ==
  /\ pc = "element"
  /\ pc' = Result
  /\ damaged' = IF at < Len(text) THEN "cut" ELSE damaged
  /\ UNCHANGED <<text, at, declared, out>>

(***************************************************************************)
(* Specification                                                           *)
(***************************************************************************)
Read ==
  \/ \E n \in 1..MaxText : Literal(n)
  \/ \E form \in CopyForms : \E length \in Lengths(form) \cap (1..MaxText) :
       \E offset \in 1..at : Copy(offset, length)

Damage ==
  \/ LiteralCut
  \/ CopyCut
  \/ \E form \in CopyForms : \E length \in Lengths(form) \cap (1..MaxText) :
       \E offset \in 0..MaxOffset : CopyDamaged(offset, length)

Next == ReadHeader \/ Read \/ Damage \/ End

Spec == Init /\ [][Next]_vars

(***************************************************************************)
(* Properties                                                              *)
(***************************************************************************)
\* Every variable has its type; the output never outgrows the longest text.
TypeOK ==
  /\ damaged \in {"no", "cut", "copy"} /\ declared \in 0..MaxText
  /\ at \in 0..Len(text) /\ out \in Texts
  /\ pc \in {"header", "element", "done"} \cup Errors

\* Whatever elements the compressor chose, overlapping copies among them, the
\* output is the text.
RoundTrip ==
  damaged = "no" =>
    /\ pc \notin Errors
    /\ out = SubSeq(text, 1, at)
    /\ pc = "done" => out = text

\* A block of which the end is lost is never taken for a whole one.
CutDetected == damaged = "cut" => pc # "done"
=============================================================================
