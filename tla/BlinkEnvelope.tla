----------------------------- MODULE BlinkEnvelope -----------------------------
(***************************************************************************)
(* chromium_reader._blink_deserializer: the header Blink puts before the   *)
(* V8 payload.  What V8 makes of the bytes behind its own header is        *)
(* V8Deserializer's matter: here it is ReadValue, which gives the outcome  *)
(* "value", with the value, or the exception.                              *)
(***************************************************************************)
EXTENDS Varints

CONSTANT ReadValue(_)  (* what read_value makes of bytes                    *)

HEADER_TAG == 255

Outcome(kind, value) == [kind |-> kind, value |-> value]
Raised(exception) == Outcome(exception, "none")

\* Mutant: the header is not put back when it is V8's.
AfterBlinkHeaderEager(data) ==
  LET n == VarintLen(Tail(data), 10)
  IN  IF Head(data) # HEADER_TAG THEN data ELSE Drop(data, 1 + n)

\* _read_blink_header: the bytes left for V8.  A version below 17 is V8's own
\* header, and the stream goes back to it.
AfterBlinkHeader(data) ==
  LET n == VarintLen(Tail(data), 10)
  IN  IF Head(data) # HEADER_TAG \/ VarintValue(Tail(data), 10) < 17
      THEN data
      ELSE Drop(data, 1 + n)

BlinkHeaderBroken(data) ==
  data = <<>> \/ (Head(data) = HEADER_TAG /\ VarintLen(Tail(data), 10) = 0)

\* Deserializer.read_header
V8HeaderBroken(data) ==
  \/ data = <<>> \/ Head(data) # HEADER_TAG
  \/ VarintLen(Tail(data), 10) = 0 \/ VarintValue(Tail(data), 10) < 13

Deserialize(data) ==
  IF BlinkHeaderBroken(data) THEN Raised("BlinkError")
  ELSE LET v8 == AfterBlinkHeader(data)
       IN  IF V8HeaderBroken(v8) THEN Raised("V8Error")
           ELSE ReadValue(Drop(v8, 1 + VarintLen(Tail(v8), 10)))
=============================================================================
