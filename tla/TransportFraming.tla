-------------------------- MODULE TransportFraming --------------------------
(***************************************************************************)
(* The two views of the child's messages that the transport rests on:      *)
(* TsgoTransport cuts a message into units and gives the outcomes of       *)
(* decoding some of them; MessageFraming encodes and decodes bytes.  Here  *)
(* the first is compared with the second.                                  *)
(***************************************************************************)
EXTENDS TsgoTransport

CONSTANT Samples   \* <<m, after>>: messages [type, method, payload] that the child
                   \* may send one after the other

F == INSTANCE MessageFraming

\* What the child writes as a method or a payload: it begins with an ASCII character,
\* as names and JSON texts do, and if it is not UTF-8, then at least without the
\* bytes that the type of a message is written as.  It is shorter than 2^31 bytes.
Content(b) ==
  /\ b \in Seq(F!Byte) /\ Len(b) \div F!TwoBytes < 128 * 256
  /\ b # <<>> => b[1] \in 9 .. 127
  /\ F!IsUtf8(b) \/ \A i \in 2 .. Len(b) : b[i - 1] = F!U8 => b[i] \notin F!MessageType

Frame ==
  [type : F!MessageType, method : Seq(F!Byte), payload : Seq(F!Byte)]

ASSUME SamplesAssumption ==
  \A pair \in Samples :
    /\ pair \in Frame \X Frame
    /\ \A i \in 1 .. 2 : /\ Content(pair[i].method) /\ F!IsUtf8(pair[i].method)
                         /\ Content(pair[i].payload)

TypeOf(m) == CASE m.type = 4 -> "Response" [] m.type = 5 -> "Error"
               [] m.type = 6 -> "Call"     [] m.type \in 1 .. 3 -> "Other"

FormOf(m) == IF ~F!IsUtf8(m.payload) THEN "raw"
             ELSE IF m.payload = <<>> \/ F!IsJson(m.payload) THEN "json" ELSE "text"

\* A message m in two units, of which the first ends where it pleases.
UnitOf(m, at) ==
  [msg |-> [type |-> TypeOf(m), form |-> FormOf(m), of |-> 1,
            method |-> NoMethod, len |-> 2], at |-> at]

\* The errors that read_message returns are one outcome of decode.
Outcomes(units) ==
  {IF v \in {"partial", "garbage"} THEN "failed" ELSE v : v \in Decode(units)}

\* decode does to the bytes what TsgoTransport says it does to the units: any
\* part of one message and of what follows it, from the first byte of a message
\* or from its middle, has an outcome the units have; a complete message is
\* decoded to itself, whatever follows; and what is retried once is retried for
\* ever.  Stated once, of the state in which nothing has been read.
DecodeAsModelled ==
  Init =>
    \A pair \in Samples :
      LET m == pair[1]
          after == pair[2]
          size  == Len(F!Encode(m))
          bytes == F!Encode(m) \o F!Encode(after)
          Kind(s, e) == F!Decode(SubSeq(bytes, s, e)).kind
      IN
      /\ \A e \in 1 .. size - 1 : Kind(1, e) \in Outcomes(<<UnitOf(m, 1)>>)
      /\ \A e \in size .. Len(bytes) :
           /\ Kind(1, e) \in Outcomes(<<UnitOf(m, 1), UnitOf(m, 2)>>)
           /\ Kind(1, e) = "ok" => F!Decode(SubSeq(bytes, 1, e)).msg = m
      /\ \A s \in 2 .. size : \A e \in s .. Len(bytes) :
           /\ Kind(s, e) \in Outcomes(<<UnitOf(m, 2)>>)
           /\ Kind(s, e) = "retry" /\ e < Len(bytes) => Kind(s, e + 1) = "retry"
=============================================================================
