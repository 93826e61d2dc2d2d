--------------------------- MODULE MessageFraming ----------------------------
(***************************************************************************)
(* ProtocolMessage::encode and decode of tsgo-transport/src/transport.rs,  *)
(* byte by byte: a MessagePack array of three elements, the type as uint8, *)
(* and the method and the JSON text of the payload as binary data.  The    *)
(* readers and writers are those of the rmp crate.  Of JSON texts only     *)
(* strings without escapes and numbers without fraction are told apart.    *)
(***************************************************************************)
EXTENDS Integers, Sequences

Byte == 0 .. 255
TwoBytes == 65536   \* integers of two bytes

FixArray == 144 .. 159
FixArray3 == 147
Array16 == 220
Array32 == 221
U8 == 204
Bin8 == 196
Bin16 == 197
Bin32 == 198
MessageType == 1 .. 6

\* A value and the position after it, or nothing.
Fail == [read |-> FALSE]
Field(value, next) == [read |-> TRUE, value |-> value, next |-> next]

\* String::from_utf8: the bytes 128 .. 191 follow the first of a character, as many
\* as it says, without longer forms than needed, surrogates and what is beyond U+10FFFF.
IsUtf8(b) ==
  LET In(i, S) == i \in DOMAIN b /\ b[i] \in S IN
  /\ \A i \in DOMAIN b : b[i] \in 0 .. 191 \cup 194 .. 244
  /\ \A i \in 1 .. Len(b) + 3 :
       In(i, 128 .. 191) <=> \/ In(i - 1, 194 .. 244)
                             \/ In(i - 2, 224 .. 244)
                             \/ In(i - 3, 240 .. 244)
  /\ \A i \in DOMAIN b : /\ b[i] = 224 => b[i + 1] >= 160
                         /\ b[i] = 237 => b[i + 1] < 160
                         /\ b[i] = 240 => b[i + 1] >= 144
                         /\ b[i] = 244 => b[i + 1] < 144

Quote == 34
Backslash == 92
IsJson(b) ==
  \/ b # <<>> /\ \A i \in DOMAIN b : b[i] \in 48 .. 57
  \/ /\ Len(b) > 1 /\ b[1] = Quote /\ b[Len(b)] = Quote
     /\ \A i \in 2 .. Len(b) - 1 : b[i] > 31 /\ b[i] \notin {Quote, Backslash}

-----------------------------------------------------------------------------
(* encode.                                                                 *)

\* Integers of n bytes are big-endian.
BigEndian(v, n) ==
  LET Two(w) == <<w \div 256, w % 256>> IN
  CASE n = 1 -> <<v>> [] n = 2 -> Two(v)
    [] n = 4 -> Two(v \div TwoBytes) \o Two(v % TwoBytes)

\* The shortest of the three forms that holds the length.
WriteBin(bytes) ==
  LET n == Len(bytes)
      head == CASE n < 256 -> <<Bin8>> \o BigEndian(n, 1)
                [] n \in 256 .. TwoBytes - 1 -> <<Bin16>> \o BigEndian(n, 2)
                [] n >= TwoBytes -> <<Bin32>> \o BigEndian(n, 4)
  IN head \o bytes

\* Changed: the type is written as the shortest integer.
EncodeShortest(m) ==
  <<FixArray3, m.type>> \o WriteBin(m.method) \o WriteBin(m.payload)

Encode(m) ==
  <<FixArray3, U8, m.type>> \o WriteBin(m.method) \o WriteBin(m.payload)

-----------------------------------------------------------------------------
(* decode: an error of a reader is returned ("failed"), as is one of the   *)
(* JSON parser ("json"); read_message reads on after the others ("retry"). *)

ValueOf(b, at, n) ==
  LET Two(i) == 256 * b[i] + b[i + 1] IN
  CASE n = 1 -> b[at] [] n = 2 -> Two(at) [] n = 4 -> TwoBytes * Two(at) + Two(at + 2)

ReadInt(b, at, n) ==
  IF at + n - 1 > Len(b) THEN Fail
  ELSE Field(ValueOf(b, at, n), at + n)

ReadArrayLen(b) ==
  CASE b = <<>> -> Fail
    [] b # <<>> /\ b[1] \in FixArray -> Field(b[1] - 144, 2)
    [] b # <<>> /\ b[1] = Array16 -> ReadInt(b, 2, 2)
    [] b # <<>> /\ b[1] = Array32 -> ReadInt(b, 2, 4)
    [] b # <<>> /\ b[1] \notin FixArray \cup {Array16, Array32} -> Fail

ReadU8(b, at) ==
  IF at \in DOMAIN b /\ b[at] = U8 THEN ReadInt(b, at + 1, 1) ELSE Fail

ReadBinLen(b, at) ==
  IF at \notin DOMAIN b THEN Fail
  ELSE CASE b[at] = Bin8  -> ReadInt(b, at + 1, 1)
         [] b[at] = Bin16 -> ReadInt(b, at + 1, 2)
         [] b[at] = Bin32 -> ReadInt(b, at + 1, 4)
         [] b[at] \notin {Bin8, Bin16, Bin32} -> Fail

\* read_bin_len and read_exact.
ReadBin(b, at) ==
  LET len == ReadBinLen(b, at)
      end == len.next + len.value
  IN IF ~len.read \/ end - 1 > Len(b) THEN Fail
     ELSE Field(SubSeq(b, len.next, end - 1), end)

Error(kind) == [kind |-> kind]

Decode(b) ==
  LET length  == ReadArrayLen(b)
      type    == ReadU8(b, length.next)
      method  == ReadBin(b, type.next)
      payload == ReadBin(b, method.next)
  IN IF ~length.read THEN Error("failed")
     ELSE IF length.value # 3 THEN Error("retry")
     ELSE IF ~type.read THEN Error("failed")
     ELSE IF type.value \notin MessageType THEN Error("retry")
     ELSE IF ~method.read THEN Error("failed")
     ELSE IF ~IsUtf8(method.value) THEN Error("retry")
     ELSE IF ~payload.read THEN Error("failed")
     ELSE IF ~IsUtf8(payload.value) THEN Error("retry")
     ELSE IF payload.value # <<>> /\ ~IsJson(payload.value) THEN Error("json")
     ELSE [kind |-> "ok",
           msg |-> [type |-> type.value, method |-> method.value,
                    payload |-> payload.value]]
=============================================================================
