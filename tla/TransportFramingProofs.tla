----------------------- MODULE TransportFramingProofs ------------------------
(***************************************************************************)
(* What TransportFraming says of the two views of the child's messages,    *)
(* for every pair of messages the child may send: methods and payloads of  *)
(* any length, in any of the three forms of binary data.                   *)
(***************************************************************************)
EXTENDS TransportFraming, SequenceTheorems, TLAPS

-----------------------------------------------------------------------------
(* Parts of sequences.                                                     *)

\* One sequence behind another.
LEMMA Behind ==
  ASSUME NEW T, NEW a \in Seq(T), NEW b \in Seq(T)
  PROVE  /\ a \o b \in Seq(T) /\ Len(a) \in Nat /\ Len(b) \in Nat
         /\ Len(a \o b) = Len(a) + Len(b)
         /\ \A i \in 1 .. Len(a) : (a \o b)[i] = a[i]
         /\ \A i \in 1 .. Len(b) : (a \o b)[Len(a) + i] = b[i]
  <1>1. /\ a \o b \in Seq(T) /\ Len(a) \in Nat /\ Len(b) \in Nat
        /\ Len(a \o b) = Len(a) + Len(b)
        /\ \A i \in 1 .. Len(a) + Len(b) :
             (a \o b)[i] = IF i <= Len(a) THEN a[i] ELSE b[i - Len(a)]
    BY ConcatProperties, LenProperties
  <1>2. ASSUME NEW i \in 1 .. Len(b) PROVE (a \o b)[Len(a) + i] = b[i]
    <2>1. Len(a) + i \in 1 .. Len(a) + Len(b) /\ ~ Len(a) + i <= Len(a)
          /\ (Len(a) + i) - Len(a) = i
      BY <1>1
    <2> QED
      BY <1>1, <2>1
  <1>3. ASSUME NEW i \in 1 .. Len(a) PROVE (a \o b)[i] = a[i]
    <2>1. i \in 1 .. Len(a) + Len(b) /\ i <= Len(a)
      BY <1>1
    <2> QED
      BY <1>1, <2>1
  <1> QED
    BY <1>1, <1>2, <1>3

\* A run of a sequence.
LEMMA Run ==
  ASSUME NEW T, NEW b \in Seq(T), NEW s \in Nat \ {0}, NEW e \in Nat, s - 1 <= e, e <= Len(b)
  PROVE  /\ SubSeq(b, s, e) \in Seq(T) /\ Len(SubSeq(b, s, e)) = e - s + 1
         /\ \A i \in 1 .. e - s + 1 : SubSeq(b, s, e)[i] = b[s + i - 1]
  <1>1. Len(b) \in Nat /\ \A i \in 1 .. Len(b) : b[i] \in T
    BY LenProperties, ElementOfSeq
  <1>2. \A i \in s .. e : b[i] \in T
    BY <1>1
  <1>3. s \in Int /\ e \in Int /\ (~ s <= e => e - s + 1 = 0)
    OBVIOUS
  <1> QED
    BY <1>2, <1>3, SubSeqProperties

-----------------------------------------------------------------------------
(* What is written.                                                        *)

\* The marker in a head of so many bytes.
Marker(head) ==
  IF head = 2 THEN F!Bin8 ELSE IF head = 3 THEN F!Bin16 ELSE F!Bin32

\* At a position of b, a head and the content behind it.
Written(b, at, head, content) ==
  /\ head \in {2, 3, 5} /\ b[at] = Marker(head)
  /\ F!ValueOf(b, at + 1, head - 1) = Len(content)
  /\ \A i \in 1 .. Len(content) : b[at + head - 1 + i] = content[i]
  /\ head # 2 => content # <<>>
  /\ head = 5 => b[at + 1] \in 0 .. 127

\* A quotient and a remainder.
LEMMA Division ==
  ASSUME NEW n \in Nat, NEW w \in Nat \ {0}
  PROVE  /\ n \div w \in Nat /\ n % w \in Nat /\ n % w < w
         /\ w * (n \div w) + (n % w) = n
  OBVIOUS

\* All that matters of the number.
LEMMA TwoBytesIs ==
  /\ F!TwoBytes \in Nat \ {0}
  /\ F!TwoBytes = 256 * 256
  /\ 256 < F!TwoBytes
  /\ 128 * 256 < F!TwoBytes
  <1> DEFINE w == F!TwoBytes
  <1>1. w = 256 * 256
    BY SMT DEF F!TwoBytes
  <1> HIDE DEF w
  <1>2. w \in Nat \ {0} /\ 256 < w /\ 128 * 256 < w
    BY <1>1, SMT
  <1> QED
    BY <1>1, <1>2 DEF w

\* Integers of two and of four bytes are read as they were written.
LEMMA TwoRead ==
  ASSUME NEW n \in Nat, n < F!TwoBytes
  PROVE  /\ n \div 256 \in 0 .. 255 /\ n % 256 \in 0 .. 255
         /\ 256 * (n \div 256) + (n % 256) = n
  <1> DEFINE hi == n \div 256
             lo == n % 256
  <1>1. hi \in Nat /\ lo \in Nat /\ lo < 256 /\ 256 * hi + lo = n
    <2> DEFINE w == 256
    <2>1. w \in Nat \ {0}
      BY SMT
    <2> HIDE DEF w
    <2>2. n \div w \in Nat /\ n % w \in Nat /\ n % w < w /\ w * (n \div w) + (n % w) = n
      BY <2>1, Division
    <2> QED
      BY <2>2 DEF w
  <1> HIDE DEF hi, lo
  <1>2. hi < 256
    BY <1>1, TwoBytesIs
  <1> QED
    BY <1>1, <1>2 DEF hi, lo

LEMMA FourRead ==
  ASSUME NEW n \in Nat, n \div F!TwoBytes < 128 * 256
  PROVE  /\ n \div F!TwoBytes \in Nat /\ n \div F!TwoBytes < F!TwoBytes
         /\ n % F!TwoBytes \in Nat /\ n % F!TwoBytes < F!TwoBytes
         /\ F!TwoBytes * (n \div F!TwoBytes) + (n % F!TwoBytes) = n
         /\ (n \div F!TwoBytes) \div 256 \in 0 .. 127
  <1> DEFINE up == n \div F!TwoBytes
             low == n % F!TwoBytes
             top == up \div 256
             rest == up % 256
  <1>1. up \in Nat /\ low \in Nat /\ low < F!TwoBytes /\ F!TwoBytes * up + low = n
    BY TwoBytesIs, Division
  <1>2. up < 128 * 256
    OBVIOUS
  <1> HIDE DEF up, low
  <1>3. up < F!TwoBytes
    BY <1>1, <1>2, TwoBytesIs
  <1>4. top \in Nat /\ rest \in Nat /\ rest < 256 /\ 256 * top + rest = up
    <2> DEFINE w == 256
    <2>1. w \in Nat \ {0}
      BY SMT
    <2> HIDE DEF w
    <2>2. up \div w \in Nat /\ up % w \in Nat /\ up % w < w /\ w * (up \div w) + (up % w) = up
      BY <1>1, <2>1, Division
    <2> QED
      BY <2>2 DEF w
  <1> HIDE DEF top, rest
  <1>5. top \in 0 .. 127
    BY <1>2, <1>4
  <1> QED
    BY <1>1, <1>3, <1>5 DEF up, low, top

\* The head that write_bin_len writes.
HeadOf(n) ==
  CASE n < 256 -> <<F!Bin8>> \o F!BigEndian(n, 1)
    [] n \in 256 .. F!TwoBytes - 1 -> <<F!Bin16>> \o F!BigEndian(n, 2)
    [] n >= F!TwoBytes -> <<F!Bin32>> \o F!BigEndian(n, 4)

\* It is one of three.
LEMMA ThreeHeads ==
  ASSUME NEW n \in Nat
  PROVE  /\ n < 256 => HeadOf(n) = <<F!Bin8>> \o F!BigEndian(n, 1)
         /\ n \in 256 .. F!TwoBytes - 1 => HeadOf(n) = <<F!Bin16>> \o F!BigEndian(n, 2)
         /\ n >= F!TwoBytes => HeadOf(n) = <<F!Bin32>> \o F!BigEndian(n, 4)
         /\ n < 256 \/ n \in 256 .. F!TwoBytes - 1 \/ n >= F!TwoBytes
         /\ n >= F!TwoBytes => n > 0
  <1> DEFINE one == <<F!Bin8>> \o F!BigEndian(n, 1)
             two == <<F!Bin16>> \o F!BigEndian(n, 2)
             four == <<F!Bin32>> \o F!BigEndian(n, 4)
             w == F!TwoBytes
  <1>1. HeadOf(n) = CASE n < 256 -> one [] n \in 256 .. w - 1 -> two [] n >= w -> four
    BY DEF HeadOf
  <1>2. 256 < w /\ w \in Nat
    BY TwoBytesIs
  <1> HIDE DEF one, two, four, w
  <1>3. ASSUME n < 256 PROVE HeadOf(n) = one
    <2>1. n < 256 /\ n \notin 256 .. w - 1 /\ ~ n >= w
      BY <1>2, <1>3
    <2> QED
      BY <1>1, <2>1
  <1>4. ASSUME n \in 256 .. w - 1 PROVE HeadOf(n) = two
    <2>1. ~ n < 256 /\ n \in 256 .. w - 1 /\ ~ n >= w
      BY <1>2, <1>4
    <2> QED
      BY <1>1, <2>1
  <1>5. ASSUME n >= w PROVE HeadOf(n) = four
    <2>1. ~ n < 256 /\ n \notin 256 .. w - 1 /\ n >= w
      BY <1>2, <1>5
    <2> QED
      BY <1>1, <2>1
  <1>6. n < 256 \/ n \in 256 .. w - 1 \/ n >= w
    BY <1>2
  <1>7. n >= w => n > 0
    BY <1>2
  <1> QED
    BY <1>3, <1>4, <1>5, <1>6, <1>7 DEF one, two, four, w

\* A head holds the length.
LEMMA HeadWritten ==
  ASSUME NEW n \in Nat, n \div F!TwoBytes < 128 * 256
  PROVE  \E h \in {2, 3, 5} :
           /\ HeadOf(n) \in Seq(F!Byte) /\ Len(HeadOf(n)) = h /\ HeadOf(n)[1] = Marker(h)
           /\ F!ValueOf(HeadOf(n), 2, h - 1) = n
           /\ h # 2 => n > 0
           /\ h = 5 => HeadOf(n)[2] \in 0 .. 127
  <1> DEFINE head == HeadOf(n)
  <1>1. /\ n < 256 => head = <<F!Bin8>> \o F!BigEndian(n, 1)
        /\ n \in 256 .. F!TwoBytes - 1 => head = <<F!Bin16>> \o F!BigEndian(n, 2)
        /\ n >= F!TwoBytes => head = <<F!Bin32>> \o F!BigEndian(n, 4)
        /\ n < 256 \/ n \in 256 .. F!TwoBytes - 1 \/ n >= F!TwoBytes
        /\ n >= F!TwoBytes => n > 0
    BY ThreeHeads
  <1> HIDE DEF head
  <1>2. CASE n < 256
    <2>1. head = <<F!Bin8>> \o <<n>>
      <3>1. F!BigEndian(n, 1) = <<n>>
        BY DEF F!BigEndian
      <3> QED
        BY <1>1, <1>2, <3>1
    <2>2. /\ <<F!Bin8>> \in Seq(F!Byte) /\ <<n>> \in Seq(F!Byte)
          /\ Len(<<F!Bin8>>) = 1 /\ Len(<<n>>) = 1 /\ 1 \in 1 .. 1
          /\ <<F!Bin8>>[1] = F!Bin8 /\ <<n>>[1] = n
      <3>1. n \in F!Byte /\ F!Bin8 \in F!Byte
        BY <1>2 DEF F!Byte, F!Bin8
      <3> QED
        BY <3>1
    <2> DEFINE a == <<F!Bin8>>
               b == <<n>>
    <2>3. /\ head \in Seq(F!Byte) /\ Len(head) = 1 + 1 /\ head[1] = F!Bin8
          /\ head[1 + 1] = n
      <3>1. /\ a \in Seq(F!Byte) /\ b \in Seq(F!Byte) /\ Len(a) = 1 /\ Len(b) = 1
            /\ 1 \in 1 .. 1 /\ a[1] = F!Bin8 /\ b[1] = n /\ head = a \o b
        BY <2>1, <2>2
      <3> HIDE DEF a, b
      <3> QED
        BY <3>1, Behind
    <2>4. F!ValueOf(head, 2, 2 - 1) = n
      BY <2>3 DEF F!ValueOf
    <2> QED
      BY <2>3, <2>4 DEF Marker, head
  <1>3. CASE n \in 256 .. F!TwoBytes - 1
    <2> DEFINE hi == n \div 256
               lo == n % 256
    <2>1. head = <<F!Bin16>> \o <<hi, lo>>
      <3>1. F!BigEndian(n, 2) = <<hi, lo>>
        BY DEF F!BigEndian
      <3> QED
        BY <1>1, <1>3, <3>1
    <2>2. hi \in 0 .. 255 /\ lo \in 0 .. 255 /\ 256 * hi + lo = n
      <3> DEFINE w == F!TwoBytes
      <3>1. w \in Nat \ {0} /\ n \in 256 .. w - 1
        BY <1>3, TwoBytesIs
      <3> HIDE DEF w
      <3>2. n < w
        BY <3>1
      <3> QED
        BY <3>2, TwoRead DEF w
    <2> HIDE DEF hi, lo
    <2>3. /\ <<F!Bin16>> \in Seq(F!Byte) /\ <<hi, lo>> \in Seq(F!Byte)
          /\ Len(<<F!Bin16>>) = 1 /\ Len(<<hi, lo>>) = 2
          /\ 1 \in 1 .. 1 /\ 1 \in 1 .. 2 /\ 2 \in 1 .. 2
          /\ <<F!Bin16>>[1] = F!Bin16 /\ <<hi, lo>>[1] = hi /\ <<hi, lo>>[2] = lo
      BY <2>2 DEF F!Byte, F!Bin16
    <2> DEFINE a == <<F!Bin16>>
               b == <<hi, lo>>
    <2>4. /\ head \in Seq(F!Byte) /\ Len(head) = 1 + 2 /\ head[1] = F!Bin16
          /\ head[1 + 1] = hi /\ head[1 + 2] = lo
      <3>1. /\ a \in Seq(F!Byte) /\ b \in Seq(F!Byte) /\ Len(a) = 1 /\ Len(b) = 2
            /\ 1 \in 1 .. 1 /\ 1 \in 1 .. 2 /\ 2 \in 1 .. 2
            /\ a[1] = F!Bin16 /\ b[1] = hi /\ b[2] = lo /\ head = a \o b
        BY <2>1, <2>3
      <3> HIDE DEF a, b
      <3>2. /\ head \in Seq(F!Byte) /\ Len(head) = Len(a) + Len(b)
            /\ \A i \in 1 .. Len(a) : head[i] = a[i]
            /\ \A i \in 1 .. Len(b) : head[Len(a) + i] = b[i]
        <4>1. a \in Seq(F!Byte) /\ b \in Seq(F!Byte)
          BY <3>1
        <4>2. /\ a \o b \in Seq(F!Byte) /\ Len(a \o b) = Len(a) + Len(b)
              /\ \A i \in 1 .. Len(a) : (a \o b)[i] = a[i]
              /\ \A i \in 1 .. Len(b) : (a \o b)[Len(a) + i] = b[i]
          BY <4>1, Behind
        <4> QED
          BY <3>1, <4>2
      <3> QED
        BY <3>1, <3>2
    <2>5. F!ValueOf(head, 2, 3 - 1) = n
      BY <2>2, <2>4 DEF F!ValueOf
    <2> QED
      BY <1>3, <2>4, <2>5 DEF Marker, head
  <1>4. CASE n >= F!TwoBytes
    <2> DEFINE up == n \div F!TwoBytes
               low == n % F!TwoBytes
               a == up \div 256
               b == up % 256
               c == low \div 256
               d == low % 256
    <2>1. head = <<F!Bin32>> \o (<<a, b>> \o <<c, d>>)
      BY <1>1, <1>4 DEF F!BigEndian
    <2>2. /\ up \in Nat /\ up < F!TwoBytes /\ low \in Nat /\ low < F!TwoBytes
          /\ F!TwoBytes * up + low = n /\ a \in 0 .. 127
      BY FourRead
    <2> HIDE DEF up, low
    <2>3. b \in 0 .. 255 /\ 256 * a + b = up
      BY <2>2, TwoRead
    <2>4. c \in 0 .. 255 /\ d \in 0 .. 255 /\ 256 * c + d = low
      BY <2>2, TwoRead
    <2> HIDE DEF a, b, c, d
    <2>5. /\ <<a, b>> \in Seq(F!Byte) /\ <<c, d>> \in Seq(F!Byte)
          /\ Len(<<a, b>>) = 2 /\ Len(<<c, d>>) = 2
          /\ 1 \in 1 .. 2 /\ 2 \in 1 .. 2
          /\ <<a, b>>[1] = a /\ <<a, b>>[2] = b /\ <<c, d>>[1] = c /\ <<c, d>>[2] = d
      BY <2>2, <2>3, <2>4 DEF F!Byte
    <2> DEFINE four == <<a, b>> \o <<c, d>>
    <2>6. /\ four \in Seq(F!Byte) /\ Len(four) = 2 + 2
          /\ four[1] = a /\ four[2] = b /\ four[2 + 1] = c /\ four[2 + 2] = d
      BY <2>5, Behind
    <2>7. head = <<F!Bin32>> \o four
      BY <2>1
    <2> HIDE DEF four
    <2>8. /\ <<F!Bin32>> \in Seq(F!Byte) /\ Len(<<F!Bin32>>) = 1 /\ <<F!Bin32>>[1] = F!Bin32
          /\ 1 \in 1 .. 1 /\ 1 \in 1 .. 4 /\ 2 \in 1 .. 4 /\ 3 \in 1 .. 4 /\ 4 \in 1 .. 4
      BY DEF F!Byte, F!Bin32
    <2>9. /\ Len(four) = 4 /\ four[1] = a /\ four[2] = b /\ four[3] = c /\ four[4] = d
      BY <2>6
    <2> DEFINE marker == <<F!Bin32>>
    <2>10. /\ head \in Seq(F!Byte) /\ Len(head) = 1 + 4 /\ head[1] = F!Bin32
           /\ head[1 + 1] = a /\ head[1 + 2] = b /\ head[1 + 3] = c /\ head[1 + 4] = d
      <3>1. /\ marker \in Seq(F!Byte) /\ Len(marker) = 1 /\ marker[1] = F!Bin32
            /\ head = marker \o four
        BY <2>7, <2>8
      <3> HIDE DEF marker
      <3>2. /\ head \in Seq(F!Byte) /\ Len(head) = Len(marker) + Len(four)
            /\ \A i \in 1 .. Len(marker) : head[i] = marker[i]
            /\ \A i \in 1 .. Len(four) : head[Len(marker) + i] = four[i]
        <4>1. marker \in Seq(F!Byte) /\ four \in Seq(F!Byte)
          BY <2>6, <3>1
        <4>2. /\ marker \o four \in Seq(F!Byte)
              /\ Len(marker \o four) = Len(marker) + Len(four)
              /\ \A i \in 1 .. Len(marker) : (marker \o four)[i] = marker[i]
              /\ \A i \in 1 .. Len(four) : (marker \o four)[Len(marker) + i] = four[i]
          BY <4>1, Behind
        <4> QED
          BY <3>1, <4>2
      <3> QED
        BY <2>8, <2>9, <3>1, <3>2
    <2>11. /\ Len(head) = 5 /\ head[2] = a /\ head[3] = b /\ head[4] = c /\ head[5] = d
      BY <2>10
    <2>12. F!ValueOf(head, 2, 5 - 1) = F!TwoBytes * (256 * a + b) + (256 * c + d)
      BY <2>11 DEF F!ValueOf
    <2>13. F!ValueOf(head, 2, 5 - 1) = n
      BY <2>2, <2>3, <2>4, <2>12
    <2> QED
      BY <1>1, <1>4, <2>2, <2>10, <2>11, <2>13 DEF Marker, head
  <1> QED
    BY <1>1, <1>2, <1>3, <1>4 DEF head

\* Equal bytes have equal values.
Alike(x, i, y, j, n) == \A d \in 0 .. n - 1 : x[i + d] = y[j + d]

LEMMA ValueSame ==
  ASSUME NEW x, NEW y, NEW i \in Int, NEW j \in Int, NEW n \in {1, 2, 4}, Alike(x, i, y, j, n)
  PROVE  F!ValueOf(x, i, n) = F!ValueOf(y, j, n)
  <1> USE DEF Alike
  <1>1. i + 0 = i /\ j + 0 = j /\ i + 2 + 1 = i + 3 /\ j + 2 + 1 = j + 3
    OBVIOUS
  <1>2. x[i] = y[j]
    <2>1. 0 \in 0 .. n - 1
      OBVIOUS
    <2> QED
      BY <1>1, <2>1
  <1>3. n # 1 => x[i + 1] = y[j + 1]
    <2>1. n # 1 => 1 \in 0 .. n - 1
      OBVIOUS
    <2> QED
      BY <2>1
  <1>4. n = 4 => x[i + 2] = y[j + 2] /\ x[i + 2 + 1] = y[j + 2 + 1]
    <2>1. n = 4 => 2 \in 0 .. n - 1 /\ 3 \in 0 .. n - 1
      OBVIOUS
    <2> QED
      BY <1>1, <2>1
  <1> QED
    BY <1>2, <1>3, <1>4 DEF F!ValueOf

\* What is written at a position of one sequence is written in another that has the
\* same bytes there.
LEMMA WrittenThere ==
  ASSUME NEW w, NEW all, NEW at \in Nat, NEW k \in Nat, NEW h, NEW c \in Seq(F!Byte),
         Written(w, at, h, c),
         \A i \in at .. at + h + Len(c) - 1 : all[k + i] = w[i]
  PROVE  Written(all, k + at, h, c)
  <1>1. h \in {2, 3, 5} /\ Len(c) \in Nat
    BY LenProperties DEF Written
  <1>2. all[k + at] = w[at] /\ all[k + at + 1] = w[at + 1]
    <2>1. /\ at \in at .. at + h + Len(c) - 1 /\ at + 1 \in at .. at + h + Len(c) - 1
          /\ k + (at + 1) = k + at + 1
      BY <1>1
    <2> QED
      BY <2>1
  <1>3. F!ValueOf(all, k + at + 1, h - 1) = F!ValueOf(w, at + 1, h - 1)
    <2> DEFINE size == h - 1
               from == at + 1
               to == k + at + 1
    <2>1. ASSUME NEW d \in 0 .. size - 1 PROVE all[to + d] = w[from + d]
      <3>1. from + d \in at .. at + h + Len(c) - 1 /\ k + (from + d) = to + d
        BY <1>1
      <3> QED
        BY <3>1
    <2>2. size \in {1, 2, 4} /\ to \in Int /\ from \in Int
      BY <1>1
    <2> HIDE DEF size, from, to
    <2>3. F!ValueOf(all, to, size) = F!ValueOf(w, from, size)
      <3>1. Alike(all, to, w, from, size)
        BY <2>1 DEF Alike
      <3> QED
        BY <2>2, <3>1, ValueSame
    <2> QED
      BY <2>3 DEF size, from, to
  <1>4. ASSUME NEW i \in 1 .. Len(c) PROVE all[k + at + h - 1 + i] = c[i]
    <2>1. /\ at + h - 1 + i \in at .. at + h + Len(c) - 1
          /\ k + (at + h - 1 + i) = k + at + h - 1 + i
      BY <1>1
    <2>2. w[at + h - 1 + i] = c[i]
      BY DEF Written
    <2> QED
      BY <2>1, <2>2
  <1> QED
    BY <1>2, <1>3, <1>4 DEF Written

\* write_bin writes a head and the content.
LEMMA BinWritten ==
  ASSUME NEW c, Content(c)
  PROVE  \E h \in {2, 3, 5} :
           /\ F!WriteBin(c) \in Seq(F!Byte) /\ Len(F!WriteBin(c)) = h + Len(c)
           /\ Written(F!WriteBin(c), 1, h, c)
  <1> DEFINE n == Len(c)
             head == HeadOf(n)
             w == F!WriteBin(c)
  <1>1. c \in Seq(F!Byte) /\ n \in Nat /\ n \div F!TwoBytes < 128 * 256
    BY LenProperties DEF Content
  <1>2. w = head \o c
    BY DEF F!WriteBin, HeadOf
  <1>3. PICK h \in {2, 3, 5} :
           /\ head \in Seq(F!Byte) /\ Len(head) = h /\ head[1] = Marker(h)
           /\ F!ValueOf(head, 2, h - 1) = n
           /\ h # 2 => n > 0
           /\ h = 5 => head[2] \in 0 .. 127
    BY <1>1, HeadWritten
  <1> HIDE DEF head, w
  <1>4. /\ w \in Seq(F!Byte) /\ Len(w) = h + n
        /\ \A i \in 1 .. h : w[i] = head[i]
        /\ \A i \in 1 .. n : w[h + i] = c[i]
    BY <1>1, <1>2, <1>3, Behind
  <1>5. F!ValueOf(w, 2, h - 1) = n
    <2> DEFINE two == 2
               size == h - 1
    <2>1. ASSUME NEW d \in 0 .. size - 1 PROVE w[two + d] = head[two + d]
      <3>1. 2 + d \in 1 .. h
        BY <1>3
      <3> QED
        BY <1>4, <3>1
    <2>2. size \in {1, 2, 4} /\ two \in Int
      BY <1>3
    <2> HIDE DEF two, size
    <2>3. F!ValueOf(w, two, size) = F!ValueOf(head, two, size)
      <3>1. Alike(w, two, head, two, size)
        BY <2>1 DEF Alike
      <3> QED
        BY <2>2, <3>1, ValueSame
    <2> QED
      BY <1>3, <2>3 DEF two, size
  <1>6. w[1] = head[1] /\ w[2] = head[2]
    <2>1. 1 \in 1 .. h /\ 2 \in 1 .. h
      BY <1>3
    <2> QED
      BY <1>4, <2>1
  <1>7. \A i \in 1 .. n : w[1 + h - 1 + i] = c[i]
    <2>1. 1 + h - 1 = h
      BY <1>3
    <2> QED
      BY <1>4, <2>1
  <1>8. h # 2 => c # <<>>
    BY <1>3, EmptySeq
  <1>9. Written(w, 1, h, c)
    <2>1. 1 + 1 = 2
      OBVIOUS
    <2> QED
      BY <1>3, <1>5, <1>6, <1>7, <1>8, <2>1 DEF Written
  <1> QED
    BY <1>4, <1>9 DEF w

\* A message from the first position of a sequence, with heads of these sizes.
Encoded(all, m, h1, h2) ==
  /\ all[1] = F!FixArray3 /\ all[2] = F!U8 /\ all[3] = m.type
  /\ Written(all, 4, h1, m.method)
  /\ Written(all, 4 + h1 + Len(m.method), h2, m.payload)

SizeOf(m, h1, h2) == 3 + h1 + Len(m.method) + h2 + Len(m.payload)

\* What the child may write.
Sendable(m) == m \in Frame /\ Content(m.method) /\ Content(m.payload) /\ F!IsUtf8(m.method)

\* The types of its parts.
LEMMA FrameType ==
  ASSUME NEW m \in Frame
  PROVE  /\ m.type \in 1 .. 6
         /\ m.method \in Seq(F!Byte) /\ Len(m.method) \in Nat
         /\ m.payload \in Seq(F!Byte) /\ Len(m.payload) \in Nat
  <1>1. m.type \in 1 .. 6 /\ m.method \in Seq(F!Byte) /\ m.payload \in Seq(F!Byte)
    BY DEF Frame, F!MessageType
  <1> QED
    BY <1>1, LenProperties

\* encode writes a message.
LEMMA EncodeWrites ==
  ASSUME NEW m, Sendable(m)
  PROVE  \E h1 \in {2, 3, 5}, h2 \in {2, 3, 5} :
           /\ F!Encode(m) \in Seq(F!Byte) /\ Len(F!Encode(m)) = SizeOf(m, h1, h2)
           /\ Encoded(F!Encode(m), m, h1, h2)
  <1> DEFINE front == <<F!FixArray3, F!U8, m.type>>
             w1 == F!WriteBin(m.method)
             w2 == F!WriteBin(m.payload)
             some == front \o w1
             all == F!Encode(m)
             n1 == Len(m.method)
             n2 == Len(m.payload)
  <1>1. all = some \o w2
    BY DEF F!Encode
  <1>2. /\ m.type \in 1 .. 6 /\ m.method \in Seq(F!Byte) /\ n1 \in Nat
        /\ m.payload \in Seq(F!Byte) /\ n2 \in Nat
    BY FrameType DEF Sendable
  <1>3. PICK h1 \in {2, 3, 5} :
          w1 \in Seq(F!Byte) /\ Len(w1) = h1 + n1 /\ Written(w1, 1, h1, m.method)
    BY BinWritten DEF Sendable
  <1>4. PICK h2 \in {2, 3, 5} :
          w2 \in Seq(F!Byte) /\ Len(w2) = h2 + n2 /\ Written(w2, 1, h2, m.payload)
    BY BinWritten DEF Sendable
  <1>5. /\ front \in Seq(F!Byte) /\ Len(front) = 3
        /\ front[1] = F!FixArray3 /\ front[2] = F!U8 /\ front[3] = m.type
    <2>1. F!FixArray3 \in F!Byte /\ F!U8 \in F!Byte /\ m.type \in F!Byte
      BY <1>2 DEF F!FixArray3, F!U8, F!Byte
    <2> QED
      BY <2>1
  <1> HIDE DEF front, w1, w2
  <1>6. /\ some \in Seq(F!Byte) /\ Len(some) = Len(front) + Len(w1)
        /\ \A i \in 1 .. Len(front) : some[i] = front[i]
        /\ \A i \in 1 .. Len(w1) : some[Len(front) + i] = w1[i]
    <2>1. front \in Seq(F!Byte) /\ w1 \in Seq(F!Byte)
      BY <1>3, <1>5
    <2>2. /\ front \o w1 \in Seq(F!Byte) /\ Len(front \o w1) = Len(front) + Len(w1)
          /\ \A i \in 1 .. Len(front) : (front \o w1)[i] = front[i]
          /\ \A i \in 1 .. Len(w1) : (front \o w1)[Len(front) + i] = w1[i]
      BY <2>1, Behind
    <2> QED
      BY <2>2
  <1> HIDE DEF some
  <1>7. /\ some \o w2 \in Seq(F!Byte) /\ Len(some \o w2) = Len(some) + Len(w2)
        /\ \A i \in 1 .. Len(some) : (some \o w2)[i] = some[i]
        /\ \A i \in 1 .. Len(w2) : (some \o w2)[Len(some) + i] = w2[i]
    <2>1. some \in Seq(F!Byte) /\ w2 \in Seq(F!Byte)
      BY <1>4, <1>6
    <2> QED
      BY <2>1, Behind
  <1> HIDE DEF all, n1, n2
  <1>8. /\ Len(some) = 3 + h1 + n1 /\ Len(all) = 3 + h1 + n1 + h2 + n2
        /\ \A i \in 1 .. 3 + h1 + n1 : all[i] = some[i]
        /\ \A i \in 1 .. h2 + n2 : all[3 + h1 + n1 + i] = w2[i]
        /\ \A i \in 1 .. h1 + n1 : some[3 + i] = w1[i]
        /\ \A i \in 1 .. 3 : some[i] = front[i]
    <2> DEFINE k == 3 + h1 + n1
    <2>1. Len(some) = k /\ Len(w1) = h1 + n1
      BY <1>2, <1>3, <1>5, <1>6
    <2>2. Len(w2) = h2 + n2
      BY <1>4
    <2>3. /\ \A i \in 1 .. h1 + n1 : some[3 + i] = w1[i]
          /\ \A i \in 1 .. 3 : some[i] = front[i]
      BY <1>5, <1>6, <2>1
    <2> HIDE DEF k
    <2>4. /\ Len(all) = k + (h2 + n2)
          /\ \A i \in 1 .. k : all[i] = some[i]
          /\ \A i \in 1 .. h2 + n2 : all[k + i] = w2[i]
      BY <1>1, <1>7, <2>1, <2>2
    <2>5. k \in Nat /\ k + (h2 + n2) = 3 + h1 + n1 + h2 + n2
      BY <1>2 DEF k
    <2> QED
      BY <2>1, <2>3, <2>4, <2>5 DEF k
  <1>9. \A i \in 1 .. h1 + n1 : all[3 + i] = w1[i]
    <2>1. ASSUME NEW i \in 1 .. h1 + n1 PROVE all[3 + i] = w1[i]
      <3>1. 3 + i \in 1 .. 3 + h1 + n1
        BY <1>2
      <3> QED
        BY <1>8, <3>1
    <2> QED
      BY <2>1
  <1>10. all[1] = F!FixArray3 /\ all[2] = F!U8 /\ all[3] = m.type
    <2>1. /\ 1 \in 1 .. 3 + h1 + n1 /\ 2 \in 1 .. 3 + h1 + n1 /\ 3 \in 1 .. 3 + h1 + n1
          /\ 1 \in 1 .. 3 /\ 2 \in 1 .. 3 /\ 3 \in 1 .. 3
      BY <1>2
    <2> QED
      BY <1>5, <1>8, <2>1
  <1>11. Written(all, 4, h1, m.method)
    <2>1. \A i \in 1 .. 1 + h1 + n1 - 1 : all[3 + i] = w1[i]
      <3>1. 1 + h1 + n1 - 1 = h1 + n1
        BY <1>2
      <3> QED
        BY <1>9, <3>1
    <2>2. Written(all, 3 + 1, h1, m.method)
      BY <1>2, <1>3, <2>1, WrittenThere DEF n1
    <2> QED
      BY <2>2
  <1>12. Written(all, 4 + h1 + n1, h2, m.payload)
    <2> DEFINE k == 3 + h1 + n1
    <2>1. k \in Nat /\ k + 1 = 4 + h1 + n1
      BY <1>2
    <2>2. \A i \in 1 .. 1 + h2 + n2 - 1 : all[k + i] = w2[i]
      <3>1. 1 + h2 + n2 - 1 = h2 + n2
        BY <1>2
      <3> QED
        BY <1>8, <3>1
    <2> HIDE DEF k
    <2>3. Written(all, k + 1, h2, m.payload)
      BY <1>2, <1>4, <2>1, <2>2, WrittenThere DEF n2
    <2> QED
      BY <2>1, <2>3
  <1>13. all \in Seq(F!Byte)
    BY <1>1, <1>7
  <1> QED
    BY <1>8, <1>10, <1>11, <1>12, <1>13 DEF Encoded, SizeOf, all, n1, n2

\* Two messages one behind the other.
LEMMA StreamIs ==
  ASSUME NEW m, NEW after, Sendable(m), Sendable(after)
  PROVE  LET all == F!Encode(m) \o F!Encode(after)
             size == Len(F!Encode(m)) IN
         \E h1 \in {2, 3, 5}, h2 \in {2, 3, 5} :
           /\ all \in Seq(F!Byte) /\ size = SizeOf(m, h1, h2) /\ size \in Nat
           /\ Len(all) \in Nat /\ size < Len(all)
           /\ Encoded(all, m, h1, h2) /\ all[size + 1] = F!FixArray3
  <1> DEFINE one == F!Encode(m)
             two == F!Encode(after)
             all == one \o two
             n1 == Len(m.method)
             n2 == Len(m.payload)
  <1>1. /\ m.method \in Seq(F!Byte) /\ n1 \in Nat /\ m.payload \in Seq(F!Byte) /\ n2 \in Nat
        /\ Len(after.method) \in Nat /\ Len(after.payload) \in Nat
    BY FrameType DEF Sendable
  <1>2. PICK h1 \in {2, 3, 5}, h2 \in {2, 3, 5} :
           one \in Seq(F!Byte) /\ Len(one) = SizeOf(m, h1, h2) /\ Encoded(one, m, h1, h2)
    BY EncodeWrites
  <1>3. PICK k1 \in {2, 3, 5}, k2 \in {2, 3, 5} :
           two \in Seq(F!Byte) /\ Len(two) = SizeOf(after, k1, k2) /\ Encoded(two, after, k1, k2)
    BY EncodeWrites
  <1> HIDE DEF one, two
  <1>4. /\ all \in Seq(F!Byte) /\ Len(one) \in Nat /\ Len(all) = Len(one) + Len(two)
        /\ \A i \in 1 .. Len(one) : all[i] = one[i]
        /\ \A i \in 1 .. Len(two) : all[Len(one) + i] = two[i]
    <2>1. one \in Seq(F!Byte) /\ two \in Seq(F!Byte)
      BY <1>2, <1>3
    <2>2. /\ one \o two \in Seq(F!Byte) /\ Len(one) \in Nat
          /\ Len(one \o two) = Len(one) + Len(two)
          /\ \A i \in 1 .. Len(one) : (one \o two)[i] = one[i]
          /\ \A i \in 1 .. Len(two) : (one \o two)[Len(one) + i] = two[i]
      BY <2>1, Behind
    <2> QED
      BY <2>2
  <1>5. Len(two) \in Nat /\ Len(two) > 0 /\ two[1] = F!FixArray3
    <2> DEFINE a == Len(after.method)
               b == Len(after.payload)
    <2>1. a \in Nat /\ b \in Nat /\ Len(two) = 3 + k1 + a + k2 + b
      BY <1>1, <1>3 DEF SizeOf
    <2> HIDE DEF a, b
    <2>2. Len(two) \in Nat /\ Len(two) > 0
      BY <2>1
    <2> QED
      BY <1>3, <2>2 DEF Encoded
  <1>6. Len(all) \in Nat /\ Len(one) < Len(all) /\ all[Len(one) + 1] = F!FixArray3
    <2>1. 1 \in 1 .. Len(two)
      BY <1>5
    <2> QED
      BY <1>4, <1>5, <2>1
  <1> HIDE DEF all
  <1>7. Len(one) = 3 + h1 + n1 + h2 + n2 /\ n1 \in Nat /\ n2 \in Nat
    BY <1>1, <1>2 DEF SizeOf
  <1> HIDE DEF n1, n2
  <1>8. all[1] = one[1] /\ all[2] = one[2] /\ all[3] = one[3]
    <2>1. 1 \in 1 .. Len(one) /\ 2 \in 1 .. Len(one) /\ 3 \in 1 .. Len(one)
      BY <1>7
    <2> QED
      BY <1>4, <2>1
  <1>9. Written(all, 4, h1, m.method)
    <2>1. ASSUME NEW i \in 4 .. 4 + h1 + n1 - 1 PROVE all[0 + i] = one[i]
      <3>1. 0 + i = i /\ i \in 1 .. Len(one)
        BY <1>7
      <3> QED
        BY <1>4, <3>1
    <2>2. Written(one, 4, h1, m.method)
      BY <1>2 DEF Encoded
    <2>3. Written(all, 0 + 4, h1, m.method)
      BY <1>1, <2>1, <2>2, WrittenThere DEF n1
    <2> QED
      BY <2>3
  <1>10. Written(all, 4 + h1 + n1, h2, m.payload)
    <2> DEFINE at == 4 + h1 + n1
    <2>1. at \in Nat /\ 0 + at = at
      BY <1>7
    <2>2. ASSUME NEW i \in at .. at + h2 + n2 - 1 PROVE all[0 + i] = one[i]
      <3>1. 0 + i = i /\ i \in 1 .. Len(one)
        BY <1>7
      <3> QED
        BY <1>4, <3>1
    <2>3. Written(one, at, h2, m.payload)
      BY <1>2 DEF Encoded, n1
    <2> HIDE DEF at
    <2>4. Written(all, 0 + at, h2, m.payload)
      BY <1>1, <2>1, <2>2, <2>3, WrittenThere DEF n2
    <2> QED
      BY <2>1, <2>4 DEF at
  <1>11. Encoded(all, m, h1, h2)
    BY <1>2, <1>8, <1>9, <1>10 DEF Encoded, n1
  <1> QED
    BY <1>2, <1>4, <1>6, <1>11 DEF all, one, two

-----------------------------------------------------------------------------
(* What is read.                                                           *)

\* One sequence has the bytes of another, as far as it goes.
Begins(b, all) ==
  /\ b \in Seq(F!Byte) /\ all \in Seq(F!Byte) /\ Len(b) <= Len(all)
  /\ \A i \in 1 .. Len(b) : b[i] = all[i]

\* The length in a head that is complete is that of the content.
LEMMA BinLenRead ==
  ASSUME NEW b, NEW all, Begins(b, all), NEW at \in Nat \ {0}, NEW h, NEW c \in Seq(F!Byte),
         Written(all, at, h, c)
  PROVE  F!ReadBinLen(b, at) = IF at + h - 1 > Len(b) THEN F!Fail
                               ELSE F!Field(Len(c), at + h)
  <1> DEFINE size == h - 1
             first == at + 1
  <1>1. /\ Len(b) \in Nat /\ DOMAIN b = 1 .. Len(b) /\ h \in {2, 3, 5}
        /\ \A i \in 1 .. Len(b) : b[i] = all[i]
    BY LenProperties DEF Begins, Written
  <1>2. CASE at > Len(b)
    <2>1. at \notin DOMAIN b /\ at + h - 1 > Len(b)
      BY <1>1, <1>2
    <2> QED
      BY <2>1 DEF F!ReadBinLen
  <1>3. CASE at <= Len(b)
    <2>1. at \in DOMAIN b /\ at \in 1 .. Len(b)
      BY <1>1, <1>3
    <2>2. b[at] = Marker(h)
      BY <1>1, <2>1 DEF Written
    <2>3. F!ReadBinLen(b, at) = F!ReadInt(b, first, size)
      <3>1. \/ h = 2 /\ b[at] = F!Bin8 /\ size = 1
            \/ h = 3 /\ b[at] = F!Bin16 /\ size = 2
            \/ h = 5 /\ b[at] = F!Bin32 /\ size = 4
        BY <1>1, <2>2 DEF Marker
      <3> HIDE DEF size
      <3>2. F!Bin8 # F!Bin16 /\ F!Bin8 # F!Bin32 /\ F!Bin16 # F!Bin32
        BY DEF F!Bin8, F!Bin16, F!Bin32
      <3> QED
        BY <2>1, <3>1, <3>2 DEF F!ReadBinLen
    <2>4. first + size - 1 = at + h - 1 /\ first + size = at + h
      BY <1>1
    <2>5. ASSUME ~ at + h - 1 > Len(b)
          PROVE  F!ValueOf(b, first, size) = Len(c)
      <3>1. ASSUME NEW d \in 0 .. size - 1 PROVE b[first + d] = all[first + d]
        <4>1. first + d \in 1 .. Len(b)
          BY <1>1, <2>5
        <4> QED
          BY <1>1, <4>1
      <3>2. size \in {1, 2, 4} /\ first \in Int
        BY <1>1
      <3> HIDE DEF size, first
      <3>3. F!ValueOf(b, first, size) = F!ValueOf(all, first, size)
        <4>1. Alike(b, first, all, first, size)
          BY <3>1 DEF Alike
        <4> QED
          BY <3>2, <4>1, ValueSame
      <3> QED
        BY <3>3 DEF Written, size, first
    <2>6. F!ReadInt(b, first, size) = IF first + size - 1 > Len(b) THEN F!Fail
            ELSE F!Field(F!ValueOf(b, first, size), first + size)
      BY DEF F!ReadInt
    <2> HIDE DEF size, first
    <2> QED
      BY <2>3, <2>4, <2>5, <2>6
  <1>4. at > Len(b) \/ at <= Len(b)
    BY <1>1
  <1> QED
    BY <1>2, <1>3, <1>4

\* What was written is read, as soon as it is complete.
LEMMA BinRead ==
  ASSUME NEW b, NEW all, Begins(b, all), NEW at \in Nat \ {0}, NEW h, NEW c \in Seq(F!Byte),
         Written(all, at, h, c)
  PROVE  F!ReadBin(b, at) = IF at + h + Len(c) - 1 > Len(b) THEN F!Fail
                            ELSE F!Field(c, at + h + Len(c))
  <1> DEFINE n == Len(c)
             len == F!ReadBinLen(b, at)
             next == at + h
             last == at + h + n - 1
             end == at + h + n
  <1>1. /\ Len(b) \in Nat /\ Len(all) \in Nat /\ h \in {2, 3, 5} /\ n \in Nat
        /\ b \in Seq(F!Byte) /\ Len(b) <= Len(all)
        /\ \A i \in 1 .. Len(b) : b[i] = all[i]
    BY LenProperties DEF Begins, Written
  <1>2. len = IF next - 1 > Len(b) THEN F!Fail ELSE F!Field(n, next)
    <2>1. next = at + h /\ (at + h - 1 > Len(b) <=> next - 1 > Len(b))
      BY <1>1
    <2> HIDE DEF next
    <2>2. len = IF at + h - 1 > Len(b) THEN F!Fail ELSE F!Field(n, at + h)
      BY BinLenRead
    <2> QED
      BY <2>1, <2>2
  <1>3. /\ ~ len.read => F!ReadBin(b, at) = F!Fail
        /\ len.read /\ len.value = n /\ len.next = next =>
             F!ReadBin(b, at) = IF last > Len(b) THEN F!Fail
                                ELSE F!Field(SubSeq(b, next, last), end)
    <2>1. ASSUME ~ len.read PROVE F!ReadBin(b, at) = F!Fail
      BY <2>1 DEF F!ReadBin
    <2>2. ASSUME len.read, len.value = n, len.next = next
          PROVE  F!ReadBin(b, at) = IF last > Len(b) THEN F!Fail
                                    ELSE F!Field(SubSeq(b, next, last), end)
      <3>1. len.next + len.value = end /\ end - 1 = last
        <4>1. next + n = end /\ end - 1 = last
          BY <1>1
        <4> HIDE DEF end, last, next, n, len
        <4> QED
          BY <2>2, <4>1
      <3> HIDE DEF end, last, next
      <3> QED
        BY <2>2, <3>1 DEF F!ReadBin
    <2> QED
      BY <2>1, <2>2
  <1> HIDE DEF len
  <1>4. CASE next - 1 > Len(b)
    <2>1. ~ len.read
      <3> HIDE DEF next
      <3> QED
        BY <1>2, <1>4 DEF F!Fail
    <2>2. last > Len(b)
      BY <1>1, <1>4
    <2> HIDE DEF last, end
    <2>3. F!ReadBin(b, at) = IF last > Len(b) THEN F!Fail ELSE F!Field(c, end)
      BY <1>3, <2>1, <2>2
    <2> QED
      BY <2>3 DEF last, end
  <1>5. CASE ~ next - 1 > Len(b)
    <2>1. len.read /\ len.value = n /\ len.next = next
      <3> HIDE DEF next
      <3> QED
        BY <1>2, <1>5 DEF F!Field
    <2>2. ASSUME ~ last > Len(b)
          PROVE  SubSeq(b, next, last) = c
      <3> DEFINE part == SubSeq(b, next, last)
      <3>1. /\ next \in Nat \ {0} /\ last \in Nat /\ next - 1 <= last /\ last <= Len(b)
            /\ last - next + 1 = n
        BY <1>1, <2>2
      <3>2. \A i \in 1 .. n : next + i - 1 \in 1 .. Len(b) /\ next + i - 1 = at + h - 1 + i
        BY <1>1, <2>2
      <3> HIDE DEF next, last
      <3>3. /\ part \in Seq(F!Byte) /\ Len(part) = n
            /\ \A i \in 1 .. n : part[i] = b[next + i - 1]
        BY <1>1, <3>1, Run
      <3>4. ASSUME NEW i \in 1 .. n PROVE part[i] = c[i]
        <4>1. all[at + h - 1 + i] = c[i]
          BY DEF Written
        <4> QED
          BY <1>1, <3>2, <3>3, <4>1
      <3> HIDE DEF part
      <3>5. part = c
        BY <3>3, <3>4, SeqEqual
      <3> QED
        BY <3>5 DEF part
    <2> HIDE DEF last, end, next
    <2>3. F!ReadBin(b, at) = IF last > Len(b) THEN F!Fail ELSE F!Field(c, end)
      BY <1>3, <2>1, <2>2
    <2> QED
      BY <2>3 DEF last, end
  <1> QED
    BY <1>4, <1>5

\* From its first byte a message is read as it was written, as soon as it is complete.
LEMMA FrontDecoded ==
  ASSUME NEW b, NEW all, Begins(b, all), b # <<>>, NEW m, Sendable(m), NEW h1, NEW h2,
         Encoded(all, m, h1, h2)
  PROVE  F!Decode(b) =
           IF SizeOf(m, h1, h2) > Len(b) THEN F!Error("failed")
           ELSE IF ~ F!IsUtf8(m.payload) THEN F!Error("retry")
           ELSE IF m.payload # <<>> /\ ~ F!IsJson(m.payload) THEN F!Error("json")
           ELSE [kind |-> "ok", msg |-> m]
  <1> DEFINE length == F!ReadArrayLen(b)
             type == F!ReadU8(b, 2)
             method == F!ReadBin(b, 4)
             second == 4 + h1 + Len(m.method)
             payload == F!ReadBin(b, second)
             size == SizeOf(m, h1, h2)
  <1>1. /\ m.type \in 1 .. 6 /\ m.method \in Seq(F!Byte) /\ Len(m.method) \in Nat
        /\ m.payload \in Seq(F!Byte) /\ Len(m.payload) \in Nat
    BY FrameType DEF Sendable
  <1>2. /\ Len(b) \in Nat /\ Len(b) > 0 /\ DOMAIN b = 1 .. Len(b)
        /\ \A i \in 1 .. Len(b) : b[i] = all[i]
    <2>1. b \in Seq(F!Byte) /\ \A i \in 1 .. Len(b) : b[i] = all[i]
      BY DEF Begins
    <2>2. Len(b) \in Nat /\ Len(b) # 0 /\ DOMAIN b = 1 .. Len(b)
      BY <2>1, LenProperties, EmptySeq
    <2> QED
      BY <2>1, <2>2
  <1>3. h1 \in {2, 3, 5} /\ h2 \in {2, 3, 5}
    BY DEF Encoded, Written
  <1>4. length = F!Field(3, 2)
    <2>1. b[1] = F!FixArray3
      BY <1>2 DEF Encoded
    <2>2. b[1] \in F!FixArray /\ b[1] # F!Array16 /\ b[1] # F!Array32 /\ b[1] - 144 = 3
      BY <2>1 DEF F!FixArray3, F!FixArray, F!Array16, F!Array32
    <2>3. length = F!Field(b[1] - 144, 2)
      BY <2>2 DEF F!ReadArrayLen
    <2> QED
      BY <2>2, <2>3
  <1>5. type = IF 3 > Len(b) THEN F!Fail ELSE F!Field(m.type, 4)
    <2>1. CASE Len(b) >= 3
      <3>1. 2 \in 1 .. Len(b) /\ 3 \in 1 .. Len(b) /\ ~ 3 > Len(b) /\ ~ 3 + 1 - 1 > Len(b)
        BY <1>2, <2>1
      <3>2. b[2] = F!U8 /\ b[3] = m.type
        BY <1>2, <3>1 DEF Encoded
      <3>3. F!ReadInt(b, 3, 1) = F!Field(b[3], 4)
        BY <3>1 DEF F!ReadInt, F!ValueOf
      <3>4. type = F!ReadInt(b, 3, 1)
        BY <1>2, <3>1, <3>2 DEF F!ReadU8
      <3> QED
        BY <3>1, <3>2, <3>3, <3>4
    <2>2. CASE ~ Len(b) >= 3
      <3>1. 3 > Len(b) /\ 3 + 1 - 1 > Len(b)
        BY <1>2, <2>2
      <3>2. F!ReadInt(b, 3, 1) = F!Fail
        BY <3>1 DEF F!ReadInt
      <3>3. type = F!ReadInt(b, 3, 1) \/ type = F!Fail
        BY DEF F!ReadU8
      <3> QED
        BY <3>1, <3>2, <3>3
    <2> QED
      BY <2>1, <2>2
  <1>6. method = IF second - 1 > Len(b) THEN F!Fail ELSE F!Field(m.method, second)
    <2> DEFINE four == 4
               c == m.method
               n == Len(c)
    <2>1. four \in Nat \ {0} /\ c \in Seq(F!Byte) /\ Written(all, four, h1, c) /\ n \in Nat
      BY <1>1 DEF Encoded
    <2>2. method = F!ReadBin(b, four) /\ second = four + h1 + n
      OBVIOUS
    <2> HIDE DEF four, c, second, method
    <2>3. F!ReadBin(b, four) = IF four + h1 + Len(c) - 1 > Len(b) THEN F!Fail
                               ELSE F!Field(c, four + h1 + Len(c))
      BY <2>1, BinRead
    <2>4. F!ReadBin(b, four) = IF second - 1 > Len(b) THEN F!Fail
                               ELSE F!Field(c, second)
      BY <1>3, <2>1, <2>2, <2>3
    <2> QED
      BY <2>2, <2>4 DEF c
  <1>7. /\ second + h2 + Len(m.payload) - 1 = size /\ second \in Nat \ {0} /\ size \in Nat
        /\ size + 1 = second + h2 + Len(m.payload)
        /\ 3 < second - 1 /\ second - 1 < size
    <2> DEFINE n1 == Len(m.method)
               n2 == Len(m.payload)
    <2>1. n1 \in Nat /\ n2 \in Nat
      BY <1>1
    <2>2. second = 4 + h1 + n1 /\ size = 3 + h1 + n1 + h2 + n2
      BY DEF SizeOf
    <2> HIDE DEF n1, n2, second, size
    <2>3. /\ second + h2 + n2 - 1 = size /\ second \in Nat \ {0} /\ size \in Nat
          /\ size + 1 = second + h2 + n2
          /\ 3 < second - 1 /\ second - 1 < size
      BY <1>3, <2>1, <2>2
    <2> QED
      BY <2>3 DEF n2
  <1>8. payload = IF size > Len(b) THEN F!Fail ELSE F!Field(m.payload, size + 1)
    <2>1. Written(all, second, h2, m.payload)
      BY DEF Encoded
    <2> HIDE DEF second, size
    <2>3. payload = IF second + h2 + Len(m.payload) - 1 > Len(b) THEN F!Fail
                    ELSE F!Field(m.payload, second + h2 + Len(m.payload))
      BY <1>1, <1>7, <2>1, BinRead
    <2> QED
      BY <1>7, <2>3
  <1>9. F!Decode(b) =
           IF ~ type.read THEN F!Error("failed")
           ELSE IF type.value \notin F!MessageType THEN F!Error("retry")
           ELSE IF ~ F!ReadBin(b, type.next).read THEN F!Error("failed")
           ELSE IF ~ F!IsUtf8(F!ReadBin(b, type.next).value) THEN F!Error("retry")
           ELSE LET rest == F!ReadBin(b, F!ReadBin(b, type.next).next) IN
                IF ~ rest.read THEN F!Error("failed")
                ELSE IF ~ F!IsUtf8(rest.value) THEN F!Error("retry")
                ELSE IF rest.value # <<>> /\ ~ F!IsJson(rest.value) THEN F!Error("json")
                ELSE [kind |-> "ok",
                      msg |-> [type |-> type.value, method |-> F!ReadBin(b, type.next).value,
                               payload |-> rest.value]]
    <2>1. length.read /\ length.value = 3 /\ length.next = 2
      BY <1>4 DEF F!Field
    <2> HIDE DEF length
    <2> QED
      BY <2>1 DEF F!Decode, length
  <1>10. CASE 3 > Len(b)
    <2>1. ~ type.read
      BY <1>5, <1>10 DEF F!Fail
    <2> HIDE DEF type, size, second
    <2>2. size > Len(b)
      BY <1>2, <1>7, <1>10
    <2> QED
      BY <1>9, <2>1, <2>2 DEF size
  <1>11. CASE ~ 3 > Len(b)
    <2>1. type.read /\ type.value = m.type /\ type.next = 4 /\ m.type \in F!MessageType
      BY <1>1, <1>5, <1>11 DEF F!Field, F!MessageType
    <2> HIDE DEF type
    <2>2. F!IsUtf8(m.method)
      BY DEF Sendable
    <2>3. F!Decode(b) =
           IF ~ method.read THEN F!Error("failed")
           ELSE IF ~ F!IsUtf8(method.value) THEN F!Error("retry")
           ELSE LET rest == F!ReadBin(b, method.next) IN
                IF ~ rest.read THEN F!Error("failed")
                ELSE IF ~ F!IsUtf8(rest.value) THEN F!Error("retry")
                ELSE IF rest.value # <<>> /\ ~ F!IsJson(rest.value) THEN F!Error("json")
                ELSE [kind |-> "ok",
                      msg |-> [type |-> m.type, method |-> method.value,
                               payload |-> rest.value]]
      BY <1>9, <2>1
    <2> HIDE DEF method, second, size
    <2>4. CASE second - 1 > Len(b)
      <3>1. ~ method.read
        BY <1>6, <2>4 DEF F!Fail
      <3>2. size > Len(b)
        BY <1>2, <1>7, <2>4
      <3> QED
        BY <2>3, <3>1, <3>2 DEF size
    <2>5. CASE ~ second - 1 > Len(b)
      <3>1. method.read /\ method.value = m.method /\ method.next = second
        BY <1>6, <2>5 DEF F!Field
      <3>2. F!Decode(b) =
              IF ~ payload.read THEN F!Error("failed")
              ELSE IF ~ F!IsUtf8(payload.value) THEN F!Error("retry")
              ELSE IF payload.value # <<>> /\ ~ F!IsJson(payload.value) THEN F!Error("json")
              ELSE [kind |-> "ok",
                    msg |-> [type |-> m.type, method |-> m.method, payload |-> payload.value]]
        BY <2>2, <2>3, <3>1
      <3> HIDE DEF payload
      <3>3. CASE size > Len(b)
        <4>1. ~ payload.read
          BY <1>8, <3>3 DEF F!Fail
        <4> QED
          BY <3>2, <3>3, <4>1 DEF size
      <3>4. CASE ~ size > Len(b)
        <4>1. payload.read /\ payload.value = m.payload
          BY <1>8, <3>4 DEF F!Field
        <4>2. [type |-> m.type, method |-> m.method, payload |-> m.payload] = m
          BY DEF Sendable, Frame
        <4> QED
          BY <3>2, <3>4, <4>1, <4>2 DEF size
      <3> QED
        BY <3>3, <3>4
    <2> QED
      BY <2>4, <2>5
  <1> QED
    BY <1>10, <1>11

-----------------------------------------------------------------------------
(* What is read from the middle of a message.                              *)

\* The head of an array: how many bytes it has, and what it counts.
IsHead(f) == f \in F!FixArray \cup {F!Array16, F!Array32}
HeadSize(f) == IF f \in F!FixArray THEN 1 ELSE IF f = F!Array16 THEN 3 ELSE 5
ArrayLen(all, s) ==
  IF all[s] \in F!FixArray THEN all[s] - 144
  ELSE F!ValueOf(all, s + 1, HeadSize(all[s]) - 1)

\* No type of a message is read from s, or no marker of a method behind it.
Sealed(all, s) ==
  LET p == s + HeadSize(all[s]) IN
  IsHead(all[s]) /\ ArrayLen(all, s) = 3 /\ p + 1 <= Len(all)
    /\ all[p] = F!U8 /\ all[p + 1] \in F!MessageType
    => (p + 2 <= Len(all) => all[p + 2] \notin {F!Bin8, F!Bin16, F!Bin32})

\* What is read from s to e is one of the errors that read_message retries on.
Retried(all, s, e) ==
  LET p == s + HeadSize(all[s]) IN
  /\ IsHead(all[s]) /\ p - 1 <= e
  /\ \/ ArrayLen(all, s) # 3
     \/ p + 1 <= e /\ all[p] = F!U8 /\ all[p + 1] \notin F!MessageType

\* The length of an array is read, as soon as its head is complete.
LEMMA ArrayRead ==
  ASSUME NEW all \in Seq(F!Byte), NEW s \in 1 .. Len(all), NEW e \in s .. Len(all),
         NEW b, b = SubSeq(all, s, e)
  PROVE  F!ReadArrayLen(b) =
           IF IsHead(all[s]) /\ s + HeadSize(all[s]) - 1 <= e
           THEN F!Field(ArrayLen(all, s), HeadSize(all[s]) + 1) ELSE F!Fail
  <1> DEFINE f == all[s]
  <1>1. /\ s \in Nat \ {0} /\ e \in Nat /\ s - 1 <= e /\ e <= Len(all) /\ s <= e
        /\ Len(all) \in Nat
    BY LenProperties
  <1>2. /\ b \in Seq(F!Byte) /\ Len(b) = e - s + 1
        /\ \A i \in 1 .. e - s + 1 : b[i] = all[s + i - 1]
    BY <1>1, Run
  <1>3. b # <<>> /\ b[1] = f
    <2>1. 1 \in 1 .. e - s + 1 /\ s + 1 - 1 = s /\ Len(b) # 0
      BY <1>1, <1>2
    <2> QED
      BY <1>2, <2>1, EmptySeq
  <1>4. ASSUME NEW n \in {2, 4}
        PROVE  F!ReadInt(b, 2, n) = IF s + n <= e THEN F!Field(F!ValueOf(all, s + 1, n), n + 2)
                                    ELSE F!Fail
    <2> DEFINE two == 2
               next == s + 1
    <2>1. F!ReadInt(b, two, n) = IF two + n - 1 > Len(b) THEN F!Fail
                                 ELSE F!Field(F!ValueOf(b, two, n), two + n)
      BY DEF F!ReadInt
    <2>2. two + n - 1 > Len(b) <=> ~ s + n <= e
      BY <1>1, <1>2, <1>4
    <2>3. ASSUME s + n <= e
          PROVE  F!ValueOf(b, two, n) = F!ValueOf(all, next, n)
      <3>1. ASSUME NEW d \in 0 .. n - 1 PROVE b[two + d] = all[next + d]
        <4>1. two + d \in 1 .. e - s + 1 /\ s + (two + d) - 1 = next + d
          BY <1>1, <1>4, <2>3
        <4> QED
          BY <1>2, <4>1
      <3>2. two \in Int /\ next \in Int /\ n \in {1, 2, 4}
        BY <1>1
      <3> HIDE DEF two, next
      <3> QED
        <4>1. Alike(b, two, all, next, n)
          BY <3>1 DEF Alike
        <4> QED
          BY <3>2, <4>1, ValueSame
    <2>4. two + n = n + 2
      BY <1>4
    <2> HIDE DEF two, next
    <2>5. F!ReadInt(b, two, n) = IF s + n <= e THEN F!Field(F!ValueOf(all, next, n), n + 2)
                                 ELSE F!Fail
      BY <2>1, <2>2, <2>3, <2>4
    <2> QED
      BY <2>5 DEF two, next
  <1>5. /\ F!Array16 \notin F!FixArray /\ F!Array32 \notin F!FixArray /\ F!Array16 # F!Array32
    BY DEF F!Array16, F!Array32, F!FixArray
  <1>6. CASE f \in F!FixArray
    <2>1. F!ReadArrayLen(b) = F!Field(f - 144, 2)
      BY <1>3, <1>5, <1>6 DEF F!ReadArrayLen
    <2>2. IsHead(f) /\ HeadSize(f) = 1 /\ ArrayLen(all, s) = f - 144
      BY <1>6 DEF IsHead, HeadSize, ArrayLen
    <2>3. s + 1 - 1 <= e /\ 1 + 1 = 2
      BY <1>1
    <2> QED
      BY <2>1, <2>2, <2>3
  <1>7. CASE f = F!Array16
    <2>1. F!ReadArrayLen(b) = F!ReadInt(b, 2, 2)
      BY <1>3, <1>5, <1>7 DEF F!ReadArrayLen
    <2>2. /\ IsHead(f) /\ HeadSize(f) = 3
          /\ ArrayLen(all, s) = F!ValueOf(all, s + 1, 3 - 1)
      BY <1>5, <1>7 DEF IsHead, HeadSize, ArrayLen
    <2>3. s + 3 - 1 = s + 2 /\ 3 + 1 = 2 + 2 /\ 3 - 1 = 2
      BY <1>1
    <2>4. F!ReadInt(b, 2, 2) = IF s + 2 <= e THEN F!Field(F!ValueOf(all, s + 1, 2), 2 + 2)
                               ELSE F!Fail
      BY <1>4
    <2> QED
      BY <2>1, <2>2, <2>3, <2>4
  <1>8. CASE f = F!Array32
    <2>1. F!ReadArrayLen(b) = F!ReadInt(b, 2, 4)
      BY <1>3, <1>5, <1>8 DEF F!ReadArrayLen
    <2>2. /\ IsHead(f) /\ HeadSize(f) = 5
          /\ ArrayLen(all, s) = F!ValueOf(all, s + 1, 5 - 1)
      BY <1>5, <1>8 DEF IsHead, HeadSize, ArrayLen
    <2>3. s + 5 - 1 = s + 4 /\ 5 + 1 = 4 + 2 /\ 5 - 1 = 4
      BY <1>1
    <2>4. F!ReadInt(b, 2, 4) = IF s + 4 <= e THEN F!Field(F!ValueOf(all, s + 1, 4), 4 + 2)
                               ELSE F!Fail
      BY <1>4
    <2> QED
      BY <2>1, <2>2, <2>3, <2>4
  <1>9. CASE ~ IsHead(f)
    <2>1. f \notin F!FixArray /\ f # F!Array16 /\ f # F!Array32
          /\ f \notin F!FixArray \cup {F!Array16, F!Array32}
      BY <1>9 DEF IsHead
    <2>2. F!ReadArrayLen(b) = F!Fail
      BY <1>3, <2>1 DEF F!ReadArrayLen
    <2> QED
      BY <1>9, <2>2
  <1> QED
    BY <1>6, <1>7, <1>8, <1>9 DEF IsHead

\* A type is read behind its marker.
LEMMA TypeRead ==
  ASSUME NEW all \in Seq(F!Byte), NEW s \in 1 .. Len(all), NEW e \in s .. Len(all),
         NEW b, b = SubSeq(all, s, e), NEW n \in Nat \ {0}
  PROVE  F!ReadU8(b, n + 1) =
           IF s + n + 1 <= e /\ all[s + n] = F!U8 THEN F!Field(all[s + n + 1], n + 3) ELSE F!Fail
  <1>1. /\ s \in Nat \ {0} /\ e \in Nat /\ s - 1 <= e /\ e <= Len(all) /\ s <= e
        /\ Len(all) \in Nat
    BY LenProperties
  <1>2. /\ b \in Seq(F!Byte) /\ Len(b) = e - s + 1 /\ DOMAIN b = 1 .. e - s + 1
        /\ \A i \in 1 .. e - s + 1 : b[i] = all[s + i - 1]
    <2>1. /\ b \in Seq(F!Byte) /\ Len(b) = e - s + 1
          /\ \A i \in 1 .. e - s + 1 : b[i] = all[s + i - 1]
      BY <1>1, Run
    <2> QED
      BY <2>1, LenProperties
  <1> DEFINE at == n + 1
             next == n + 2
  <1>3. F!ReadInt(b, at + 1, 1) = IF (at + 1) + 1 - 1 > Len(b) THEN F!Fail
                                  ELSE F!Field(b[at + 1], (at + 1) + 1)
    BY DEF F!ReadInt, F!ValueOf
  <1>4. /\ at + 1 = next /\ (at + 1) + 1 - 1 = next /\ (at + 1) + 1 = n + 3
        /\ next > Len(b) <=> ~ s + n + 1 <= e
    BY <1>1, <1>2
  <1>5. CASE s + n + 1 <= e
    <2>1. /\ at \in DOMAIN b /\ at \in 1 .. e - s + 1 /\ next \in 1 .. e - s + 1
          /\ s + at - 1 = s + n /\ s + next - 1 = s + n + 1
      BY <1>1, <1>2, <1>5
    <2>2. b[at] = all[s + n] /\ b[next] = all[s + n + 1]
      BY <1>2, <2>1
    <2> HIDE DEF at, next
    <2>3. F!ReadInt(b, at + 1, 1) = F!Field(all[s + n + 1], n + 3)
      BY <1>3, <1>4, <1>5, <2>2
    <2>4. F!ReadU8(b, at) = IF all[s + n] = F!U8 THEN F!Field(all[s + n + 1], n + 3) ELSE F!Fail
      BY <2>1, <2>2, <2>3 DEF F!ReadU8
    <2> QED
      BY <1>5, <2>4 DEF at
  <1>6. CASE ~ s + n + 1 <= e
    <2> HIDE DEF at, next
    <2>1. F!ReadInt(b, at + 1, 1) = F!Fail
      BY <1>3, <1>4, <1>6
    <2>2. F!ReadU8(b, at) = F!Fail
      BY <2>1 DEF F!ReadU8
    <2> QED
      BY <1>6, <2>2 DEF at
  <1> QED
    BY <1>5, <1>6

\* From the middle of a message nothing is decoded.
LEMMA MiddleDecoded ==
  ASSUME NEW all \in Seq(F!Byte), NEW s \in 1 .. Len(all), NEW e \in s .. Len(all),
         Sealed(all, s)
  PROVE  F!Decode(SubSeq(all, s, e)).kind = IF Retried(all, s, e) THEN "retry" ELSE "failed"
  <1> DEFINE b == SubSeq(all, s, e)
             f == all[s]
             n == HeadSize(f)
             length == F!ReadArrayLen(b)
             type == F!ReadU8(b, n + 1)
             method == F!ReadBin(b, n + 3)
             p == s + n
  <1>1. /\ s \in Nat \ {0} /\ e \in Nat /\ s - 1 <= e /\ e <= Len(all) /\ s <= e
        /\ Len(all) \in Nat /\ n \in {1, 3, 5}
    BY LenProperties DEF HeadSize
  <1>2. /\ b \in Seq(F!Byte) /\ Len(b) = e - s + 1 /\ DOMAIN b = 1 .. e - s + 1
        /\ \A i \in 1 .. e - s + 1 : b[i] = all[s + i - 1]
    <2> HIDE DEF b, n
    <2>1. /\ b \in Seq(F!Byte) /\ Len(b) = e - s + 1
          /\ \A i \in 1 .. e - s + 1 : b[i] = all[s + i - 1]
      BY <1>1, Run DEF b
    <2> QED
      BY <2>1, LenProperties
  <1>3. length = IF IsHead(f) /\ p - 1 <= e THEN F!Field(ArrayLen(all, s), n + 1) ELSE F!Fail
    <2>1. /\ b = SubSeq(all, s, e) /\ f = all[s] /\ n = HeadSize(all[s])
          /\ length = F!ReadArrayLen(b)
      OBVIOUS
    <2> HIDE DEF b, f, n, length
    <2>2. length = IF IsHead(f) /\ s + n - 1 <= e THEN F!Field(ArrayLen(all, s), n + 1) ELSE F!Fail
      BY <2>1, ArrayRead
    <2>3. s + n - 1 <= e <=> p - 1 <= e
      BY <1>1
    <2> HIDE DEF p
    <2> QED
      BY <2>2, <2>3
  <1>4. type = IF p + 1 <= e /\ all[p] = F!U8 THEN F!Field(all[p + 1], n + 3) ELSE F!Fail
    <2>1. n \in Nat \ {0}
      BY <1>1
    <2> HIDE DEF n
    <2> QED
      BY <2>1, TypeRead
  <1>5. /\ F!Error("failed").kind = "failed" /\ F!Error("retry").kind = "retry"
    BY DEF F!Error
  <1> HIDE DEF b, n, length, type, method, f
  <1>6. ASSUME ~ length.read
        PROVE  F!Decode(b).kind = "failed"
    BY <1>5, <1>6 DEF F!Decode, length
  <1>7. ASSUME length.read, length.value # 3
        PROVE  F!Decode(b).kind = "retry"
    BY <1>5, <1>7 DEF F!Decode, length
  <1>8. ASSUME length.read, length.value = 3, length.next = n + 1
        PROVE  /\ ~ type.read => F!Decode(b).kind = "failed"
               /\ type.read /\ type.value \notin F!MessageType => F!Decode(b).kind = "retry"
               /\ type.read /\ type.value \in F!MessageType /\ type.next = n + 3 /\ ~ method.read =>
                    F!Decode(b).kind = "failed"
    <2>1. ASSUME ~ type.read PROVE F!Decode(b).kind = "failed"
      BY <1>5, <1>8, <2>1 DEF F!Decode, length, type
    <2>2. ASSUME type.read, type.value \notin F!MessageType PROVE F!Decode(b).kind = "retry"
      BY <1>5, <1>8, <2>2 DEF F!Decode, length, type
    <2>3. ASSUME type.read, type.value \in F!MessageType, type.next = n + 3, ~ method.read
          PROVE  F!Decode(b).kind = "failed"
      BY <1>5, <1>8, <2>3 DEF F!Decode, length, type, method
    <2> QED
      BY <2>1, <2>2, <2>3
  <1>9. CASE ~ (IsHead(f) /\ p - 1 <= e)
    <2>1. ~ length.read
      BY <1>3, <1>9 DEF F!Fail
    <2>2. ~ Retried(all, s, e)
      BY <1>9 DEF Retried, f, n
    <2> QED
      BY <1>6, <2>1, <2>2 DEF b
  <1>10. CASE IsHead(f) /\ p - 1 <= e /\ ArrayLen(all, s) # 3
    <2>1. length.read /\ length.value # 3
      BY <1>3, <1>10 DEF F!Field
    <2>2. Retried(all, s, e)
      BY <1>10 DEF Retried, f, n
    <2> QED
      BY <1>7, <2>1, <2>2 DEF b
  <1>11. CASE IsHead(f) /\ p - 1 <= e /\ ArrayLen(all, s) = 3
    <2>1. length.read /\ length.value = 3 /\ length.next = n + 1
      BY <1>3, <1>11 DEF F!Field
    <2>2. CASE ~ (p + 1 <= e /\ all[p] = F!U8)
      <3>1. ~ type.read
        BY <1>4, <2>2 DEF F!Fail
      <3>2. ~ Retried(all, s, e)
        BY <1>11, <2>2 DEF Retried, f, n
      <3> QED
        BY <1>8, <2>1, <3>1, <3>2 DEF b
    <2>3. CASE p + 1 <= e /\ all[p] = F!U8 /\ all[p + 1] \notin F!MessageType
      <3>1. type.read /\ type.value \notin F!MessageType
        BY <1>4, <2>3 DEF F!Field
      <3>2. Retried(all, s, e)
        BY <1>11, <2>3 DEF Retried, f, n
      <3> QED
        BY <1>8, <2>1, <3>1, <3>2 DEF b
    <2>4. CASE p + 1 <= e /\ all[p] = F!U8 /\ all[p + 1] \in F!MessageType
      <3>1. type.read /\ type.value \in F!MessageType /\ type.next = n + 3
        BY <1>4, <2>4 DEF F!Field
      <3>2. ~ Retried(all, s, e)
        BY <1>11, <2>4 DEF Retried, f, n
      <3>3. p + 1 <= Len(all)
        BY <1>1, <2>4
      <3>4. p + 2 <= Len(all) => all[p + 2] \notin {F!Bin8, F!Bin16, F!Bin32}
        BY <1>11, <2>4, <3>3 DEF Sealed, f, n
      <3>5. F!ReadBinLen(b, n + 3) = F!Fail
        <4>1. CASE n + 3 \notin DOMAIN b
          BY <4>1 DEF F!ReadBinLen
        <4>2. CASE n + 3 \in DOMAIN b
          <5>1. n + 3 \in 1 .. e - s + 1 /\ s + (n + 3) - 1 = p + 2 /\ p + 2 <= Len(all)
            <6>1. n + 3 \in 1 .. e - s + 1
              BY <1>2, <4>2
            <6> QED
              BY <1>1, <6>1
          <5>2. b[n + 3] = all[p + 2]
            BY <1>2, <5>1
          <5>3. b[n + 3] # F!Bin8 /\ b[n + 3] # F!Bin16 /\ b[n + 3] # F!Bin32
            BY <3>4, <5>1, <5>2
          <5> QED
            BY <4>2, <5>3 DEF F!ReadBinLen
        <4> QED
          BY <4>1, <4>2
      <3>6. ~ method.read
        <4>1. ~ F!ReadBinLen(b, n + 3).read
          BY <3>5 DEF F!Fail
        <4>2. method = F!Fail
          BY <4>1 DEF F!ReadBin, method
        <4> QED
          BY <4>2 DEF F!Fail
      <3> QED
        BY <1>8, <2>1, <3>1, <3>2, <3>6 DEF b
    <2> QED
      BY <2>2, <2>3, <2>4
  <1> QED
    BY <1>9, <1>10, <1>11
\* Once it is retried it stays retried: what follows changes nothing.
LEMMA RetriedStays ==
  ASSUME NEW all, NEW s \in Nat, NEW e \in Nat, Retried(all, s, e)
  PROVE  Retried(all, s, e + 1)
  <1> DEFINE p == s + HeadSize(all[s])
  <1>1. p \in Nat
    BY DEF HeadSize
  <1>2. /\ IsHead(all[s]) /\ p - 1 <= e
        /\ \/ ArrayLen(all, s) # 3
           \/ p + 1 <= e /\ all[p] = F!U8 /\ all[p + 1] \notin F!MessageType
    BY DEF Retried
  <1> HIDE DEF p
  <1>3. (p - 1 <= e => p - 1 <= e + 1) /\ (p + 1 <= e => p + 1 <= e + 1)
    BY <1>1
  <1>4. /\ IsHead(all[s]) /\ p - 1 <= e + 1
        /\ \/ ArrayLen(all, s) # 3
           \/ p + 1 <= e + 1 /\ all[p] = F!U8 /\ all[p + 1] \notin F!MessageType
    BY <1>2, <1>3
  <1> QED
    BY <1>4 DEF Retried, p

-----------------------------------------------------------------------------
(* A message has no other message in its middle.                           *)

\* In a content no type follows its marker.
LEMMA ContentSealed ==
  ASSUME NEW c, Content(c), NEW i \in 1 .. Len(c) - 1, c[i] = F!U8
  PROVE  c[i + 1] \notin F!MessageType
  <1>1. Len(c) \in Nat /\ DOMAIN c = 1 .. Len(c)
    BY LenProperties DEF Content
  <1>2. i \in 1 .. Len(c) /\ i + 1 \in 1 .. Len(c) /\ i + 1 \in 2 .. Len(c) /\ (i + 1) - 1 = i
        /\ i + 1 \in 1 .. Len(c) + 3
    BY <1>1
  <1>3. CASE F!IsUtf8(c)
    <2> DEFINE In(k, S) == k \in DOMAIN c /\ c[k] \in S
    <2>1. In((i + 1) - 1, 194 .. 244) => In(i + 1, 128 .. 191)
      BY <1>2, <1>3 DEF F!IsUtf8
    <2>2. In((i + 1) - 1, 194 .. 244)
      <3>1. F!U8 \in 194 .. 244
        BY DEF F!U8
      <3> QED
        BY <1>1, <1>2, <3>1
    <2>3. c[i + 1] \in 128 .. 191
      BY <2>1, <2>2
    <2> DEFINE x == c[i + 1]
    <2>4. x \in 128 .. 191
      BY <2>3
    <2> HIDE DEF x
    <2>5. x \notin F!MessageType
      BY <2>4 DEF F!MessageType
    <2> QED
      BY <2>5 DEF x
  <1>4. CASE \A k \in 2 .. Len(c) : c[k - 1] = F!U8 => c[k] \notin F!MessageType
    <2> DEFINE k == i + 1
    <2>1. k \in 2 .. Len(c) /\ k - 1 = i
      BY <1>2
    <2>2. k \in 2 .. Len(c) => (c[k - 1] = F!U8 => c[k] \notin F!MessageType)
      BY <1>4
    <2> HIDE DEF k
    <2>3. c[k] \notin F!MessageType
      BY <2>1, <2>2
    <2> QED
      BY <2>3 DEF k
  <1> QED
    BY <1>3, <1>4 DEF Content

\* Before p there is the head of an array of three.
Counted(all, p) ==
  \/ all[p - 1] = F!FixArray3
  \/ all[p - 1] = 3 /\ all[p - 2] = 0

\* So ends a head that counts three, and its other bytes count nothing.
LEMMA HeadCounts ==
  ASSUME NEW all \in Seq(F!Byte), NEW s \in 1 .. Len(all), NEW p, p = s + HeadSize(all[s]),
         p <= Len(all), IsHead(all[s]), ArrayLen(all, s) = 3
  PROVE  /\ p \in Nat /\ s < p /\ Counted(all, p)
         /\ \A i \in s + 1 .. p - 1 : all[i] \in {0, 3}
  <1> DEFINE f == all[s]
             Value(i) == 256 * all[i] + all[i + 1]
  <1>1. Len(all) \in Nat /\ s \in Nat /\ \A i \in 1 .. Len(all) : all[i] \in 0 .. 255
    <2>1. Len(all) \in Nat /\ \A i \in 1 .. Len(all) : all[i] \in F!Byte
      BY LenProperties, ElementOfSeq
    <2> QED
      BY <2>1 DEF F!Byte
  <1>2. CASE f \in F!FixArray
    <2>1. HeadSize(f) = 1 /\ ArrayLen(all, s) = f - 144
      BY <1>2 DEF HeadSize, ArrayLen
    <2>2. p = s + 1 /\ f - 144 = 3
      BY <2>1
    <2>3. f \in 0 .. 255
      BY <1>1
    <2>4. f = F!FixArray3
      BY <2>2, <2>3 DEF F!FixArray3
    <2>5. p \in Nat /\ s < p /\ p - 1 = s
      BY <1>1, <2>2
    <2> HIDE DEF f
    <2>6. all[p - 1] = F!FixArray3
      BY <2>4, <2>5 DEF f
    <2>7. Counted(all, p)
      BY <2>6 DEF Counted
    <2>8. ASSUME NEW i \in s + 1 .. p - 1 PROVE all[i] \in {0, 3}
      <3>1. i \in s + 1 .. s
        BY <2>5
      <3> QED
        BY <1>1, <3>1
    <2> QED
      BY <2>5, <2>7, <2>8
  <1>3. CASE f \notin F!FixArray /\ f = F!Array16
    <2>1. HeadSize(f) = 3 /\ ArrayLen(all, s) = F!ValueOf(all, s + 1, 2)
      <3>1. HeadSize(f) = 3 /\ 3 - 1 = 2
        BY <1>3 DEF HeadSize
      <3> QED
        BY <1>3, <3>1 DEF ArrayLen
    <2>2. F!ValueOf(all, s + 1, 2) = Value(s + 1)
      BY DEF F!ValueOf
    <2>3. p = s + 3 /\ Value(s + 1) = 3
      BY <2>1, <2>2
    <2>4. /\ p \in Nat /\ s < p /\ s + 1 \in 1 .. Len(all) /\ s + 2 \in 1 .. Len(all)
          /\ p - 1 = s + 2 /\ p - 2 = s + 1 /\ (s + 1) + 1 = s + 2
          /\ \A i \in s + 1 .. p - 1 : i = s + 1 \/ i = s + 2
      BY <1>1, <2>3
    <2> DEFINE x == all[s + 1]
               y == all[s + 2]
    <2>5. x \in 0 .. 255 /\ y \in 0 .. 255 /\ 256 * x + y = 3
      BY <1>1, <2>3, <2>4
    <2> HIDE DEF x, y
    <2>6. x = 0 /\ y = 3
      BY <2>5
    <2> QED
      BY <2>4, <2>6 DEF x, y, Counted
  <1>4. CASE f \notin F!FixArray /\ f # F!Array16
    <2>1. HeadSize(f) = 5 /\ ArrayLen(all, s) = F!ValueOf(all, s + 1, 4)
      <3>1. HeadSize(f) = 5 /\ 5 - 1 = 4
        BY <1>4 DEF HeadSize
      <3> QED
        BY <1>4, <3>1 DEF ArrayLen
    <2>2. F!ValueOf(all, s + 1, 4) = F!TwoBytes * Value(s + 1) + Value(s + 1 + 2)
      BY DEF F!ValueOf
    <2>3. p = s + 5 /\ F!TwoBytes * Value(s + 1) + Value(s + 1 + 2) = 3
      BY <2>1, <2>2
    <2>4. /\ p \in Nat /\ s < p /\ s + 1 \in 1 .. Len(all) /\ s + 2 \in 1 .. Len(all)
          /\ s + 3 \in 1 .. Len(all) /\ s + 4 \in 1 .. Len(all)
          /\ p - 1 = s + 4 /\ p - 2 = s + 3 /\ s + 1 + 1 = s + 2 /\ s + 1 + 2 = s + 3
          /\ s + 1 + 2 + 1 = s + 4
          /\ \A i \in s + 1 .. p - 1 : i = s + 1 \/ i = s + 2 \/ i = s + 3 \/ i = s + 4
      BY <1>1, <2>3
    <2> DEFINE x == all[s + 1]
               y == all[s + 2]
               z == all[s + 3]
               w == all[s + 4]
    <2>5. /\ x \in 0 .. 255 /\ y \in 0 .. 255 /\ z \in 0 .. 255 /\ w \in 0 .. 255
          /\ F!TwoBytes * (256 * x + y) + (256 * z + w) = 3
      BY <1>1, <2>3, <2>4
    <2> HIDE DEF x, y, z, w
    <2>6. 256 * x + y = 0 /\ 256 * z + w = 3
      <3> DEFINE a == 256 * x + y
                 b == 256 * z + w
      <3>1. a \in Nat /\ b \in Nat /\ F!TwoBytes * a + b = 3
        BY <2>5
      <3> HIDE DEF a, b
      <3>2. a = 0 /\ b = 3
        BY <3>1, SMT DEF F!TwoBytes
      <3> QED
        BY <3>2 DEF a, b
    <2>7. x = 0 /\ y = 0 /\ z = 0 /\ w = 3
      BY <2>5, <2>6
    <2> QED
      BY <2>4, <2>7 DEF x, y, z, w, Counted
  <1> QED
    BY <1>2, <1>3, <1>4

\* In what write_bin wrote no type follows its marker behind such a head, except in the
\* five bytes of a head, and there no marker of binary data follows the type.
LEMMA PartSealed ==
  ASSUME NEW all, NEW at \in Nat, NEW h, NEW c, Content(c), Written(all, at, h, c),
         NEW p \in at .. at + h + Len(c) - 1, Counted(all, p),
         all[p] = F!U8, all[p + 1] \in F!MessageType,
         p = at + h + Len(c) - 1 => all[p + 1] \notin F!MessageType
  PROVE  all[p + 2] \notin {F!Bin8, F!Bin16, F!Bin32}
  <1> DEFINE n == Len(c)
  <1>1. /\ n \in Nat /\ h \in {2, 3, 5} /\ all[at] = Marker(h)
        /\ \A i \in 1 .. n : all[at + h - 1 + i] = c[i]
        /\ h # 2 => c # <<>>
        /\ h = 5 => all[at + 1] \in 0 .. 127
    BY LenProperties DEF Content, Written
  <1>2. /\ c # <<>> => n # 0 /\ all[at + h] \in 9 .. 127
    <2>1. c # <<>> => n # 0 /\ 1 \in 1 .. n /\ at + h - 1 + 1 = at + h /\ c[1] \in 9 .. 127
      <3>1. c # <<>> => n # 0 /\ c[1] \in 9 .. 127
        BY EmptySeq DEF Content
      <3> QED
        BY <1>1, <3>1
    <2> QED
      BY <1>1, <2>1
  <1>3. all[at] \notin {0, 3, F!FixArray3, F!U8}
    <2>1. all[at] \in {F!Bin8, F!Bin16, F!Bin32}
      BY <1>1 DEF Marker
    <2> QED
      BY <2>1 DEF F!Bin8, F!Bin16, F!Bin32, F!FixArray3, F!U8
  <1>4. all[p + 1] \in 1 .. 6
    BY DEF F!MessageType
  <1>5. \/ p = at
        \/ p = at + 1
        \/ p = at + 2 /\ h # 2
        \/ p = at + 3 /\ h = 5
        \/ p = at + 4 /\ h = 5
        \/ p \in at + h .. at + h + n - 1
    BY <1>1
  <1>6. p # at
    BY <1>3
  <1>7. p # at + 1
    <2>1. ASSUME p = at + 1 PROVE p - 1 = at
      BY <2>1
    <2> QED
      BY <1>3, <2>1 DEF Counted
  <1>8. ~ (p = at + 2 /\ h = 3)
    <2>1. ASSUME p = at + 2, h = 3 PROVE FALSE
      <3>1. p + 1 = at + h
        BY <2>1
      <3> DEFINE x == all[p + 1]
      <3>2. x \in 9 .. 127
        BY <1>1, <1>2, <2>1, <3>1
      <3>3. x \in 1 .. 6
        BY <1>4
      <3> HIDE DEF x
      <3> QED
        BY <3>2, <3>3
    <2> QED
      BY <2>1
  <1>9. ~ (p = at + 2 /\ h = 5)
    <2>1. ASSUME p = at + 2, h = 5 PROVE FALSE
      <3>1. p - 1 = at + 1 /\ p - 2 = at
        BY <2>1
      <3> DEFINE x == all[p - 1]
      <3>2. x \in 0 .. 127
        BY <1>1, <2>1, <3>1
      <3>3. x = F!FixArray3 \/ (x = 3 /\ all[p - 2] = 0)
        BY DEF Counted
      <3> HIDE DEF x
      <3>4. x # F!FixArray3
        BY <3>2 DEF F!FixArray3
      <3> QED
        BY <1>3, <3>1, <3>3, <3>4
    <2> QED
      BY <2>1
  <1>10. ~ (p = at + 4 /\ h = 5)
    <2>1. ASSUME p = at + 4, h = 5 PROVE FALSE
      <3>1. p + 1 = at + h
        BY <2>1
      <3> DEFINE x == all[p + 1]
      <3>2. x \in 9 .. 127
        BY <1>1, <1>2, <2>1, <3>1
      <3>3. x \in 1 .. 6
        BY <1>4
      <3> HIDE DEF x
      <3> QED
        BY <3>2, <3>3
    <2> QED
      BY <2>1
  <1>11. ~ p \in at + h .. at + h + n - 1
    <2>1. ASSUME p \in at + h .. at + h + n - 1 PROVE FALSE
      <3> DEFINE i == p - (at + h - 1)
      <3>1. p # at + h + n - 1
        OBVIOUS
      <3>2. /\ i \in 1 .. n - 1 /\ i \in 1 .. n /\ i + 1 \in 1 .. n
            /\ at + h - 1 + i = p /\ at + h - 1 + (i + 1) = p + 1
        BY <1>1, <2>1, <3>1
      <3> HIDE DEF i
      <3>3. c[i] = F!U8 /\ c[i + 1] = all[p + 1]
        BY <1>1, <3>2
      <3>4. c[i + 1] \notin F!MessageType
        BY <3>2, <3>3, ContentSealed
      <3> QED
        BY <3>3, <3>4
    <2> QED
      BY <2>1
  <1>12. p = at + 3 /\ h = 5
    BY <1>1, <1>5, <1>6, <1>7, <1>8, <1>9, <1>10, <1>11
  <1>13. p + 2 = at + h
    BY <1>12
  <1>14. all[p + 2] \in 9 .. 127
    BY <1>1, <1>2, <1>12, <1>13
  <1> DEFINE x == all[p + 2]
  <1> HIDE DEF x
  <1>15. x \in 9 .. 127
    BY <1>14 DEF x
  <1>16. x \notin {F!Bin8, F!Bin16, F!Bin32}
    BY <1>15 DEF F!Bin8, F!Bin16, F!Bin32
  <1> QED
    BY <1>16 DEF x

\* So from its middle no message is read: what looks like a head, a type and the
\* marker of a method is never all three of them.
LEMMA StreamSealed ==
  ASSUME NEW all \in Seq(F!Byte), NEW m, Sendable(m), NEW h1, NEW h2,
         Encoded(all, m, h1, h2), NEW size, size = SizeOf(m, h1, h2), size < Len(all),
         all[size + 1] = F!FixArray3, NEW s \in 2 .. size
  PROVE  Sealed(all, s)
  <1> DEFINE n1 == Len(m.method)
             n2 == Len(m.payload)
             p == s + HeadSize(all[s])
             second == 4 + h1 + n1
  <1>1. /\ m.type \in 1 .. 6 /\ n1 \in Nat /\ n2 \in Nat /\ Len(all) \in Nat
        /\ h1 \in {2, 3, 5} /\ h2 \in {2, 3, 5}
        /\ Content(m.method) /\ Content(m.payload)
        /\ all[3] = m.type /\ Written(all, 4, h1, m.method)
        /\ Written(all, second, h2, m.payload)
    BY FrameType, LenProperties DEF Sendable, Encoded, Written
  <1>2. size = second + h2 + n2 - 1 /\ size \in Nat /\ second \in Nat
    <2>1. size = 3 + h1 + n1 + h2 + n2
      BY DEF SizeOf
    <2>2. /\ n1 \in Nat /\ n2 \in Nat /\ h1 \in Nat /\ h2 \in Nat
          /\ second = 4 + h1 + n1
      BY <1>1
    <2> HIDE DEF n1, n2, second
    <2>3. size \in Nat /\ second \in Nat
      BY <2>1, <2>2
    <2>4. size = second + h2 + n2 - 1
      BY <2>1, <2>2
    <2> QED
      BY <2>3, <2>4
  <1> HIDE DEF n1, n2, second, p
  <1>3. SUFFICES ASSUME IsHead(all[s]), ArrayLen(all, s) = 3, p + 1 <= Len(all),
                        all[p] = F!U8, all[p + 1] \in F!MessageType
                 PROVE  all[p + 2] \notin {F!Bin8, F!Bin16, F!Bin32}
    BY DEF Sealed, p
  <1>4. s \in 1 .. Len(all) /\ s \in Nat /\ s <= size
    BY <1>1, <1>2
  <1>5. p \in Nat
    BY <1>4 DEF HeadSize, p
  <1>6. /\ s < p /\ Counted(all, p)
        /\ \A i \in s + 1 .. p - 1 : all[i] \in {0, 3}
    <2>1. p <= Len(all) /\ p = s + HeadSize(all[s])
      BY <1>1, <1>3, <1>5 DEF p
    <2> QED
      BY <1>3, <1>4, <2>1, HeadCounts
  <1>7. F!FixArray3 \notin {0, 3, F!U8} /\ F!FixArray3 \notin F!MessageType
        /\ F!U8 \notin 1 .. 6
    BY DEF F!FixArray3, F!U8, F!MessageType
  <1>8. p <= size
    <2>1. ASSUME ~ p <= size PROVE FALSE
      <3>1. size + 1 = p \/ size + 1 \in s + 1 .. p - 1
        BY <1>2, <1>4, <1>5, <2>1
      <3> QED
        BY <1>3, <1>6, <1>7, <3>1
    <2> QED
      BY <2>1
  <1>9. p # 3
    BY <1>1, <1>3, <1>7
  <1>10. CASE p \in 4 .. 4 + h1 + n1 - 1
    <2> DEFINE at == 4
    <2>1. ASSUME p = at + h1 + n1 - 1 PROVE all[p + 1] \notin F!MessageType
      <3>1. p + 1 = second
        BY <1>1, <2>1 DEF second
      <3>2. all[p + 1] \in {F!Bin8, F!Bin16, F!Bin32}
        BY <1>1, <3>1 DEF Written, Marker
      <3> DEFINE x == all[p + 1]
      <3> HIDE DEF x
      <3>3. x \in {F!Bin8, F!Bin16, F!Bin32}
        BY <3>2 DEF x
      <3>4. x \notin F!MessageType
        BY <3>3 DEF F!Bin8, F!Bin16, F!Bin32, F!MessageType
      <3> QED
        BY <3>4 DEF x
    <2>2. at \in Nat /\ p \in at .. at + h1 + n1 - 1 /\ Written(all, at, h1, m.method)
      BY <1>1, <1>10
    <2> HIDE DEF at
    <2> QED
      BY <1>1, <1>3, <1>6, <2>1, <2>2, PartSealed DEF n1
  <1>11. CASE p \in second .. second + h2 + n2 - 1
    <2>1. ASSUME p = second + h2 + n2 - 1 PROVE all[p + 1] \notin F!MessageType
      <3>1. p + 1 = size + 1
        BY <1>2, <2>1
      <3> QED
        BY <1>7, <3>1
    <2> QED
      BY <1>1, <1>2, <1>3, <1>6, <1>11, <2>1, PartSealed DEF n2
  <1> QED
    <2>1. p \in 4 .. 4 + h1 + n1 - 1 \/ p \in second .. second + h2 + n2 - 1 \/ p = 3
      BY <1>1, <1>2, <1>4, <1>5, <1>6, <1>8 DEF second
    <2> QED
      BY <1>9, <1>10, <1>11, <2>1

-----------------------------------------------------------------------------
(* The bytes and the units.                                                *)

\* The outcomes that the units of a message have where nothing has been read.
LEMMA OutcomesAre ==
  ASSUME buf = <<>>, NEW m
  PROVE  /\ "failed" \in Outcomes(<<UnitOf(m, 1)>>)
         /\ {"failed", "retry"} \subseteq Outcomes(<<UnitOf(m, 2)>>)
         /\ LET all == Outcomes(<<UnitOf(m, 1), UnitOf(m, 2)>>) IN
            /\ FormOf(m) = "json" => "ok" \in all
            /\ FormOf(m) = "text" => "json" \in all
            /\ FormOf(m) = "raw" => "retry" \in all
  <1> DEFINE one == <<UnitOf(m, 1)>>
             two == <<UnitOf(m, 2)>>
             both == <<UnitOf(m, 1), UnitOf(m, 2)>>
  <1>1. /\ UnitOf(m, 1).at = 1 /\ UnitOf(m, 2).at = 2
        /\ UnitOf(m, 1).msg.len = 2 /\ UnitOf(m, 1).msg.form = FormOf(m)
    BY DEF UnitOf
  <1>2. /\ one[1] = UnitOf(m, 1) /\ Len(one) = 1 /\ two[1] = UnitOf(m, 2)
        /\ both[1] = UnitOf(m, 1) /\ Len(both) = 2
    OBVIOUS
  <1> HIDE DEF one, two, both
  <1>3. "partial" \in Decode(one)
    BY <1>1, <1>2 DEF Decode
  <1>4. "garbage" \in Decode(two) /\ "retry" \in Decode(two)
    BY <1>1, <1>2 DEF Decode
  <1>5. /\ FormOf(m) = "json" => "ok" \in Decode(both)
        /\ FormOf(m) = "text" => "json" \in Decode(both)
        /\ FormOf(m) = "raw" => "retry" \in Decode(both)
    BY <1>1, <1>2 DEF Decode
  <1>6. ASSUME NEW units
        PROVE  /\ "partial" \in Decode(units) => "failed" \in Outcomes(units)
               /\ "garbage" \in Decode(units) => "failed" \in Outcomes(units)
               /\ \A v \in {"ok", "json", "retry"} :
                    v \in Decode(units) => v \in Outcomes(units)
    BY DEF Outcomes
  <1> QED
    BY <1>3, <1>4, <1>5, <1>6 DEF one, two, both

\* What decode makes of the bytes of two messages is what it makes of the units.
LEMMA PairAsModelled ==
  ASSUME buf = <<>>, NEW m, NEW after, Sendable(m), Sendable(after)
  PROVE  LET size  == Len(F!Encode(m))
             bytes == F!Encode(m) \o F!Encode(after)
             Kind(s, e) == F!Decode(SubSeq(bytes, s, e)).kind
         IN
         /\ \A e \in 1 .. size - 1 : Kind(1, e) \in Outcomes(<<UnitOf(m, 1)>>)
         /\ \A e \in size .. Len(bytes) :
              /\ Kind(1, e) \in Outcomes(<<UnitOf(m, 1), UnitOf(m, 2)>>)
              /\ Kind(1, e) = "ok" => F!Decode(SubSeq(bytes, 1, e)).msg = m
         /\ \A s \in 2 .. size : \A e \in s .. Len(bytes) :
              /\ Kind(s, e) \in Outcomes(<<UnitOf(m, 2)>>)
              /\ Kind(s, e) = "retry" /\ e < Len(bytes) => Kind(s, e + 1) = "retry"
  <1> DEFINE size == Len(F!Encode(m))
             all == F!Encode(m) \o F!Encode(after)
             Kind(s, e) == F!Decode(SubSeq(all, s, e)).kind
  <1>1. PICK h1 \in {2, 3, 5}, h2 \in {2, 3, 5} :
           /\ all \in Seq(F!Byte) /\ size = SizeOf(m, h1, h2) /\ size \in Nat
           /\ Len(all) \in Nat /\ size < Len(all)
           /\ Encoded(all, m, h1, h2) /\ all[size + 1] = F!FixArray3
    BY StreamIs
  <1> HIDE DEF size, all
  <1>2. ASSUME NEW e \in 1 .. Len(all)
        PROVE  F!Decode(SubSeq(all, 1, e)) =
                 IF size > e THEN F!Error("failed")
                 ELSE IF ~ F!IsUtf8(m.payload) THEN F!Error("retry")
                 ELSE IF m.payload # <<>> /\ ~ F!IsJson(m.payload) THEN F!Error("json")
                 ELSE [kind |-> "ok", msg |-> m]
    <2> DEFINE b == SubSeq(all, 1, e)
               from == 1
    <2>1. from \in Nat \ {0} /\ e \in Nat /\ from - 1 <= e /\ e <= Len(all) /\ e - from + 1 = e
          /\ \A i \in 1 .. e : from + i - 1 = i
      BY <1>1
    <2>2. b = SubSeq(all, from, e)
      OBVIOUS
    <2> HIDE DEF b, from
    <2>3. /\ b \in Seq(F!Byte) /\ Len(b) = e
          /\ \A i \in 1 .. e : b[i] = all[i]
      BY <1>1, <2>1, <2>2, Run
    <2>4. Begins(b, all) /\ b # <<>>
      <3>1. Begins(b, all)
        BY <1>1, <2>1, <2>3 DEF Begins
      <3>2. e # 0
        OBVIOUS
      <3> QED
        BY <2>3, <3>1, <3>2, EmptySeq
    <2>5. F!Decode(b) =
            IF SizeOf(m, h1, h2) > Len(b) THEN F!Error("failed")
            ELSE IF ~ F!IsUtf8(m.payload) THEN F!Error("retry")
            ELSE IF m.payload # <<>> /\ ~ F!IsJson(m.payload) THEN F!Error("json")
            ELSE [kind |-> "ok", msg |-> m]
      BY <1>1, <2>4, FrontDecoded
    <2> QED
      BY <1>1, <2>3, <2>5 DEF b
  <1>3. \A v : F!Error(v).kind = v
    BY DEF F!Error
  <1>4. ASSUME NEW e \in 1 .. size - 1 PROVE Kind(1, e) \in Outcomes(<<UnitOf(m, 1)>>)
    <2>1. e \in 1 .. Len(all) /\ size > e
      BY <1>1
    <2>2. F!Decode(SubSeq(all, 1, e)) = F!Error("failed")
      BY <1>2, <2>1
    <2> QED
      BY <1>3, <2>2, OutcomesAre
  <1>5. ASSUME NEW e \in size .. Len(all)
        PROVE  /\ Kind(1, e) \in Outcomes(<<UnitOf(m, 1), UnitOf(m, 2)>>)
               /\ Kind(1, e) = "ok" => F!Decode(SubSeq(all, 1, e)).msg = m
    <2> DEFINE d == F!Decode(SubSeq(all, 1, e))
    <2>1. e \in 1 .. Len(all) /\ ~ size > e
      <3>1. size > 0
        <4>1. Len(m.method) \in Nat /\ Len(m.payload) \in Nat
          BY FrameType DEF Sendable
        <4> DEFINE n1 == Len(m.method)
                   n2 == Len(m.payload)
        <4>2. n1 \in Nat /\ n2 \in Nat /\ size = 3 + h1 + n1 + h2 + n2
          BY <1>1, <4>1 DEF SizeOf
        <4> HIDE DEF n1, n2
        <4> QED
          BY <4>2
      <3> QED
        BY <1>1, <3>1
    <2>2. d = IF ~ F!IsUtf8(m.payload) THEN F!Error("retry")
              ELSE IF m.payload # <<>> /\ ~ F!IsJson(m.payload) THEN F!Error("json")
              ELSE [kind |-> "ok", msg |-> m]
      BY <1>2, <2>1
    <2> HIDE DEF d
    <2>3. CASE ~ F!IsUtf8(m.payload)
      <3>1. d.kind = "retry" /\ FormOf(m) = "raw"
        BY <1>3, <2>2, <2>3 DEF FormOf
      <3> QED
        BY <3>1, OutcomesAre DEF d
    <2>4. CASE F!IsUtf8(m.payload) /\ m.payload # <<>> /\ ~ F!IsJson(m.payload)
      <3>1. d.kind = "json" /\ FormOf(m) = "text"
        BY <1>3, <2>2, <2>4 DEF FormOf
      <3> QED
        BY <3>1, OutcomesAre DEF d
    <2>5. CASE F!IsUtf8(m.payload) /\ (m.payload = <<>> \/ F!IsJson(m.payload))
      <3>1. d.kind = "ok" /\ d.msg = m /\ FormOf(m) = "json"
        BY <2>2, <2>5 DEF FormOf
      <3> QED
        BY <3>1, OutcomesAre DEF d
    <2> QED
      BY <2>3, <2>4, <2>5
  <1>6. ASSUME NEW s \in 2 .. size, NEW e \in s .. Len(all)
        PROVE  /\ Kind(s, e) \in Outcomes(<<UnitOf(m, 2)>>)
               /\ Kind(s, e) = "retry" /\ e < Len(all) => Kind(s, e + 1) = "retry"
    <2>1. s \in 1 .. Len(all) /\ s \in Nat /\ e \in Nat
      BY <1>1
    <2>2. Sealed(all, s)
      BY <1>1, StreamSealed
    <2>3. Kind(s, e) = IF Retried(all, s, e) THEN "retry" ELSE "failed"
      BY <1>1, <2>1, <2>2, MiddleDecoded
    <2>4. ASSUME Kind(s, e) = "retry", e < Len(all) PROVE Kind(s, e + 1) = "retry"
      <3>1. Retried(all, s, e)
        BY <2>3, <2>4
      <3>2. Retried(all, s, e + 1)
        BY <2>1, <3>1, RetriedStays
      <3> DEFINE next == e + 1
      <3>3. next \in s .. Len(all)
        BY <1>1, <2>1, <2>4
      <3> HIDE DEF next
      <3>4. Kind(s, next) = IF Retried(all, s, next) THEN "retry" ELSE "failed"
        BY <1>1, <2>1, <2>2, <3>3, MiddleDecoded
      <3> QED
        BY <3>2, <3>4 DEF next
    <2> QED
      BY <2>3, <2>4, OutcomesAre
  <1> QED
    BY <1>4, <1>5, <1>6 DEF size, all

\* decode does to the bytes what TsgoTransport says it does to the units of a message,
\* for every two messages the child may send one after the other.
THEOREM FramesAsModelled == Spec => []DecodeAsModelled
  <1>1. DecodeAsModelled
    <2>1. SUFFICES ASSUME Init, NEW pair \in Samples
                   PROVE  LET m == pair[1]
                              after == pair[2]
                              size  == Len(F!Encode(m))
                              bytes == F!Encode(m) \o F!Encode(after)
                              Kind(s, e) == F!Decode(SubSeq(bytes, s, e)).kind
                          IN
                          /\ \A e \in 1 .. size - 1 : Kind(1, e) \in Outcomes(<<UnitOf(m, 1)>>)
                          /\ \A e \in size .. Len(bytes) :
                               /\ Kind(1, e) \in Outcomes(<<UnitOf(m, 1), UnitOf(m, 2)>>)
                               /\ Kind(1, e) = "ok" => F!Decode(SubSeq(bytes, 1, e)).msg = m
                          /\ \A s \in 2 .. size : \A e \in s .. Len(bytes) :
                               /\ Kind(s, e) \in Outcomes(<<UnitOf(m, 2)>>)
                               /\ Kind(s, e) = "retry" /\ e < Len(bytes) =>
                                    Kind(s, e + 1) = "retry"
      BY DEF DecodeAsModelled
    <2>2. buf = <<>>
      BY <2>1 DEF Init
    <2>3. Sendable(pair[1]) /\ Sendable(pair[2])
      <3>1. pair \in Frame \X Frame
        BY SamplesAssumption
      <3>2. 1 \in 1 .. 2 /\ 2 \in 1 .. 2
        OBVIOUS
      <3>3. \A i \in 1 .. 2 : Content(pair[i].method) /\ F!IsUtf8(pair[i].method)
                              /\ Content(pair[i].payload)
        BY SamplesAssumption
      <3> QED
        BY <3>1, <3>2, <3>3 DEF Sendable
    <2> QED
      BY <2>2, <2>3, PairAsModelled
  <1> QED
    BY <1>1, PTL

=============================================================================
