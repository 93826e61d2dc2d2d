-------------------------- MODULE AstDecoderProofs ---------------------------
(***************************************************************************)
(* What holds of AstDecoder for every buffer of words, whoever wrote it,   *)
(* and then of encodings: the trees are all that can be encoded, and the   *)
(* words that replace one of an encoding, the kinds and the flags are      *)
(* arbitrary.                                                              *)
(***************************************************************************)
EXTENDS AstDecoder, FiniteSetTheorems, SequenceTheorems, NaturalsInduction,
        WellFoundedInduction, TLAPS

\* The inductive invariant: nothing is decoded before its stage, the entries of
\* the table lie in the string data, which begin in the buffer, and only reversed
\* offsets panic.
DecoderInv ==
  /\ TypeOK /\ StringsInBounds /\ PanicOnlyReversed
  /\ at \in {"header", "strings"} => table = <<>> /\ nodes = <<>>
  /\ at = "nodes" => header.stringData < Len(data)

\* What is read from the buffer is a word, if the offset is within the buffer.
LEMMA WordIsRead ==
  ASSUME data \in Seq(Nat), NEW offset \in Nat, offset < Len(data)
  PROVE  Word(offset) \in Nat
  <1>1. offset + 1 \in 1 .. Len(data)
    BY LenProperties
  <1> QED
    BY <1>1, ElementOfSeq DEF Word

\* What follows an offset within the buffer is made of words, too.
LEMMA RestType ==
  ASSUME data \in Seq(Nat), NEW offset \in Nat, offset <= Len(data)
  PROVE  /\ Rest(offset) \in Seq(Nat)
         /\ Len(Rest(offset)) = Len(data) - offset
  <1>1. Len(data) \in Nat /\ \A j \in 1 .. Len(data) : data[j] \in Nat
    BY LenProperties, ElementOfSeq
  <1>2. \A j \in offset + 1 .. Len(data) : data[j] \in Nat
    BY <1>1
  <1>3. offset + 1 \in Int /\ Len(data) \in Int
    BY <1>1
  <1>4. /\ Rest(offset) \in Seq(Nat)
        /\ Len(Rest(offset)) = IF offset + 1 <= Len(data)
                               THEN Len(data) - (offset + 1) + 1 ELSE 0
    BY <1>2, <1>3, SubSeqProperties DEF Rest
  <1> QED
    BY <1>1, <1>4

\* An option of something is a sequence of at most one.
LEMMA OptionType ==
  ASSUME NEW T
  PROVE  /\ None \in Option(T)
         /\ \A x \in T : Some(x) \in Option(T)
  <1>1. <<>> \in Seq(T) /\ Len(<<>>) <= 1
    BY EmptySeq
  <1>2. ASSUME NEW x \in T
        PROVE  <<x>> \in Seq(T) /\ Len(<<x>>) <= 1
    OBVIOUS
  <1> QED
    BY <1>1, <1>2 DEF None, Some, Option

\* An option that is not None is of something.
LEMMA OptionIs ==
  ASSUME NEW T, NEW o \in Option(T), o # None
  PROVE  \E x \in T : o = Some(x)
  <1>1. o \in Seq(T) /\ Len(o) <= 1 /\ o # <<>>
    BY DEF Option, None
  <1>2. Len(o) \in Nat \ {0}
    BY <1>1, EmptySeq
  <1>3. Len(o) = 1
    BY <1>1, <1>2
  <1>4. 1 \in 1 .. Len(o)
    BY <1>3
  <1>5. o[1] \in T
    BY <1>1, <1>4, ElementOfSeq
  <1>6. o = <<o[1]>>
    BY <1>1, <1>3
  <1> QED
    BY <1>5, <1>6 DEF Some

\* A string of the table is a run of the string data.
LEMMA StringType ==
  ASSUME TypeOK, StringsInBounds, header.stringData <= Len(data), NEW index \in Nat
  PROVE  String(index) \in Option(Seq(Nat))
  <1> DEFINE i == index \div 2 + 1
             rest == Rest(header.stringData)
  <1>1. /\ data \in Seq(Nat) /\ header.stringData \in Nat /\ Len(data) \in Nat
    BY LenProperties DEF TypeOK, NoHeader
  <1>2. rest \in Seq(Nat) /\ Len(rest) = Len(data) - header.stringData
    BY <1>1, RestType
  <1>3. CASE i \in DOMAIN table
    <2>1. table[i] \in Nat \X Nat
      BY <1>3, ElementOfSeq, LenProperties DEF TypeOK
    <2>2. /\ table[i][1] \in Nat /\ table[i][2] \in Nat
          /\ table[i][1] <= table[i][2] /\ table[i][2] <= Len(rest)
      BY <1>1, <1>2, <1>3, <2>1 DEF StringsInBounds
    <2>3. SubSeq(rest, table[i][1] + 1, table[i][2]) \in Seq(Nat)
      <3> HIDE DEF rest, i
      <3>1. ASSUME NEW first \in Nat, NEW last \in Nat, last <= Len(rest)
            PROVE  SubSeq(rest, first + 1, last) \in Seq(Nat)
        <4>1. \A j \in first + 1 .. last : rest[j] \in Nat
          BY <1>2, <3>1
        <4> QED
          BY <1>2, <4>1, SubSeqProperties
      <3> QED
        BY <2>2, <3>1
    <2> QED
      BY <1>3, <2>3, OptionType DEF String
  <1>4. CASE i \notin DOMAIN table
    BY <1>4, OptionType DEF String
  <1> QED
    BY <1>3, <1>4

\* The fields of a node's data word.
LEMMA FieldsType ==
  ASSUME NEW word \in Nat
  PROVE  /\ Index(word) \in Nat
         /\ (word \div IndexSize) % 4 \in 0 .. 3
  BY DecoderAssumption DEF Index

-----------------------------------------------------------------------------
(* The encoder.                                                            *)

\* Induction on the natural numbers, for a set.
LEMMA Induction ==
  ASSUME NEW S, 0 \in S, \A n \in Nat : n \in S => n + 1 \in S
  PROVE  Nat \subseteq S
  <1> DEFINE T == Nat \ S
  <1> SUFFICES ASSUME T # {} PROVE FALSE
    OBVIOUS
  <1>1. PICK x \in T : \A y \in T : ~ (<<y, x>> \in OpToRel(<, Nat))
    BY WFMin, NatLessThanWellFounded
  <1>2. x - 1 \in Nat /\ x - 1 < x
    OBVIOUS
  <1>3. x - 1 \in S
    BY <1>1, <1>2 DEF OpToRel
  <1> QED
    BY <1>2, <1>3

\* The sequences that FlattenSeq goes through, part by part.
Run(seqs, T, st) ==
  /\ st \in [0 .. Len(seqs) -> Seq(T)] /\ st[0] = <<>>
  /\ \A i \in 1 .. Len(seqs) : st[i] = st[i - 1] \o seqs[i]

\* FlattenSeq has a run and yields what the run ends with.
LEMMA FlattenRun ==
  ASSUME NEW T, NEW seqs \in Seq(Seq(T))
  PROVE  \E st : Run(seqs, T, st) /\ FlattenSeq(seqs) = st[Len(seqs)]
  <1> DEFINE Step(st, n) == [i \in 1 .. n |-> IF i = 1 THEN seqs[i] ELSE st[i - 1] \o seqs[i]]
             Upto(st, n) == st = Step(st, n)
             f == CHOOSE g : g = Step(g, Len(seqs))
             run == [i \in 0 .. Len(seqs) |-> IF i = 0 THEN <<>> ELSE f[i]]
  <1>1. Len(seqs) \in Nat /\ \A i \in 1 .. Len(seqs) : seqs[i] \in Seq(T)
    BY LenProperties
  <1> DEFINE S == {n \in Nat : n <= Len(seqs) => \E st : Upto(st, n)}
  <1> HIDE DEF Upto
  <1>2. 0 \in S
    <2>1. Upto([i \in 1 .. 0 |-> <<>>], 0)
      BY DEF Upto
    <2> QED
      BY <2>1
  <1>3. ASSUME NEW n \in Nat, n \in S
        PROVE  n + 1 \in S
    <2> SUFFICES ASSUME n + 1 <= Len(seqs)
                 PROVE  \E st : Upto(st, n + 1)
      OBVIOUS
    <2>1. PICK st : Upto(st, n)
      BY <1>1, <1>3
    <2>2. st = [i \in 1 .. n |-> IF i = 1 THEN seqs[i] ELSE st[i - 1] \o seqs[i]]
      BY <2>1 DEF Upto
    <2> DEFINE last == IF n = 0 THEN seqs[1] ELSE st[n] \o seqs[n + 1]
               more == [i \in 1 .. n + 1 |-> IF i <= n THEN st[i] ELSE last]
    <2>3. ASSUME NEW i \in 1 .. n + 1
          PROVE  more[i] = IF i = 1 THEN seqs[i] ELSE more[i - 1] \o seqs[i]
      <3> HIDE DEF last
      <3>1. CASE i <= n
        <4>1. more[i] = st[i] /\ (i # 1 => more[i - 1] = st[i - 1])
          BY <3>1
        <4>2. st[i] = IF i = 1 THEN seqs[i] ELSE st[i - 1] \o seqs[i]
          <5>1. i \in 1 .. n
            BY <3>1
          <5> QED
            BY <2>2, <5>1
        <4> QED
          BY <4>1, <4>2
      <3>2. CASE i = n + 1
        <4>1. more[i] = last /\ (n # 0 => more[n] = st[n])
          BY <3>2
        <4> QED
          BY <3>2, <4>1 DEF last
      <3> QED
        BY <3>1, <3>2
    <2>4. more = [i \in 1 .. n + 1 |-> IF i = 1 THEN seqs[i] ELSE more[i - 1] \o seqs[i]]
      <3>1. DOMAIN more = 1 .. n + 1 /\ more = [i \in 1 .. n + 1 |-> more[i]]
        OBVIOUS
      <3> HIDE DEF more
      <3> QED
        BY <2>3, <3>1
    <2>5. Upto(more, n + 1)
      BY <2>4 DEF Upto
    <2> HIDE DEF more
    <2> QED
      BY <2>5
  <1> HIDE DEF S
  <1>4. Len(seqs) \in S
    BY <1>1, <1>2, <1>3, Induction
  <1>5. f = Step(f, Len(seqs))
    <2>1. \E st : Upto(st, Len(seqs))
      BY <1>1, <1>4 DEF S
    <2>2. \E st : st = Step(st, Len(seqs))
      <3> HIDE DEF Step
      <3> QED
        BY <2>1 DEF Upto
    <2> HIDE DEF Step
    <2> QED
      BY <2>2
  <1>6. FlattenSeq(seqs) = IF Len(seqs) = 0 THEN seqs ELSE f[Len(seqs)]
    BY DEF FlattenSeq
  <1> HIDE DEF f
  <1>7. \A i \in 1 .. Len(seqs) : f[i] = IF i = 1 THEN seqs[i] ELSE f[i - 1] \o seqs[i]
    BY <1>5
  <1> HIDE DEF Step
  <1>8. run[0] = <<>> /\ \A i \in 1 .. Len(seqs) : run[i] = run[i - 1] \o seqs[i]
    <2>1. run[0] = <<>> /\ \A i \in 1 .. Len(seqs) : run[i] = f[i]
      BY <1>1
    <2> SUFFICES ASSUME NEW i \in 1 .. Len(seqs)
                 PROVE  run[i] = run[i - 1] \o seqs[i]
      BY <2>1
    <2> HIDE DEF run
    <2>2. CASE i = 1
      <3>1. run[i] = seqs[i] /\ run[i - 1] = <<>>
        BY <1>1, <1>7, <2>1, <2>2
      <3> QED
        BY <1>1, <3>1, ConcatEmptySeq
    <2>3. CASE i # 1
      <3>1. i - 1 \in 1 .. Len(seqs)
        BY <1>1, <2>3
      <3> QED
        BY <1>7, <2>1, <2>3, <3>1
    <2> QED
      BY <2>2, <2>3
  <1>9. DOMAIN run = 0 .. Len(seqs) /\ run = [i \in 0 .. Len(seqs) |-> run[i]]
    OBVIOUS
  <1>10. FlattenSeq(seqs) = run[Len(seqs)]
    <2>1. CASE Len(seqs) = 0
      BY <1>6, <2>1, EmptySeq
    <2>2. CASE Len(seqs) # 0
      BY <1>1, <1>6, <2>2
    <2> QED
      BY <2>1, <2>2
  <1> HIDE DEF run
  <1> DEFINE R == {n \in Nat : n <= Len(seqs) => run[n] \in Seq(T)}
  <1>11. 0 \in R
    BY <1>8, EmptySeq
  <1>12. ASSUME NEW n \in Nat, n \in R
         PROVE  n + 1 \in R
    <2> SUFFICES ASSUME n + 1 <= Len(seqs)
                 PROVE  run[n + 1] \in Seq(T)
      OBVIOUS
    <2>1. run[n] \in Seq(T) /\ seqs[n + 1] \in Seq(T)
      BY <1>1, <1>12
    <2>2. run[n + 1] = run[n] \o seqs[n + 1]
      <3>1. n + 1 \in 1 .. Len(seqs) /\ (n + 1) - 1 = n
        BY <1>1
      <3> QED
        BY <1>8, <3>1
    <2> QED
      BY <2>1, <2>2, ConcatProperties
  <1> HIDE DEF R
  <1>13. \A n \in 0 .. Len(seqs) : run[n] \in Seq(T)
    <2>1. Nat \subseteq R
      BY <1>11, <1>12, Induction
    <2> QED
      BY <1>1, <2>1 DEF R
  <1>14. run \in [0 .. Len(seqs) -> Seq(T)]
    BY <1>9, <1>13
  <1>15. Run(seqs, T, run)
    BY <1>8, <1>14 DEF Run
  <1> QED
    BY <1>10, <1>15

\* Parts of sequences over T, one behind the other, are a sequence over T.
LEMMA FlattenType ==
  ASSUME NEW T, NEW seqs \in Seq(Seq(T))
  PROVE  FlattenSeq(seqs) \in Seq(T)
  <1>1. PICK st : Run(seqs, T, st) /\ FlattenSeq(seqs) = st[Len(seqs)]
    BY FlattenRun
  <1>2. Len(seqs) \in 0 .. Len(seqs)
    BY LenProperties
  <1> QED
    BY <1>1, <1>2 DEF Run

\* The first parts come to what the run had come to.
LEMMA FlattenUpto ==
  ASSUME NEW T, NEW seqs \in Seq(Seq(T)), NEW st, Run(seqs, T, st), NEW i \in 0 .. Len(seqs)
  PROVE  FlattenSeq(SubSeq(seqs, 1, i)) = st[i]
  <1> DEFINE some == SubSeq(seqs, 1, i)
  <1>1. Len(seqs) \in Nat /\ i \in Nat /\ \A j \in 1 .. Len(seqs) : seqs[j] \in Seq(T)
    BY LenProperties
  <1>2. /\ some \in Seq(Seq(T)) /\ Len(some) = i
        /\ \A j \in 1 .. i : some[j] = seqs[j]
    <2>1. /\ 1 \in Int /\ i \in Int /\ i - 1 + 1 = i
          /\ \A j \in 1 .. i : seqs[j] \in Seq(T)
          /\ \A j \in 1 .. i : 1 + j - 1 = j
          /\ ~ 1 <= i => i = 0
      BY <1>1
    <2>2. /\ some \in Seq(Seq(T))
          /\ Len(some) = IF 1 <= i THEN i - 1 + 1 ELSE 0
          /\ \A j \in 1 .. i - 1 + 1 : some[j] = seqs[1 + j - 1]
      BY <2>1, SubSeqProperties
    <2> HIDE DEF some
    <2> QED
      BY <2>1, <2>2
  <1> HIDE DEF some
  <1>3. PICK run : Run(some, T, run) /\ FlattenSeq(some) = run[i]
    BY <1>2, FlattenRun
  <1>4. /\ run[0] = <<>> /\ st[0] = <<>>
        /\ \A j \in 1 .. i : run[j] = run[j - 1] \o some[j]
        /\ \A j \in 1 .. Len(seqs) : st[j] = st[j - 1] \o seqs[j]
    BY <1>2, <1>3 DEF Run
  <1> DEFINE S == {n \in Nat : n <= i => run[n] = st[n]}
  <1>5. 0 \in S
    BY <1>4
  <1>6. ASSUME NEW n \in Nat, n \in S
        PROVE  n + 1 \in S
    <2> SUFFICES ASSUME n + 1 <= i
                 PROVE  run[n + 1] = st[n + 1]
      OBVIOUS
    <2>1. n + 1 \in 1 .. i /\ n + 1 \in 1 .. Len(seqs) /\ (n + 1) - 1 = n /\ n <= i
      BY <1>1
    <2>2. run[n] = st[n]
      BY <1>6, <2>1
    <2> QED
      BY <1>2, <1>4, <2>1, <2>2
  <1> HIDE DEF S
  <1>7. i \in S
    BY <1>1, <1>5, <1>6, Induction
  <1> QED
    BY <1>1, <1>3, <1>7 DEF S, some

\* Two sequences, one behind the other.
LEMMA InTwo ==
  ASSUME NEW T, NEW s \in Seq(T), NEW t \in Seq(T)
  PROVE  /\ s \o t \in Seq(T) /\ Len(s) \in Nat /\ Len(t) \in Nat
         /\ Len(s \o t) = Len(s) + Len(t)
         /\ \A j \in 1 .. Len(s) : (s \o t)[j] = s[j]
         /\ \A j \in 1 .. Len(t) : (s \o t)[Len(s) + j] = t[j]
  <1>1. /\ s \o t \in Seq(T) /\ Len(s) \in Nat /\ Len(t) \in Nat
        /\ Len(s \o t) = Len(s) + Len(t)
        /\ \A i \in 1 .. Len(s) + Len(t) :
             (s \o t)[i] = IF i <= Len(s) THEN s[i] ELSE t[i - Len(s)]
    BY ConcatProperties, LenProperties
  <1>2. \A j \in 1 .. Len(s) : (s \o t)[j] = s[j]
    BY <1>1
  <1>3. ASSUME NEW j \in 1 .. Len(t)
        PROVE  (s \o t)[Len(s) + j] = t[j]
    <2>1. /\ Len(s) + j \in 1 .. Len(s) + Len(t) /\ ~ Len(s) + j <= Len(s)
          /\ Len(s) + j - Len(s) = j
      BY <1>1
    <2> QED
      BY <1>1, <2>1
  <1> QED
    BY <1>1, <1>2, <1>3

\* Where the parts of a sequence that is made of them are.
LEMMA FlattenParts ==
  ASSUME NEW T, NEW seqs \in Seq(Seq(T))
  PROVE  /\ Len(FlattenSeq(seqs)) \in Nat
         /\ \A i \in 0 .. Len(seqs) : Ends(seqs, i) \in 0 .. Len(FlattenSeq(seqs))
         /\ Ends(seqs, 0) = 0 /\ Ends(seqs, Len(seqs)) = Len(FlattenSeq(seqs))
         /\ \A i \in 1 .. Len(seqs) :
              /\ Ends(seqs, i) = Ends(seqs, i - 1) + Len(seqs[i])
              /\ \A j \in 1 .. Len(seqs[i]) : FlattenSeq(seqs)[Ends(seqs, i - 1) + j] = seqs[i][j]
  <1> DEFINE len == Len(seqs)
             all == FlattenSeq(seqs)
  <1>1. PICK st : Run(seqs, T, st) /\ all = st[len]
    BY FlattenRun
  <1>2. /\ len \in Nat /\ (\A i \in 1 .. len : seqs[i] \in Seq(T))
        /\ all \in Seq(T) /\ Len(all) \in Nat
    BY LenProperties, FlattenType
  <1>3. /\ \A i \in 0 .. len : st[i] \in Seq(T)
        /\ st[0] = <<>>
        /\ \A i \in 1 .. len : st[i] = st[i - 1] \o seqs[i]
    BY <1>1 DEF Run
  <1>4. \A i \in 0 .. len : Ends(seqs, i) = Len(st[i])
    BY <1>1, FlattenUpto DEF Ends
  <1> HIDE DEF len, all
  <1>5. \A i \in 0 .. len : Len(st[i]) \in Nat
    BY <1>3, LenProperties
  <1>6. ASSUME NEW i \in 1 .. len
        PROVE  /\ i \in 0 .. len /\ i - 1 \in 0 .. len
               /\ Len(seqs[i]) \in Nat
               /\ Len(st[i]) = Len(st[i - 1]) + Len(seqs[i])
               /\ \A j \in 1 .. Len(st[i - 1]) : st[i][j] = st[i - 1][j]
               /\ \A j \in 1 .. Len(seqs[i]) : st[i][Len(st[i - 1]) + j] = seqs[i][j]
    <2>1. i \in 0 .. len /\ i - 1 \in 0 .. len
      BY <1>2
    <2> DEFINE a == st[i - 1]
               b == seqs[i]
    <2>2. a \in Seq(T) /\ b \in Seq(T) /\ st[i] = a \o b
      BY <1>2, <1>3, <2>1
    <2> HIDE DEF a, b
    <2>3. /\ Len(a) \in Nat /\ Len(b) \in Nat
          /\ Len(a \o b) = Len(a) + Len(b)
          /\ \A j \in 1 .. Len(a) : (a \o b)[j] = a[j]
          /\ \A j \in 1 .. Len(b) : (a \o b)[Len(a) + j] = b[j]
      BY <2>2, InTwo
    <2> QED
      BY <2>1, <2>2, <2>3 DEF a, b
  <1> DEFINE S == {d \in Nat : \A i \in 0 .. len : i + d <= len =>
                     /\ Len(st[i]) <= Len(st[i + d])
                     /\ \A j \in 1 .. Len(st[i]) : st[i + d][j] = st[i][j]}
  <1>7. 0 \in S
    BY <1>2, <1>5
  <1>8. ASSUME NEW d \in Nat, d \in S
        PROVE  d + 1 \in S
    <2> SUFFICES ASSUME NEW i \in 0 .. len, i + (d + 1) <= len
                 PROVE  /\ Len(st[i]) <= Len(st[i + (d + 1)])
                        /\ \A j \in 1 .. Len(st[i]) : st[i + (d + 1)][j] = st[i][j]
      OBVIOUS
    <2>1. i + d <= len /\ i + (d + 1) \in 1 .. len /\ (i + (d + 1)) - 1 = i + d
      BY <1>2
    <2>2. /\ Len(st[i]) <= Len(st[i + d])
          /\ \A j \in 1 .. Len(st[i]) : st[i + d][j] = st[i][j]
      BY <1>8, <2>1
    <2> DEFINE next == i + (d + 1)
               here == i + d
    <2>3. next \in 1 .. len /\ next - 1 = here /\ here \in 0 .. len
      BY <1>2, <2>1
    <2> HIDE DEF next, here
    <2>4. /\ Len(seqs[next]) \in Nat /\ Len(st[here]) \in Nat /\ Len(st[i]) \in Nat
          /\ Len(st[next]) = Len(st[here]) + Len(seqs[next])
          /\ \A j \in 1 .. Len(st[here]) : st[next][j] = st[here][j]
      BY <1>5, <1>6, <2>3
    <2>5. Len(st[i]) <= Len(st[here]) /\ \A j \in 1 .. Len(st[i]) : st[here][j] = st[i][j]
      BY <2>2 DEF here
    <2>6. Len(st[i]) <= Len(st[next])
      <3>1. /\ Len(seqs[next]) \in Nat /\ Len(st[here]) \in Nat /\ Len(st[i]) \in Nat
            /\ Len(st[next]) = Len(st[here]) + Len(seqs[next])
            /\ Len(st[i]) <= Len(st[here])
        BY <2>4, <2>5
      <3>2. \A x, y, z, u \in Nat : x <= y /\ z = y + u => x <= z
        OBVIOUS
      <3>3. Len(st[next]) \in Nat
        BY <1>5, <1>6, <2>3
      <3> QED
        BY <3>1, <3>2, <3>3
    <2>7. \A j \in 1 .. Len(st[i]) : j \in 1 .. Len(st[here])
      BY <2>4, <2>5
    <2>8. \A j \in 1 .. Len(st[i]) : st[next][j] = st[i][j]
      BY <2>4, <2>5, <2>7
    <2> QED
      BY <2>6, <2>8 DEF next
  <1> HIDE DEF S
  <1>9. ASSUME NEW i \in 0 .. len
        PROVE  /\ Len(st[i]) <= Len(all)
               /\ \A j \in 1 .. Len(st[i]) : all[j] = st[i][j]
    <2>1. len - i \in Nat /\ i + (len - i) = len /\ i + (len - i) <= len
      BY <1>2
    <2>2. len - i \in S
      BY <1>7, <1>8, <2>1, Induction
    <2>3. /\ Len(st[i]) <= Len(st[i + (len - i)])
          /\ \A j \in 1 .. Len(st[i]) : st[i + (len - i)][j] = st[i][j]
      BY <2>1, <2>2 DEF S
    <2> QED
      BY <1>1, <2>1, <2>3 DEF len
  <1>10. ASSUME NEW i \in 1 .. len
         PROVE  /\ Ends(seqs, i) = Ends(seqs, i - 1) + Len(seqs[i])
                /\ \A j \in 1 .. Len(seqs[i]) : all[Ends(seqs, i - 1) + j] = seqs[i][j]
    <2>1. Ends(seqs, i) = Len(st[i]) /\ Ends(seqs, i - 1) = Len(st[i - 1])
      BY <1>4, <1>6
    <2>2. \A j \in 1 .. Len(seqs[i]) : all[Len(st[i - 1]) + j] = seqs[i][j]
      <3> SUFFICES ASSUME NEW j \in 1 .. Len(seqs[i])
                   PROVE  all[Len(st[i - 1]) + j] = seqs[i][j]
        OBVIOUS
      <3>1. /\ Len(st[i - 1]) \in Nat /\ Len(seqs[i]) \in Nat
            /\ Len(st[i]) = Len(st[i - 1]) + Len(seqs[i])
        BY <1>5, <1>6
      <3> DEFINE a == Len(st[i - 1])
                 b == Len(seqs[i])
      <3>2. Len(st[i - 1]) + j \in 1 .. Len(st[i])
        <4>1. a \in Nat /\ b \in Nat /\ j \in 1 .. b /\ Len(st[i]) = a + b
          BY <3>1
        <4> HIDE DEF a, b
        <4>2. a + j \in 1 .. a + b
          BY <4>1
        <4> QED
          BY <4>1, <4>2 DEF a
      <3>3. i \in 0 .. len
        BY <1>6
      <3>4. all[Len(st[i - 1]) + j] = st[i][Len(st[i - 1]) + j]
        BY <1>9, <3>2, <3>3
      <3> QED
        BY <1>6, <3>4
    <2> QED
      BY <1>6, <2>1, <2>2
  <1>11. \A i \in 0 .. len : Ends(seqs, i) \in 0 .. Len(all)
    <2> SUFFICES ASSUME NEW i \in 0 .. len PROVE Ends(seqs, i) \in 0 .. Len(all)
      OBVIOUS
    <2>1. Ends(seqs, i) = Len(st[i]) /\ Len(st[i]) \in Nat /\ Len(st[i]) <= Len(all)
      BY <1>4, <1>5, <1>9
    <2> QED
      BY <1>2, <2>1
  <1>12. Ends(seqs, 0) = 0 /\ Ends(seqs, len) = Len(all)
    <2>1. 0 \in 0 .. len /\ len \in 0 .. len
      BY <1>2
    <2> QED
      BY <1>1, <1>3, <1>4, <2>1, EmptySeq DEF len
  <1> QED
    BY <1>2, <1>10, <1>11, <1>12 DEF all, len

\* Each part is within what is made of the parts.
LEMMA FlattenIn ==
  ASSUME NEW T, NEW seqs \in Seq(Seq(T)), NEW i \in 1 .. Len(seqs), NEW j \in 1 .. Len(seqs[i])
  PROVE  Ends(seqs, i - 1) + j \in 1 .. Len(FlattenSeq(seqs))
  <1>1. Len(seqs) \in Nat /\ Len(seqs[i]) \in Nat
    <2>1. seqs[i] \in Seq(T)
      BY ElementOfSeq
    <2> QED
      BY <2>1, LenProperties
  <1>2. i \in 0 .. Len(seqs) /\ i - 1 \in 0 .. Len(seqs)
    BY <1>1
  <1>3. /\ Len(FlattenSeq(seqs)) \in Nat
        /\ Ends(seqs, i) \in 0 .. Len(FlattenSeq(seqs))
        /\ Ends(seqs, i - 1) \in 0 .. Len(FlattenSeq(seqs))
        /\ Ends(seqs, i) = Ends(seqs, i - 1) + Len(seqs[i])
    BY <1>2, FlattenParts
  <1> QED
    BY <1>1, <1>3

\* Parts of one length c: the i-th begins at c * (i - 1).
LEMMA FlattenEven ==
  ASSUME NEW T, NEW seqs \in Seq(Seq(T)), NEW c \in Nat,
         \A i \in 1 .. Len(seqs) : Len(seqs[i]) = c
  PROVE  \A i \in 0 .. Len(seqs) : Ends(seqs, i) = c * i
  <1> DEFINE S == {n \in Nat : n <= Len(seqs) => Ends(seqs, n) = c * n}
  <1>1. /\ Len(seqs) \in Nat /\ Ends(seqs, 0) = 0
        /\ \A i \in 1 .. Len(seqs) : Ends(seqs, i) = Ends(seqs, i - 1) + Len(seqs[i])
    BY FlattenParts, LenProperties
  <1>2. 0 \in S
    BY <1>1
  <1>3. ASSUME NEW n \in Nat, n \in S
        PROVE  n + 1 \in S
    <2> SUFFICES ASSUME n + 1 <= Len(seqs)
                 PROVE  Ends(seqs, n + 1) = c * (n + 1)
      OBVIOUS
    <2>1. n + 1 \in 1 .. Len(seqs) /\ (n + 1) - 1 = n /\ n <= Len(seqs)
      BY <1>1
    <2>2. Ends(seqs, n) = c * n /\ Ends(seqs, n + 1) = Ends(seqs, n) + c
      BY <1>1, <1>3, <2>1
    <2>3. c * (n + 1) = c * n + c
      OBVIOUS
    <2> QED
      BY <2>2, <2>3
  <1> HIDE DEF S
  <1>4. Nat \subseteq S
    BY <1>2, <1>3, Induction
  <1> QED
    BY <1>1, <1>4 DEF S

\* The parts of a node that are written with it.
LEMMA NodeParts ==
  ASSUME NEW n \in Node
  PROVE  /\ n.kind \in Nat /\ n.pos \in Nat /\ n.end \in Nat
         /\ n.nextSibling \in Nat /\ n.parent \in Nat
         /\ Uses(n) \in Seq(Seq(Nat)) /\ n.templateFlags \in Seq(Nat)
         /\ n.flags # None => n.flags[1] \in Nat
  <1>1. /\ n.kind \in Nat /\ n.pos \in Nat /\ n.end \in Nat
        /\ n.nextSibling \in Nat /\ n.parent \in Nat
    BY DecoderAssumption DEF Node
  <1>2. /\ n.text \in Seq(Seq(Nat)) /\ n.rawText \in Seq(Seq(Nat))
        /\ n.fileName \in Seq(Seq(Nat))
        /\ n.templateFlags \in Seq(TokenFlags)
        /\ n.flags \in Seq(0 .. 3)
    BY DEF Node, Option
  <1>3. Uses(n) \in Seq(Seq(Nat))
    BY <1>2, ConcatProperties DEF Uses
  <1>4. n.templateFlags \in Seq(Nat)
    <2>1. TokenFlags \subseteq Nat
      BY DecoderAssumption
    <2> QED
      BY <1>2, <2>1, SeqMonotonic
  <1>5. n.flags # None => n.flags[1] \in Nat
    <2> DEFINE s == n.flags
    <2>1. s \in Seq(0 .. 3)
      BY <1>2
    <2> HIDE DEF s
    <2>2. s # <<>> => s[1] \in 0 .. 3
      BY <2>1
    <2>3. s # <<>> => s[1] \in Nat
      BY <2>2
    <2> QED
      BY <2>3 DEF s, None
  <1> QED
    BY <1>1, <1>3, <1>4, <1>5

\* A tree is a sequence of nodes.
LEMMA TreeType ==
  ASSUME NEW tree \in Trees
  PROVE  /\ tree \in Seq(Node) /\ Len(tree) \in Nat /\ DOMAIN tree = 1 .. Len(tree)
         /\ \A i \in 1 .. Len(tree) : tree[i] \in Node
  BY DecoderAssumption, LenProperties, ElementOfSeq

\* The strings of a tree.
LEMMA StringsType ==
  ASSUME NEW tree \in Trees
  PROVE  /\ UsesOf(tree) \in Seq(Seq(Seq(Nat))) /\ Len(UsesOf(tree)) = Len(tree)
         /\ \A i \in 1 .. Len(tree) : UsesOf(tree)[i] = Uses(tree[i])
         /\ \A i \in 1 .. Len(tree) : FirstUse(tree, i) \in Nat
         /\ Strings(tree) \in Seq(Seq(Nat)) /\ Len(Strings(tree)) \in Nat
         /\ DOMAIN Strings(tree) = 1 .. Len(Strings(tree))
  <1>1. /\ Len(tree) \in Nat /\ DOMAIN tree = 1 .. Len(tree)
        /\ \A i \in 1 .. Len(tree) : Uses(tree[i]) \in Seq(Seq(Nat))
    BY TreeType, NodeParts
  <1>2. UsesOf(tree) = [i \in 1 .. Len(tree) |-> Uses(tree[i])]
    BY <1>1 DEF UsesOf
  <1>3. /\ UsesOf(tree) \in Seq(Seq(Seq(Nat))) /\ Len(UsesOf(tree)) = Len(tree)
        /\ \A i \in 1 .. Len(tree) : UsesOf(tree)[i] = Uses(tree[i])
    BY <1>1, <1>2
  <1>4. \A i \in 1 .. Len(tree) : FirstUse(tree, i) \in Nat
    <2> SUFFICES ASSUME NEW i \in 1 .. Len(tree) PROVE FirstUse(tree, i) \in Nat
      OBVIOUS
    <2>1. i - 1 \in 0 .. Len(UsesOf(tree))
      BY <1>1, <1>3
    <2> QED
      BY <1>3, <2>1, FlattenParts DEF FirstUse
  <1> QED
    BY <1>3, <1>4, FlattenType, LenProperties DEF Strings

\* The entries of a tree in the extended data.
LEMMA EntriesType ==
  ASSUME NEW tree \in Trees
  PROVE  /\ EntriesOf(tree) \in Seq(Seq(Nat)) /\ Len(EntriesOf(tree)) = Len(tree)
         /\ \A i \in 1 .. Len(tree) : EntriesOf(tree)[i] = Entry(tree, i)
         /\ \A i \in 1 .. Len(tree) : Ends(EntriesOf(tree), i - 1) \in Nat
  <1>1. Len(tree) \in Nat /\ DOMAIN tree = 1 .. Len(tree)
    BY TreeType
  <1>2. \A i \in 1 .. Len(tree) : Entry(tree, i) \in Seq(Nat)
    <2> SUFFICES ASSUME NEW i \in 1 .. Len(tree) PROVE Entry(tree, i) \in Seq(Nat)
      OBVIOUS
    <2>1. FirstUse(tree, i) \in Nat /\ tree[i].templateFlags \in Seq(Nat)
      BY TreeType, StringsType, NodeParts
    <2> DEFINE first == FirstUse(tree, i)
    <2>2. <<2 * first, 2 * first + 2>> \in Seq(Nat)
      <3> HIDE DEF first
      <3>1. first \in Nat
        BY <2>1 DEF first
      <3> QED
        BY <3>1
    <2> QED
      BY <2>1, <2>2, ConcatProperties, EmptySeq DEF Entry
  <1>3. EntriesOf(tree) = [i \in 1 .. Len(tree) |-> Entry(tree, i)]
    BY <1>1 DEF EntriesOf
  <1>4. /\ EntriesOf(tree) \in Seq(Seq(Nat)) /\ Len(EntriesOf(tree)) = Len(tree)
        /\ \A i \in 1 .. Len(tree) : EntriesOf(tree)[i] = Entry(tree, i)
    BY <1>1, <1>2, <1>3
  <1>5. \A i \in 1 .. Len(tree) : Ends(EntriesOf(tree), i - 1) \in Nat
    <2> SUFFICES ASSUME NEW i \in 1 .. Len(tree) PROVE Ends(EntriesOf(tree), i - 1) \in Nat
      OBVIOUS
    <2>1. i - 1 \in 0 .. Len(EntriesOf(tree))
      BY <1>1, <1>4
    <2> QED
      BY <1>4, <2>1, FlattenParts
  <1> QED
    BY <1>4, <1>5

\* The bounds of strings.
LEMMA BoundsType ==
  ASSUME NEW strings \in Seq(Seq(Nat))
  PROVE  /\ BoundsOf(strings) \in Seq(Seq(Nat)) /\ Len(BoundsOf(strings)) = Len(strings)
         /\ \A i \in 1 .. Len(strings) :
              /\ Len(BoundsOf(strings)[i]) = 2
              /\ BoundsOf(strings)[i][1] = Ends(strings, i - 1)
              /\ BoundsOf(strings)[i][2] = Ends(strings, i)
  <1>1. /\ Len(strings) \in Nat /\ DOMAIN strings = 1 .. Len(strings)
        /\ \A i \in 0 .. Len(strings) : Ends(strings, i) \in Nat
    BY LenProperties, FlattenParts
  <1>2. BoundsOf(strings)
          = [i \in 1 .. Len(strings) |-> <<Ends(strings, i - 1), Ends(strings, i)>>]
    BY <1>1 DEF BoundsOf
  <1>3. \A i \in 1 .. Len(strings) : <<Ends(strings, i - 1), Ends(strings, i)>> \in Seq(Nat)
    <2> SUFFICES ASSUME NEW i \in 1 .. Len(strings)
                 PROVE  <<Ends(strings, i - 1), Ends(strings, i)>> \in Seq(Nat)
      OBVIOUS
    <2>1. Ends(strings, i - 1) \in Nat /\ Ends(strings, i) \in Nat
      BY <1>1
    <2> QED
      BY <2>1
  <1>4. /\ BoundsOf(strings) \in Seq(Seq(Nat)) /\ Len(BoundsOf(strings)) = Len(strings)
        /\ \A i \in 1 .. Len(strings) :
             BoundsOf(strings)[i] = <<Ends(strings, i - 1), Ends(strings, i)>>
    BY <1>1, <1>2, <1>3
  <1>5. ASSUME NEW i \in 1 .. Len(strings)
        PROVE  /\ Len(BoundsOf(strings)[i]) = 2
               /\ BoundsOf(strings)[i][1] = Ends(strings, i - 1)
               /\ BoundsOf(strings)[i][2] = Ends(strings, i)
    <2>1. BoundsOf(strings)[i] = <<Ends(strings, i - 1), Ends(strings, i)>>
      BY <1>4
    <2> QED
      BY <2>1
  <1> QED
    BY <1>4, <1>5

\* The words of the nodes of a tree.
LEMMA NodesType ==
  ASSUME NEW tree \in Trees
  PROVE  /\ NodesOf(tree) \in Seq(Seq(Nat)) /\ Len(NodesOf(tree)) = Len(tree)
         /\ \A i \in 1 .. Len(tree) :
              /\ Len(NodesOf(tree)[i]) = 6 /\ Data(tree, i) \in Nat
              /\ NodesOf(tree)[i] = <<tree[i].kind, tree[i].pos, tree[i].end,
                                      tree[i].nextSibling, tree[i].parent, Data(tree, i)>>
  <1>1. Len(tree) \in Nat /\ DOMAIN tree = 1 .. Len(tree)
    BY TreeType
  <1>2. \A i \in 1 .. Len(tree) : Data(tree, i) \in Nat
    <2> SUFFICES ASSUME NEW i \in 1 .. Len(tree) PROVE Data(tree, i) \in Nat
      OBVIOUS
    <2>1. /\ IndexSize \in Nat /\ FirstUse(tree, i) \in Nat
          /\ tree[i].flags # None => tree[i].flags[1] \in Nat
          /\ Ends(EntriesOf(tree), i - 1) \in Nat
      BY TreeType, StringsType, EntriesType, NodeParts, DecoderAssumption
    <2>2. /\ 8 * IndexSize + Ends(EntriesOf(tree), i - 1) \in Nat
          /\ 4 * IndexSize + 2 * FirstUse(tree, i) \in Nat
          /\ tree[i].flags # None => tree[i].flags[1] * IndexSize \in Nat
          /\ 2 * IndexSize \in Nat
      <3>1. \A x, y \in Nat : x * y \in Nat
        OBVIOUS
      <3>2. \A x, y \in Nat : 8 * x + y \in Nat /\ 4 * x + 2 * y \in Nat /\ 2 * x \in Nat
        OBVIOUS
      <3> QED
        BY <2>1, <3>1, <3>2
    <2> QED
      BY <2>2 DEF Data
  <1> DEFINE Words(i) == <<tree[i].kind, tree[i].pos, tree[i].end, tree[i].nextSibling,
                           tree[i].parent, Data(tree, i)>>
  <1>3. \A i \in 1 .. Len(tree) : Words(i) \in Seq(Nat) /\ Len(Words(i)) = 6
    <2> SUFFICES ASSUME NEW i \in 1 .. Len(tree)
                 PROVE  Words(i) \in Seq(Nat) /\ Len(Words(i)) = 6
      OBVIOUS
    <2>1. /\ tree[i].kind \in Nat /\ tree[i].pos \in Nat /\ tree[i].end \in Nat
          /\ tree[i].nextSibling \in Nat /\ tree[i].parent \in Nat
          /\ Data(tree, i) \in Nat
      BY <1>2, TreeType, NodeParts
    <2> QED
      BY <2>1
  <1>4. NodesOf(tree) = [i \in 1 .. Len(tree) |-> Words(i)]
    BY <1>1 DEF NodesOf
  <1>5. /\ NodesOf(tree) \in Seq(Seq(Nat)) /\ Len(NodesOf(tree)) = Len(tree)
        /\ \A i \in 1 .. Len(tree) : NodesOf(tree)[i] = Words(i) /\ Len(NodesOf(tree)[i]) = 6
    <2> HIDE DEF Words
    <2> QED
      BY <1>1, <1>3, <1>4
  <1> QED
    BY <1>2, <1>5

\* Five sequences, one behind the other.
Joined(a, b, c, d, e, all) ==
  /\ all \in Seq(Nat)
  /\ Len(all) = Len(a) + Len(b) + Len(c) + Len(d) + Len(e)
  /\ \A j \in 1 .. Len(a) : all[j] = a[j]
  /\ \A j \in 1 .. Len(b) : all[Len(a) + j] = b[j]
  /\ \A j \in 1 .. Len(c) : all[Len(a) + Len(b) + j] = c[j]
  /\ \A j \in 1 .. Len(d) : all[Len(a) + Len(b) + Len(c) + j] = d[j]
  /\ \A j \in 1 .. Len(e) : all[Len(a) + Len(b) + Len(c) + Len(d) + j] = e[j]

LEMMA InFive ==
  ASSUME NEW a \in Seq(Nat), NEW b \in Seq(Nat), NEW c \in Seq(Nat), NEW d \in Seq(Nat),
         NEW e \in Seq(Nat), NEW all, all = a \o b \o c \o d \o e
  PROVE  Joined(a, b, c, d, e, all)
  <1> DEFINE ab == a \o b
             abc == ab \o c
             abcd == abc \o d
  <1>0. all = abcd \o e
    OBVIOUS
  <1>1. /\ ab \in Seq(Nat) /\ abc \in Seq(Nat) /\ abcd \in Seq(Nat)
    BY InTwo
  <1>2. /\ Len(a) \in Nat /\ Len(b) \in Nat /\ Len(ab) = Len(a) + Len(b)
        /\ \A j \in 1 .. Len(a) : ab[j] = a[j]
        /\ \A j \in 1 .. Len(b) : ab[Len(a) + j] = b[j]
    BY InTwo
  <1> HIDE DEF ab
  <1>3. /\ Len(ab) \in Nat /\ Len(c) \in Nat /\ Len(abc) = Len(ab) + Len(c)
        /\ \A j \in 1 .. Len(ab) : abc[j] = ab[j]
        /\ \A j \in 1 .. Len(c) : abc[Len(ab) + j] = c[j]
    BY <1>1, InTwo
  <1> HIDE DEF abc
  <1>4. /\ Len(abc) \in Nat /\ Len(d) \in Nat /\ Len(abcd) = Len(abc) + Len(d)
        /\ \A j \in 1 .. Len(abc) : abcd[j] = abc[j]
        /\ \A j \in 1 .. Len(d) : abcd[Len(abc) + j] = d[j]
    <2>1. abc \in Seq(Nat)
      BY <1>1
    <2> QED
      BY <2>1, InTwo
  <1> HIDE DEF abcd
  <1>5. /\ all \in Seq(Nat) /\ Len(abcd) \in Nat /\ Len(e) \in Nat /\ Len(all) = Len(abcd) + Len(e)
        /\ \A j \in 1 .. Len(abcd) : all[j] = abcd[j]
        /\ \A j \in 1 .. Len(e) : all[Len(abcd) + j] = e[j]
    BY <1>0, <1>1, InTwo
  <1>6. /\ Len(abc) = Len(a) + Len(b) + Len(c)
        /\ Len(abcd) = Len(a) + Len(b) + Len(c) + Len(d)
        /\ Len(all) = Len(a) + Len(b) + Len(c) + Len(d) + Len(e)
    BY <1>2, <1>3, <1>4, <1>5
  <1>7. ASSUME NEW j \in 1 .. Len(a)
        PROVE  all[j] = a[j]
    <2>1. j \in 1 .. Len(ab) /\ j \in 1 .. Len(abc) /\ j \in 1 .. Len(abcd)
      BY <1>2, <1>3, <1>4, <1>6
    <2> QED
      BY <1>2, <1>3, <1>4, <1>5, <2>1
  <1>8. ASSUME NEW j \in 1 .. Len(b)
        PROVE  all[Len(a) + j] = b[j]
    <2>1. /\ Len(a) + j \in 1 .. Len(ab) /\ Len(a) + j \in 1 .. Len(abc)
          /\ Len(a) + j \in 1 .. Len(abcd)
      BY <1>2, <1>3, <1>4, <1>6
    <2> QED
      BY <1>2, <1>3, <1>4, <1>5, <2>1
  <1>9. ASSUME NEW j \in 1 .. Len(c)
         PROVE  all[Len(a) + Len(b) + j] = c[j]
    <2>1. /\ Len(ab) + j \in 1 .. Len(abc) /\ Len(ab) + j \in 1 .. Len(abcd)
      BY <1>2, <1>3, <1>4, <1>6
    <2>2. all[Len(ab) + j] = c[j]
      BY <1>3, <1>4, <1>5, <2>1
    <2> QED
      BY <1>2, <2>2
  <1>10. ASSUME NEW j \in 1 .. Len(d)
         PROVE  all[Len(a) + Len(b) + Len(c) + j] = d[j]
    <2>1. Len(abc) + j \in 1 .. Len(abcd)
      BY <1>4
    <2>2. all[Len(abc) + j] = d[j]
      BY <1>4, <1>5, <2>1
    <2> QED
      BY <1>6, <2>2
  <1>11. \A j \in 1 .. Len(e) : all[Len(a) + Len(b) + Len(c) + Len(d) + j] = e[j]
    BY <1>5, <1>6
  <1> QED
    BY <1>5, <1>6, <1>7, <1>8, <1>9, <1>10, <1>11 DEF Joined

\* Where the words of an encoding are.
LEMMA Layout ==
  ASSUME NEW tree \in Trees
  PROVE  /\ Encode(tree) \in Seq(Nat)
         /\ Len(FlattenSeq(Strings(tree))) \in Nat /\ Len(FlattenSeq(EntriesOf(tree))) \in Nat
         /\ StringData(tree) \in Nat /\ StringData(tree) = 5 + 2 * Len(Strings(tree))
         /\ ExtendedData(tree) \in Nat
         /\ ExtendedData(tree) = StringData(tree) + Len(FlattenSeq(Strings(tree)))
         /\ NodeData(tree) \in Nat
         /\ NodeData(tree) = ExtendedData(tree) + Len(FlattenSeq(EntriesOf(tree)))
         /\ Len(Encode(tree)) = NodeData(tree) + 6 * Len(tree)
         /\ Encode(tree)[1] = 1 /\ Encode(tree)[2] = 5
         /\ Encode(tree)[3] = StringData(tree) /\ Encode(tree)[4] = ExtendedData(tree)
         /\ Encode(tree)[5] = NodeData(tree)
         /\ \A i \in 1 .. Len(Strings(tree)) :
              /\ Encode(tree)[2 * i + 4] = Ends(Strings(tree), i - 1)
              /\ Encode(tree)[2 * i + 5] = Ends(Strings(tree), i)
         /\ \A i \in 1 .. Len(Strings(tree)) : \A j \in 1 .. Len(Strings(tree)[i]) :
              Encode(tree)[StringData(tree) + Ends(Strings(tree), i - 1) + j]
                = Strings(tree)[i][j]
         /\ \A k \in 1 .. Len(tree) : \A j \in 1 .. Len(Entry(tree, k)) :
              Encode(tree)[ExtendedData(tree) + Ends(EntriesOf(tree), k - 1) + j]
                = Entry(tree, k)[j]
         /\ \A k \in 1 .. Len(tree) : \A j \in 1 .. 6 :
              Encode(tree)[NodeData(tree) + 6 * (k - 1) + j] = NodesOf(tree)[k][j]
  <1> DEFINE strings == Strings(tree)
             head == <<Version, HeaderSize, StringData(tree), ExtendedData(tree), NodeData(tree)>>
             bounds == FlattenSeq(BoundsOf(strings))
             text == FlattenSeq(strings)
             ext == FlattenSeq(EntriesOf(tree))
             fixed == FlattenSeq(NodesOf(tree))
             whole == Encode(tree)
  <1>1. /\ strings \in Seq(Seq(Nat)) /\ Len(strings) \in Nat /\ Len(tree) \in Nat
        /\ BoundsOf(strings) \in Seq(Seq(Nat)) /\ Len(BoundsOf(strings)) = Len(strings)
        /\ EntriesOf(tree) \in Seq(Seq(Nat)) /\ Len(EntriesOf(tree)) = Len(tree)
        /\ NodesOf(tree) \in Seq(Seq(Nat)) /\ Len(NodesOf(tree)) = Len(tree)
    BY TreeType, StringsType, BoundsType, EntriesType, NodesType
  <1>2. /\ bounds \in Seq(Nat) /\ text \in Seq(Nat) /\ ext \in Seq(Nat) /\ fixed \in Seq(Nat)
        /\ Len(bounds) \in Nat /\ Len(text) \in Nat /\ Len(ext) \in Nat
    BY <1>1, FlattenType, LenProperties
  <1>3. /\ \A i \in 0 .. Len(strings) : Ends(BoundsOf(strings), i) = 2 * i
        /\ \A i \in 0 .. Len(tree) : Ends(NodesOf(tree), i) = 6 * i
    <2>1. \A i \in 1 .. Len(BoundsOf(strings)) : Len(BoundsOf(strings)[i]) = 2
      BY <1>1, BoundsType
    <2>2. \A i \in 1 .. Len(NodesOf(tree)) : Len(NodesOf(tree)[i]) = 6
      BY <1>1, NodesType
    <2>3. \A i \in 0 .. Len(BoundsOf(strings)) : Ends(BoundsOf(strings), i) = 2 * i
      BY <1>1, <2>1, FlattenEven
    <2>4. \A i \in 0 .. Len(NodesOf(tree)) : Ends(NodesOf(tree), i) = 6 * i
      BY <1>1, <2>2, FlattenEven
    <2> QED
      BY <1>1, <2>3, <2>4
  <1>4. Len(bounds) = 2 * Len(strings) /\ Len(fixed) = 6 * Len(tree)
    <2>1. /\ Ends(BoundsOf(strings), Len(strings)) = Len(bounds)
          /\ Ends(NodesOf(tree), Len(tree)) = Len(fixed)
      BY <1>1, FlattenParts
    <2>2. Len(strings) \in 0 .. Len(strings) /\ Len(tree) \in 0 .. Len(tree)
      BY <1>1
    <2> QED
      BY <1>3, <2>1, <2>2
  <1>5. /\ StringData(tree) = 5 + Len(bounds)
        /\ ExtendedData(tree) = StringData(tree) + Len(text)
        /\ NodeData(tree) = ExtendedData(tree) + Len(ext)
    BY DEF StringData, ExtendedData, NodeData, HeaderSize
  <1>6. /\ StringData(tree) \in Nat /\ ExtendedData(tree) \in Nat /\ NodeData(tree) \in Nat
    <2> HIDE DEF bounds, text, ext
    <2> QED
      BY <1>2, <1>5
  <1>7. /\ head \in Seq(Nat) /\ Len(head) = 5
        /\ head[1] = 1 /\ head[2] = 5 /\ head[3] = StringData(tree)
        /\ head[4] = ExtendedData(tree) /\ head[5] = NodeData(tree)
    BY <1>6 DEF Version, HeaderSize
  <1>8. whole = head \o bounds \o text \o ext \o fixed
    BY DEF Encode
  <1> HIDE DEF strings, head, bounds, text, ext, fixed, whole
  <1>9. /\ whole \in Seq(Nat)
        /\ Len(whole) = 5 + Len(bounds) + Len(text) + Len(ext) + Len(fixed)
        /\ \A j \in 1 .. 5 : whole[j] = head[j]
        /\ \A j \in 1 .. Len(bounds) : whole[5 + j] = bounds[j]
        /\ \A j \in 1 .. Len(text) : whole[5 + Len(bounds) + j] = text[j]
        /\ \A j \in 1 .. Len(ext) : whole[5 + Len(bounds) + Len(text) + j] = ext[j]
        /\ \A j \in 1 .. Len(fixed) :
             whole[5 + Len(bounds) + Len(text) + Len(ext) + j] = fixed[j]
    <2>1. /\ head \in Seq(Nat) /\ bounds \in Seq(Nat) /\ text \in Seq(Nat)
          /\ ext \in Seq(Nat) /\ fixed \in Seq(Nat)
      BY <1>2, <1>7
    <2>2. Joined(head, bounds, text, ext, fixed, whole)
      BY <1>8, <2>1, InFive
    <2> QED
      BY <1>7, <2>2 DEF Joined
  <1>10. Len(whole) = NodeData(tree) + 6 * Len(tree)
    BY <1>2, <1>4, <1>5, <1>9
  <1>11. /\ whole[1] = 1 /\ whole[2] = 5 /\ whole[3] = StringData(tree)
         /\ whole[4] = ExtendedData(tree) /\ whole[5] = NodeData(tree)
    BY <1>7, <1>9
  <1>12. /\ \A j \in 1 .. Len(text) : whole[StringData(tree) + j] = text[j]
         /\ \A j \in 1 .. Len(ext) : whole[ExtendedData(tree) + j] = ext[j]
         /\ \A j \in 1 .. Len(fixed) : whole[NodeData(tree) + j] = fixed[j]
    BY <1>2, <1>5, <1>9
  <1>13. ASSUME NEW i \in 1 .. Len(strings)
         PROVE  /\ whole[2 * i + 4] = Ends(strings, i - 1)
                /\ whole[2 * i + 5] = Ends(strings, i)
    <2>1. /\ Len(BoundsOf(strings)[i]) = 2
          /\ BoundsOf(strings)[i][1] = Ends(strings, i - 1)
          /\ BoundsOf(strings)[i][2] = Ends(strings, i)
      BY <1>1, BoundsType
    <2>2. \A j \in 1 .. 2 : bounds[Ends(BoundsOf(strings), i - 1) + j] = BoundsOf(strings)[i][j]
      <3>1. i \in 1 .. Len(BoundsOf(strings))
        BY <1>1
      <3>2. \A j \in 1 .. Len(BoundsOf(strings)[i]) :
              bounds[Ends(BoundsOf(strings), i - 1) + j] = BoundsOf(strings)[i][j]
        BY <1>1, <3>1, FlattenParts DEF bounds
      <3> QED
        BY <2>1, <3>2
    <2>3. i - 1 \in 0 .. Len(strings)
      BY <1>1
    <2>4. Ends(BoundsOf(strings), i - 1) = 2 * (i - 1)
      BY <1>3, <2>3
    <2>5. 1 \in 1 .. 2 /\ 2 \in 1 .. 2
      OBVIOUS
    <2>6. /\ bounds[2 * (i - 1) + 1] = Ends(strings, i - 1)
          /\ bounds[2 * (i - 1) + 2] = Ends(strings, i)
      BY <2>1, <2>2, <2>4, <2>5
    <2>7. /\ 2 * (i - 1) + 1 \in 1 .. Len(bounds) /\ 2 * (i - 1) + 2 \in 1 .. Len(bounds)
          /\ 5 + (2 * (i - 1) + 1) = 2 * i + 4 /\ 5 + (2 * (i - 1) + 2) = 2 * i + 5
      BY <1>1, <1>4
    <2> QED
      BY <1>9, <2>6, <2>7
  <1>14. ASSUME NEW i \in 1 .. Len(strings), NEW j \in 1 .. Len(strings[i])
         PROVE  whole[StringData(tree) + Ends(strings, i - 1) + j] = strings[i][j]
    <2>1. text[Ends(strings, i - 1) + j] = strings[i][j]
      BY <1>1, FlattenParts DEF text
    <2>2. Ends(strings, i - 1) + j \in 1 .. Len(text)
      BY <1>1, FlattenIn DEF text
    <2> DEFINE at1 == Ends(strings, i - 1)
    <2>3. at1 \in Nat /\ StringData(tree) + at1 + j = StringData(tree) + (at1 + j)
      <3>1. i - 1 \in 0 .. Len(strings)
        BY <1>1
      <3>2. at1 \in Nat
        <4>1. at1 \in 0 .. Len(FlattenSeq(strings)) /\ Len(FlattenSeq(strings)) \in Nat
          BY <1>1, <3>1, FlattenParts
        <4> QED
          BY <4>1
      <3> HIDE DEF at1
      <3> QED
        BY <1>6, <3>2
    <2> QED
      BY <1>12, <2>1, <2>2, <2>3
  <1>15. ASSUME NEW k \in 1 .. Len(tree), NEW j \in 1 .. Len(Entry(tree, k))
         PROVE  whole[ExtendedData(tree) + Ends(EntriesOf(tree), k - 1) + j] = Entry(tree, k)[j]
    <2>0. EntriesOf(tree)[k] = Entry(tree, k)
      BY EntriesType
    <2>1. ext[Ends(EntriesOf(tree), k - 1) + j] = Entry(tree, k)[j]
      <3>1. k \in 1 .. Len(EntriesOf(tree)) /\ j \in 1 .. Len(EntriesOf(tree)[k])
        BY <1>1, <2>0
      <3>2. ext[Ends(EntriesOf(tree), k - 1) + j] = EntriesOf(tree)[k][j]
        BY <1>1, <3>1, FlattenParts DEF ext
      <3> QED
        BY <2>0, <3>2
    <2>2. Ends(EntriesOf(tree), k - 1) + j \in 1 .. Len(ext)
      BY <1>1, <2>0, FlattenIn DEF ext
    <2> DEFINE at1 == Ends(EntriesOf(tree), k - 1)
    <2>3. at1 \in Nat /\ ExtendedData(tree) + at1 + j = ExtendedData(tree) + (at1 + j)
      <3>1. at1 \in Nat
        BY EntriesType
      <3> HIDE DEF at1
      <3> QED
        BY <1>6, <3>1
    <2> QED
      BY <1>12, <2>1, <2>2, <2>3
  <1>16. ASSUME NEW k \in 1 .. Len(tree), NEW j \in 1 .. 6
         PROVE  whole[NodeData(tree) + 6 * (k - 1) + j] = NodesOf(tree)[k][j]
    <2>1. Len(NodesOf(tree)[k]) = 6
      BY NodesType
    <2>2. k - 1 \in 0 .. Len(tree)
      BY <1>1
    <2>3. Ends(NodesOf(tree), k - 1) = 6 * (k - 1)
      BY <1>3, <2>2
    <2>4. fixed[6 * (k - 1) + j] = NodesOf(tree)[k][j]
      <3>1. k \in 1 .. Len(NodesOf(tree)) /\ j \in 1 .. Len(NodesOf(tree)[k])
        BY <1>1, <2>1
      <3>2. fixed[Ends(NodesOf(tree), k - 1) + j] = NodesOf(tree)[k][j]
        BY <1>1, <3>1, FlattenParts DEF fixed
      <3> QED
        BY <2>3, <3>2
    <2>5. /\ 6 * (k - 1) + j \in 1 .. Len(fixed)
          /\ NodeData(tree) + 6 * (k - 1) + j = NodeData(tree) + (6 * (k - 1) + j)
      <3>1. \A n \in Nat : \A c \in 1 .. n : 6 * (c - 1) + j \in 1 .. 6 * n
        OBVIOUS
      <3>2. \A n \in Nat : n + 6 * (k - 1) + j = n + (6 * (k - 1) + j)
        <4>1. k \in Int /\ j \in Int
          BY <1>1
        <4> QED
          BY <4>1
      <3> QED
        BY <1>1, <1>4, <1>6, <3>1, <3>2
    <2> QED
      BY <1>12, <2>4, <2>5
  <1>17. /\ whole \in Seq(Nat) /\ Len(text) \in Nat /\ Len(ext) \in Nat
         /\ StringData(tree) = 5 + 2 * Len(strings)
         /\ ExtendedData(tree) = StringData(tree) + Len(text)
         /\ NodeData(tree) = ExtendedData(tree) + Len(ext)
    BY <1>2, <1>4, <1>5, <1>9
  <1> QED
    BY <1>6, <1>10, <1>11, <1>13, <1>14, <1>15, <1>16, <1>17 DEF whole, strings, text, ext

\* The initial buffer is one of words.
LEMMA DecoderInit == Init => DecoderInv
  <1> SUFFICES ASSUME Init PROVE DecoderInv
    OBVIOUS
  <1>1. data \in Seq(Nat) /\ origin.change \in {"none", "cut", "word"}
    <2>1. PICK tree \in Trees :
            LET whole == Encode(tree) IN
            \/ data = whole /\ origin = [tree |-> tree, change |-> "none"]
            \/ \E n \in 0 .. Len(whole) - 1 :
                 /\ data = SubSeq(whole, 1, n)
                 /\ origin = [tree |-> tree, change |-> "cut"]
            \/ \E i \in DOMAIN whole, v \in Values :
                 /\ data = [whole EXCEPT ![i] = v]
                 /\ origin = [tree |-> tree, change |-> "word"]
      BY DEF Init
    <2> DEFINE whole == Encode(tree)
    <2>2. whole \in Seq(Nat) /\ Len(whole) \in Nat
      BY Layout, LenProperties
    <2> HIDE DEF whole
    <2>3. CASE data = whole /\ origin = [tree |-> tree, change |-> "none"]
      BY <2>2, <2>3
    <2>4. ASSUME NEW n \in 0 .. Len(whole) - 1, data = SubSeq(whole, 1, n),
                 origin = [tree |-> tree, change |-> "cut"]
          PROVE  data \in Seq(Nat) /\ origin.change \in {"none", "cut", "word"}
      <3>1. \A j \in 1 .. n : j \in 1 .. Len(whole)
        BY <2>2
      <3> QED
        BY <2>2, <2>4, <3>1, SubSeqProperties
    <2>5. ASSUME NEW i \in DOMAIN whole, NEW v \in Values, data = [whole EXCEPT ![i] = v],
                 origin = [tree |-> tree, change |-> "word"]
          PROVE  data \in Seq(Nat) /\ origin.change \in {"none", "cut", "word"}
      <3>1. v \in Nat
        BY DecoderAssumption
      <3> QED
        BY <2>2, <2>5, <3>1, ExceptSeq, LenProperties
    <2> QED
      BY <2>1, <2>3, <2>4, <2>5 DEF whole
  <1>2. header = NoHeader /\ table = <<>> /\ nodes = <<>> /\ at = "header"
    BY DEF Init
  <1>3. TypeOK
    BY <1>1, <1>2, EmptySeq DEF TypeOK, NoHeader, Errors
  <1>4. StringsInBounds /\ PanicOnlyReversed
    BY <1>2 DEF StringsInBounds, PanicOnlyReversed
  <1> QED
    BY <1>2, <1>3, <1>4 DEF DecoderInv

\* An error leaves nothing decoded.
LEMMA FailKeeps ==
  ASSUME DecoderInv, UNCHANGED <<data, origin>>, NEW how \in Errors, Fail(how)
  PROVE  DecoderInv'
  <1>1. /\ table' = <<>> /\ nodes' = <<>> /\ header' = header /\ at' = how
        /\ UNCHANGED <<data, origin>> /\ at' # "panic"
        /\ at' \notin {"header", "strings", "nodes", "done"}
    BY DEF Fail, Errors
  <1>2. TypeOK'
    BY <1>1, EmptySeq DEF DecoderInv, TypeOK
  <1>3. StringsInBounds' /\ PanicOnlyReversed'
    BY <1>1 DEF StringsInBounds, PanicOnlyReversed
  <1> QED
    BY <1>1, <1>2, <1>3 DEF DecoderInv

\* The header is read from a buffer that holds one.
LEMMA HeaderKeeps ==
  ASSUME DecoderInv, DecodeHeader
  PROVE  DecoderInv'
  <1>1. UNCHANGED <<data, origin>> /\ data \in Seq(Nat) /\ Len(data) \in Nat
    BY LenProperties DEF DecodeHeader, DecoderInv, TypeOK
  <1>2. CASE \E how \in Errors : Fail(how)
    BY <1>1, <1>2, FailKeeps
  <1>3. CASE ~ \E how \in Errors : Fail(how)
    <2>1. /\ Len(data) >= 5
          /\ header' = [stringOffsets |-> data[2], stringData |-> data[3],
                        extendedData |-> data[4], nodes |-> data[5]]
          /\ at' = "strings" /\ UNCHANGED <<table, nodes>> /\ at = "header"
      BY <1>1, <1>3 DEF DecodeHeader, Errors, HeaderSize
    <2>2. data[2] \in Nat /\ data[3] \in Nat /\ data[4] \in Nat /\ data[5] \in Nat
      BY SMTT(30), <1>1, <2>1, ElementOfSeq
    <2>3. header' \in [DOMAIN NoHeader -> Nat]
      BY <2>1, <2>2 DEF NoHeader
    <2>4. table' = <<>> /\ nodes' = <<>>
      BY <2>1 DEF DecoderInv
    <2>5. TypeOK'
      BY <1>1, <2>1, <2>3, <2>4, EmptySeq DEF DecoderInv, TypeOK, Errors
    <2>6. StringsInBounds' /\ PanicOnlyReversed'
      BY <2>1, <2>4 DEF StringsInBounds, PanicOnlyReversed
    <2> QED
      BY <2>1, <2>4, <2>5, <2>6 DEF DecoderInv
  <1> QED
    BY <1>2, <1>3

\* Every entry of an accepted table is checked against the string data.
LEMMA TableKeeps ==
  ASSUME DecoderInv, DecodeStringTable
  PROVE  DecoderInv'
  <1> DEFINE start == header.stringOffsets
             end == header.stringData
             bytes == Rest(end)
             pairs == Pairs(start, end)
             bad == {i \in DOMAIN pairs :
                       TooLong(pairs[i], Len(bytes)) \/ Reversed(pairs[i])}
  <1>1. /\ UNCHANGED <<data, origin>> /\ data \in Seq(Nat) /\ Len(data) \in Nat
        /\ start \in Nat /\ end \in Nat /\ at = "strings"
    BY LenProperties DEF DecodeStringTable, DecoderInv, TypeOK, NoHeader
  <1>2. CASE \E how \in Errors : Fail(how)
    BY <1>1, <1>2, FailKeeps
  <1>3. CASE start > end /\ Fail("panic")
    <2>1. /\ table' = <<>> /\ nodes' = <<>> /\ header' = header /\ at' = "panic"
          /\ UNCHANGED <<data, origin>>
      BY <1>1, <1>3 DEF Fail
    <2>2. TypeOK'
      BY <2>1, EmptySeq DEF DecoderInv, TypeOK
    <2>3. StringsInBounds' /\ PanicOnlyReversed'
      BY <1>3, <2>1 DEF StringsInBounds, PanicOnlyReversed
    <2> QED
      BY <2>1, <2>2, <2>3 DEF DecoderInv
  <1>4. CASE /\ start <= end /\ end < Len(data) /\ bad = {}
             /\ table' = pairs /\ at' = "nodes" /\ UNCHANGED <<header, nodes>>
    <2> HIDE DEF start, end
    <2>1. Len(bytes) = Len(data) - end
      <3>1. end <= Len(data)
        BY <1>1, <1>4
      <3> QED
        BY <1>1, <3>1, RestType
    <2>2. ASSUME NEW i \in 1 .. (end - start) \div 2
          PROVE  /\ pairs[i][1] \in Nat /\ pairs[i][2] \in Nat
                 /\ pairs[i] \in Nat \X Nat
      <3>1. /\ start + 2 * i - 2 \in Nat /\ start + 2 * i - 2 < Len(data)
            /\ start + 2 * i - 1 \in Nat /\ start + 2 * i - 1 < Len(data)
        BY <1>1, <1>4
      <3>2. Word(start + 2 * i - 2) \in Nat /\ Word(start + 2 * i - 1) \in Nat
        BY <1>1, <3>1, WordIsRead
      <3>3. pairs[i] = <<Word(start + 2 * i - 2), Word(start + 2 * i - 1)>>
        BY DEF Pairs
      <3> QED
        BY <3>2, <3>3
    <2>3. (end - start) \div 2 \in Nat
      BY <1>1, <1>4
    <2>4. pairs \in Seq(Nat \X Nat) /\ DOMAIN pairs = 1 .. (end - start) \div 2
      <3> DEFINE n == (end - start) \div 2
      <3>1. pairs \in [1 .. n -> Nat \X Nat] /\ DOMAIN pairs = 1 .. n
        <4>1. DOMAIN pairs = 1 .. n /\ pairs = [i \in 1 .. n |-> pairs[i]]
          BY DEF Pairs
        <4> HIDE DEF pairs
        <4> QED
          BY <2>2, <4>1
      <3>2. n \in Nat
        BY <2>3
      <3> HIDE DEF pairs, n
      <3>3. pairs \in Seq(Nat \X Nat)
        BY <3>1, <3>2, SeqDef
      <3> QED
        BY <3>1, <3>3 DEF n
    <2>5. \A i \in DOMAIN pairs :
            pairs[i][1] <= pairs[i][2] /\ pairs[i][2] <= Len(data) - end
      <3> SUFFICES ASSUME NEW i \in DOMAIN pairs
                   PROVE  pairs[i][1] <= pairs[i][2] /\ pairs[i][2] <= Len(data) - end
        OBVIOUS
      <3>1. pairs[i][1] \in Nat /\ pairs[i][2] \in Nat
        BY <2>2, <2>4
      <3>2. ~ TooLong(pairs[i], Len(bytes)) /\ ~ Reversed(pairs[i])
        BY <1>4
      <3> HIDE DEF pairs, bytes
      <3> QED
        BY <1>1, <2>1, <3>1, <3>2 DEF TooLong, Reversed
    <2>6. TypeOK'
      BY <1>1, <1>4, <2>4 DEF DecoderInv, TypeOK, Errors
    <2>7. StringsInBounds'
      <3> SUFFICES ASSUME NEW i \in DOMAIN table'
                   PROVE  /\ table'[i][1] <= table'[i][2]
                          /\ header'.stringData + table'[i][2] <= Len(data')
        BY DEF StringsInBounds
      <3>1. /\ table'[i] = pairs[i] /\ i \in DOMAIN pairs
            /\ header'.stringData = end /\ Len(data') = Len(data)
        BY <1>1, <1>4 DEF end
      <3>2. pairs[i][1] \in Nat /\ pairs[i][2] \in Nat
        BY <2>2, <2>4, <3>1
      <3> HIDE DEF pairs, bytes
      <3> QED
        BY <1>1, <2>5, <3>1, <3>2
    <2>8. PanicOnlyReversed'
      BY <1>4 DEF PanicOnlyReversed
    <2>9. header'.stringData < Len(data')
      BY <1>1, <1>4 DEF end
    <2> QED
      BY <1>4, <2>9, <2>6, <2>7, <2>8 DEF DecoderInv
  <1>5. \/ \E how \in Errors : Fail(how)
        \/ start > end /\ Fail("panic")
        \/ /\ start <= end /\ end < Len(data) /\ bad = {}
           /\ table' = pairs /\ at' = "nodes" /\ UNCHANGED <<header, nodes>>
    <2>1. IF Outside(start) \/ Outside(end) THEN Fail("InvalidDataOffset")
          ELSE IF start > end \/ end > Len(data) THEN Fail("panic")
          ELSE IF bad # {}
          THEN Fail(IF TooLong(pairs[Min(bad)], Len(bytes))
                    THEN "StringBoundsOutOfRange" ELSE "StringBoundsInvalid")
          ELSE table' = pairs /\ at' = "nodes" /\ UNCHANGED <<header, nodes>>
      BY DEF DecodeStringTable
    <2>2. {"InvalidDataOffset", "StringBoundsOutOfRange", "StringBoundsInvalid"}
            \subseteq Errors
      BY DEF Errors
    <2> HIDE DEF start, end, bytes, pairs, bad
    <2> QED
      BY <1>1, <2>1, <2>2 DEF Outside
  <1> QED
    BY <1>2, <1>3, <1>4, <1>5

\* Whole nodes are within the buffer.
LEMMA NodeFits ==
  ASSUME NEW length \in Nat, NEW first \in Nat, NEW k \in Nat, first <= length,
         k < (length - first) \div 6
  PROVE  first + 6 * k \in Nat /\ first + 6 * k + 5 < length
  OBVIOUS

\* A node is read from a buffer that holds it, and its strings from the table.
LEMMA NodeKeeps ==
  ASSUME DecoderInv, DecodeNode
  PROVE  DecoderInv'
  <1> DEFINE offset == header.nodes + NodeSize * Len(nodes)
             kind == Word(offset)
             word == Word(offset + 5)
             extended == DecodeExtendedData(kind, word)
             node == [kind |-> kind, pos |-> Word(offset + 1), end |-> Word(offset + 2),
                      nextSibling |-> Word(offset + 3), parent |-> Word(offset + 4),
                      text |-> DecodeText(kind, word), flags |-> extended.flags,
                      token |-> extended.token, templateFlags |-> extended.templateFlags,
                      rawText |-> extended.rawText, fileName |-> extended.fileName]
  <1>1. /\ UNCHANGED <<data, origin>> /\ data \in Seq(Nat) /\ Len(data) \in Nat
        /\ header.nodes \in Nat /\ header.stringData \in Nat
        /\ header.extendedData \in Nat
        /\ nodes \in Seq(Node) /\ Len(nodes) \in Nat /\ at = "nodes"
    BY LenProperties DEF DecodeNode, DecoderInv, TypeOK, NoHeader
  <1>2. CASE Fail("UnknownSyntaxKind")
    BY <1>1, <1>2, FailKeeps DEF Errors
  <1>3. CASE /\ kind = NodeList \/ kind \in SyntaxKinds
             /\ nodes' = Append(nodes, node) /\ UNCHANGED <<at, header, table>>
    <2>1. /\ offset \in Nat /\ offset + 5 < Len(data)
      <3>1. /\ header.nodes <= Len(data)
            /\ Len(nodes) < (Len(data) - header.nodes) \div 6
        BY <1>1 DEF DecodeNode, Count, NodeSize
      <3> QED
        BY <1>1, <3>1, NodeFits DEF NodeSize
    <2> HIDE DEF offset
    <2>2. /\ kind \in Nat /\ word \in Nat
          /\ Word(offset + 1) \in Nat /\ Word(offset + 2) \in Nat
          /\ Word(offset + 3) \in Nat /\ Word(offset + 4) \in Nat
      <3>1. /\ offset + 1 \in Nat /\ offset + 1 < Len(data)
            /\ offset + 2 \in Nat /\ offset + 2 < Len(data)
            /\ offset + 3 \in Nat /\ offset + 3 < Len(data)
            /\ offset + 4 \in Nat /\ offset + 4 < Len(data)
            /\ offset + 5 \in Nat /\ offset + 5 < Len(data) /\ offset < Len(data)
        BY <1>1, <2>1
      <3> QED
        BY <1>1, <2>1, <3>1, WordIsRead
    <2>3. \A index \in Nat : String(index) \in Option(Seq(Nat))
      BY <1>1, StringType DEF DecoderInv
    <2>4. /\ ExtendedOffset(word) \in Nat
          /\ \A d \in Nat : ExtendedOffset(word) + d + 1 <= Len(data)
                             => Word(ExtendedOffset(word) + d) \in Nat
      <3>1. ExtendedOffset(word) \in Nat
        <4>1. Index(word) \in Nat
          BY <2>2, FieldsType
        <4> QED
          BY <1>1, <4>1 DEF ExtendedOffset
      <3> QED
        BY <1>1, <3>1, WordIsRead
    <2> HIDE DEF kind, word
    <2>5. DecodeText(kind, word) \in Option(Seq(Nat))
      <3>1. ExtendedOffset(word) + 1 <= Len(data) => Word(ExtendedOffset(word)) \in Nat
        BY <1>1, <2>4, WordIsRead
      <3> QED
        BY <2>2, <2>3, <3>1, FieldsType, OptionType DEF DecodeText
    <2>6. /\ extended.flags \in Option(0 .. 3)
          /\ extended.token \in Option({"Assert", "With"})
      BY <2>2, FieldsType, OptionType DEF DecodeExtendedData
    <2>7. extended.templateFlags \in Option(TokenFlags)
      BY OptionType DEF DecodeExtendedData
    <2>8. /\ extended.rawText \in Option(Seq(Nat))
          /\ extended.fileName \in Option(Seq(Nat))
      <3>1. ExtendedOffset(word) + 2 <= Len(data)
              => Word(ExtendedOffset(word) + 1) \in Nat
        BY <1>1, <2>4, WordIsRead
      <3>2. ExtendedOffset(word) + 3 <= Len(data)
              => ExtendedOffset(word) + 2 <= Len(data)
        BY <1>1, <2>4
      <3> QED
        BY <2>3, <3>1, <3>2, OptionType DEF DecodeExtendedData
    <2> HIDE DEF extended
    <2>9. node \in Node
      BY <1>3, <2>2, <2>5, <2>6, <2>7, <2>8 DEF Node
    <2>10. nodes' \in Seq(Node)
      BY <1>1, <1>3, <2>9, AppendProperties
    <2>11. TypeOK'
      BY <1>1, <1>3, <2>10 DEF DecoderInv, TypeOK, Errors
    <2>12. StringsInBounds' /\ PanicOnlyReversed' /\ header'.stringData < Len(data')
      BY <1>1, <1>3 DEF DecoderInv, StringsInBounds, PanicOnlyReversed
    <2> QED
      BY <1>1, <1>3, <2>11, <2>12 DEF DecoderInv
  <1>4. node = NodeAt(offset)
    BY DEF NodeAt
  <1>5. \/ Fail("UnknownSyntaxKind")
        \/ /\ kind = NodeList \/ kind \in SyntaxKinds
           /\ nodes' = Append(nodes, NodeAt(offset)) /\ UNCHANGED <<at, header, table>>
    BY DEF DecodeNode
  <1> HIDE DEF offset, kind, node
  <1> QED
    BY <1>2, <1>3, <1>4, <1>5

\* The end of the nodes is the end of decoding.
LEMMA FinishKeeps ==
  ASSUME DecoderInv, Finish
  PROVE  DecoderInv'
  <1>1. UNCHANGED <<data, origin>>
    BY DEF Finish
  <1>2. CASE Fail("InvalidDataOffset")
    BY <1>1, <1>2, FailKeeps DEF Errors
  <1>3. CASE at = "nodes" /\ at' = "done" /\ UNCHANGED <<header, table, nodes>>
    <2>1. TypeOK'
      BY <1>1, <1>3 DEF DecoderInv, TypeOK, Errors
    <2>2. StringsInBounds' /\ PanicOnlyReversed'
      BY <1>1, <1>3 DEF DecoderInv, StringsInBounds, PanicOnlyReversed
    <2> QED
      BY <1>3, <2>1, <2>2 DEF DecoderInv
  <1> QED
    BY <1>2, <1>3 DEF Finish

\* Every step of the decoder keeps the invariant.
LEMMA DecoderStep == DecoderInv /\ [Next]_vars => DecoderInv'
  <1>1. DecoderInv /\ UNCHANGED vars => DecoderInv'
    BY DEF vars, DecoderInv, TypeOK, StringsInBounds, PanicOnlyReversed
  <1> QED
    BY <1>1, HeaderKeeps, TableKeeps, NodeKeeps, FinishKeeps DEF Next

\* The invariant holds at every stage of TsgoDecoder::new.
THEOREM DecoderInvariant == Spec => []DecoderInv
  BY DecoderInit, DecoderStep, PTL DEF Spec

\* Every read of the decoder is within the buffer, what it makes of it has its
\* type, and a decoding that failed has left nothing (decoder.rs, new, decode_nodes
\* and decode_extended_data).
THEOREM TypeCorrect == Spec => []TypeOK
  <1>1. DecoderInv => TypeOK
    BY DEF DecoderInv
  <1> QED
    BY <1>1, DecoderInvariant, PTL

\* Whatever the buffer, the entries of an accepted string table lie in the string
\* data (decoder.rs, StringTable::new and the get_unchecked of StringTable::get).
THEOREM NoStringBeyondData == Spec => []StringsInBounds
  <1>1. DecoderInv => StringsInBounds
    BY DEF DecoderInv
  <1> QED
    BY <1>1, DecoderInvariant, PTL

\* Whatever the buffer, decoding panics only if its string data begin before its
\* string offsets (decoder.rs, the slice in decode_string_table).
THEOREM OnlyReversedPanics == Spec => []PanicOnlyReversed
  <1>1. DecoderInv => PanicOnlyReversed
    BY DEF DecoderInv
  <1> QED
    BY <1>1, DecoderInvariant, PTL
-----------------------------------------------------------------------------
(* What the decoder makes of an encoding.                                  *)

\* The header that is read from an encoding, and the table behind it.
HeaderOf(tree) ==
  [stringOffsets |-> 5, stringData |-> StringData(tree),
   extendedData |-> ExtendedData(tree), nodes |-> NodeData(tree)]

FrontRead(tree) ==
  /\ header = HeaderOf(tree)
  /\ DOMAIN table = 1 .. Len(Strings(tree))
  /\ \A i \in DOMAIN table : table[i] = <<data[2 * i + 4], data[2 * i + 5]>>

\* The word at i is the one that was encoded.
Intact(tree, i) == data[i] = Encode(tree)[i]

\* The words of the k-th node are.
NodeIntact(tree, k) == \A j \in 1 .. 6 : Intact(tree, NodeData(tree) + 6 * (k - 1) + j)

\* Quotient and remainder.
LEMMA Divide ==
  ASSUME NEW n \in Nat \ {0}, NEW q \in Nat, NEW r \in 0 .. n - 1
  PROVE  (q * n + r) \div n = q /\ (q * n + r) % n = r
  OBVIOUS

\* The four kinds with data of their own are different.
LEMMA KindsDiffer ==
  /\ SourceFile # Template /\ VariableDeclarationList # ImportAttributes
  /\ {SourceFile, Template} \cap {VariableDeclarationList, ImportAttributes} = {}
  <1>1. \A a, b, c : Cardinality({a, b, c}) \in 0 .. 3
    <2> SUFFICES ASSUME NEW a, NEW b, NEW c PROVE Cardinality({a, b, c}) \in 0 .. 3
      OBVIOUS
    <2>1. IsFiniteSet({}) /\ Cardinality({}) = 0
      BY FS_EmptySet
    <2>2. /\ IsFiniteSet({} \cup {a})
          /\ Cardinality({} \cup {a}) \in 0 .. 1
      BY <2>1, FS_AddElement
    <2>3. {} \cup {a} = {a}
      OBVIOUS
    <2>4. IsFiniteSet({a} \cup {b}) /\ Cardinality({a} \cup {b}) \in 0 .. 2
      BY <2>2, <2>3, FS_AddElement
    <2>5. {a} \cup {b} = {a, b} /\ {a, b} \cup {c} = {a, b, c}
      OBVIOUS
    <2>6. Cardinality({a, b} \cup {c}) \in 0 .. 3
      BY <2>4, <2>5, FS_AddElement
    <2> QED
      BY <2>5, <2>6
  <1>2. \A a, b, c, d : Cardinality({a, b, c, d}) = 4 =>
          a # b /\ a # c /\ a # d /\ b # c /\ b # d /\ c # d
    <2> SUFFICES ASSUME NEW a, NEW b, NEW c, NEW d, Cardinality({a, b, c, d}) = 4
                 PROVE  a # b /\ a # c /\ a # d /\ b # c /\ b # d /\ c # d
      OBVIOUS
    <2>1. /\ {a, b, c, d} # {a, b, c} /\ {a, b, c, d} # {a, b, d}
          /\ {a, b, c, d} # {a, c, d} /\ {a, b, c, d} # {b, c, d}
      <3>1. \A x, y, z : Cardinality({x, y, z}) # 4
        <4>1. \A m \in 0 .. 3 : m # 4
          OBVIOUS
        <4> QED
          BY <1>1, <4>1
      <3> QED
        BY <3>1
    <2> QED
      BY <2>1
  <1> QED
    BY <1>2, EncoderAssumption

\* The fields of the data of a node.
LEMMA DataFields ==
  ASSUME NEW tree \in Trees, NEW k \in 1 .. Len(tree)
  PROVE  /\ Extended(tree[k]) =>
              /\ Type(Data(tree, k)) = 2
              /\ Index(Data(tree, k)) = Ends(EntriesOf(tree), k - 1)
         /\ ~ Extended(tree[k]) /\ tree[k].text # None =>
              /\ Type(Data(tree, k)) = 1
              /\ Index(Data(tree, k)) = 2 * FirstUse(tree, k)
         /\ ~ Extended(tree[k]) /\ tree[k].text = None => Type(Data(tree, k)) = 0
         /\ tree[k].kind = VariableDeclarationList =>
              Some((Data(tree, k) \div IndexSize) % 4) = tree[k].flags
         /\ tree[k].kind = ImportAttributes =>
              Some(IF (Data(tree, k) \div (2 * IndexSize)) % 2 = 1 THEN "Assert" ELSE "With")
                = tree[k].token
  <1> DEFINE n == tree[k]
             word == Data(tree, k)
  <1>1. /\ IndexSize \in Nat \ {0} /\ 2 * IndexSize \in Nat \ {0} /\ 4 * IndexSize \in Nat \ {0}
    BY DecoderAssumption
  <1>2. /\ n \in Node /\ FirstUse(tree, k) \in Nat /\ Ends(EntriesOf(tree), k - 1) \in Nat
    BY TreeType, StringsType, EntriesType
  <1>3. /\ n.flags # None <=> n.kind = VariableDeclarationList
        /\ n.token # None <=> n.kind = ImportAttributes
        /\ Extended(n) => n.text # None /\ Ends(EntriesOf(tree), k - 1) < IndexSize
        /\ n.text # None => /\ n.kind \notin {VariableDeclarationList, ImportAttributes}
                            /\ 2 * FirstUse(tree, k) < IndexSize
    BY EncoderAssumption, TreeType DEF Encodable
  <1>4. n.flags # None => \E f \in 0 .. 3 : n.flags = <<f>>
    <2>1. n.flags \in Option(0 .. 3)
      BY <1>2 DEF Node
    <2> QED
      BY <2>1, OptionIs DEF Some
  <1>5. n.token # None => n.token = <<"Assert">> \/ n.token = <<"With">>
    <2>1. n.token \in Option({"Assert", "With"})
      BY <1>2 DEF Node
    <2> QED
      BY <2>1, OptionIs DEF Some
  <1>6. CASE Extended(n)
    <2> DEFINE o == Ends(EntriesOf(tree), k - 1)
    <2>1. word = 8 * IndexSize + o /\ o \in Nat /\ o < IndexSize
      BY <1>2, <1>3, <1>6 DEF Data
    <2>2. /\ n.kind # VariableDeclarationList /\ n.kind # ImportAttributes
      BY <1>6, KindsDiffer DEF Extended
    <2> HIDE DEF o, word
    <2>3. /\ word = 2 * (4 * IndexSize) + o /\ o \in 0 .. (4 * IndexSize) - 1
          /\ word = 8 * IndexSize + o /\ o \in 0 .. IndexSize - 1
      BY <1>1, <2>1
    <2>4. word \div (4 * IndexSize) = 2 /\ word % IndexSize = o
      BY <1>1, <2>3, Divide
    <2> QED
      BY <1>6, <2>2, <2>4 DEF Type, Index, word, o
  <1>7. CASE ~ Extended(n) /\ n.text # None
    <2> DEFINE o == 2 * FirstUse(tree, k)
    <2>1. word = 4 * IndexSize + o /\ o \in Nat /\ o < IndexSize
      BY <1>2, <1>3, <1>7 DEF Data
    <2>2. /\ n.kind # VariableDeclarationList /\ n.kind # ImportAttributes
      BY <1>3, <1>7
    <2> HIDE DEF o, word
    <2>3. /\ word = 1 * (4 * IndexSize) + o /\ o \in 0 .. (4 * IndexSize) - 1
          /\ word = 4 * IndexSize + o /\ o \in 0 .. IndexSize - 1
      BY <1>1, <2>1
    <2>4. word \div (4 * IndexSize) = 1 /\ word % IndexSize = o
      BY <1>1, <2>3, Divide
    <2> QED
      BY <1>7, <2>2, <2>4 DEF Type, Index, word, o
  <1>8. CASE ~ Extended(n) /\ n.text = None /\ n.flags # None
    <2>1. PICK f \in 0 .. 3 : n.flags = <<f>>
      BY <1>4, <1>8
    <2>2. word = f * IndexSize
      BY <1>8, <2>1 DEF Data
    <2>3. n.kind = VariableDeclarationList /\ n.kind # ImportAttributes
      BY <1>3, <1>8, KindsDiffer
    <2> HIDE DEF word
    <2>4. /\ word = f * IndexSize + 0 /\ 0 \in 0 .. IndexSize - 1 /\ f \in Nat
          /\ word = 0 * (4 * IndexSize) + word /\ word \in 0 .. (4 * IndexSize) - 1
      <3>1. CASE f = 0
        BY <1>1, <2>2, <3>1
      <3>2. CASE f = 1
        BY <1>1, <2>2, <3>2
      <3>3. CASE f = 2
        BY <1>1, <2>2, <3>3
      <3>4. CASE f = 3
        BY <1>1, <2>2, <3>4
      <3> QED
        BY <3>1, <3>2, <3>3, <3>4
    <2>5. (f * IndexSize + 0) \div IndexSize = f
      BY <1>1, <2>4, Divide
    <2>6. (0 * (4 * IndexSize) + word) \div (4 * IndexSize) = 0
      BY <1>1, <2>4, Divide
    <2>7. word \div IndexSize = f /\ word \div (4 * IndexSize) = 0
      BY <2>4, <2>5, <2>6
    <2>8. f % 4 = f
      OBVIOUS
    <2> QED
      BY <1>8, <2>1, <2>3, <2>7, <2>8 DEF Type, Some, word
  <1>9. CASE ~ Extended(n) /\ n.text = None /\ n.flags = None
    <2>1. word = IF n.token = <<"Assert">> THEN 2 * IndexSize ELSE 0
      BY <1>9 DEF Data, Some
    <2>2. n.kind # VariableDeclarationList
      BY <1>3, <1>9
    <2> HIDE DEF word
    <2>3. CASE n.token = <<"Assert">>
      <3>1. word = 1 * (2 * IndexSize) + 0 /\ 0 \in 0 .. (2 * IndexSize) - 1
        BY <1>1, <2>1, <2>3
      <3>2. word = 0 * (4 * IndexSize) + 2 * IndexSize /\ 2 * IndexSize \in 0 .. (4 * IndexSize) - 1
        BY <1>1, <2>1, <2>3
      <3>3. word \div (2 * IndexSize) = 1 /\ word \div (4 * IndexSize) = 0
        BY <1>1, <3>1, <3>2, Divide
      <3> QED
        BY <1>9, <2>2, <2>3, <3>3 DEF Type, Some, word
    <2>4. CASE n.token # <<"Assert">>
      <3>1. word = 0 * (2 * IndexSize) + 0 /\ 0 \in 0 .. (2 * IndexSize) - 1
        BY <1>1, <2>1, <2>4
      <3>2. word = 0 * (4 * IndexSize) + 0 /\ 0 \in 0 .. (4 * IndexSize) - 1
        BY <1>1, <2>1, <2>4
      <3>3. word \div (2 * IndexSize) = 0 /\ word \div (4 * IndexSize) = 0
        BY <1>1, <3>1, <3>2, Divide
      <3>4. n.kind = ImportAttributes => n.token = <<"With">>
        BY <1>3, <1>5, <2>4
      <3> QED
        BY <1>9, <2>2, <3>3, <3>4 DEF Type, Some, word
    <2> QED
      BY <2>3, <2>4
  <1> QED
    BY <1>6, <1>7, <1>8, <1>9

\* A word behind an offset.
LEMMA RestWord ==
  ASSUME data \in Seq(Nat), NEW offset \in Nat, offset <= Len(data),
         NEW j \in 1 .. Len(data) - offset
  PROVE  Rest(offset)[j] = data[offset + j]
  <1>1. Len(data) \in Nat /\ \A i \in 1 .. Len(data) : data[i] \in Nat
    BY LenProperties, ElementOfSeq
  <1>2. /\ offset + 1 \in Int /\ Len(data) \in Int
        /\ \A i \in offset + 1 .. Len(data) : data[i] \in Nat
    BY <1>1
  <1>3. \A i \in 1 .. Len(data) - (offset + 1) + 1 : Rest(offset)[i] = data[(offset + 1) + i - 1]
    BY <1>2, SubSeqProperties DEF Rest
  <1>4. j \in 1 .. Len(data) - (offset + 1) + 1 /\ (offset + 1) + j - 1 = offset + j
    BY <1>1
  <1> QED
    BY <1>3, <1>4

\* If strings and bounds are intact, the table yields the strings.
LEMMA StringRead ==
  ASSUME NEW tree \in Trees, data \in Seq(Nat), FrontRead(tree),
         ExtendedData(tree) <= Len(data), \A i \in 1 .. ExtendedData(tree) : Intact(tree, i),
         NEW u \in 1 .. Len(Strings(tree))
  PROVE  String(2 * (u - 1)) = Some(Strings(tree)[u])
  <1> DEFINE S == Strings(tree)
             m == Len(S)
             a == Ends(S, u - 1)
             b == Ends(S, u)
             start == StringData(tree)
             end == ExtendedData(tree)
             text == Len(FlattenSeq(S))
  <1>1. /\ S \in Seq(Seq(Nat)) /\ m \in Nat /\ S[u] \in Seq(Nat) /\ Len(S[u]) \in Nat
    <2>1. S \in Seq(Seq(Nat)) /\ m \in Nat
      BY StringsType
    <2> HIDE DEF S
    <2>2. S[u] \in Seq(Nat)
      BY <2>1, ElementOfSeq DEF S
    <2> QED
      BY <2>1, <2>2, LenProperties
  <1>2. /\ start \in Nat /\ end \in Nat /\ text \in Nat
        /\ start = 5 + 2 * m /\ end = start + text
        /\ Encode(tree)[2 * u + 4] = a /\ Encode(tree)[2 * u + 5] = b
        /\ \A j \in 1 .. Len(S[u]) : Encode(tree)[start + a + j] = S[u][j]
    BY Layout
  <1>3. /\ a \in Nat /\ b \in Nat /\ a <= text /\ b <= text /\ b = a + Len(S[u])
    <2>1. u \in 0 .. m /\ u - 1 \in 0 .. m
      BY <1>1
    <2>2. a \in 0 .. text /\ b \in 0 .. text /\ b = a + Len(S[u])
      BY <1>1, <2>1, FlattenParts
    <2> HIDE DEF a, b, text
    <2> QED
      BY <1>2, <2>2
  <1>4. u \in DOMAIN table /\ table[u] = <<data[2 * u + 4], data[2 * u + 5]>>
    BY DEF FrontRead
  <1>5. header.stringData = start
    BY DEF FrontRead, HeaderOf
  <1> DEFINE len == Len(S[u])
             string == S[u]
  <1> HIDE DEF S, m, a, b, start, end, text, len, string
  <1>6. /\ 2 * u + 4 \in 1 .. end /\ 2 * u + 5 \in 1 .. end
        /\ Len(data) \in Nat /\ u \in 1 .. m
    <2>1. Len(data) \in Nat /\ u \in 1 .. m
      BY LenProperties DEF m, S
    <2> QED
      BY <1>1, <1>2, <2>1
  <1>7. table[u] = <<a, b>>
    BY <1>2, <1>4, <1>6 DEF Intact, end
  <1>8. (2 * (u - 1)) \div 2 + 1 = u
    OBVIOUS
  <1>9. String(2 * (u - 1)) = Some(SubSeq(Rest(start), a + 1, b))
    <2>1. table[u][1] = a /\ table[u][2] = b
      BY <1>7
    <2> QED
      BY <1>4, <1>5, <1>8, <2>1 DEF String
  <1>10. SubSeq(Rest(start), a + 1, b) = string
    <2> DEFINE rest == Rest(start)
               part == SubSeq(rest, a + 1, b)
    <2>1. rest \in Seq(Nat) /\ Len(rest) = Len(data) - start
      <3>1. start <= Len(data)
        BY <1>2, <1>6 DEF end
      <3> QED
        BY <1>2, <3>1, RestType
    <2>2. /\ len \in Nat /\ b = a + len /\ string \in Seq(Nat) /\ Len(string) = len
          /\ \A j \in 1 .. len : Encode(tree)[start + a + j] = string[j]
      BY <1>1, <1>2, <1>3 DEF len, string
    <2>0. /\ start \in Nat /\ text \in Nat /\ end = start + text
          /\ a \in Nat /\ b \in Nat /\ len \in Nat /\ b = a + len /\ b <= text
          /\ Len(data) \in Nat /\ end <= Len(data)
      <3>1. end <= Len(data)
        BY DEF end
      <3> QED
        BY <1>2, <1>3, <1>6, <2>2, <3>1
    <2>3. b <= Len(data) - start /\ start <= Len(data) /\ end <= Len(data)
      BY <2>0
    <2> HIDE DEF rest
    <2>4. /\ part \in Seq(Nat) /\ Len(part) = len
          /\ \A j \in 1 .. len : part[j] = rest[a + j]
      <3>1. \A j \in a + 1 .. b : rest[j] \in Nat
        <4>1. \A j \in a + 1 .. b : j \in 1 .. Len(rest)
          BY <2>0, <2>1
        <4> QED
          BY <2>1, <4>1, ElementOfSeq
      <3>2. /\ a + 1 \in Int /\ b \in Int /\ b - (a + 1) + 1 = len
            /\ (a + 1 <= b => b - (a + 1) + 1 = len) /\ (~ a + 1 <= b => len = 0)
            /\ \A j \in 1 .. len : (a + 1) + j - 1 = a + j
        BY <1>3, <2>2
      <3>3. /\ part \in Seq(Nat)
            /\ Len(part) = IF a + 1 <= b THEN b - (a + 1) + 1 ELSE 0
            /\ \A j \in 1 .. b - (a + 1) + 1 : part[j] = rest[(a + 1) + j - 1]
        BY <3>1, <3>2, SubSeqProperties
      <3> HIDE DEF part
      <3> QED
        BY <3>2, <3>3
    <2> HIDE DEF part
    <2>5. ASSUME NEW j \in 1 .. len
          PROVE  part[j] = string[j]
      <3>1. /\ a + j \in 1 .. Len(data) - start /\ start + (a + j) = start + a + j
            /\ start + (a + j) \in 1 .. end
        BY <2>0
      <3>2. rest[a + j] = data[start + (a + j)]
        BY <1>2, <2>3, <3>1, RestWord DEF rest
      <3>3. data[start + (a + j)] = Encode(tree)[start + (a + j)]
        BY <3>1 DEF Intact, end
      <3> QED
        BY <2>2, <2>4, <3>1, <3>2, <3>3
    <2> QED
      BY <2>2, <2>4, <2>5, SeqEqual DEF part, rest
  <1> QED
    BY <1>9, <1>10 DEF string, S

\* The words of a node that is intact.
LEMMA WordsRead ==
  ASSUME NEW tree \in Trees, NEW k \in 1 .. Len(tree), NodeIntact(tree, k),
         NEW offset, offset = NodeData(tree) + 6 * (k - 1)
  PROVE  /\ Word(offset) = tree[k].kind /\ Word(offset + 1) = tree[k].pos
         /\ Word(offset + 2) = tree[k].end /\ Word(offset + 3) = tree[k].nextSibling
         /\ Word(offset + 4) = tree[k].parent /\ Word(offset + 5) = Data(tree, k)
  <1>1. /\ NodeData(tree) \in Nat /\ Len(tree) \in Nat
        /\ \A j \in 1 .. 6 : Encode(tree)[NodeData(tree) + 6 * (k - 1) + j] = NodesOf(tree)[k][j]
    BY Layout, TreeType
  <1>2. NodesOf(tree)[k] = <<tree[k].kind, tree[k].pos, tree[k].end,
                             tree[k].nextSibling, tree[k].parent, Data(tree, k)>>
    BY NodesType
  <1>3. offset \in Nat
    <2>1. NodeData(tree) \in Nat /\ k \in Nat \ {0}
      BY <1>1
    <2> QED
      BY <2>1
  <1>4. \A j \in 1 .. 6 : data[offset + j] = NodesOf(tree)[k][j]
    BY <1>1 DEF NodeIntact, Intact
  <1>5. /\ data[offset + 1] = tree[k].kind /\ data[offset + 2] = tree[k].pos
        /\ data[offset + 3] = tree[k].end /\ data[offset + 4] = tree[k].nextSibling
        /\ data[offset + 5] = tree[k].parent /\ data[offset + 6] = Data(tree, k)
    BY <1>2, <1>4
  <1>6. /\ (offset + 1) + 1 = offset + 2 /\ (offset + 2) + 1 = offset + 3
        /\ (offset + 3) + 1 = offset + 4 /\ (offset + 4) + 1 = offset + 5
        /\ (offset + 5) + 1 = offset + 6
    BY <1>3
  <1> QED
    BY <1>5, <1>6 DEF Word

\* A node whose words are intact has the shape it was encoded with.
LEMMA ShapeRead ==
  ASSUME NEW tree \in Trees, NEW k \in 1 .. Len(tree), NodeIntact(tree, k)
  PROVE  Shape(NodeAt(NodeData(tree) + 6 * (k - 1))) = Shape(tree[k])
  <1> DEFINE offset == NodeData(tree) + 6 * (k - 1)
             node == NodeAt(offset)
             n == tree[k]
  <1> HIDE DEF offset
  <1>1. /\ Word(offset) = n.kind /\ Word(offset + 1) = n.pos
        /\ Word(offset + 2) = n.end /\ Word(offset + 3) = n.nextSibling
        /\ Word(offset + 4) = n.parent /\ Word(offset + 5) = Data(tree, k)
    BY WordsRead DEF offset
  <1>2. /\ n.flags # None <=> n.kind = VariableDeclarationList
        /\ n.token # None <=> n.kind = ImportAttributes
    BY EncoderAssumption, TreeType DEF Encodable
  <1>3. /\ node.kind = n.kind /\ node.pos = n.pos /\ node.end = n.end
        /\ node.nextSibling = n.nextSibling /\ node.parent = n.parent
    BY <1>1 DEF NodeAt
  <1>4. /\ node.flags = IF n.kind = VariableDeclarationList
                        THEN Some((Data(tree, k) \div IndexSize) % 4) ELSE None
        /\ node.token = IF n.kind = ImportAttributes
                        THEN Some(IF (Data(tree, k) \div (2 * IndexSize)) % 2 = 1
                                  THEN "Assert" ELSE "With")
                        ELSE None
    BY <1>1 DEF NodeAt, DecodeExtendedData
  <1>5. node.flags = n.flags /\ node.token = n.token
    BY <1>2, <1>4, DataFields
  <1> HIDE DEF node
  <1>6. Shape(node) = Shape(n)
    BY <1>3, <1>5 DEF Shape
  <1> QED
    BY <1>6 DEF node, offset

\* What is encoded of a node.
LEMMA NodeEncodable ==
  ASSUME NEW tree \in Trees, NEW k \in 1 .. Len(tree)
  PROVE  /\ tree[k] \in Node
         /\ tree[k].flags # None <=> tree[k].kind = VariableDeclarationList
         /\ tree[k].token # None <=> tree[k].kind = ImportAttributes
         /\ tree[k].templateFlags # None <=> tree[k].kind = Template
         /\ tree[k].rawText # None <=> tree[k].kind = Template
         /\ tree[k].fileName # None <=> tree[k].kind = SourceFile
         /\ Extended(tree[k]) => tree[k].text # None
  BY EncoderAssumption, TreeType DEF Encodable

\* One element behind one, or behind two.
LEMMA OneMore ==
  ASSUME NEW T, NEW x \in T, NEW y \in T, NEW z \in T
  PROVE  <<x>> \o <<y>> = <<x, y>> /\ <<x, y>> \o <<z>> = <<x, y, z>>
  <1>1. <<x>> \in Seq(T) /\ <<x, y>> \in Seq(T)
    OBVIOUS
  <1>2. <<x>> \o <<y>> = Append(<<x>>, y) /\ <<x, y>> \o <<z>> = Append(<<x, y>>, z)
    BY <1>1, AppendIsConcat
  <1>3. Append(<<x>>, y) = <<x, y>>
    <2> DEFINE s == Append(<<x>>, y)
               t == <<x, y>>
    <2>1. t \in Seq(T) /\ Len(t) = 2 /\ t[1] = x /\ t[2] = y
      OBVIOUS
    <2>2. s \in Seq(T) /\ Len(s) = 2 /\ s[1] = x /\ s[2] = y
      <3> DEFINE o == <<x>>
      <3>1. o \in Seq(T) /\ Len(o) = 1 /\ o[1] = x /\ s = Append(o, y)
        OBVIOUS
      <3> HIDE DEF o, s
      <3> QED
        BY <3>1, AppendProperties
    <2> HIDE DEF s, t
    <2>3. \A i \in 1 .. 2 : i = 1 \/ i = 2
      OBVIOUS
    <2>4. s = t
      BY <2>1, <2>2, <2>3, SeqEqual
    <2> QED
      BY <2>4 DEF s, t
  <1>4. Append(<<x, y>>, z) = <<x, y, z>>
    <2> DEFINE s == Append(<<x, y>>, z)
               t == <<x, y, z>>
    <2>1. t \in Seq(T) /\ Len(t) = 3 /\ t[1] = x /\ t[2] = y /\ t[3] = z
      OBVIOUS
    <2>2. s \in Seq(T) /\ Len(s) = 3 /\ s[1] = x /\ s[2] = y /\ s[3] = z
      <3> DEFINE o == <<x, y>>
      <3>1. o \in Seq(T) /\ Len(o) = 2 /\ o[1] = x /\ o[2] = y /\ s = Append(o, z)
        OBVIOUS
      <3> HIDE DEF o, s
      <3>2. /\ s \in Seq(T) /\ Len(s) = Len(o) + 1 /\ s[Len(o) + 1] = z
            /\ \A i \in 1 .. Len(o) : s[i] = o[i]
        <4>1. o \in Seq(T)
          BY <3>1
        <4>2. /\ Append(o, z) \in Seq(T) /\ Len(Append(o, z)) = Len(o) + 1
              /\ Append(o, z)[Len(o) + 1] = z
              /\ \A i \in 1 .. Len(o) : Append(o, z)[i] = o[i]
          BY <4>1, AppendProperties
        <4> QED
          BY <3>1, <4>2
      <3>3. 1 \in 1 .. 2 /\ 2 \in 1 .. 2 /\ 2 + 1 = 3
        OBVIOUS
      <3> QED
        BY <3>1, <3>2, <3>3
    <2> HIDE DEF s, t
    <2>3. \A i \in 1 .. 3 : i = 1 \/ i = 2 \/ i = 3
      OBVIOUS
    <2>4. s = t
      BY <2>1, <2>2, <2>3, SeqEqual
    <2> QED
      BY <2>4 DEF s, t
  <1> QED
    BY <1>2, <1>3, <1>4

\* The strings of a node are at its place among those of the tree.
LEMMA UsesRead ==
  ASSUME NEW tree \in Trees, NEW k \in 1 .. Len(tree), tree[k].text # None
  PROVE  /\ FirstUse(tree, k) \in Nat
         /\ FirstUse(tree, k) + 1 \in 1 .. Len(Strings(tree))
         /\ Some(Strings(tree)[FirstUse(tree, k) + 1]) = tree[k].text
         /\ Extended(tree[k]) =>
              /\ FirstUse(tree, k) + 2 \in 1 .. Len(Strings(tree))
              /\ Some(Strings(tree)[FirstUse(tree, k) + 2])
                   = IF tree[k].kind = Template THEN tree[k].rawText ELSE tree[k].fileName
  <1> DEFINE n == tree[k]
             first == FirstUse(tree, k)
             S == Strings(tree)
  <1>1. /\ n.text \in Option(Seq(Nat)) /\ n.rawText \in Option(Seq(Nat))
        /\ n.fileName \in Option(Seq(Nat))
    BY NodeEncodable DEF Node
  <1>2. /\ n.rawText # None <=> n.kind = Template
        /\ n.fileName # None <=> n.kind = SourceFile
    BY NodeEncodable
  <1>3. /\ UsesOf(tree) \in Seq(Seq(Seq(Nat))) /\ k \in 1 .. Len(UsesOf(tree))
        /\ UsesOf(tree)[k] = n.text \o n.rawText \o n.fileName /\ first \in Nat
    BY StringsType DEF Uses
  <1>4. \A j \in 1 .. Len(UsesOf(tree)[k]) :
          first + j \in 1 .. Len(S) /\ S[first + j] = UsesOf(tree)[k][j]
    BY <1>3, FlattenParts, FlattenIn DEF FirstUse, Strings
  <1>5. PICK t \in Seq(Nat) : n.text = <<t>>
    BY <1>1, OptionIs DEF Some
  <1>6. CASE ~ Extended(n)
    <2>1. n.rawText = <<>> /\ n.fileName = <<>>
      BY <1>2, <1>6 DEF Extended, None
    <2>2. UsesOf(tree)[k] = <<t>>
      BY <1>3, <1>5, <2>1
    <2>3. Len(UsesOf(tree)[k]) = 1 /\ UsesOf(tree)[k][1] = t
      BY <2>2
    <2>4. first + 1 \in 1 .. Len(S) /\ S[first + 1] = t
      BY <1>4, <2>3
    <2> QED
      BY <1>3, <1>5, <1>6, <2>4 DEF Some
  <1>7. CASE n.kind = Template
    <2>1. PICK r \in Seq(Nat) : n.rawText = <<r>>
      BY <1>1, <1>2, <1>7, OptionIs DEF Some
    <2>2. n.fileName = <<>>
      BY <1>2, <1>7, KindsDiffer DEF None
    <2>3. UsesOf(tree)[k] = <<t, r>>
      <3>1. <<t>> \in Seq(Seq(Nat)) /\ <<r>> \in Seq(Seq(Nat)) /\ <<t, r>> \in Seq(Seq(Nat))
        OBVIOUS
      <3>2. <<t>> \o <<r>> = <<t, r>>
        BY OneMore
      <3> QED
        BY <1>3, <1>5, <2>1, <2>2, <3>1, <3>2, ConcatEmptySeq
    <2>4. Len(UsesOf(tree)[k]) = 2 /\ UsesOf(tree)[k][1] = t /\ UsesOf(tree)[k][2] = r
      BY <2>3
    <2>5. 1 \in 1 .. 2 /\ 2 \in 1 .. 2
      OBVIOUS
    <2>6. /\ first + 1 \in 1 .. Len(S) /\ S[first + 1] = t
          /\ first + 2 \in 1 .. Len(S) /\ S[first + 2] = r
      BY <1>4, <2>4, <2>5
    <2> QED
      BY <1>3, <1>5, <1>7, <2>1, <2>6 DEF Some
  <1>8. CASE n.kind = SourceFile
    <2>1. PICK r \in Seq(Nat) : n.fileName = <<r>>
      BY <1>1, <1>2, <1>8, OptionIs DEF Some
    <2>2. n.rawText = <<>> /\ n.kind # Template
      BY <1>2, <1>8, KindsDiffer DEF None
    <2>3. UsesOf(tree)[k] = <<t, r>>
      <3>1. <<t>> \in Seq(Seq(Nat)) /\ <<r>> \in Seq(Seq(Nat)) /\ <<t, r>> \in Seq(Seq(Nat))
        OBVIOUS
      <3>2. <<t>> \o <<r>> = <<t, r>>
        BY OneMore
      <3> QED
        BY <1>3, <1>5, <2>1, <2>2, <3>1, <3>2, ConcatEmptySeq
    <2>4. Len(UsesOf(tree)[k]) = 2 /\ UsesOf(tree)[k][1] = t /\ UsesOf(tree)[k][2] = r
      BY <2>3
    <2>5. 1 \in 1 .. 2 /\ 2 \in 1 .. 2
      OBVIOUS
    <2>6. /\ first + 1 \in 1 .. Len(S) /\ S[first + 1] = t
          /\ first + 2 \in 1 .. Len(S) /\ S[first + 2] = r
      BY <1>4, <2>4, <2>5
    <2> QED
      BY <1>3, <1>5, <2>1, <2>2, <2>6 DEF Some
  <1> QED
    BY <1>6, <1>7, <1>8 DEF Extended

\* If the extended data are intact, a node's entry is read as it was written.
LEMMA EntryRead ==
  ASSUME NEW tree \in Trees, NEW k \in 1 .. Len(tree), Extended(tree[k]),
         data \in Seq(Nat), header = HeaderOf(tree), NodeData(tree) <= Len(data),
         \A i \in ExtendedData(tree) + 1 .. NodeData(tree) : Intact(tree, i),
         NEW offset, offset = ExtendedOffset(Data(tree, k))
  PROVE  /\ offset \in Nat /\ offset + 2 <= Len(data)
         /\ Word(offset) = 2 * FirstUse(tree, k)
         /\ Word(offset + 1) = 2 * FirstUse(tree, k) + 2
         /\ tree[k].kind = Template =>
              offset + 3 <= Len(data) /\ Some(Word(offset + 2)) = tree[k].templateFlags
  <1> DEFINE n == tree[k]
             entry == Entry(tree, k)
             first == FirstUse(tree, k)
             before == Ends(EntriesOf(tree), k - 1)
             start == ExtendedData(tree)
             end == NodeData(tree)
             length == Len(FlattenSeq(EntriesOf(tree)))
  <1>1. offset = start + before
    BY DataFields DEF ExtendedOffset, HeaderOf
  <1>2. /\ start \in Nat /\ end \in Nat /\ length \in Nat /\ end = start + length
        /\ \A j \in 1 .. Len(entry) : Encode(tree)[start + before + j] = entry[j]
    BY Layout
  <1>3. /\ EntriesOf(tree) \in Seq(Seq(Nat)) /\ k \in 1 .. Len(EntriesOf(tree))
        /\ EntriesOf(tree)[k] = entry /\ before \in Nat /\ first \in Nat
    BY EntriesType, StringsType
  <1>4. \A j \in 1 .. Len(entry) : before + j \in 1 .. length
    BY <1>3, FlattenIn
  <1>5. entry = <<2 * first, 2 * first + 2>> \o n.templateFlags
    BY DEF Entry
  <1>6. Len(data) \in Nat /\ end <= Len(data)
    BY LenProperties
  <1>7. \A i \in start + 1 .. end : data[i] = Encode(tree)[i]
    BY DEF Intact
  <1> HIDE DEF entry, first, before, start, end, length
  <1>8. ASSUME NEW j \in 1 .. Len(entry), j \in Nat
        PROVE  data[offset + j] = entry[j] /\ offset + j <= Len(data)
    <2>1. before + j \in 1 .. length
      BY <1>4
    <2>2. /\ start \in Nat /\ end = start + length /\ before \in Nat /\ length \in Nat
          /\ offset = start + before /\ Len(data) \in Nat /\ end <= Len(data)
      BY <1>1, <1>2, <1>3, <1>6
    <2>3. offset + j \in start + 1 .. end /\ offset + j <= Len(data)
      BY <1>8, <2>1, <2>2
    <2>4. data[offset + j] = Encode(tree)[offset + j]
      BY <1>7, <2>3
    <2> QED
      BY <1>1, <1>2, <2>3, <2>4
  <1>9. offset \in Nat
    BY <1>1, <1>2, <1>3
  <1>10. CASE n.kind = Template
    <2>1. PICK f \in TokenFlags : n.templateFlags = <<f>>
      <3>1. n.templateFlags \in Option(TokenFlags) /\ n.templateFlags # None
        BY <1>10, NodeEncodable DEF Node
      <3> QED
        BY <3>1, OptionIs DEF Some
    <2>2. entry = <<2 * first, 2 * first + 2, f>>
      <3>1. 2 * first \in Nat /\ 2 * first + 2 \in Nat /\ f \in Nat
        BY <1>3, DecoderAssumption
      <3> QED
        BY <1>5, <2>1, <3>1, OneMore
    <2>3. /\ Len(entry) = 3 /\ entry[1] = 2 * first /\ entry[2] = 2 * first + 2
          /\ entry[3] = f
      BY <2>2
    <2>4. 1 \in 1 .. 3 /\ 2 \in 1 .. 3 /\ 3 \in 1 .. 3
      OBVIOUS
    <2>5. /\ data[offset + 1] = 2 * first /\ data[offset + 2] = 2 * first + 2
          /\ data[offset + 3] = f /\ offset + 2 <= Len(data) /\ offset + 3 <= Len(data)
      BY <1>8, <2>3, <2>4
    <2>6. (offset + 1) + 1 = offset + 2 /\ (offset + 2) + 1 = offset + 3
      BY <1>9
    <2> QED
      BY <1>9, <2>1, <2>5, <2>6 DEF Word, Some, first
  <1>11. CASE n.kind # Template
    <2>1. n.templateFlags = <<>>
      BY <1>11, NodeEncodable DEF None
    <2>2. entry = <<2 * first, 2 * first + 2>>
      BY <1>5, <2>1
    <2>3. Len(entry) = 2 /\ entry[1] = 2 * first /\ entry[2] = 2 * first + 2
      BY <2>2
    <2>4. 1 \in 1 .. 2 /\ 2 \in 1 .. 2
      OBVIOUS
    <2>5. /\ data[offset + 1] = 2 * first /\ data[offset + 2] = 2 * first + 2
          /\ offset + 2 <= Len(data)
      BY <1>8, <2>3, <2>4
    <2>6. (offset + 1) + 1 = offset + 2
      BY <1>9
    <2> QED
      BY <1>9, <1>11, <2>5, <2>6 DEF Word, first
  <1> QED
    BY <1>10, <1>11

\* A string that is in the table is found.
LEMMA StringFound ==
  ASSUME NEW tree \in Trees, FrontRead(tree), NEW u \in 1 .. Len(Strings(tree))
  PROVE  String(2 * (u - 1)) # None
  <1>1. (2 * (u - 1)) \div 2 + 1 = u
    BY StringsType
  <1>2. u \in DOMAIN table
    BY DEF FrontRead
  <1> QED
    BY <1>1, <1>2 DEF String, Some, None

\* The kinds and data words that a node's text is read by.
LEMMA TextOf ==
  ASSUME NEW tree \in Trees, NEW k \in 1 .. Len(tree), header = HeaderOf(tree)
  PROVE  LET word == Data(tree, k)
             kind == tree[k].kind
         IN
         /\ ~ Extended(tree[k]) /\ tree[k].text # None =>
              DecodeText(kind, word) = String(2 * FirstUse(tree, k))
         /\ ~ Extended(tree[k]) /\ tree[k].text = None => DecodeText(kind, word) = None
         /\ Extended(tree[k]) /\ ExtendedOffset(word) + 1 <= Len(data) =>
              DecodeText(kind, word) = String(Word(ExtendedOffset(word)))
  <1> DEFINE word == Data(tree, k)
             kind == tree[k].kind
  <1>1. /\ Extended(tree[k]) <=> kind \in {SourceFile, Template}
    BY DEF Extended
  <1>2. /\ Extended(tree[k]) => Type(word) = 2
        /\ ~ Extended(tree[k]) /\ tree[k].text # None =>
             Type(word) = 1 /\ Index(word) = 2 * FirstUse(tree, k)
        /\ ~ Extended(tree[k]) /\ tree[k].text = None => Type(word) = 0
    BY DataFields
  <1> HIDE DEF word, kind
  <1>3. /\ Type(word) = 1 => DecodeText(kind, word) = String(Index(word))
        /\ Type(word) = 0 => DecodeText(kind, word) = None
        /\ Type(word) = 2 /\ kind \in {SourceFile, Template}
             /\ ExtendedOffset(word) + 1 <= Len(data) =>
               DecodeText(kind, word) = String(Word(ExtendedOffset(word)))
    BY DEF DecodeText
  <1> QED
    BY <1>1, <1>2, <1>3 DEF word, kind

\* A node whose words and entry are intact has a text, if it had one.
LEMMA TextRead ==
  ASSUME NEW tree \in Trees, NEW k \in 1 .. Len(tree), data \in Seq(Nat), FrontRead(tree),
         NodeIntact(tree, k), tree[k].text # None, NodeData(tree) <= Len(data),
         Extended(tree[k]) =>
           \A i \in ExtendedData(tree) + 1 .. NodeData(tree) : Intact(tree, i)
  PROVE  NodeAt(NodeData(tree) + 6 * (k - 1)).text # None
  <1> DEFINE offset == NodeData(tree) + 6 * (k - 1)
             first == FirstUse(tree, k)
             word == Data(tree, k)
  <1>1. NodeAt(offset).text = DecodeText(tree[k].kind, word)
    <2>1. Word(offset) = tree[k].kind /\ Word(offset + 5) = word
      BY WordsRead
    <2> HIDE DEF offset, word
    <2> QED
      BY <2>1 DEF NodeAt
  <1>2. String(2 * first) # None
    <2>1. first \in Nat /\ first + 1 \in 1 .. Len(Strings(tree))
      BY UsesRead
    <2>2. 2 * first = 2 * ((first + 1) - 1)
      BY <2>1
    <2> QED
      BY <2>1, <2>2, StringFound
  <1>3. header = HeaderOf(tree)
    BY DEF FrontRead
  <1>4. CASE ~ Extended(tree[k])
    BY <1>1, <1>2, <1>3, <1>4, TextOf
  <1>5. CASE Extended(tree[k])
    <2>1. /\ ExtendedOffset(word) \in Nat /\ ExtendedOffset(word) + 2 <= Len(data)
          /\ Word(ExtendedOffset(word)) = 2 * first
      BY <1>3, <1>5, EntryRead
    <2>2. ExtendedOffset(word) + 1 <= Len(data)
      <3>1. Len(data) \in Nat
        BY LenProperties
      <3> QED
        BY <2>1, <3>1
    <2> QED
      BY <1>1, <1>2, <1>3, <1>5, <2>1, <2>2, TextOf
  <1> QED
    BY <1>4, <1>5

\* A node is decoded to what was encoded, if its words are intact and all that
\* precedes the nodes is.
LEMMA NodeDecoded ==
  ASSUME NEW tree \in Trees, NEW k \in 1 .. Len(tree), data \in Seq(Nat), FrontRead(tree),
         NodeIntact(tree, k), NodeData(tree) <= Len(data),
         \A i \in 1 .. NodeData(tree) : Intact(tree, i)
  PROVE  NodeAt(NodeData(tree) + 6 * (k - 1)) = tree[k]
  <1> DEFINE offset == NodeData(tree) + 6 * (k - 1)
             node == NodeAt(offset)
             n == tree[k]
             first == FirstUse(tree, k)
             word == Data(tree, k)
             ext == ExtendedOffset(word)
  <1>1. /\ ExtendedData(tree) \in Nat /\ NodeData(tree) \in Nat
        /\ ExtendedData(tree) <= NodeData(tree) /\ Len(data) \in Nat
    <2>1. /\ ExtendedData(tree) \in Nat /\ NodeData(tree) \in Nat
          /\ Len(FlattenSeq(EntriesOf(tree))) \in Nat
          /\ NodeData(tree) = ExtendedData(tree) + Len(FlattenSeq(EntriesOf(tree)))
      BY Layout
    <2> QED
      BY <2>1, LenProperties
  <1>2. /\ ExtendedData(tree) <= Len(data)
        /\ \A i \in 1 .. ExtendedData(tree) : Intact(tree, i)
        /\ \A i \in ExtendedData(tree) + 1 .. NodeData(tree) : Intact(tree, i)
    BY <1>1
  <1>3. header = HeaderOf(tree)
    BY DEF FrontRead
  <1>4. ASSUME NEW u \in 1 .. Len(Strings(tree))
        PROVE  String(2 * (u - 1)) = Some(Strings(tree)[u])
    BY <1>2, StringRead
  <1>5. Word(offset) = n.kind /\ Word(offset + 5) = word
    BY WordsRead
  <1>6. /\ n \in Node
        /\ n.templateFlags # None <=> n.kind = Template
        /\ n.rawText # None <=> n.kind = Template
        /\ n.fileName # None <=> n.kind = SourceFile
        /\ Extended(n) => n.text # None
    BY NodeEncodable
  <1>7. Shape(node) = Shape(n)
    BY ShapeRead
  <1>8. n.text # None =>
          /\ first \in Nat /\ String(2 * first) = n.text
          /\ Extended(n) => String(2 * first + 2)
                              = IF n.kind = Template THEN n.rawText ELSE n.fileName
    <2> SUFFICES ASSUME n.text # None
                 PROVE  /\ first \in Nat /\ String(2 * first) = n.text
                        /\ Extended(n) => String(2 * first + 2)
                             = IF n.kind = Template THEN n.rawText ELSE n.fileName
      OBVIOUS
    <2>1. /\ first \in Nat /\ first + 1 \in 1 .. Len(Strings(tree))
          /\ Some(Strings(tree)[first + 1]) = n.text
          /\ Extended(n) =>
               /\ first + 2 \in 1 .. Len(Strings(tree))
               /\ Some(Strings(tree)[first + 2])
                    = IF n.kind = Template THEN n.rawText ELSE n.fileName
      BY UsesRead
    <2>2. 2 * ((first + 1) - 1) = 2 * first /\ 2 * ((first + 2) - 1) = 2 * first + 2
      <3>1. first \in Nat
        BY <2>1
      <3> HIDE DEF first
      <3> QED
        BY <3>1
    <2>3. String(2 * first) = n.text
      BY <1>4, <2>1, <2>2
    <2>4. Extended(n) => String(2 * first + 2) = Some(Strings(tree)[first + 2])
      BY <1>4, <2>1, <2>2
    <2> QED
      BY <2>1, <2>3, <2>4
  <1>9. Extended(n) =>
          /\ ext + 1 <= Len(data) /\ ext + 2 <= Len(data)
          /\ Word(ext) = 2 * first /\ Word(ext + 1) = 2 * first + 2
          /\ n.kind = Template =>
               ext + 3 <= Len(data) /\ Some(Word(ext + 2)) = n.templateFlags
    <2> SUFFICES ASSUME Extended(n)
                 PROVE  /\ ext + 1 <= Len(data) /\ ext + 2 <= Len(data)
                        /\ Word(ext) = 2 * first /\ Word(ext + 1) = 2 * first + 2
                        /\ n.kind = Template =>
                             ext + 3 <= Len(data) /\ Some(Word(ext + 2)) = n.templateFlags
      OBVIOUS
    <2>1. /\ ext \in Nat /\ ext + 2 <= Len(data)
          /\ Word(ext) = 2 * first /\ Word(ext + 1) = 2 * first + 2
          /\ n.kind = Template =>
               ext + 3 <= Len(data) /\ Some(Word(ext + 2)) = n.templateFlags
      BY <1>2, <1>3, EntryRead
    <2>2. ext + 1 <= Len(data)
      BY <1>1, <2>1
    <2> QED
      BY <2>1, <2>2
  <1>10. DecodeText(n.kind, word) = n.text
    BY <1>3, <1>6, <1>8, <1>9, TextOf
  <1>11. /\ Extended(n) => Type(word) = 2
         /\ Extended(n) <=> n.kind = SourceFile \/ n.kind = Template
    BY DataFields DEF Extended
  <1> DEFINE extended == DecodeExtendedData(n.kind, word)
  <1>12. extended.templateFlags = n.templateFlags
    <2>1. CASE n.kind # Template
      <3>1. extended.templateFlags = None
        BY <2>1 DEF DecodeExtendedData
      <3> QED
        BY <1>6, <2>1, <3>1
    <2>2. CASE n.kind = Template
      <3>1. PICK f \in TokenFlags : n.templateFlags = Some(f)
        <4>1. n.templateFlags \in Option(TokenFlags)
          BY <1>6 DEF Node
        <4> QED
          BY <1>6, <2>2, <4>1, OptionIs
      <3>2. Word(ext + 2) = f
        BY <1>9, <1>11, <2>2, <3>1 DEF Some
      <3>3. Type(word) = 2 /\ ext + 3 <= Len(data)
        BY <1>9, <1>11, <2>2
      <3>4. extended.templateFlags = Some(f)
        BY <2>2, <3>2, <3>3 DEF DecodeExtendedData
      <3> QED
        BY <3>1, <3>4
    <2> QED
      BY <2>1, <2>2
  <1>13. extended.rawText = n.rawText
    <2>1. CASE n.kind # Template
      <3>1. extended.rawText = None
        BY <2>1 DEF DecodeExtendedData
      <3> QED
        BY <1>6, <2>1, <3>1
    <2>2. CASE n.kind = Template
      <3>1. Type(word) = 2 /\ ext + 3 <= Len(data) /\ Word(ext + 1) = 2 * first + 2
        BY <1>9, <1>11, <2>2
      <3>2. extended.rawText = String(Word(ext + 1))
        BY <2>2, <3>1 DEF DecodeExtendedData
      <3> QED
        BY <1>6, <1>8, <1>11, <2>2, <3>1, <3>2
    <2> QED
      BY <2>1, <2>2
  <1>14. extended.fileName = n.fileName
    <2>1. CASE n.kind # SourceFile
      <3>1. extended.fileName = None
        BY <2>1 DEF DecodeExtendedData
      <3> QED
        BY <1>6, <2>1, <3>1
    <2>2. CASE n.kind = SourceFile
      <3>1. Type(word) = 2 /\ ext + 2 <= Len(data) /\ Word(ext + 1) = 2 * first + 2
        BY <1>9, <1>11, <2>2
      <3>2. extended.fileName = String(Word(ext + 1))
        BY <2>2, <3>1 DEF DecodeExtendedData
      <3> QED
        BY <1>6, <1>8, <1>11, <2>2, <3>1, <3>2, KindsDiffer
    <2> QED
      BY <2>1, <2>2
  <1>15. /\ node.text = DecodeText(n.kind, word)
         /\ node.templateFlags = extended.templateFlags
         /\ node.rawText = extended.rawText /\ node.fileName = extended.fileName
    <2> HIDE DEF offset, word
    <2> QED
      BY <1>5 DEF NodeAt
  <1>16. /\ node.kind = n.kind /\ node.pos = n.pos /\ node.end = n.end
         /\ node.nextSibling = n.nextSibling /\ node.parent = n.parent
         /\ node.flags = n.flags /\ node.token = n.token
    <2> HIDE DEF node, n
    <2> QED
      BY <1>7 DEF Shape
  <1>17. node = [kind |-> node.kind, pos |-> node.pos, end |-> node.end,
                 nextSibling |-> node.nextSibling, parent |-> node.parent,
                 text |-> node.text, flags |-> node.flags, token |-> node.token,
                 templateFlags |-> node.templateFlags, rawText |-> node.rawText,
                 fileName |-> node.fileName]
    <2> HIDE DEF offset
    <2> QED
      BY DEF NodeAt
  <1>18. n = [kind |-> n.kind, pos |-> n.pos, end |-> n.end,
              nextSibling |-> n.nextSibling, parent |-> n.parent,
              text |-> n.text, flags |-> n.flags, token |-> n.token,
              templateFlags |-> n.templateFlags, rawText |-> n.rawText,
              fileName |-> n.fileName]
    <2> HIDE DEF n
    <2> QED
      BY <1>6 DEF Node
  <1> HIDE DEF node, n, extended
  <1>19. node = n
    BY <1>10, <1>12, <1>13, <1>14, <1>15, <1>16, <1>17, <1>18 DEF extended
  <1> QED
    BY <1>19 DEF node, offset, n

-----------------------------------------------------------------------------
(* Round trip and damage.                                                  *)

\* What the origin of the buffer says of its words.
FromEncoder ==
  LET tree == origin.tree IN
  /\ tree \in Trees
  /\ origin.change = "none" => data = Encode(tree)
  /\ origin.change = "cut" =>
       /\ Len(data) < Len(Encode(tree))
       /\ \A i \in 1 .. Len(data) : Intact(tree, i)
  /\ origin.change = "word" =>
       /\ Len(data) = Len(Encode(tree))
       /\ \E i : \A j : j # i => Intact(tree, j)

\* What has been decoded is what the buffer holds there.
AsRead ==
  /\ at \in {"strings", "nodes", "done"} =>
       /\ Len(data) >= 5
       /\ header = [stringOffsets |-> data[2], stringData |-> data[3],
                    extendedData |-> data[4], nodes |-> data[5]]
  /\ at \in {"nodes", "done"} =>
       /\ table = Pairs(header.stringOffsets, header.stringData)
       /\ \A k \in 1 .. Len(nodes) : nodes[k] = NodeAt(header.nodes + 6 * (k - 1))
  /\ at = "done" => header.nodes <= Len(data) /\ Len(nodes) = Count

\* An encoding that was not changed never fails to decode.
NeverFails == origin.change = "none" => at \notin {"panic"} \cup Errors

\* The inductive invariant of what is decoded.
FaithfulInv == DecoderInv /\ FromEncoder /\ AsRead /\ NeverFails

\* The buffer comes from an encoder.
LEMMA FaithfulInit == Init => FaithfulInv
  <1> SUFFICES ASSUME Init PROVE FaithfulInv
    OBVIOUS
  <1>1. DecoderInv
    BY DecoderInit
  <1>2. FromEncoder
    <2>1. PICK tree \in Trees :
            LET whole == Encode(tree) IN
            \/ data = whole /\ origin = [tree |-> tree, change |-> "none"]
            \/ \E n \in 0 .. Len(whole) - 1 :
                 /\ data = SubSeq(whole, 1, n)
                 /\ origin = [tree |-> tree, change |-> "cut"]
            \/ \E i \in DOMAIN whole, v \in Values :
                 /\ data = [whole EXCEPT ![i] = v]
                 /\ origin = [tree |-> tree, change |-> "word"]
      BY DEF Init
    <2> DEFINE whole == Encode(tree)
    <2>2. /\ whole \in Seq(Nat) /\ Len(whole) \in Nat /\ DOMAIN whole = 1 .. Len(whole)
          /\ \A j \in 1 .. Len(whole) : whole[j] \in Nat
      BY Layout, LenProperties, ElementOfSeq
    <2> HIDE DEF whole
    <2>3. CASE data = whole /\ origin = [tree |-> tree, change |-> "none"]
      BY <2>3 DEF FromEncoder, whole
    <2>4. ASSUME NEW n \in 0 .. Len(whole) - 1, data = SubSeq(whole, 1, n),
                 origin = [tree |-> tree, change |-> "cut"]
          PROVE  FromEncoder
      <3>1. /\ 1 \in Int /\ n \in Int /\ n - 1 + 1 = n /\ (~ 1 <= n => n = 0) /\ n < Len(whole)
            /\ \A j \in 1 .. n : whole[j] \in Nat
            /\ \A j \in 1 .. n : 1 + j - 1 = j
        BY <2>2
      <3>2. /\ Len(data) = IF 1 <= n THEN n - 1 + 1 ELSE 0
            /\ \A j \in 1 .. n - 1 + 1 : data[j] = whole[1 + j - 1]
        BY <2>4, <3>1, SubSeqProperties
      <3>3. Len(data) = n /\ \A j \in 1 .. n : data[j] = whole[j]
        BY <3>1, <3>2
      <3> QED
        BY <2>4, <3>1, <3>3 DEF FromEncoder, Intact, whole
    <2>5. ASSUME NEW i \in DOMAIN whole, NEW v \in Values, data = [whole EXCEPT ![i] = v],
                 origin = [tree |-> tree, change |-> "word"]
          PROVE  FromEncoder
      <3>1. v \in Nat
        BY DecoderAssumption
      <3>2. Len(data) = Len(whole)
        BY <2>2, <2>5, <3>1, ExceptSeq
      <3>3. \A j : j # i => data[j] = whole[j]
        BY <2>5
      <3> QED
        BY <2>5, <3>2, <3>3 DEF FromEncoder, Intact, whole
    <2> QED
      BY <2>1, <2>3, <2>4, <2>5 DEF whole
  <1>3. AsRead /\ NeverFails
    BY DEF Init, AsRead, NeverFails, Errors
  <1> QED
    BY <1>1, <1>2, <1>3 DEF FaithfulInv

\* What is read of the buffer depends on buffer, header and table only.
LEMMA ReadStays ==
  ASSUME UNCHANGED <<data, header, table>>
  PROVE  /\ \A k : NodeAt(header.nodes + 6 * (k - 1))' = NodeAt(header.nodes + 6 * (k - 1))
         /\ Pairs(header.stringOffsets, header.stringData)'
              = Pairs(header.stringOffsets, header.stringData)
         /\ Count' = Count
  BY DEF NodeAt, Word, DecodeText, DecodeExtendedData, String, Rest, ExtendedOffset, Pairs,
         Count

\* An error, or a panic, is no decoding, and none befalls an encoding.
LEMMA FailFaithful ==
  ASSUME FaithfulInv, UNCHANGED <<data, origin>>, NEW how \in {"panic"} \cup Errors,
         Fail(how), DecoderInv', origin.change # "none"
  PROVE  FaithfulInv'
  <1>1. FromEncoder'
    BY DEF FaithfulInv, FromEncoder, Intact
  <1>2. at' = how /\ how \notin {"strings", "nodes", "done"}
    BY DEF Fail, Errors
  <1>3. AsRead' /\ NeverFails'
    BY <1>2 DEF AsRead, NeverFails
  <1> QED
    BY <1>1, <1>3 DEF FaithfulInv

\* The lengths of an encoding.
LEMMA Lengths ==
  ASSUME NEW tree \in Trees
  PROVE  /\ StringData(tree) \in Nat /\ ExtendedData(tree) \in Nat /\ NodeData(tree) \in Nat
         /\ 5 <= StringData(tree) /\ StringData(tree) <= ExtendedData(tree)
         /\ ExtendedData(tree) <= NodeData(tree)
         /\ NodeData(tree) + 6 * Len(tree) = Len(Encode(tree))
         /\ Len(tree) \in Nat \ {0} /\ Encode(tree) \in Seq(Nat)
         /\ Len(Strings(tree)) \in Nat /\ StringData(tree) = 5 + 2 * Len(Strings(tree))
         /\ ExtendedData(tree) = StringData(tree) + Len(FlattenSeq(Strings(tree)))
  <1>1. /\ StringData(tree) \in Nat /\ ExtendedData(tree) \in Nat /\ NodeData(tree) \in Nat
        /\ StringData(tree) = 5 + 2 * Len(Strings(tree)) /\ Len(Strings(tree)) \in Nat
        /\ ExtendedData(tree) = StringData(tree) + Len(FlattenSeq(Strings(tree)))
        /\ NodeData(tree) = ExtendedData(tree) + Len(FlattenSeq(EntriesOf(tree)))
        /\ Len(FlattenSeq(Strings(tree))) \in Nat /\ Len(FlattenSeq(EntriesOf(tree))) \in Nat
        /\ Len(Encode(tree)) = NodeData(tree) + 6 * Len(tree)
        /\ Encode(tree) \in Seq(Nat)
    BY Layout, StringsType
  <1>2. Len(tree) \in Nat \ {0}
    <2>1. tree \in Seq(Node) /\ tree # <<>>
      BY TreeType, EncoderAssumption DEF Encodable
    <2> QED
      BY <2>1, EmptySeq
  <1> QED
    BY <1>1, <1>2

\* If header and bounds are those of an encoding, so is what is read of them.
LEMMA FrontIs ==
  ASSUME NEW tree \in Trees, data \in Seq(Nat), Len(data) >= 5,
         \A i \in 1 .. 5 : Intact(tree, i)
  PROVE  /\ data[1] = 1
         /\ [stringOffsets |-> data[2], stringData |-> data[3], extendedData |-> data[4],
             nodes |-> data[5]] = HeaderOf(tree)
         /\ Pairs(5, StringData(tree))
              = [i \in 1 .. Len(Strings(tree)) |-> <<data[2 * i + 4], data[2 * i + 5]>>]
  <1>1. /\ Encode(tree)[1] = 1 /\ Encode(tree)[2] = 5 /\ Encode(tree)[3] = StringData(tree)
        /\ Encode(tree)[4] = ExtendedData(tree) /\ Encode(tree)[5] = NodeData(tree)
    BY Layout
  <1>2. /\ data[1] = Encode(tree)[1] /\ data[2] = Encode(tree)[2] /\ data[3] = Encode(tree)[3]
        /\ data[4] = Encode(tree)[4] /\ data[5] = Encode(tree)[5]
    BY DEF Intact
  <1>3. Pairs(5, StringData(tree))
          = [i \in 1 .. Len(Strings(tree)) |-> <<data[2 * i + 4], data[2 * i + 5]>>]
    <2>1. (StringData(tree) - 5) \div 2 = Len(Strings(tree))
      <3>1. Len(Strings(tree)) \in Nat /\ StringData(tree) = 5 + 2 * Len(Strings(tree))
        BY Lengths
      <3> QED
        BY <3>1
    <2>2. \A i \in 1 .. Len(Strings(tree)) :
            (5 + 2 * i - 2) + 1 = 2 * i + 4 /\ (5 + 2 * i - 1) + 1 = 2 * i + 5
      OBVIOUS
    <2> QED
      BY <2>1, <2>2 DEF Pairs, Word
  <1> QED
    BY <1>1, <1>2, <1>3 DEF HeaderOf

\* The words of an encoding that was not changed are those that were encoded.
LEMMA Unchanged ==
  ASSUME FaithfulInv, origin.change = "none"
  PROVE  /\ origin.tree \in Trees /\ data = Encode(origin.tree)
         /\ data \in Seq(Nat) /\ Len(data) \in Nat
         /\ \A i : Intact(origin.tree, i)
         /\ Len(data) = NodeData(origin.tree) + 6 * Len(origin.tree)
         /\ NodeData(origin.tree) < Len(data) /\ 5 <= NodeData(origin.tree)
         /\ StringData(origin.tree) < Len(data)
  <1> DEFINE tree == origin.tree
  <1>1. tree \in Trees /\ data = Encode(tree)
    BY DEF FaithfulInv, FromEncoder
  <1>2. \A i : Intact(tree, i)
    BY <1>1 DEF Intact
  <1> HIDE DEF tree
  <1>3. /\ StringData(tree) \in Nat /\ ExtendedData(tree) \in Nat /\ NodeData(tree) \in Nat
        /\ 5 <= StringData(tree) /\ StringData(tree) <= ExtendedData(tree)
        /\ ExtendedData(tree) <= NodeData(tree)
        /\ NodeData(tree) + 6 * Len(tree) = Len(Encode(tree))
        /\ Len(tree) \in Nat \ {0} /\ Encode(tree) \in Seq(Nat)
    BY <1>1, Lengths
  <1>4. Len(Encode(tree)) \in Nat
    BY <1>3, LenProperties
  <1> QED
    BY <1>1, <1>2, <1>3, <1>4 DEF tree

\* The header is read as it stands in the buffer.
LEMMA HeaderFaithful ==
  ASSUME FaithfulInv, DecodeHeader
  PROVE  FaithfulInv'
  <1>1. DecoderInv' /\ UNCHANGED <<data, origin>> /\ at = "header"
    BY HeaderKeeps DEF FaithfulInv, DecodeHeader
  <1>2. FromEncoder'
    BY <1>1 DEF FaithfulInv, FromEncoder, Intact
  <1>3. CASE \E how \in {"BufferTooSmall", "UnsupportedProtocolVersion"} :
               Fail(how) /\ (Len(data) < 5 \/ data[1] # 1)
    <2>1. origin.change # "none"
      <3> SUFFICES ASSUME origin.change = "none" PROVE FALSE
        OBVIOUS
      <3>1. /\ origin.tree \in Trees /\ data \in Seq(Nat) /\ Len(data) \in Nat
            /\ 5 <= NodeData(origin.tree) /\ NodeData(origin.tree) < Len(data)
            /\ (\A i : Intact(origin.tree, i)) /\ NodeData(origin.tree) \in Nat
        BY Unchanged, Lengths
      <3>2. Len(data) >= 5
        BY <3>1
      <3>3. data[1] = 1
        BY <3>1, <3>2, FrontIs
      <3> QED
        BY <1>3, <3>1, <3>2, <3>3
    <2> QED
      BY <1>1, <1>3, <2>1, FailFaithful DEF Errors
  <1>4. CASE /\ ~ Len(data) < 5
             /\ header' = [stringOffsets |-> data[2], stringData |-> data[3],
                           extendedData |-> data[4], nodes |-> data[5]]
             /\ at' = "strings" /\ UNCHANGED <<table, nodes>>
    <2>1. Len(data) >= 5
      <3>1. Len(data) \in Nat
        BY LenProperties DEF FaithfulInv, DecoderInv, TypeOK
      <3> QED
        BY <1>4, <3>1
    <2>2. AsRead'
      BY <1>1, <1>4, <2>1 DEF AsRead
    <2>3. NeverFails'
      BY <1>4 DEF NeverFails, Errors
    <2> QED
      BY <1>1, <1>2, <2>2, <2>3 DEF FaithfulInv
  <1>5. \/ \E how \in {"BufferTooSmall", "UnsupportedProtocolVersion"} :
             Fail(how) /\ (Len(data) < 5 \/ data[1] # 1)
        \/ /\ ~ Len(data) < 5
           /\ header' = [stringOffsets |-> data[2], stringData |-> data[3],
                         extendedData |-> data[4], nodes |-> data[5]]
           /\ at' = "strings" /\ UNCHANGED <<table, nodes>>
    BY DEF DecodeHeader, HeaderSize, Version
  <1> QED
    BY <1>3, <1>4, <1>5

\* The bounds of an encoding that was not changed are accepted.
LEMMA TableAccepted ==
  ASSUME FaithfulInv, origin.change = "none", at = "strings"
  PROVE  LET start == header.stringOffsets
             end == header.stringData
             pairs == Pairs(start, end)
         IN
         /\ ~ Outside(start) /\ ~ Outside(end) /\ ~ start > end /\ ~ end > Len(data)
         /\ \A i \in DOMAIN pairs : ~ TooLong(pairs[i], Len(Rest(end))) /\ ~ Reversed(pairs[i])
  <1> DEFINE tree == origin.tree
             S == Strings(tree)
             end == StringData(tree)
             size == Len(FlattenSeq(S))
  <1>1. /\ tree \in Trees /\ data \in Seq(Nat) /\ Len(data) \in Nat
        /\ (\A i : Intact(tree, i)) /\ data = Encode(tree)
        /\ NodeData(tree) < Len(data) /\ end < Len(data)
    BY Unchanged
  <1>2. /\ end \in Nat /\ ExtendedData(tree) \in Nat /\ NodeData(tree) \in Nat
        /\ 5 <= end /\ ExtendedData(tree) <= NodeData(tree)
        /\ ExtendedData(tree) = end + size
    BY <1>1, Lengths
  <1>3. header.stringOffsets = 5 /\ header.stringData = end
    <2>1. /\ Len(data) >= 5
          /\ header = [stringOffsets |-> data[2], stringData |-> data[3],
                       extendedData |-> data[4], nodes |-> data[5]]
      BY DEF FaithfulInv, AsRead
    <2>2. header = HeaderOf(tree)
      BY <1>1, <2>1, FrontIs
    <2> QED
      BY <2>2 DEF HeaderOf
  <1>4. Pairs(5, end) = [i \in 1 .. Len(S) |-> <<data[2 * i + 4], data[2 * i + 5]>>]
    <2>1. Len(data) >= 5
      BY <1>1, <1>2
    <2> QED
      BY <1>1, <2>1, FrontIs
  <1>5. Len(Rest(end)) = Len(data) - end
    <2>1. end <= Len(data)
      BY <1>1, <1>2
    <2> QED
      BY <1>1, <1>2, <2>1, RestType
  <1>6. ASSUME NEW i \in 1 .. Len(S)
        PROVE  /\ Pairs(5, end)[i][1] \in Nat /\ Pairs(5, end)[i][2] \in Nat
               /\ Pairs(5, end)[i][1] <= Pairs(5, end)[i][2]
               /\ Pairs(5, end)[i][2] <= Len(data) - end
    <2>1. /\ Pairs(5, end)[i][1] = data[2 * i + 4] /\ Pairs(5, end)[i][2] = data[2 * i + 5]
      BY <1>4
    <2>2. data[2 * i + 4] = Ends(S, i - 1) /\ data[2 * i + 5] = Ends(S, i)
      BY <1>1, Layout
    <2>3. /\ S \in Seq(Seq(Nat)) /\ Len(S) \in Nat
      BY <1>1, StringsType
    <2> DEFINE a == Ends(S, i - 1)
               b == Ends(S, i)
               l == Len(S[i])
    <2>4. a \in 0 .. size /\ b \in 0 .. size /\ b = a + l /\ size \in Nat
      <3>1. i \in 0 .. Len(S) /\ i - 1 \in 0 .. Len(S)
        BY <2>3
      <3> HIDE DEF S
      <3> QED
        BY <2>3, <3>1, FlattenParts
    <2>5. l \in Nat
      <3> HIDE DEF S
      <3>1. S[i] \in Seq(Nat)
        BY <2>3, ElementOfSeq
      <3> QED
        BY <3>1, LenProperties
    <2>6. size <= Len(data) - end
      BY <1>1, <1>2, <2>4
    <2> HIDE DEF a, b, l, size
    <2>7. a \in Nat /\ b \in Nat /\ a <= b /\ b <= Len(data) - end
      BY <1>1, <1>2, <2>4, <2>5, <2>6
    <2> QED
      BY <2>1, <2>2, <2>7 DEF a, b
  <1> HIDE DEF end, S, tree
  <1>7. ASSUME NEW i \in DOMAIN Pairs(5, end)
        PROVE  /\ ~ TooLong(Pairs(5, end)[i], Len(Rest(end)))
               /\ ~ Reversed(Pairs(5, end)[i])
    <2>1. i \in 1 .. Len(S)
      BY <1>4
    <2>2. /\ Pairs(5, end)[i][1] \in Nat /\ Pairs(5, end)[i][2] \in Nat
          /\ Pairs(5, end)[i][1] <= Pairs(5, end)[i][2]
          /\ Pairs(5, end)[i][2] <= Len(data) - end
      BY <1>6, <2>1
    <2> DEFINE pair == Pairs(5, end)[i]
    <2>3. /\ pair[1] \in Nat /\ pair[2] \in Nat /\ pair[1] <= pair[2]
          /\ pair[2] <= Len(data) - end
      BY <2>2
    <2> HIDE DEF pair
    <2>4. ~ TooLong(pair, Len(data) - end) /\ ~ Reversed(pair)
      <3>1. Len(data) - end \in Int
        BY <1>1, <1>2
      <3> QED
        BY <2>3, <3>1 DEF TooLong, Reversed
    <2> QED
      BY <1>5, <2>4 DEF pair
  <1>8. ~ Outside(5) /\ ~ Outside(end) /\ ~ 5 > end /\ ~ end > Len(data)
    BY <1>1, <1>2 DEF Outside
  <1> QED
    BY <1>3, <1>7, <1>8

\* The table is read as it stands in the buffer.
LEMMA TableFaithful ==
  ASSUME FaithfulInv, DecodeStringTable
  PROVE  FaithfulInv'
  <1> DEFINE start == header.stringOffsets
             end == header.stringData
             pairs == Pairs(start, end)
             bad == {i \in DOMAIN pairs :
                       TooLong(pairs[i], Len(Rest(end))) \/ Reversed(pairs[i])}
  <1>1. DecoderInv' /\ UNCHANGED <<data, origin>> /\ at = "strings"
    BY TableKeeps DEF FaithfulInv, DecodeStringTable
  <1>2. FromEncoder'
    BY <1>1 DEF FaithfulInv, FromEncoder, Intact
  <1>3. CASE /\ \E how \in {"panic"} \cup Errors : Fail(how)
             /\ Outside(start) \/ Outside(end) \/ start > end \/ end > Len(data) \/ bad # {}
    <2>1. origin.change # "none"
      <3> SUFFICES ASSUME origin.change = "none" PROVE FALSE
        OBVIOUS
      <3>1. /\ ~ Outside(start) /\ ~ Outside(end) /\ ~ start > end /\ ~ end > Len(data)
            /\ \A i \in DOMAIN pairs :
                 ~ TooLong(pairs[i], Len(Rest(end))) /\ ~ Reversed(pairs[i])
        BY <1>1, TableAccepted
      <3>2. bad = {}
        <4> HIDE DEF pairs, end
        <4> QED
          BY <3>1
      <3> HIDE DEF bad, start, end
      <3> QED
        BY <1>3, <3>1, <3>2
    <2> QED
      BY <1>1, <1>3, <2>1, FailFaithful
  <1>4. CASE table' = pairs /\ at' = "nodes" /\ UNCHANGED <<header, nodes>>
    <2>1. nodes' = <<>>
      BY <1>1, <1>4 DEF FaithfulInv, DecoderInv
    <2>2. 1 .. Len(nodes') = {}
      BY <2>1, EmptySeq
    <2>3. pairs' = pairs
      BY <1>1, <1>4 DEF Pairs, Word
    <2>4. AsRead'
      <3>1. /\ Len(data) >= 5
            /\ header = [stringOffsets |-> data[2], stringData |-> data[3],
                         extendedData |-> data[4], nodes |-> data[5]]
        BY <1>1 DEF FaithfulInv, AsRead
      <3> HIDE DEF pairs
      <3>2. table' = pairs'
        BY <1>4, <2>3
      <3> QED
        BY <1>1, <1>4, <2>2, <3>1, <3>2 DEF AsRead, pairs
    <2>5. NeverFails'
      BY <1>4 DEF NeverFails, Errors
    <2> QED
      BY <1>1, <1>2, <2>4, <2>5 DEF FaithfulInv
  <1>5. \/ /\ \E how \in {"panic"} \cup Errors : Fail(how)
           /\ Outside(start) \/ Outside(end) \/ start > end \/ end > Len(data) \/ bad # {}
        \/ table' = pairs /\ at' = "nodes" /\ UNCHANGED <<header, nodes>>
    <2>1. IF Outside(start) \/ Outside(end) THEN Fail("InvalidDataOffset")
          ELSE IF start > end \/ end > Len(data) THEN Fail("panic")
          ELSE IF bad # {}
          THEN Fail(IF TooLong(pairs[Min(bad)], Len(Rest(end)))
                    THEN "StringBoundsOutOfRange" ELSE "StringBoundsInvalid")
          ELSE table' = pairs /\ at' = "nodes" /\ UNCHANGED <<header, nodes>>
      BY DEF DecodeStringTable
    <2>2. {"panic", "InvalidDataOffset", "StringBoundsOutOfRange", "StringBoundsInvalid"}
            \subseteq {"panic"} \cup Errors
      BY DEF Errors
    <2> HIDE DEF start, end, pairs, bad
    <2> QED
      BY <2>1, <2>2
  <1> QED
    BY <1>3, <1>4, <1>5

\* Whoever has read an intact header, and a table, has those of the encoding.
LEMMA FrontOf ==
  ASSUME FaithfulInv, at \in {"nodes", "done"}, NEW tree \in Trees,
         \A i \in 1 .. 5 : Intact(tree, i)
  PROVE  FrontRead(tree)
  <1>1. data \in Seq(Nat) /\ Len(data) >= 5
    BY DEF FaithfulInv, DecoderInv, TypeOK, AsRead
  <1>2. /\ header = [stringOffsets |-> data[2], stringData |-> data[3],
                     extendedData |-> data[4], nodes |-> data[5]]
        /\ table = Pairs(header.stringOffsets, header.stringData)
    BY DEF FaithfulInv, AsRead
  <1>3. /\ header = HeaderOf(tree)
        /\ Pairs(5, StringData(tree))
             = [i \in 1 .. Len(Strings(tree)) |-> <<data[2 * i + 4], data[2 * i + 5]>>]
    BY <1>1, <1>2, FrontIs
  <1>4. header.stringOffsets = 5 /\ header.stringData = StringData(tree)
    BY <1>3 DEF HeaderOf
  <1>5. table = [i \in 1 .. Len(Strings(tree)) |-> <<data[2 * i + 4], data[2 * i + 5]>>]
    BY <1>2, <1>3, <1>4
  <1> QED
    BY <1>3, <1>5 DEF FrontRead

\* The nodes that follow one another up to a size.
LEMMA Whole ==
  ASSUME NEW n \in Nat, NEW size \in Nat, NEW rest \in Int
  PROVE  /\ n < rest \div 6 => rest >= 6 * (n + 1)
         /\ n = rest \div 6 => 6 * n <= rest /\ rest < 6 * (n + 1)
         /\ (6 * size) \div 6 = size
  <1> DEFINE q == rest \div 6
             r == rest % 6
  <1>1. q \in Int /\ r \in 0 .. 5 /\ rest = 6 * q + r
    OBVIOUS
  <1>2. (6 * size) \div 6 = size
    OBVIOUS
  <1> HIDE DEF q, r
  <1>3. /\ n < q => rest >= 6 * (n + 1)
        /\ n = q => 6 * n <= rest /\ rest < 6 * (n + 1)
    BY <1>1
  <1> QED
    BY <1>2, <1>3 DEF q

\* An encoding that was not changed holds as many nodes as its tree.
LEMMA AllNodes ==
  ASSUME FaithfulInv, origin.change \in {"none", "word"}, at \in {"nodes", "done"},
         \A i \in 1 .. 5 : Intact(origin.tree, i)
  PROVE  Count = Len(origin.tree) /\ header.nodes = NodeData(origin.tree)
  <1> DEFINE tree == origin.tree
             start == NodeData(tree)
             size == Len(tree)
  <1>1. tree \in Trees /\ Len(data) = Len(Encode(tree))
    BY DEF FaithfulInv, FromEncoder
  <1>2. start \in Nat /\ size \in Nat /\ start + 6 * size = Len(Encode(tree))
    BY <1>1, Lengths
  <1>3. header.nodes = start
    BY <1>1, FrontOf DEF FrontRead, HeaderOf
  <1> HIDE DEF start, size
  <1>4. Len(data) - header.nodes = 6 * size
    BY <1>1, <1>2, <1>3
  <1>5. (6 * size) \div 6 = size
    BY <1>2, Whole
  <1>6. Count = size
    BY <1>4, <1>5 DEF Count, NodeSize
  <1> QED
    BY <1>3, <1>6 DEF start, size

\* A node is read as it stands in the buffer.
LEMMA NodeFaithful ==
  ASSUME FaithfulInv, DecodeNode
  PROVE  FaithfulInv'
  <1> DEFINE n == Len(nodes)
             offset == header.nodes + 6 * n
             kind == Word(offset)
  <1>1. DecoderInv' /\ UNCHANGED <<data, origin>> /\ at = "nodes"
    BY NodeKeeps DEF FaithfulInv, DecodeNode
  <1>2. FromEncoder'
    BY <1>1 DEF FaithfulInv, FromEncoder, Intact
  <1>3. nodes \in Seq(Node) /\ n \in Nat /\ header.nodes \in Nat /\ n < Count
    BY LenProperties DEF FaithfulInv, DecoderInv, TypeOK, NoHeader, DecodeNode
  <1>4. CASE kind # NodeList /\ kind \notin SyntaxKinds /\ Fail("UnknownSyntaxKind")
    <2>1. origin.change # "none"
      <3> SUFFICES ASSUME origin.change = "none" PROVE FALSE
        OBVIOUS
      <3> DEFINE tree == origin.tree
      <3>1. tree \in Trees /\ \A i : Intact(tree, i)
        BY Unchanged
      <3>2. Count = Len(tree) /\ header.nodes = NodeData(tree)
        BY <1>1, <3>1, AllNodes
      <3>3. tree \in Seq(Node) /\ Len(tree) \in Nat
        BY <3>1, TreeType, LenProperties
      <3> HIDE DEF tree
      <3>4. n + 1 \in 1 .. Len(tree)
        BY <1>3, <3>2, <3>3
      <3>5. NodeIntact(tree, n + 1)
        BY <3>1 DEF NodeIntact
      <3>6. offset = NodeData(tree) + 6 * ((n + 1) - 1)
        BY <1>3, <3>2
      <3>7. kind = tree[n + 1].kind
        <4> HIDE DEF offset, n
        <4> QED
          BY <3>1, <3>4, <3>5, <3>6, WordsRead
      <3>8. tree[n + 1] \in Node
        BY <3>3, <3>4, ElementOfSeq
      <3>9. kind \in SyntaxKinds \cup {NodeList}
        BY <3>7, <3>8 DEF Node
      <3> QED
        BY <1>4, <3>9
    <2> QED
      BY <1>1, <1>4, <2>1, FailFaithful DEF Errors
  <1>5. CASE nodes' = Append(nodes, NodeAt(offset)) /\ UNCHANGED <<at, header, table>>
    <2>1. /\ Len(nodes') = n + 1 /\ nodes'[n + 1] = NodeAt(offset)
          /\ \A k \in 1 .. n : nodes'[k] = nodes[k]
      <3> DEFINE node == NodeAt(offset)
      <3>1. nodes' = Append(nodes, node)
        BY <1>5
      <3> HIDE DEF node, offset
      <3> QED
        BY <1>3, <3>1, AppendProperties DEF node
    <2>2. /\ Len(data) >= 5
          /\ header = [stringOffsets |-> data[2], stringData |-> data[3],
                       extendedData |-> data[4], nodes |-> data[5]]
          /\ table = Pairs(header.stringOffsets, header.stringData)
          /\ \A k \in 1 .. n : nodes[k] = NodeAt(header.nodes + 6 * (k - 1))
      BY <1>1 DEF FaithfulInv, AsRead
    <2>3. \A k \in 1 .. n + 1 : nodes'[k] = NodeAt(header.nodes + 6 * (k - 1))
      <3>1. SUFFICES ASSUME NEW k \in 1 .. n + 1
            PROVE nodes'[k] = NodeAt(header.nodes + 6 * (k - 1))
        OBVIOUS
      <3>2. CASE k = n + 1
        <4>1. header.nodes + 6 * (k - 1) = offset
          BY <1>3, <3>2
        <4> HIDE DEF offset
        <4> QED
          BY <2>1, <3>2, <4>1
      <3>3. CASE k # n + 1
        <4>1. k \in 1 .. n
          BY <1>3, <3>1, <3>3
        <4> QED
          BY <2>1, <2>2, <4>1
      <3> QED
        BY <3>2, <3>3
    <2>4. UNCHANGED <<data, header, table>>
      BY <1>1, <1>5
    <2>6. AsRead'
      <3> HIDE DEF n
      <3>1. \A k \in 1 .. Len(nodes') :
              nodes'[k] = NodeAt(header.nodes + 6 * (k - 1))'
        <4>1. \A k \in 1 .. Len(nodes') : nodes'[k] = NodeAt(header.nodes + 6 * (k - 1))
          BY <2>1, <2>3
        <4> QED
          BY <2>4, <4>1, ReadStays
      <3>2. table' = Pairs(header.stringOffsets, header.stringData)'
        BY <2>2, <2>4, ReadStays
      <3>3. at' = "nodes"
        BY <1>1, <1>5
      <3> QED
        BY <2>2, <2>4, <3>1, <3>2, <3>3 DEF AsRead
    <2>7. NeverFails'
      BY <1>1, <1>5 DEF FaithfulInv, NeverFails, Errors
    <2> QED
      BY <1>1, <1>2, <2>6, <2>7 DEF FaithfulInv
  <1> QED
    BY <1>4, <1>5 DEF DecodeNode, NodeSize

\* The nodes are as many as fit behind their offset.
LEMMA FinishFaithful ==
  ASSUME FaithfulInv, Finish
  PROVE  FaithfulInv'
  <1>1. DecoderInv' /\ UNCHANGED <<data, origin>> /\ at = "nodes"
    BY FinishKeeps DEF FaithfulInv, Finish
  <1>2. FromEncoder'
    BY <1>1 DEF FaithfulInv, FromEncoder, Intact
  <1>3. header.nodes \in Nat /\ Len(data) \in Nat
    BY LenProperties DEF FaithfulInv, DecoderInv, TypeOK, NoHeader
  <1>4. CASE header.nodes > Len(data) /\ Fail("InvalidDataOffset")
    <2>1. origin.change # "none"
      <3> SUFFICES ASSUME origin.change = "none" PROVE FALSE
        OBVIOUS
      <3>1. /\ origin.tree \in Trees /\ NodeData(origin.tree) < Len(data)
            /\ \A i : Intact(origin.tree, i)
        BY Unchanged
      <3>2. header.nodes = NodeData(origin.tree)
        BY <1>1, <3>1, AllNodes
      <3> QED
        BY <1>3, <1>4, <3>1, <3>2
    <2> QED
      BY <1>1, <1>4, <2>1, FailFaithful DEF Errors
  <1>5. CASE /\ ~ header.nodes > Len(data)
             /\ Len(nodes) = Count /\ at' = "done" /\ UNCHANGED <<header, table, nodes>>
    <2>1. header.nodes <= Len(data)
      BY <1>3, <1>5
    <2>2. UNCHANGED <<data, header, table>>
      BY <1>1, <1>5
    <2>4. AsRead'
      BY <1>1, <1>5, <2>1, <2>2, ReadStays DEF FaithfulInv, AsRead
    <2>5. NeverFails'
      BY <1>5 DEF NeverFails, Errors
    <2> QED
      BY <1>1, <1>2, <2>4, <2>5 DEF FaithfulInv
  <1> QED
    BY <1>4, <1>5 DEF Finish

\* Every stage keeps it.
LEMMA FaithfulStep == FaithfulInv /\ [Next]_vars => FaithfulInv'
  <1> SUFFICES ASSUME FaithfulInv, [Next]_vars PROVE FaithfulInv'
    OBVIOUS
  <1>1. CASE UNCHANGED vars
    <2>1. UNCHANGED <<data, origin, at, header, table, nodes>>
      BY <1>1 DEF vars
    <2>2. DecoderInv'
      BY <1>1, DecoderStep DEF FaithfulInv
    <2>3. FromEncoder' /\ NeverFails'
      BY <2>1 DEF FaithfulInv, FromEncoder, Intact, NeverFails
    <2>4. AsRead'
      BY <2>1, ReadStays DEF FaithfulInv, AsRead
    <2> QED
      BY <2>2, <2>3, <2>4 DEF FaithfulInv
  <1>2. CASE Next
    BY <1>2, HeaderFaithful, TableFaithful, NodeFaithful, FinishFaithful DEF Next
  <1> QED
    BY <1>1, <1>2

\* What is decoded is what the buffer holds, and no encoding fails.
THEOREM FaithfulInvariant == Spec => []FaithfulInv
  BY FaithfulInit, FaithfulStep, PTL DEF Spec

\* The types of what is decoded.
LEMMA Decoded ==
  ASSUME FaithfulInv
  PROVE  /\ origin.tree \in Trees /\ origin.tree \in Seq(Node) /\ Len(origin.tree) \in Nat
         /\ DOMAIN origin.tree = 1 .. Len(origin.tree)
         /\ data \in Seq(Nat) /\ Len(data) \in Nat /\ DOMAIN data = 1 .. Len(data)
         /\ nodes \in Seq(Node) /\ Len(nodes) \in Nat
  <1>1. origin.tree \in Trees /\ data \in Seq(Nat) /\ nodes \in Seq(Node)
    BY DEF FaithfulInv, FromEncoder, DecoderInv, TypeOK
  <1> QED
    BY <1>1, TreeType, LenProperties

\* The index of a word of a node.
LEMMA NodeWord ==
  ASSUME NEW start \in Nat, NEW k \in Nat \ {0}, NEW j \in 1 .. 6, NEW size \in Nat, k <= size
  PROVE  /\ start + 6 * (k - 1) + j \in start + 6 * (k - 1) + 1 .. start + 6 * k
         /\ start + 6 * (k - 1) + j \in 1 .. start + 6 * size
  OBVIOUS

\* An encoded tree decodes to that tree: none of the errors of TsgoDecoder::new, nor
\* a panic, befalls it, and every node has the kind, place, text, flags and file
\* name that were encoded (decoder.rs, new, decode_nodes and StringTable::get).
THEOREM TreesSurvive == Spec => []RoundTrip
  <1>1. ASSUME FaithfulInv PROVE RoundTrip
    <2>1. origin.change = "none" => at \notin {"panic"} \cup Errors
      BY <1>1 DEF FaithfulInv, NeverFails
    <2>2. ASSUME origin.change = "none", at = "done" PROVE nodes = origin.tree
      <3> DEFINE tree == origin.tree
      <3>1. /\ tree \in Trees /\ tree \in Seq(Node) /\ data \in Seq(Nat)
            /\ nodes \in Seq(Node) /\ Len(nodes) \in Nat
        BY <1>1, Decoded
      <3>2. /\ \A i : Intact(tree, i)
            /\ NodeData(tree) < Len(data)
        BY <1>1, <2>2, Unchanged
      <3>3. Count = Len(tree) /\ header.nodes = NodeData(tree) /\ FrontRead(tree)
        BY <1>1, <2>2, <3>1, <3>2, AllNodes, FrontOf
      <3>4. /\ Len(nodes) = Len(tree)
            /\ \A k \in 1 .. Len(nodes) : nodes[k] = NodeAt(NodeData(tree) + 6 * (k - 1))
        BY <1>1, <2>2, <3>3 DEF FaithfulInv, AsRead
      <3>5. NodeData(tree) <= Len(data)
        <4>1. NodeData(tree) \in Nat /\ Len(data) \in Nat
          BY <3>1, Lengths, LenProperties
        <4> QED
          BY <3>2, <4>1
      <3> HIDE DEF tree
      <3>6. ASSUME NEW k \in 1 .. Len(nodes) PROVE nodes[k] = tree[k]
        <4>1. NodeIntact(tree, k)
          BY <3>2 DEF NodeIntact
        <4>2. NodeAt(NodeData(tree) + 6 * (k - 1)) = tree[k]
          BY <3>1, <3>2, <3>3, <3>4, <3>5, <4>1, NodeDecoded
        <4> QED
          BY <3>4, <4>2
      <3> QED
        BY <3>1, <3>4, <3>6, SeqEqual DEF tree
    <2> QED
      BY <2>1, <2>2 DEF RoundTrip
  <1> QED
    BY <1>1, FaithfulInvariant, PTL

\* An encoding that was cut short decodes to the nodes that are complete.
LEMMA CutShort ==
  ASSUME FaithfulInv, origin.change = "cut", at = "done"
  PROVE  /\ IsPrefix(nodes, origin.tree)
         /\ Len(data) < header.nodes + NodeSize * (Len(nodes) + 1)
  <1> DEFINE tree == origin.tree
             start == NodeData(tree)
             size == Len(tree)
             n == Len(nodes)
  <1>1. /\ tree \in Trees /\ tree \in Seq(Node) /\ size \in Nat /\ data \in Seq(Nat)
        /\ nodes \in Seq(Node) /\ n \in Nat /\ Len(data) \in Nat
    BY Decoded
  <1>2. /\ Len(data) < Len(Encode(tree)) /\ Len(data) >= 5
        /\ \A i \in 1 .. Len(data) : Intact(tree, i)
    BY DEF FaithfulInv, FromEncoder, AsRead
  <1>3. FrontRead(tree)
    <2>1. \A i \in 1 .. 5 : i \in 1 .. Len(data)
      BY <1>1, <1>2
    <2> QED
      BY <1>1, <1>2, <2>1, FrontOf
  <1>4. header.nodes = start /\ start \in Nat /\ start + 6 * size = Len(Encode(tree))
    BY <1>1, <1>3, Lengths DEF FrontRead, HeaderOf
  <1>5. /\ start <= Len(data) /\ n = (Len(data) - start) \div 6
        /\ \A k \in 1 .. n : nodes[k] = NodeAt(start + 6 * (k - 1))
    BY <1>4 DEF FaithfulInv, AsRead, Count, NodeSize
  <1> HIDE DEF start, size, n
  <1>6. 6 * n <= Len(data) - start /\ Len(data) - start < 6 * (n + 1)
    <2>1. Len(data) - start \in Int
      BY <1>1, <1>4
    <2> QED
      BY <1>1, <1>5, <2>1, Whole
  <1>7. n <= size /\ start + 6 * n <= Len(data) /\ Len(data) < start + 6 * (n + 1)
    BY <1>1, <1>2, <1>4, <1>6
  <1> HIDE DEF tree
  <1>8. ASSUME NEW k \in 1 .. n PROVE nodes[k] = tree[k]
    <2>1. k \in 1 .. size /\ k \in Nat \ {0} /\ k <= n
      BY <1>1, <1>7
    <2>2. NodeIntact(tree, k)
      <3>1. ASSUME NEW j \in 1 .. 6 PROVE Intact(tree, start + 6 * (k - 1) + j)
        <4>1. start + 6 * (k - 1) + j \in 1 .. start + 6 * n
          BY <1>1, <1>4, <2>1, NodeWord
        <4>2. start + 6 * (k - 1) + j \in 1 .. Len(data)
          <5> DEFINE i == start + 6 * (k - 1) + j
          <5>1. i \in 1 .. start + 6 * n
            BY <4>1
          <5> HIDE DEF i
          <5>2. i \in 1 .. Len(data)
            BY <1>1, <1>4, <1>7, <5>1
          <5> QED
            BY <5>2 DEF i
        <4> QED
          BY <1>2, <4>2
      <3> QED
        BY <3>1 DEF NodeIntact, start
    <2>3. \A i \in 1 .. start : Intact(tree, i)
      <3>1. ASSUME NEW i \in 1 .. start PROVE i \in 1 .. Len(data)
        BY <1>1, <1>4, <1>5
      <3> QED
        BY <1>2, <3>1
    <2>4. NodeAt(start + 6 * (k - 1)) = tree[k]
      BY <1>1, <1>3, <1>5, <2>1, <2>2, <2>3, NodeDecoded DEF start, size
    <2> QED
      BY <1>5, <2>4
  <1>9. IsPrefix(nodes, tree)
    <2>1. /\ 1 \in Int /\ n \in Int /\ n - 1 + 1 = n /\ (~ 1 <= n => n = 0)
          /\ \A j \in 1 .. n : 1 + j - 1 = j
      BY <1>1
    <2>2. \A j \in 1 .. n : nodes[j] \in Node /\ tree[j] \in Node
      BY <1>1, <1>8, ElementOfSeq DEF n
    <2>3. /\ SubSeq(nodes, 1, n) \in Seq(Node) /\ SubSeq(tree, 1, n) \in Seq(Node)
          /\ Len(SubSeq(nodes, 1, n)) = n /\ Len(SubSeq(tree, 1, n)) = n
          /\ \A j \in 1 .. n : SubSeq(nodes, 1, n)[j] = nodes[j]
          /\ \A j \in 1 .. n : SubSeq(tree, 1, n)[j] = tree[j]
      BY <2>1, <2>2, SubSeqProperties
    <2> DEFINE a == SubSeq(nodes, 1, n)
               b == SubSeq(tree, 1, n)
    <2>4. /\ a \in Seq(Node) /\ b \in Seq(Node) /\ Len(a) = Len(b)
          /\ \A j \in 1 .. Len(a) : a[j] = b[j]
      BY <1>8, <2>3
    <2> HIDE DEF a, b
    <2>5. a = b
      BY <2>4, SeqEqual
    <2> QED
      BY <1>7, <2>5 DEF IsPrefix, a, b, n, size
  <1> QED
    BY <1>4, <1>7, <1>9 DEF NodeSize, tree, n

\* A word that was replaced behind the header changes what was read of it.
LEMMA WordReplaced ==
  ASSUME FaithfulInv, origin.change = "word", at = "done",
         \A i \in 1 .. 5 : Intact(origin.tree, i)
  PROVE  LET tree == origin.tree IN
         /\ header.nodes = NodeData(tree) /\ header.extendedData = ExtendedData(tree)
         /\ Len(nodes) = Len(tree)
         /\ Len(data) = NodeData(tree) + 6 * Len(tree)
         /\ \A k \in 1 .. Len(tree) : NodeIntact(tree, k) =>
              /\ Shape(nodes[k]) = Shape(tree[k])
              /\ (\E i : ~ Intact(tree, i) /\ i \notin 1 .. NodeData(tree)) =>
                   nodes[k] = tree[k]
              /\ nodes[k].text = None /\ tree[k].text # None =>
                   /\ Extended(tree[k])
                   /\ \E i \in ExtendedData(tree) + 1 .. NodeData(tree) : ~ Intact(tree, i)
  <1> DEFINE tree == origin.tree
             start == NodeData(tree)
             size == Len(tree)
  <1>1. /\ tree \in Trees /\ tree \in Seq(Node) /\ size \in Nat /\ data \in Seq(Nat)
        /\ nodes \in Seq(Node) /\ Len(data) \in Nat
    BY Decoded
  <1>2. FrontRead(tree)
    BY <1>1, FrontOf
  <1>3. Count = size /\ header.nodes = start /\ header.extendedData = ExtendedData(tree)
    BY <1>2, AllNodes DEF FrontRead, HeaderOf
  <1>4. /\ Len(nodes) = size /\ start <= Len(data)
        /\ \A k \in 1 .. Len(nodes) : nodes[k] = NodeAt(start + 6 * (k - 1))
    BY <1>3 DEF FaithfulInv, AsRead
  <1>5. PICK one : \A j : j # one => Intact(tree, j)
    BY DEF FaithfulInv, FromEncoder
  <1>6. Len(data) = start + 6 * size
    <2>1. Len(data) = Len(Encode(tree))
      BY DEF FaithfulInv, FromEncoder
    <2> QED
      BY <1>1, <2>1, Lengths
  <1> HIDE DEF tree
  <1>7. ASSUME NEW k \in 1 .. Len(tree), NodeIntact(tree, k)
        PROVE  /\ Shape(nodes[k]) = Shape(tree[k])
               /\ (\E i : ~ Intact(tree, i) /\ i \notin 1 .. NodeData(tree)) =>
                    nodes[k] = tree[k]
               /\ nodes[k].text = None /\ tree[k].text # None =>
                    /\ Extended(tree[k])
                    /\ \E i \in ExtendedData(tree) + 1 .. NodeData(tree) : ~ Intact(tree, i)
    <2>1. nodes[k] = NodeAt(start + 6 * (k - 1))
      BY <1>4
    <2>2. Shape(nodes[k]) = Shape(tree[k])
      BY <1>1, <1>7, <2>1, ShapeRead
    <2>3. ASSUME NEW i, ~ Intact(tree, i), i \notin 1 .. start
          PROVE  nodes[k] = tree[k]
      <3>1. \A j \in 1 .. start : Intact(tree, j)
        BY <1>5, <2>3
      <3> QED
        BY <1>1, <1>2, <1>4, <1>7, <2>1, <3>1, NodeDecoded
    <2>4. nodes[k].text = None /\ tree[k].text # None =>
            /\ Extended(tree[k])
            /\ \E i \in ExtendedData(tree) + 1 .. start : ~ Intact(tree, i)
      BY <1>1, <1>2, <1>4, <1>7, <2>1, TextRead
    <2> QED
      BY <2>2, <2>3, <2>4
  <1> QED
    BY <1>3, <1>4, <1>6, <1>7 DEF tree

\* Damage stays where it is: what is left of an encoding that was cut short decodes to
\* the nodes that are complete, and a word that was replaced behind the header
\* changes its own node, or strings and what is read through the extended data
\* (decoder.rs, decode_nodes, decode_extended_data and StringTable::get).
THEOREM DamageIsLocal == Spec => []DamageStaysLocal
  <1>1. ASSUME FaithfulInv PROVE DamageStaysLocal
    <2> DEFINE tree == origin.tree
               whole == Encode(tree)
               damaged == {i \in DOMAIN data : data[i] # whole[i]}
               Words(k) == header.nodes + NodeSize * (k - 1) + 1
                             .. header.nodes + NodeSize * k
    <2>1. /\ tree \in Trees /\ Len(tree) \in Nat /\ DOMAIN tree = 1 .. Len(tree)
          /\ Len(data) \in Nat /\ DOMAIN data = 1 .. Len(data)
      BY <1>1, Decoded
    <2>2. NodeData(tree) \in Nat /\ ExtendedData(tree) \in Nat
      BY <2>1, Lengths
    <2>3. \A i \in 1 .. Len(data) : i \in damaged <=> ~ Intact(tree, i)
      BY <2>1 DEF Intact
    <2>4. ASSUME origin.change = "word", at = "done", damaged \cap 1 .. HeaderSize = {}
          PROVE  /\ Len(nodes) = Len(tree)
                 /\ \A k \in DOMAIN tree : damaged \cap Words(k) = {} =>
                      /\ Shape(nodes[k]) = Shape(tree[k])
                      /\ (\E i \in damaged : i > header.nodes) => nodes[k] = tree[k]
                      /\ nodes[k].text = None /\ tree[k].text # None =>
                           Extended(tree[k]) /\ \E i \in damaged : i > header.extendedData
      <3>1. \A i \in 1 .. 5 : Intact(tree, i)
        <4>1. Len(data) >= 5
          BY <1>1, <2>4 DEF FaithfulInv, AsRead
        <4> HIDE DEF damaged
        <4>2. \A i \in 1 .. 5 : i \in 1 .. Len(data) /\ i \notin damaged
          BY <2>1, <2>4, <4>1 DEF HeaderSize
        <4> QED
          BY <2>3, <4>2
      <3>2. /\ header.nodes = NodeData(tree) /\ header.extendedData = ExtendedData(tree)
            /\ Len(nodes) = Len(tree) /\ Len(data) = NodeData(tree) + 6 * Len(tree)
        BY <1>1, <2>4, <3>1, WordReplaced
      <3>3. ASSUME NEW k \in DOMAIN tree, damaged \cap Words(k) = {}
            PROVE  /\ Shape(nodes[k]) = Shape(tree[k])
                   /\ (\E i \in damaged : i > header.nodes) => nodes[k] = tree[k]
                   /\ nodes[k].text = None /\ tree[k].text # None =>
                        Extended(tree[k]) /\ \E i \in damaged : i > header.extendedData
        <4>1. k \in 1 .. Len(tree) /\ k \in Nat \ {0} /\ k <= Len(tree)
          BY <2>1
        <4>2. NodeIntact(tree, k)
          <5>1. ASSUME NEW j \in 1 .. 6
                PROVE  Intact(tree, NodeData(tree) + 6 * (k - 1) + j)
            <6> DEFINE i == NodeData(tree) + 6 * (k - 1) + j
            <6>1. i \in 1 .. Len(data)
              BY <2>1, <2>2, <3>2, <4>1, NodeWord
            <6>2. i \in Words(k)
              BY <2>1, <2>2, <3>2, <4>1, NodeWord DEF NodeSize
            <6> HIDE DEF i, Words, damaged
            <6>3. Intact(tree, i)
              BY <2>3, <3>3, <6>1, <6>2
            <6> QED
              BY <6>3 DEF i
          <5> QED
            BY <5>1 DEF NodeIntact
        <4>3. /\ Shape(nodes[k]) = Shape(tree[k])
              /\ (\E i : ~ Intact(tree, i) /\ i \notin 1 .. NodeData(tree)) =>
                   nodes[k] = tree[k]
              /\ nodes[k].text = None /\ tree[k].text # None =>
                   /\ Extended(tree[k])
                   /\ \E i \in ExtendedData(tree) + 1 .. NodeData(tree) : ~ Intact(tree, i)
          BY <1>1, <2>4, <3>1, <4>1, <4>2, WordReplaced
        <4>4. ASSUME NEW i \in damaged, i > header.nodes
              PROVE  ~ Intact(tree, i) /\ i \notin 1 .. NodeData(tree)
          <5>1. i \in 1 .. Len(data) /\ ~ Intact(tree, i)
            BY <2>1, <4>4 DEF Intact
          <5> QED
            BY <2>2, <3>2, <4>4, <5>1
        <4>5. ASSUME NEW i \in ExtendedData(tree) + 1 .. NodeData(tree), ~ Intact(tree, i)
              PROVE  i \in damaged /\ i > header.extendedData
          <5>1. i \in 1 .. Len(data) /\ i > header.extendedData
            BY <2>1, <2>2, <3>2, <4>5
          <5> HIDE DEF damaged
          <5> QED
            BY <2>3, <4>5, <5>1
        <4> HIDE DEF damaged
        <4> QED
          BY <4>3, <4>4, <4>5
      <3> QED
        BY <3>2, <3>3
    <2> QED
      BY <1>1, <2>4, CutShort DEF DamageStaysLocal
  <1> QED
    BY <1>1, FaithfulInvariant, PTL

=============================================================================
