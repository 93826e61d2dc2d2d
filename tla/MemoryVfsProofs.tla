--------------------------- MODULE MemoryVfsProofs ---------------------------
(***************************************************************************)
(* What holds of MemoryVfs for all paths, all writers and every layout of  *)
(* the map: normalize_path yields the key of a file or directory, files    *)
(* stay, every file is found from the root, lookups and listings agree,    *)
(* and a listing that is written behind reports what was there.            *)
(***************************************************************************)
EXTENDS MemoryVfs, SequenceTheorems, FiniteSetTheorems, WellFoundedInduction, TLAPS

-----------------------------------------------------------------------------
(* normalize_path.                                                         *)

\* Induction over the natural numbers, for a set.
LEMMA Induction ==
  ASSUME NEW S, 0 \in S, \A n \in Nat : n \in S => n + 1 \in S
  PROVE  Nat \subseteq S
  <1> DEFINE T == Nat \ S
  <1> SUFFICES ASSUME T # {} PROVE FALSE
    OBVIOUS
  <1>1. PICK x \in T : \A y \in T : ~ (<<y, x>> \in OpToRel(<, Nat))
    BY WFMin, NatLessThanWellFounded
  <1>2. x - 1 \in Nat /\ x - 1 < x
    OBVIOUS
  <1>3. x - 1 \in S
    BY <1>1, <1>2 DEF OpToRel
  <1> QED
    BY <1>2, <1>3

\* A segment takes a stack of names to a stack of names.
LEMMA PushType ==
  ASSUME NEW stack \in Seq(Names), NEW segment \in Segments
  PROVE  Push(stack, segment) \in Seq(Names)
  <1>1. CASE segment \in {"", "."}
    BY <1>1 DEF Push
  <1>2. CASE segment = ".." /\ stack = <<>>
    BY <1>2 DEF Push
  <1>3. CASE segment = ".." /\ stack # <<>>
    <2>1. Len(stack) \in Nat /\ \A i \in 1 .. Len(stack) - 1 : stack[i] \in Names
      BY LenProperties
    <2>2. Front(stack) \in Seq(Names)
      BY <2>1, SubSeqProperties DEF Front
    <2> QED
      BY <1>3, <2>2 DEF Push
  <1>4. CASE segment \notin {"", ".", ".."}
    <2>1. segment \in Names /\ Push(stack, segment) = Append(stack, segment)
      BY <1>4 DEF Segments, Push
    <2> QED
      BY <2>1, AppendProperties
  <1> QED
    BY <1>1, <1>2, <1>3, <1>4

\* A name is put on the stack.
LEMMA PushName ==
  ASSUME NEW stack, NEW n \in Names
  PROVE  Push(stack, n) = Append(stack, n)
  <1>1. n \notin {"", ".", ".."}
    BY VfsAssumption
  <1> QED
    BY <1>1 DEF Push

\* The stacks of the loop over the segments of a path.
IsRun(st, path) ==
  /\ st \in [0 .. Len(path) -> Seq(Names)] /\ st[0] = <<>>
  /\ \A i \in 1 .. Len(path) : st[i] = Push(st[i - 1], path[i])

\* The loop runs over every path.
LEMMA RunExists ==
  ASSUME NEW path \in Seq(Segments)
  PROVE  \E st : IsRun(st, path)
  <1> DEFINE Upto(st, n) ==
               /\ st \in [0 .. n -> Seq(Names)] /\ st[0] = <<>>
               /\ \A i \in 1 .. n : st[i] = Push(st[i - 1], path[i])
             S == {n \in Nat : n <= Len(path) => \E st : Upto(st, n)}
  <1>1. Len(path) \in Nat /\ \A i \in 1 .. Len(path) : path[i] \in Segments
    BY LenProperties
  <1> HIDE DEF Upto
  <1>2. 0 \in S
    <2>1. Upto([i \in 0 .. 0 |-> <<>>], 0)
      BY DEF Upto
    <2> QED
      BY <2>1
  <1>3. ASSUME NEW n \in Nat, n \in S
        PROVE  n + 1 \in S
    <2> SUFFICES ASSUME n + 1 <= Len(path)
                 PROVE  \E st : Upto(st, n + 1)
      OBVIOUS
    <2>1. PICK st : Upto(st, n)
      BY <1>1, <1>3
    <2>2. /\ st \in [0 .. n -> Seq(Names)] /\ st[0] = <<>>
          /\ \A i \in 1 .. n : st[i] = Push(st[i - 1], path[i])
      BY <2>1 DEF Upto
    <2> DEFINE next == Push(st[n], path[n + 1])
               more == [i \in 0 .. n + 1 |-> IF i <= n THEN st[i] ELSE next]
    <2>3. next \in Seq(Names)
      <3>1. st[n] \in Seq(Names) /\ path[n + 1] \in Segments
        BY <1>1, <2>2
      <3> QED
        BY <3>1, PushType
    <2>4. \A i \in 1 .. n : more[i] = Push(more[i - 1], path[i])
      BY <2>2
    <2>5. more[n + 1] = Push(more[n], path[n + 1])
      OBVIOUS
    <2> HIDE DEF next
    <2>6. more \in [0 .. n + 1 -> Seq(Names)] /\ more[0] = <<>>
      BY <2>2, <2>3
    <2> HIDE DEF more
    <2>7. \A i \in 1 .. n + 1 : more[i] = Push(more[i - 1], path[i])
      <3> SUFFICES ASSUME NEW i \in 1 .. n + 1
                   PROVE  more[i] = Push(more[i - 1], path[i])
        OBVIOUS
      <3>1. i \in 1 .. n \/ (i = n + 1 /\ i - 1 = n)
        OBVIOUS
      <3> QED
        BY <2>4, <2>5, <3>1
    <2>8. Upto(more, n + 1)
      BY <2>6, <2>7 DEF Upto
    <2> QED
      BY <2>8
  <1> HIDE DEF S
  <1>4. Len(path) \in S
    BY <1>1, <1>2, <1>3, Induction
  <1>5. PICK st : Upto(st, Len(path))
    BY <1>1, <1>4 DEF S
  <1> QED
    BY <1>5 DEF Upto, IsRun

\* It ends with what normalize_path returns.
LEMMA RunEnds ==
  ASSUME NEW path \in Seq(Segments), NEW st, IsRun(st, path)
  PROVE  Normalize(path) = st[Len(path)] /\ Normalize(path) \in Seq(Names)
  <1> DEFINE f == CHOOSE g : g = [i \in 0 .. Len(path) |->
                                    IF i = 0 THEN <<>> ELSE Push(g[i - 1], path[i])]
             S == {n \in Nat : n <= Len(path) => f[n] = st[n]}
  <1>1. Len(path) \in Nat
    BY LenProperties
  <1>2. Normalize(path) = f[Len(path)]
    BY DEF Normalize
  <1>3. st = [i \in 0 .. Len(path) |-> IF i = 0 THEN <<>> ELSE Push(st[i - 1], path[i])]
    BY <1>1 DEF IsRun
  <1>4. f = [i \in 0 .. Len(path) |-> IF i = 0 THEN <<>> ELSE Push(f[i - 1], path[i])]
    BY <1>3
  <1> HIDE DEF f
  <1>5. 0 \in S
    BY <1>1, <1>4 DEF IsRun
  <1>6. ASSUME NEW n \in Nat, n \in S
        PROVE  n + 1 \in S
    <2> SUFFICES ASSUME n + 1 <= Len(path)
                 PROVE  f[n + 1] = st[n + 1]
      OBVIOUS
    <2>1. f[n] = st[n] /\ n + 1 \in 1 .. Len(path) /\ (n + 1) - 1 = n
      BY <1>1, <1>6
    <2>2. f[n + 1] = Push(f[n], path[n + 1])
      BY <1>4, <2>1
    <2> QED
      BY <2>1, <2>2 DEF IsRun
  <1> HIDE DEF S
  <1>7. Len(path) \in S
    BY <1>1, <1>5, <1>6, Induction
  <1>8. f[Len(path)] = st[Len(path)]
    BY <1>1, <1>7 DEF S
  <1> QED
    BY <1>1, <1>2, <1>8 DEF IsRun

\* normalize_path yields a sequence of names.
LEMMA NormalizeType ==
  ASSUME NEW path \in Seq(Segments)
  PROVE  Normalize(path) \in Seq(Names)
  BY RunExists, RunEnds

\* normalize_path may be applied in pieces: what it makes of the first i segments can
\* stand in their place, as in realpath of what lies below a realpath.
THEOREM NormalizesInPieces ==
  ASSUME NEW path \in Seq(Segments), NEW i \in DOMAIN path
  PROVE  Normalize(Normalize(SubSeq(path, 1, i)) \o SubSeq(path, i + 1, Len(path)))
           = Normalize(path)
  <1> DEFINE part == SubSeq(path, 1, i)
             rest == SubSeq(path, i + 1, Len(path))
             key == Normalize(part)
             whole == key \o rest
  <1>1. /\ Len(path) \in Nat /\ i \in 1 .. Len(path)
        /\ \A j \in 1 .. Len(path) : path[j] \in Segments
    BY LenProperties, ElementOfSeq
  <1>2. /\ part \in Seq(Segments) /\ Len(part) = i
        /\ \A j \in 1 .. i : part[j] = path[j]
    <2>1. \A j \in 1 .. i : path[j] \in Segments
      BY <1>1
    <2> QED
      BY <1>1, <2>1, SubSeqProperties
  <1>3. /\ rest \in Seq(Segments) /\ Len(rest) = Len(path) - i
        /\ \A j \in 1 .. Len(path) - i : rest[j] = path[i + j]
    <2>1. \A j \in i + 1 .. Len(path) : path[j] \in Segments
      BY <1>1
    <2>2. /\ rest \in Seq(Segments)
          /\ Len(rest) = IF i + 1 <= Len(path) THEN Len(path) - (i + 1) + 1 ELSE 0
          /\ \A j \in 1 .. Len(path) - (i + 1) + 1 : rest[j] = path[(i + 1) + j - 1]
      BY <1>1, <2>1, SubSeqProperties
    <2>3. \A j \in 1 .. Len(path) - i : (i + 1) + j - 1 = i + j
      BY <1>1
    <2> HIDE DEF rest
    <2> QED
      BY <1>1, <2>2, <2>3
  <1> HIDE DEF part, rest
  <1>4. PICK st : IsRun(st, path)
    BY RunExists
  <1>5. /\ st \in [0 .. Len(path) -> Seq(Names)] /\ st[0] = <<>>
        /\ \A j \in 1 .. Len(path) : st[j] = Push(st[j - 1], path[j])
    BY <1>4 DEF IsRun
  <1>6. key = st[i]
    <2> DEFINE begin == [j \in 0 .. i |-> st[j]]
    <2>1. begin \in [0 .. Len(part) -> Seq(Names)] /\ begin[0] = <<>> /\ begin[i] = st[i]
      BY <1>1, <1>2, <1>5
    <2>2. ASSUME NEW j \in 1 .. i
          PROVE  begin[j] = Push(begin[j - 1], part[j])
      <3>1. j \in 1 .. Len(path) /\ begin[j] = st[j] /\ begin[j - 1] = st[j - 1]
        BY <1>1
      <3> HIDE DEF begin
      <3> QED
        BY <1>2, <1>5, <3>1
    <2> HIDE DEF begin
    <2>3. IsRun(begin, part)
      BY <1>2, <2>1, <2>2 DEF IsRun
    <2> QED
      BY <1>2, <2>1, <2>3, RunEnds
  <1> HIDE DEF key
  <1>7. /\ key \in Seq(Names) /\ Len(key) \in Nat
        /\ \A j \in 1 .. Len(key) : key[j] \in Names
    BY <1>1, <1>5, <1>6, LenProperties, ElementOfSeq
  <1>8. key \in Seq(Segments)
    <2>1. Names \subseteq Segments
      BY DEF Segments
    <2> QED
      BY <1>7, <2>1, SeqMonotonic
  <1>9. /\ whole \in Seq(Segments) /\ Len(whole) = Len(key) + (Len(path) - i)
        /\ \A j \in 1 .. Len(key) : whole[j] = key[j]
        /\ \A j \in Len(key) + 1 .. Len(whole) : whole[j] = path[i + (j - Len(key))]
    <2>1. /\ whole \in Seq(Segments) /\ Len(whole) = Len(key) + Len(rest)
          /\ \A j \in 1 .. Len(key) + Len(rest) :
               whole[j] = IF j <= Len(key) THEN key[j] ELSE rest[j - Len(key)]
      BY <1>3, <1>8, ConcatProperties
    <2> HIDE DEF whole
    <2>2. \A j \in Len(key) + 1 .. Len(whole) : j - Len(key) \in 1 .. Len(path) - i
      BY <1>1, <1>3, <1>7, <2>1
    <2>3. Len(whole) = Len(key) + (Len(path) - i)
      BY <1>3, <2>1
    <2>4. \A j \in 1 .. Len(key) : whole[j] = key[j]
      BY <1>1, <1>3, <1>7, <2>1
    <2>5. ASSUME NEW j \in Len(key) + 1 .. Len(whole)
          PROVE  whole[j] = path[i + (j - Len(key))]
      <3>1. j - Len(key) \in 1 .. Len(path) - i
        BY <2>2
      <3>2. j \in 1 .. Len(key) + Len(rest) /\ ~ (j <= Len(key))
        BY <1>1, <1>3, <1>7, <2>1
      <3>3. whole[j] = rest[j - Len(key)]
        BY <2>1, <3>2
      <3> QED
        BY <1>3, <3>1, <3>3
    <2> QED
      BY <2>1, <2>3, <2>4, <2>5
  <1> HIDE DEF whole
  <1>10. /\ Len(path) \in Nat /\ Len(key) \in Nat /\ i \in 1 .. Len(path)
         /\ Len(whole) = Len(key) + (Len(path) - i)
    BY <1>1, <1>7, <1>9
  <1> DEFINE more == [j \in 0 .. Len(whole) |->
                        IF j <= Len(key) THEN SubSeq(key, 1, j) ELSE st[i + (j - Len(key))]]
  <1>11. /\ \A j \in 0 .. Len(key) : SubSeq(key, 1, j) \in Seq(Names)
         /\ SubSeq(key, 1, 0) = <<>> /\ SubSeq(key, 1, Len(key)) = key
    <2>1. \A j \in 0 .. Len(key) : \A l \in 1 .. j : key[l] \in Names
      BY <1>7
    <2>2. \A j \in 0 .. Len(key) : SubSeq(key, 1, j) \in Seq(Names)
      BY <1>7, <2>1, SubSeqProperties
    <2>3. SubSeq(key, 1, 0) = <<>> /\ SubSeq(key, 1, Len(key)) = key
      BY <1>7, SubSeqProperties
    <2> QED
      BY <2>2, <2>3
  <1>12. more \in [0 .. Len(whole) -> Seq(Names)] /\ more[0] = <<>>
    <2>1. \A j \in 0 .. Len(whole) : j > Len(key) => i + (j - Len(key)) \in 0 .. Len(path)
      BY <1>1, <1>7, <1>9
    <2> QED
      BY <1>1, <1>5, <1>7, <1>9, <1>11, <2>1
  <1>13. ASSUME NEW j \in 1 .. Len(whole)
         PROVE  more[j] = Push(more[j - 1], whole[j])
    <2>1. CASE j <= Len(key)
      <3>1. /\ j \in 1 .. Len(key) /\ j - 1 \in 0 .. Len(key) /\ whole[j] = key[j]
            /\ key[j] \in Names
        <4>1. j \in 1 .. Len(key) /\ j - 1 \in 0 .. Len(key)
          BY <1>10, <2>1
        <4> QED
          BY <1>7, <1>9, <4>1
      <3>2. more[j] = SubSeq(key, 1, j) /\ more[j - 1] = SubSeq(key, 1, j - 1)
        <4>1. /\ j \in 0 .. Len(whole) /\ j - 1 \in 0 .. Len(whole)
              /\ j <= Len(key) /\ j - 1 <= Len(key)
          BY <1>10, <2>1
        <4> QED
          BY <4>1
      <3> HIDE DEF more
      <3>3. SubSeq(key, 1, j) = Append(SubSeq(key, 1, j - 1), key[j])
        BY <1>7, <3>1, SubSeqRecursiveSecond
      <3> QED
        BY <3>1, <3>2, <3>3, PushName
    <2>2. CASE j > Len(key)
      <3> DEFINE at == i + (j - Len(key))
      <3>1. at \in 1 .. Len(path) /\ whole[j] = path[at]
        <4>1. j \in Len(key) + 1 .. Len(whole)
          BY <1>10, <2>2
        <4>2. at \in 1 .. Len(path)
          BY <1>10, <2>2
        <4> QED
          BY <1>9, <4>1, <4>2
      <3>2. more[j] = st[at]
        BY <1>7, <2>2
      <3>3. more[j - 1] = st[at - 1]
        <4>1. CASE j - 1 = Len(key)
          <5>1. more[j - 1] = key /\ at - 1 = i
            BY <1>1, <1>7, <1>9, <1>11, <4>1
          <5> QED
            BY <1>6, <5>1
        <4>2. CASE j - 1 > Len(key)
          <5>1. more[j - 1] = st[i + ((j - 1) - Len(key))] /\ j - 1 \in 0 .. Len(whole)
            BY <1>7, <1>9, <4>2
          <5>2. i + ((j - 1) - Len(key)) = at - 1
            BY <1>1, <1>7
          <5> QED
            BY <5>1, <5>2
        <4> QED
          BY <1>7, <2>2, <4>1, <4>2
      <3> HIDE DEF at, more
      <3> QED
        BY <1>5, <3>1, <3>2, <3>3
    <2> QED
      BY <1>7, <2>1, <2>2
  <1>14. more[Len(whole)] = st[Len(path)]
    <2>1. Len(whole) \in 0 .. Len(whole)
      BY <1>9, LenProperties
    <2>2. CASE i = Len(path)
      <3>1. Len(whole) = Len(key)
        BY <1>10, <2>2
      <3>2. more[Len(whole)] = SubSeq(key, 1, Len(key))
        BY <2>1, <3>1
      <3> QED
        BY <1>6, <1>11, <2>2, <3>2
    <2>3. CASE i # Len(path)
      <3>1. Len(whole) > Len(key) /\ i + (Len(whole) - Len(key)) = Len(path)
        <4>1. \A m, n \in Nat : \A l \in 1 .. n :
                l # n => m + (n - l) > m /\ l + ((m + (n - l)) - m) = n
          OBVIOUS
        <4>2. /\ Len(key) + (Len(path) - i) > Len(key)
              /\ i + ((Len(key) + (Len(path) - i)) - Len(key)) = Len(path)
          BY <1>10, <2>3, <4>1, Zenon
        <4> QED
          BY <1>10, <4>2, Zenon
      <3>2. more[Len(whole)] = st[i + (Len(whole) - Len(key))]
        BY <1>7, <2>1, <3>1
      <3> QED
        BY <3>1, <3>2
    <2> QED
      BY <2>2, <2>3
  <1> HIDE DEF more
  <1>15. IsRun(more, whole)
    BY <1>12, <1>13 DEF IsRun
  <1>16. Normalize(whole) = Normalize(path)
    BY <1>4, <1>9, <1>14, <1>15, RunEnds
  <1> QED
    BY <1>16 DEF whole, key, part, rest

\* A name below a path is a name below what the path normalizes to.
LEMMA NormalizeAppend ==
  ASSUME NEW path \in Seq(Segments), NEW n \in Names
  PROVE  /\ Append(path, n) \in Seq(Segments)
         /\ Normalize(Append(path, n)) = Append(Normalize(path), n)
  <1> DEFINE longer == Append(path, n)
             key == Append(Normalize(path), n)
  <1>1. n \in Segments /\ n \notin {"", ".", ".."}
    BY VfsAssumption DEF Segments
  <1>2. /\ longer \in Seq(Segments) /\ Len(path) \in Nat /\ Len(longer) = Len(path) + 1
        /\ \A i \in 1 .. Len(path) : longer[i] = path[i]
        /\ longer[Len(path) + 1] = n
    <2>1. path \in Seq(Segments) /\ n \in Segments
      BY <1>1
    <2> HIDE DEF longer
    <2> QED
      BY <2>1, AppendProperties, LenProperties DEF longer
  <1>3. PICK st : IsRun(st, path)
    BY RunExists
  <1>4. Normalize(path) = st[Len(path)] /\ Normalize(path) \in Seq(Names)
    BY <1>3, RunEnds
  <1>5. /\ key \in Seq(Names) /\ Push(Normalize(path), n) = key
    BY <1>1, <1>4, AppendProperties DEF Push
  <1> HIDE DEF longer, key
  <1> DEFINE more == [i \in 0 .. Len(path) + 1 |-> IF i <= Len(path) THEN st[i] ELSE key]
  <1>6. /\ st \in [0 .. Len(path) -> Seq(Names)] /\ st[0] = <<>>
        /\ \A i \in 1 .. Len(path) : st[i] = Push(st[i - 1], path[i])
    BY <1>3 DEF IsRun
  <1>7. more \in [0 .. Len(longer) -> Seq(Names)] /\ more[0] = <<>>
    BY <1>2, <1>5, <1>6
  <1>8. /\ \A i \in 1 .. Len(path) : more[i] = st[i] /\ more[i - 1] = st[i - 1]
        /\ more[Len(path)] = st[Len(path)] /\ more[Len(path) + 1] = key
    BY <1>2
  <1> HIDE DEF more
  <1>9. ASSUME NEW i \in 1 .. Len(longer)
        PROVE  more[i] = Push(more[i - 1], longer[i])
    <2>1. CASE i \in 1 .. Len(path)
      BY <1>2, <1>6, <1>8, <2>1
    <2>2. CASE i = Len(path) + 1
      <3>1. i - 1 = Len(path)
        BY <1>2, <2>2
      <3> QED
        BY <1>2, <1>4, <1>5, <1>8, <2>2, <3>1
    <2> QED
      BY <1>2, <2>1, <2>2
  <1>10. IsRun(more, longer)
    BY <1>7, <1>9 DEF IsRun
  <1> QED
    BY <1>2, <1>8, <1>10, RunEnds DEF longer, key

-----------------------------------------------------------------------------
(* What normalize_path computes.                                           *)

\* How many names and how many ".." there are between two segments, ...
NamesIn(path, i, j) == {n \in i .. j : path[n] \in Names}
UpsIn(path, i, j) == {n \in i .. j : path[n] = ".."}

\* ... and how many levels the path has gone down between them.
Depth(path, i, j) == Cardinality(NamesIn(path, i, j)) - Cardinality(UpsIn(path, i, j))

\* The depth changes by one level at most, from segment to segment.
LEMMA DepthStep ==
  ASSUME NEW path, NEW i \in Nat, NEW j \in Nat, i <= j + 1
  PROVE  /\ Depth(path, i, j) \in Int
         /\ i = j + 1 => Depth(path, i, j) = 0
         /\ path[j + 1] \in Names => Depth(path, i, j + 1) = Depth(path, i, j) + 1
         /\ path[j + 1] = ".." => Depth(path, i, j + 1) = Depth(path, i, j) - 1
         /\ path[j + 1] \in {"", "."} => Depth(path, i, j + 1) = Depth(path, i, j)
  <1> DEFINE names == NamesIn(path, i, j)
             ups == UpsIn(path, i, j)
  <1>1. IsFiniteSet(i .. j)
    BY FS_Interval
  <1>2. /\ IsFiniteSet(names) /\ IsFiniteSet(ups)
        /\ Cardinality(names) \in Nat /\ Cardinality(ups) \in Nat
    <2>1. names \in SUBSET (i .. j) /\ ups \in SUBSET (i .. j)
      BY DEF NamesIn, UpsIn
    <2> HIDE DEF names, ups
    <2> QED
      BY <1>1, <2>1, FS_Subset, FS_CardinalityType
  <1>3. i = j + 1 => names = {} /\ ups = {}
    BY DEF NamesIn, UpsIn
  <1>4. j + 1 \notin names /\ j + 1 \notin ups
    BY DEF NamesIn, UpsIn
  <1>5. /\ NamesIn(path, i, j + 1) = IF path[j + 1] \in Names THEN names \cup {j + 1} ELSE names
        /\ UpsIn(path, i, j + 1) = IF path[j + 1] = ".." THEN ups \cup {j + 1} ELSE ups
    <2>1. i .. j + 1 = (i .. j) \cup {j + 1}
      OBVIOUS
    <2> QED
      BY <2>1 DEF NamesIn, UpsIn
  <1>6. /\ Cardinality(names \cup {j + 1}) = Cardinality(names) + 1
        /\ Cardinality(ups \cup {j + 1}) = Cardinality(ups) + 1
    <2> HIDE DEF names, ups
    <2> QED
      BY <1>2, <1>4, FS_AddElement
  <1>7. Depth(path, i, j) = Cardinality(names) - Cardinality(ups)
    BY DEF Depth
  <1>8. /\ path[j + 1] \in Names => path[j + 1] # ".."
        /\ path[j + 1] \in {"", "."} => path[j + 1] \notin Names /\ path[j + 1] # ".."
    BY VfsAssumption
  <1>9. Depth(path, i, j) \in Int /\ (i = j + 1 => Depth(path, i, j) = 0)
    <2> HIDE DEF names, ups
    <2> QED
      BY <1>2, <1>3, <1>7, FS_EmptySet
  <1>10. Depth(path, i, j + 1)
           = Cardinality(IF path[j + 1] \in Names THEN names \cup {j + 1} ELSE names)
             - Cardinality(IF path[j + 1] = ".." THEN ups \cup {j + 1} ELSE ups)
    BY <1>5 DEF Depth
  <1> HIDE DEF names, ups
  <1>11. ASSUME path[j + 1] \in Names
         PROVE  Depth(path, i, j + 1) = Depth(path, i, j) + 1
    <2>1. Depth(path, i, j + 1) = Cardinality(names \cup {j + 1}) - Cardinality(ups)
      BY <1>8, <1>10, <1>11
    <2> QED
      BY <1>2, <1>6, <1>7, <2>1
  <1>12. ASSUME path[j + 1] = ".."
         PROVE  Depth(path, i, j + 1) = Depth(path, i, j) - 1
    <2>1. path[j + 1] \notin Names
      BY <1>8, <1>12
    <2> QED
      BY <1>2, <1>6, <1>7, <1>10, <1>12, <2>1
  <1>13. ASSUME path[j + 1] \in {"", "."}
         PROVE  Depth(path, i, j + 1) = Depth(path, i, j)
    <2>1. path[j + 1] \notin Names /\ path[j + 1] # ".."
      BY <1>8, <1>13
    <2> QED
      BY <1>7, <1>10, <2>1
  <1> QED
    BY <1>9, <1>11, <1>12, <1>13

\* Segment i names what is on the way to the end of the first m segments.
Leads(path, m, i) ==
  path[i] \in Names /\ \A j \in i .. m : Depth(path, i, j) > 0

\* The stack after m segments is what the segments pos lead to, from the root on.
StackOf(path, m, stack, pos) ==
  /\ pos \in Seq(Nat) /\ Len(pos) = Len(stack)
  /\ \A n \in 1 .. Len(pos) :
       /\ pos[n] \in 1 .. m /\ stack[n] = path[pos[n]]
       /\ Depth(path, pos[n], m) = Len(pos) - n + 1
  /\ \A k, n \in 1 .. Len(pos) : k < n => pos[k] < pos[n]
  /\ \A i \in 1 .. m : Leads(path, m, i) <=> \E n \in 1 .. Len(pos) : pos[n] = i

\* One segment more.
LEMMA StackStep ==
  ASSUME NEW path \in Seq(Segments), NEW m \in Nat, m + 1 <= Len(path),
         NEW stack \in Seq(Names), NEW pos, StackOf(path, m, stack, pos)
  PROVE  \E next : StackOf(path, m + 1, Push(stack, path[m + 1]), next)
  <1> DEFINE x == path[m + 1]
             len == Len(pos)
  <1>1. /\ pos \in Seq(Nat) /\ len = Len(stack) /\ len \in Nat
        /\ \A n \in 1 .. len :
             /\ pos[n] \in 1 .. m /\ stack[n] = path[pos[n]]
             /\ Depth(path, pos[n], m) = len - n + 1
        /\ \A k, n \in 1 .. len : k < n => pos[k] < pos[n]
        /\ \A i \in 1 .. m : Leads(path, m, i) <=> \E n \in 1 .. len : pos[n] = i
    BY LenProperties DEF StackOf
  <1>2. /\ x \in Segments
        /\ x \in Names => x \notin {"", ".", ".."}
    <2>1. Len(path) \in Nat
      BY LenProperties
    <2>2. m + 1 \in 1 .. Len(path)
      BY <2>1
    <2>3. path[m + 1] \in Segments
      BY <2>2, ElementOfSeq
    <2> QED
      BY <2>3, VfsAssumption
  <1>3. \A i \in 1 .. m : Leads(path, m + 1, i) <=> Leads(path, m, i) /\ Depth(path, i, m + 1) > 0
    <2> SUFFICES ASSUME NEW i \in 1 .. m
                 PROVE  Leads(path, m + 1, i) <=> Leads(path, m, i) /\ Depth(path, i, m + 1) > 0
      OBVIOUS
    <2>1. i .. m + 1 = (i .. m) \cup {m + 1}
      OBVIOUS
    <2> QED
      BY <2>1 DEF Leads
  <1>4. Leads(path, m + 1, m + 1) <=> x \in Names
    <2>1. /\ Depth(path, m + 1, m) = 0
          /\ x \in Names => Depth(path, m + 1, m + 1) = Depth(path, m + 1, m) + 1
      <3>1. m + 1 \in Nat /\ m + 1 <= m + 1
        OBVIOUS
      <3> QED
        BY <3>1, DepthStep
    <2>2. (m + 1) .. (m + 1) = {m + 1}
      OBVIOUS
    <2> QED
      BY <2>1, <2>2 DEF Leads
  <1>5. \A i \in 1 .. m :
          /\ Depth(path, i, m) \in Int
          /\ x \in Names => Depth(path, i, m + 1) = Depth(path, i, m) + 1
          /\ x = ".." => Depth(path, i, m + 1) = Depth(path, i, m) - 1
          /\ x \in {"", "."} => Depth(path, i, m + 1) = Depth(path, i, m)
    <2> SUFFICES ASSUME NEW i \in 1 .. m
                 PROVE  /\ Depth(path, i, m) \in Int
                        /\ x \in Names => Depth(path, i, m + 1) = Depth(path, i, m) + 1
                        /\ x = ".." => Depth(path, i, m + 1) = Depth(path, i, m) - 1
                        /\ x \in {"", "."} => Depth(path, i, m + 1) = Depth(path, i, m)
      OBVIOUS
    <2>1. i \in Nat /\ i <= m + 1
      OBVIOUS
    <2> QED
      BY <2>1, DepthStep
  <1> HIDE DEF x, len
  <1>6. CASE x \in {"", "."}
    <2>1. Push(stack, x) = stack
      BY <1>6 DEF Push
    <2>2. \A i \in 1 .. m : Leads(path, m, i) => Depth(path, i, m) > 0
      <3>1. \A i \in 1 .. m : m \in i .. m
        OBVIOUS
      <3> QED
        BY <3>1 DEF Leads
    <2>3. x \notin Names
      BY <1>2, <1>6
    <2>4. \A i \in 1 .. m : Leads(path, m + 1, i) <=> Leads(path, m, i)
      BY <1>3, <1>5, <1>6, <2>2
    <2>5. \A i \in 1 .. m + 1 : Leads(path, m + 1, i) <=> \E n \in 1 .. len : pos[n] = i
      <3> SUFFICES ASSUME NEW i \in 1 .. m + 1
                   PROVE  Leads(path, m + 1, i) <=> \E n \in 1 .. len : pos[n] = i
        OBVIOUS
      <3>1. CASE i \in 1 .. m
        BY <1>1, <2>4, <3>1
      <3>2. CASE i = m + 1
        BY <1>1, <1>4, <2>3, <3>2
      <3> QED
        BY <3>1, <3>2
    <2>6. \A n \in 1 .. len : pos[n] \in 1 .. m + 1 /\ Depth(path, pos[n], m + 1) = len - n + 1
      <3> SUFFICES ASSUME NEW n \in 1 .. len
                   PROVE  pos[n] \in 1 .. m + 1 /\ Depth(path, pos[n], m + 1) = len - n + 1
        OBVIOUS
      <3>1. pos[n] \in 1 .. m /\ Depth(path, pos[n], m) = len - n + 1
        BY <1>1
      <3>2. Depth(path, pos[n], m + 1) = Depth(path, pos[n], m)
        BY <1>5, <1>6, <3>1
      <3> QED
        BY <3>1, <3>2
    <2>7. StackOf(path, m + 1, stack, pos)
      BY <1>1, <2>5, <2>6 DEF StackOf, len
    <2> QED
      BY <2>1, <2>7 DEF x
  <1>7. CASE x \in Names
    <2> DEFINE next == Append(pos, m + 1)
               longer == Append(stack, x)
    <2>1. Push(stack, x) = longer
      BY <1>7, PushName
    <2>2. /\ next \in Seq(Nat) /\ Len(next) = len + 1 /\ next[len + 1] = m + 1
          /\ \A n \in 1 .. len : next[n] = pos[n]
      BY <1>1, AppendProperties DEF len
    <2>3. /\ Len(longer) = len + 1 /\ longer[len + 1] = x
          /\ \A n \in 1 .. len : longer[n] = stack[n]
      BY <1>1, <1>7, AppendProperties
    <2> HIDE DEF next, longer
    <2>4. \A i \in 1 .. m : Leads(path, m + 1, i) <=> Leads(path, m, i)
      <3> SUFFICES ASSUME NEW i \in 1 .. m
                   PROVE  Leads(path, m + 1, i) <=> Leads(path, m, i)
        OBVIOUS
      <3>1. Leads(path, m, i) => Depth(path, i, m) > 0
        <4>1. m \in i .. m
          OBVIOUS
        <4> QED
          BY <4>1 DEF Leads
      <3>2. /\ Depth(path, i, m) \in Int
            /\ Depth(path, i, m + 1) = Depth(path, i, m) + 1
        BY <1>5, <1>7
      <3>3. Leads(path, m + 1, i) <=> Leads(path, m, i) /\ Depth(path, i, m + 1) > 0
        BY <1>3
      <3> QED
        BY <3>1, <3>2, <3>3
    <2>5. \A i \in 1 .. m + 1 : Leads(path, m + 1, i) <=> \E n \in 1 .. len + 1 : next[n] = i
      <3> SUFFICES ASSUME NEW i \in 1 .. m + 1
                   PROVE  Leads(path, m + 1, i) <=> \E n \in 1 .. len + 1 : next[n] = i
        OBVIOUS
      <3>1. CASE i \in 1 .. m
        <4>1. (\E n \in 1 .. len + 1 : next[n] = i) <=> (\E n \in 1 .. len : pos[n] = i)
          <5>1. next[len + 1] # i
            <6>1. i # m + 1
              BY <3>1
            <6> QED
              BY <2>2, <6>1
          <5>2. len \in Nat
            BY <1>1
          <5>3. \A n \in 1 .. len + 1 : n \in 1 .. len \/ n = len + 1
            BY <5>2
          <5>4. \A n \in 1 .. len : n \in 1 .. len + 1 /\ next[n] = pos[n]
            BY <2>2, <5>2
          <5> QED
            BY <5>1, <5>3, <5>4
        <4> QED
          BY <1>1, <2>4, <3>1, <4>1
      <3>2. CASE i = m + 1
        <4>1. len + 1 \in 1 .. len + 1
          BY <1>1
        <4> QED
          BY <1>4, <1>7, <2>2, <3>2, <4>1
      <3> QED
        BY <3>1, <3>2
    <2>6. ASSUME NEW n \in 1 .. len + 1
          PROVE  /\ next[n] \in 1 .. m + 1 /\ longer[n] = path[next[n]]
                 /\ Depth(path, next[n], m + 1) = (len + 1) - n + 1
      <3>0. len \in Nat
        BY <1>1
      <3>1. CASE n \in 1 .. len
        <4>1. /\ pos[n] \in 1 .. m /\ stack[n] = path[pos[n]]
              /\ Depth(path, pos[n], m) = len - n + 1
          BY <1>1, <3>1
        <4>2. Depth(path, pos[n], m + 1) = Depth(path, pos[n], m) + 1
          BY <1>5, <1>7, <4>1
        <4>3. next[n] = pos[n] /\ longer[n] = stack[n]
          BY <2>2, <2>3, <3>1
        <4>4. (len - n + 1) + 1 = (len + 1) - n + 1 /\ pos[n] \in 1 .. m + 1
          BY <3>0, <3>1, <4>1
        <4> QED
          BY <4>1, <4>2, <4>3, <4>4
      <3>2. CASE n = len + 1
        <4>1. Depth(path, m + 1, m + 1) = 1
          <5>1. /\ Depth(path, m + 1, m) = 0
                /\ x \in Names => Depth(path, m + 1, m + 1) = Depth(path, m + 1, m) + 1
            <6>1. m + 1 \in Nat /\ m + 1 <= m + 1
              OBVIOUS
            <6> QED
              BY <6>1, DepthStep DEF x
          <5> QED
            BY <1>7, <5>1
        <4>2. next[n] = m + 1 /\ longer[n] = x
          BY <2>2, <2>3, <3>2
        <4>3. (len + 1) - n + 1 = 1 /\ m + 1 \in 1 .. m + 1
          BY <3>0, <3>2
        <4> QED
          BY <4>1, <4>2, <4>3 DEF x
      <3> QED
        BY <3>0, <3>1, <3>2
    <2>7. ASSUME NEW k \in 1 .. len + 1, NEW n \in 1 .. len + 1, k < n
          PROVE  next[k] < next[n]
      <3>1. len \in Nat /\ (\A j \in 1 .. len : pos[j] \in 1 .. m)
        BY <1>1
      <3>2. k \in 1 .. len /\ (n \in 1 .. len \/ n = len + 1)
        BY <2>7, <3>1
      <3>3. CASE n \in 1 .. len
        <4>1. next[k] = pos[k] /\ next[n] = pos[n] /\ pos[k] < pos[n]
          BY <1>1, <2>2, <2>7, <3>2, <3>3
        <4> QED
          BY <4>1
      <3>4. CASE n = len + 1
        <4>1. next[k] = pos[k] /\ next[n] = m + 1 /\ pos[k] \in 1 .. m
          BY <2>2, <3>1, <3>2, <3>4
        <4> QED
          BY <4>1
      <3> QED
        BY <3>2, <3>3, <3>4
    <2>8. StackOf(path, m + 1, longer, next)
      BY <2>2, <2>3, <2>5, <2>6, <2>7 DEF StackOf
    <2> QED
      BY <2>1, <2>8 DEF x
  <1>8. CASE x = ".."
    <2>1. x \notin Names
      BY <1>2, <1>8
    <2>2. CASE stack = <<>>
      <3>1. Push(stack, x) = stack /\ len = 0
        BY <1>1, <1>8, <2>2 DEF Push
      <3>2. \A i \in 1 .. m : ~ Leads(path, m + 1, i)
        BY <1>1, <1>3, <3>1
      <3>3. \A i \in 1 .. m + 1 : ~ Leads(path, m + 1, i)
        <4>1. \A i \in 1 .. m + 1 : i \in 1 .. m \/ i = m + 1
          OBVIOUS
        <4> QED
          BY <1>4, <2>1, <3>2, <4>1
      <3>4. StackOf(path, m + 1, stack, pos)
        BY <1>1, <3>1, <3>3 DEF StackOf, len
      <3> QED
        BY <3>1, <3>4 DEF x
    <2>3. CASE stack # <<>>
      <3> DEFINE next == SubSeq(pos, 1, len - 1)
                 shorter == SubSeq(stack, 1, len - 1)
      <3>1. len > 0
        BY <1>1, <2>3, EmptySeq
      <3>2. Push(stack, x) = shorter
        BY <1>1, <1>8, <2>3 DEF Push, Front
      <3>3. /\ next \in Seq(Nat) /\ Len(next) = len - 1
            /\ \A n \in 1 .. len - 1 : next[n] = pos[n]
        <4>1. \A n \in 1 .. len - 1 : pos[n] \in Nat
          BY <1>1, <3>1
        <4> QED
          BY <1>1, <3>1, <4>1, SubSeqProperties DEF len
      <3>4. /\ Len(shorter) = len - 1
            /\ \A n \in 1 .. len - 1 : shorter[n] = stack[n]
        <4>1. \A n \in 1 .. len - 1 : stack[n] \in Names
          BY <1>1, <3>1, ElementOfSeq
        <4> QED
          BY <1>1, <3>1, <4>1, SubSeqProperties
      <3> HIDE DEF next, shorter
      <3>5. ASSUME NEW i \in 1 .. m
            PROVE  Leads(path, m + 1, i) <=> \E n \in 1 .. len - 1 : next[n] = i
        <4>1. ASSUME NEW n \in 1 .. len, pos[n] = i
              PROVE  Depth(path, i, m + 1) > 0 <=> n \in 1 .. len - 1
          <5>1. Depth(path, i, m + 1) = len - n
            BY <1>1, <1>5, <1>8, <4>1
          <5> QED
            BY <1>1, <5>1
        <4>2. Leads(path, m + 1, i) => \E n \in 1 .. len - 1 : next[n] = i
          BY <1>1, <1>3, <3>3, <4>1
        <4>3. (\E n \in 1 .. len - 1 : next[n] = i) => Leads(path, m + 1, i)
          <5> SUFFICES ASSUME NEW n \in 1 .. len - 1, next[n] = i
                       PROVE  Leads(path, m + 1, i)
            OBVIOUS
          <5>1. n \in 1 .. len /\ pos[n] = i
            BY <1>1, <3>3
          <5> QED
            BY <1>1, <1>3, <4>1, <5>1
        <4> QED
          BY <4>2, <4>3
      <3>6. ASSUME NEW n \in 1 .. len - 1
            PROVE  /\ next[n] \in 1 .. m + 1 /\ shorter[n] = path[next[n]]
                   /\ Depth(path, next[n], m + 1) = (len - 1) - n + 1
        <4>1. n \in 1 .. len
          BY <1>1
        <4>2. /\ pos[n] \in 1 .. m /\ stack[n] = path[pos[n]]
              /\ Depth(path, pos[n], m) = len - n + 1
          BY <1>1, <4>1
        <4>3. Depth(path, pos[n], m + 1) = Depth(path, pos[n], m) - 1
          BY <1>5, <1>8, <4>2
        <4>4. next[n] = pos[n] /\ shorter[n] = stack[n]
          BY <3>3, <3>4
        <4>5. len \in Nat
          BY <1>1
        <4>6. (len - n + 1) - 1 = (len - 1) - n + 1
          BY <4>5
        <4>7. pos[n] \in 1 .. m + 1
          BY <4>2
        <4> QED
          BY <4>2, <4>3, <4>4, <4>6, <4>7
      <3>7. \A k, n \in 1 .. len - 1 : k < n => next[k] < next[n]
        <4>1. \A k \in 1 .. len - 1 : k \in 1 .. len
          BY <1>1
        <4> QED
          BY <1>1, <3>3, <4>1
      <3>8. ASSUME NEW i \in 1 .. m + 1
            PROVE  Leads(path, m + 1, i) <=> \E n \in 1 .. len - 1 : next[n] = i
        <4>1. CASE i \in 1 .. m
          BY <3>5, <4>1
        <4>2. CASE i = m + 1
          <5>1. \A n \in 1 .. len - 1 : next[n] # m + 1
            <6> SUFFICES ASSUME NEW n \in 1 .. len - 1
                         PROVE  next[n] # m + 1
              OBVIOUS
            <6>1. n \in 1 .. len
              <7>1. len \in Nat
                BY <1>1
              <7> QED
                BY <7>1
            <6>2. next[n] = pos[n] /\ pos[n] \in 1 .. m
              BY <1>1, <3>3, <6>1
            <6> QED
              BY <6>2
          <5> QED
            BY <1>4, <2>1, <4>2, <5>1
        <4> QED
          BY <4>1, <4>2
      <3>9. StackOf(path, m + 1, shorter, next)
        BY <3>3, <3>4, <3>6, <3>7, <3>8 DEF StackOf
      <3> QED
        BY <3>2, <3>9 DEF x
    <2> QED
      BY <2>2, <2>3
  <1> QED
    BY <1>2, <1>6, <1>7, <1>8 DEF Segments

\* What normalize_path returns is what some segments of the path lead to.
LEMMA NormalizeLeads ==
  ASSUME NEW path \in Seq(Segments)
  PROVE  \E pos : StackOf(path, Len(path), Normalize(path), pos)
  <1>1. PICK st : IsRun(st, path)
    BY RunExists
  <1>2. /\ st \in [0 .. Len(path) -> Seq(Names)] /\ st[0] = <<>> /\ Len(path) \in Nat
        /\ \A i \in 1 .. Len(path) : st[i] = Push(st[i - 1], path[i])
    BY <1>1, LenProperties DEF IsRun
  <1> DEFINE S == {m \in Nat : m <= Len(path) => \E pos : StackOf(path, m, st[m], pos)}
  <1>3. 0 \in S
    <2>1. StackOf(path, 0, <<>>, <<>>)
      BY EmptySeq DEF StackOf
    <2> QED
      BY <1>2, <2>1
  <1>4. ASSUME NEW m \in Nat, m \in S
        PROVE  m + 1 \in S
    <2> SUFFICES ASSUME m + 1 <= Len(path)
                 PROVE  \E pos : StackOf(path, m + 1, st[m + 1], pos)
      OBVIOUS
    <2>1. PICK pos : StackOf(path, m, st[m], pos)
      BY <1>2, <1>4
    <2>2. st[m] \in Seq(Names)
      BY <1>2
    <2>3. st[m + 1] = Push(st[m], path[m + 1])
      BY <1>2
    <2> QED
      BY <2>1, <2>2, <2>3, StackStep
  <1> HIDE DEF S
  <1>5. Len(path) \in S
    BY <1>2, <1>3, <1>4, Induction
  <1>6. \E pos : StackOf(path, Len(path), st[Len(path)], pos)
    BY <1>2, <1>5 DEF S
  <1> QED
    BY <1>1, <1>6, RunEnds

\* The first n elements of an increasing sequence are n.
LEMMA Ranked ==
  ASSUME NEW pos \in Seq(Nat), NEW n \in 0 .. Len(pos),
         \A k, l \in 1 .. Len(pos) : k < l => pos[k] < pos[l]
  PROVE  Cardinality({pos[k] : k \in 1 .. n}) = n
  <1> DEFINE first == [k \in 1 .. n |-> pos[k]]
             T == {pos[k] : k \in 1 .. n}
  <1>1. Len(pos) \in Nat /\ \A k \in 1 .. Len(pos) : pos[k] \in Nat
    BY LenProperties, ElementOfSeq
  <1>2. \A k \in 1 .. n : k \in 1 .. Len(pos)
    BY <1>1
  <1>3. \A k, l \in 1 .. n : pos[k] = pos[l] => k = l
    <2> SUFFICES ASSUME NEW k \in 1 .. n, NEW l \in 1 .. n, pos[k] = pos[l], k # l
                 PROVE  FALSE
      OBVIOUS
    <2>1. k < l \/ l < k
      BY <1>1
    <2> QED
      BY <1>1, <1>2, <2>1
  <1>4. first \in [1 .. n -> T] /\ \A t \in T : \E k \in 1 .. n : first[k] = t
    OBVIOUS
  <1>5. \A k, l \in 1 .. n : first[k] = first[l] => k = l
    BY <1>3
  <1> HIDE DEF first, T
  <1>6. ExistsBijection(1 .. n, T)
    <2>1. first \in Injection(1 .. n, T) /\ first \in Surjection(1 .. n, T)
      BY <1>4, <1>5 DEF Injection, Surjection, IsInjective
    <2> QED
      BY <2>1 DEF ExistsBijection, Bijection
  <1>7. n \in Nat
    BY <1>1
  <1>8. Cardinality(T) = n
    BY <1>6, <1>7, FS_CountingElements
  <1> QED
    BY <1>8 DEF T

\* normalize_path yields the names on the way to the end of the path, in their order.
THEOREM NormalizesToTheWay ==
  ASSUME NEW p \in Seq(Segments)
  PROVE  Normalize(p) = LET way == {i \in DOMAIN p : OnTheWay(p, i)} IN
                        [n \in 1 .. Cardinality(way) |->
                           p[CHOOSE i \in way :
                               Cardinality({j \in way : j <= i}) = n]]
  <1> DEFINE way == {i \in DOMAIN p : OnTheWay(p, i)}
             Rank(i) == Cardinality({j \in way : j <= i})
             key == Normalize(p)
  <1>1. PICK pos : StackOf(p, Len(p), key, pos)
    BY NormalizeLeads
  <1>2. Len(p) \in Nat /\ DOMAIN p = 1 .. Len(p) /\ key \in Seq(Names)
    BY LenProperties, NormalizeType
  <1> DEFINE len == Len(pos)
  <1>3. /\ pos \in Seq(Nat) /\ len = Len(key) /\ len \in Nat
        /\ \A n \in 1 .. len : pos[n] \in 1 .. Len(p) /\ key[n] = p[pos[n]]
        /\ \A k, n \in 1 .. len : k < n => pos[k] < pos[n]
        /\ \A i \in 1 .. Len(p) : Leads(p, Len(p), i) <=> \E n \in 1 .. len : pos[n] = i
    BY <1>1, LenProperties DEF StackOf
  <1>4. ASSUME NEW i \in 1 .. Len(p)
        PROVE  OnTheWay(p, i) <=> Leads(p, Len(p), i)
    <2>1. ASSUME NEW j \in i .. Len(p)
          PROVE  Cardinality({n \in i .. j : p[n] \in Names})
                   > Cardinality({n \in i .. j : p[n] = ".."})
                 <=> Depth(p, i, j) > 0
      <3>1. /\ Cardinality(NamesIn(p, i, j)) \in Nat /\ Cardinality(UpsIn(p, i, j)) \in Nat
        <4>1. IsFiniteSet(i .. j)
          BY <1>2, FS_Interval
        <4>2. NamesIn(p, i, j) \in SUBSET (i .. j) /\ UpsIn(p, i, j) \in SUBSET (i .. j)
          BY DEF NamesIn, UpsIn
        <4> QED
          BY <4>1, <4>2, FS_Subset, FS_CardinalityType
      <3> DEFINE a == Cardinality(NamesIn(p, i, j))
                 b == Cardinality(UpsIn(p, i, j))
      <3>2. a > b <=> Depth(p, i, j) > 0
        <4>1. a \in Nat /\ b \in Nat /\ Depth(p, i, j) = a - b
          BY <3>1 DEF Depth
        <4> HIDE DEF a, b
        <4> QED
          BY <4>1
      <3> QED
        BY <3>2 DEF NamesIn, UpsIn
    <2> QED
      BY <2>1 DEF OnTheWay, Leads
  <1>5. way = {pos[k] : k \in 1 .. len}
    BY <1>2, <1>3, <1>4
  <1> HIDE DEF way, key
  <1>6. Cardinality(way) = len
    <2>1. len \in 0 .. Len(pos)
      BY <1>3
    <2> QED
      BY <1>3, <1>5, <2>1, Ranked
  <1>7. ASSUME NEW n \in 1 .. len
        PROVE  Rank(pos[n]) = n
    <2>1. {j \in way : j <= pos[n]} = {pos[k] : k \in 1 .. n}
      <3>1. \A k \in 1 .. len : pos[k] <= pos[n] <=> k \in 1 .. n
        <4> SUFFICES ASSUME NEW k \in 1 .. len
                     PROVE  pos[k] <= pos[n] <=> k \in 1 .. n
          OBVIOUS
        <4>1. pos[k] \in Nat /\ pos[n] \in Nat
          BY <1>3, ElementOfSeq
        <4>2. k < n \/ k = n \/ n < k
          BY <1>3
        <4> QED
          BY <1>3, <4>1, <4>2
      <3>2. \A k \in 1 .. n : k \in 1 .. len
        BY <1>3
      <3> QED
        BY <1>5, <3>1, <3>2
    <2>2. n \in 0 .. Len(pos)
      BY <1>3
    <2>3. Cardinality({pos[k] : k \in 1 .. n}) = n
      BY <1>3, <2>2, Ranked
    <2> QED
      BY <2>1, <2>3
  <1> HIDE DEF Rank
  <1>8. ASSUME NEW n \in 1 .. len
        PROVE  p[CHOOSE i \in way : Rank(i) = n] = key[n]
    <2> DEFINE i == CHOOSE j \in way : Rank(j) = n
    <2>1. pos[n] \in way /\ Rank(pos[n]) = n
      BY <1>5, <1>7
    <2>2. i \in way /\ Rank(i) = n
      BY <2>1
    <2> HIDE DEF i
    <2>3. PICK k \in 1 .. len : i = pos[k]
      BY <1>5, <2>2
    <2>4. k = n
      BY <1>7, <2>2, <2>3
    <2> QED
      BY <1>3, <2>3, <2>4 DEF i
  <1>9. key = [n \in 1 .. len |-> key[n]]
    BY <1>2, <1>3, LenProperties
  <1>10. key = [n \in 1 .. Cardinality(way) |-> p[CHOOSE i \in way : Rank(i) = n]]
    <2> DEFINE By(n) == p[CHOOSE i \in way : Rank(i) = n]
    <2>1. \A n \in 1 .. len : By(n) = key[n]
      BY <1>8
    <2> HIDE DEF By
    <2>2. key = [n \in 1 .. Cardinality(way) |-> By(n)]
      BY <1>6, <1>9, <2>1
    <2> QED
      BY <2>2 DEF By
  <1> QED
    BY <1>10 DEF key, way, Rank

-----------------------------------------------------------------------------
(* Keys.                                                                   *)

\* One segment is a path.
LEMMA Singleton == ASSUME NEW S, NEW x \in S PROVE <<x>> \in Seq(S)
  OBVIOUS

\* The paths that the actions take normalize to sequences of names.
LEMMA PathsAreNamed ==
  ASSUME NEW p \in RawPaths \cup {<<"">>}
  PROVE  p \in Seq(Segments) /\ Normalize(p) \in Seq(Names)
  <1>1. "" \in Segments
    BY DEF Segments
  <1>2. <<"">> \in Seq(Segments)
    BY <1>1, Singleton, Zenon
  <1>3. p \in Seq(Segments)
    BY <1>2, VfsAssumption
  <1> QED
    BY <1>3, NormalizeType

\* A key is a sequence of one name or more, and each of its names is a key.
LEMMA KeyShape ==
  ASSUME NEW k \in Keys
  PROVE  /\ k \in Seq(Names) /\ Len(k) \in Nat /\ Len(k) >= 1 /\ k # <<>>
         /\ \A i \in 1 .. Len(k) : k[i] \in Names /\ <<k[i]>> \in Keys
         /\ Len(k) = 1 => k = <<k[1]>>
  <1> DEFINE written == {Normalize(p) : p \in (UNION Initial) \cup Writable}
  <1>1. \A f \in written : f \in Seq(Names)
    <2> SUFFICES ASSUME NEW p \in (UNION Initial) \cup Writable
                 PROVE  Normalize(p) \in Seq(Names)
      OBVIOUS
    <2>1. p \in RawPaths
      BY VfsAssumption
    <2> QED
      BY <2>1, PathsAreNamed
  <1>2. Keys = (written \cup UNION {{<<f[i]>> : i \in DOMAIN f} : f \in written}) \ {<<>>}
    BY DEF Keys
  <1> HIDE DEF written
  <1>3. ASSUME NEW f \in written, NEW i \in DOMAIN f
        PROVE  f[i] \in Names /\ <<f[i]>> \in Seq(Names) /\ <<f[i]>> \in Keys
    <2>1. f[i] \in Names
      BY <1>1, <1>3
    <2>2. <<f[i]>> # <<>>
      OBVIOUS
    <2> QED
      BY <1>2, <1>3, <2>1, <2>2
  <1>4. CASE k \in written
    <2>1. k \in Seq(Names) /\ k # <<>> /\ Len(k) \in Nat /\ DOMAIN k = 1 .. Len(k)
      BY <1>1, <1>2, <1>4, LenProperties
    <2>2. Len(k) >= 1
      BY <2>1, EmptySeq
    <2>3. \A i \in 1 .. Len(k) : k[i] \in Names /\ <<k[i]>> \in Keys
      BY <1>3, <1>4, <2>1
    <2>4. Len(k) = 1 => k = <<k[1]>>
      BY <2>1
    <2> QED
      BY <2>1, <2>2, <2>3, <2>4
  <1>5. CASE k \notin written
    <2>1. PICK f \in written : \E i \in DOMAIN f : k = <<f[i]>>
      BY <1>2, <1>5
    <2>2. PICK i \in DOMAIN f : k = <<f[i]>>
      BY <2>1
    <2>3. f[i] \in Names /\ <<f[i]>> \in Seq(Names) /\ <<f[i]>> \in Keys
      BY <1>3
    <2> QED
      BY <2>2, <2>3
  <1> QED
    BY <1>4, <1>5

\* What a write puts into the map is a key, unless it is of the root.
LEMMA WrittenKeys ==
  ASSUME NEW p \in (UNION Initial) \cup Writable
  PROVE  Normalize(p) \in Seq(Names) /\ (Normalize(p) = <<>> \/ Normalize(p) \in Keys)
  <1>1. p \in RawPaths
    BY VfsAssumption
  <1>2. Normalize(p) \in Keys \cup {<<>>}
    BY DEF Keys
  <1>3. Normalize(p) \in Seq(Names)
    BY <1>1, PathsAreNamed
  <1> QED
    BY <1>2, <1>3

\* One path is below another.
LEMMA StrictPrefix ==
  ASSUME NEW dir \in Seq(Names), NEW k \in Seq(Names)
  PROVE  IsStrictPrefix(dir, k)
           <=> Len(dir) < Len(k) /\ \A i \in 1 .. Len(dir) : dir[i] = k[i]
  <1>1. Len(dir) \in Nat /\ Len(k) \in Nat
    BY LenProperties
  <1>2. ASSUME Len(dir) <= Len(k)
        PROVE  SubSeq(dir, 1, Len(dir)) = SubSeq(k, 1, Len(dir))
                 <=> \A i \in 1 .. Len(dir) : dir[i] = k[i]
    <2>1. /\ \A i \in 1 .. Len(dir) : dir[i] \in Names
          /\ \A i \in 1 .. Len(dir) : k[i] \in Names
      BY <1>1, <1>2, LenProperties
    <2> DEFINE u == SubSeq(dir, 1, Len(dir))
               v == SubSeq(k, 1, Len(dir))
    <2>2. /\ u \in Seq(Names) /\ Len(u) = Len(dir)
          /\ \A i \in 1 .. Len(dir) : u[i] = dir[i]
      BY <1>1, <2>1, SubSeqProperties
    <2>3. /\ v \in Seq(Names) /\ Len(v) = Len(dir)
          /\ \A i \in 1 .. Len(dir) : v[i] = k[i]
      BY <1>1, <2>1, SubSeqProperties
    <2> HIDE DEF u, v
    <2>4. (\A i \in 1 .. Len(dir) : u[i] = v[i]) => u = v
      BY <2>2, <2>3, SeqEqual
    <2> QED
      BY <2>2, <2>3, <2>4 DEF u, v
  <1>3. Len(dir) = Len(k) /\ (\A i \in 1 .. Len(dir) : dir[i] = k[i]) => dir = k
    BY SeqEqual
  <1> QED
    BY <1>1, <1>2, <1>3 DEF IsStrictPrefix, IsPrefix

\* What is below a directory in a map of keys.
LEMMA BelowIs ==
  ASSUME NEW m, DOMAIN m \subseteq Keys, NEW dir \in Seq(Names), NEW k \in DOMAIN m
  PROVE  /\ k \in Below(m, dir)
              <=> Len(dir) < Len(k) /\ \A i \in 1 .. Len(dir) : dir[i] = k[i]
         /\ k \in Below(m, dir) => Child(dir, k) \in Names
  <1>1. k \in Seq(Names) /\ Len(k) \in Nat /\ Len(dir) \in Nat
    BY KeyShape, LenProperties
  <1>2. k \in Below(m, dir)
              <=> Len(dir) < Len(k) /\ \A i \in 1 .. Len(dir) : dir[i] = k[i]
    BY <1>1, StrictPrefix DEF Below
  <1>3. Len(dir) < Len(k) => k[Len(dir) + 1] \in Names
    BY <1>1, LenProperties
  <1> QED
    BY <1>2, <1>3 DEF Child

-----------------------------------------------------------------------------
(* Types.                                                                  *)

\* A map holds keys, and directories only under single names.
Typed(m) ==
  /\ DOMAIN m \subseteq Keys
  /\ \A k \in DOMAIN m : m[k] = "File" \/ (m[k] = "Directory" /\ Len(k) = 1)

\* Writers insert only keys.
Planned ==
  \A w \in Writers :
    /\ \A i \in 1 .. Len(op[w].todo) : <<op[w].todo[i]>> \in Keys
    /\ op[w].file \in Keys \cup {NoFile}

Typing == TypeOK /\ Typed(before) /\ Planned

\* insert adds one key, or replaces its node.
LEMMA InsertTyped ==
  ASSUME NEW m, Typed(m), NEW key \in Keys, NEW node,
         node = "File" \/ (node = "Directory" /\ Len(key) = 1)
  PROVE  /\ Typed(Insert(m, key, node))
         /\ DOMAIN Insert(m, key, node) = DOMAIN m \cup {key}
         /\ Insert(m, key, node)[key] = node
         /\ \A k \in DOMAIN m : k # key => Insert(m, key, node)[k] = m[k]
  BY DEF Typed, Insert

\* The first directory that is to be ensured, and the rest.
LEMMA TodoShape ==
  ASSUME Typing, NEW w \in Writers, op[w].todo # <<>>
  PROVE  LET todo == op[w].todo IN
         /\ todo \in Seq(Names) /\ Head(todo) = todo[1] /\ Head(todo) \in Names
         /\ <<Head(todo)>> \in Keys /\ Len(<<Head(todo)>>) = 1
         /\ Tail(todo) \in Seq(Names)
         /\ \A i \in 1 .. Len(Tail(todo)) : <<Tail(todo)[i]>> \in Keys
  <1> DEFINE todo == op[w].todo
  <1>1. todo \in Seq(Names) /\ todo # <<>>
    BY DEF Typing, TypeOK
  <1>2. \A i \in 1 .. Len(todo) : <<todo[i]>> \in Keys
    BY DEF Typing, Planned
  <1> HIDE DEF todo
  <1>3. /\ Len(todo) \in Nat /\ Len(todo) >= 1
        /\ Head(todo) = todo[1] /\ Head(todo) \in Names
        /\ Tail(todo) \in Seq(Names) /\ Len(Tail(todo)) = Len(todo) - 1
        /\ \A i \in 1 .. Len(todo) - 1 : Tail(todo)[i] = todo[i + 1]
    BY <1>1, HeadTailProperties, LenProperties, EmptySeq
  <1>4. \A i \in 1 .. Len(Tail(todo)) : <<Tail(todo)[i]>> \in Keys
    BY <1>2, <1>3
  <1>5. <<Head(todo)>> \in Keys
    BY <1>2, <1>3
  <1>6. Len(<<Head(todo)>>) = 1
    OBVIOUS
  <1> QED
    BY <1>1, <1>3, <1>4, <1>5, <1>6 DEF todo

\* What a call of add_file or add_directory sets out to do.
LEMMA PlanShape ==
  ASSUME NEW p \in Writable
  PROVE  LET key == Normalize(p) IN
         /\ key \in Seq(Names) /\ key \in Keys \cup {NoFile}
         /\ \A i \in 1 .. Len(key) : <<key[i]>> \in Keys
         /\ key # <<>> =>
              /\ Front(key) \in Seq(Names) /\ Len(Front(key)) = Len(key) - 1
              /\ \A i \in 1 .. Len(key) - 1 : Front(key)[i] = key[i]
              /\ \A i \in 1 .. Len(Front(key)) : <<Front(key)[i]>> \in Keys
  <1> DEFINE key == Normalize(p)
  <1>1. key \in Seq(Names) /\ (key = <<>> \/ key \in Keys)
    <2>1. p \in (UNION Initial) \cup Writable
      OBVIOUS
    <2> HIDE DEF key
    <2>2. Normalize(p) \in Seq(Names) /\ (Normalize(p) = <<>> \/ Normalize(p) \in Keys)
      BY <2>1, WrittenKeys
    <2> QED
      BY <2>2 DEF key
  <1> HIDE DEF key
  <1>2. \A i \in 1 .. Len(key) : <<key[i]>> \in Keys
    <2>1. CASE key = <<>>
      <3>1. Len(key) = 0
        BY <2>1
      <3> QED
        BY <3>1
    <2> QED
      BY <1>1, <2>1, KeyShape
  <1>3. ASSUME key # <<>>
        PROVE  /\ Front(key) \in Seq(Names) /\ Len(Front(key)) = Len(key) - 1
               /\ \A i \in 1 .. Len(key) - 1 : Front(key)[i] = key[i]
    <2>1. Len(key) \in Nat /\ Len(key) >= 1
      BY <1>1, <1>3, KeyShape
    <2>2. \A i \in 1 .. Len(key) - 1 : key[i] \in Names
      BY <1>1, <2>1, LenProperties
    <2>3. Front(key) = SubSeq(key, 1, Len(key) - 1)
      BY DEF Front
    <2>4. Len(key) - 1 \in Nat
      BY <2>1
    <2> DEFINE n == Len(key) - 1
               front == SubSeq(key, 1, n)
    <2>5. n \in Nat /\ \A i \in 1 .. n : key[i] \in Names
      BY <2>2, <2>4
    <2> HIDE DEF n
    <2>6. /\ front \in Seq(Names) /\ Len(front) = n
          /\ \A i \in 1 .. n : front[i] = key[i]
      BY <2>5, SubSeqProperties
    <2> QED
      BY <2>3, <2>6 DEF n
  <1>4. ASSUME key # <<>>, NEW i \in 1 .. Len(Front(key))
        PROVE  <<Front(key)[i]>> \in Keys
    <2>1. i \in 1 .. Len(key) /\ Front(key)[i] = key[i]
      BY <1>1, <1>3, <1>4, LenProperties
    <2> QED
      BY <1>2, <2>1
  <1> QED
    BY <1>1, <1>2, <1>3, <1>4 DEF NoFile, key

\* A call that begins plans for itself alone.
LEMMA BeginType ==
  ASSUME Typing, NEW w \in Writers, NEW todo \in Seq(Names), NEW file \in Keys \cup {NoFile},
         \A i \in 1 .. Len(todo) : <<todo[i]>> \in Keys,
         Begin(w, todo, file)
  PROVE  Typing'
  <1>1. UNCHANGED <<root, shard, added, raced, listing, before>> /\ writes < MaxWrites
        /\ writes' = writes + 1
    BY DEF Begin, reader
  <1>2. writes' \in 0 .. MaxWrites
    <2>1. writes \in 0 .. MaxWrites /\ MaxWrites \in Nat
      BY VfsAssumption DEF Typing, TypeOK
    <2> QED
      BY <1>1, <2>1
  <1>3. CASE todo = <<>> /\ file = NoFile
    BY <1>1, <1>2, <1>3 DEF Typing, TypeOK, Typed, Planned, Begin
  <1>4. CASE ~(todo = <<>> /\ file = NoFile)
    <2> DEFINE plan == [todo |-> todo, file |-> file]
    <2>1. /\ pc' = [pc EXCEPT ![w] = "ensuring"]
          /\ op' = [op EXCEPT ![w] = plan]
      BY <1>4 DEF Begin
    <2>2. file \in Seq(Names)
      <3>1. file = NoFile => file = <<>>
        BY DEF NoFile
      <3>2. file # NoFile => file \in Keys
        OBVIOUS
      <3>3. file # NoFile => file \in Seq(Names)
        BY <3>2, KeyShape
      <3> QED
        BY <3>1, <3>3, EmptySeq
    <2>3. plan \in [todo : Seq(Names), file : Seq(Names)] /\ plan.todo = todo /\ plan.file = file
      BY <2>2
    <2> HIDE DEF plan
    <2>4. /\ op \in [Writers -> [todo : Seq(Names), file : Seq(Names)]]
          /\ pc \in [Writers -> {"idle", "ensuring", "inserting"}]
      BY DEF Typing, TypeOK
    <2>5. /\ op' \in [Writers -> [todo : Seq(Names), file : Seq(Names)]]
          /\ op'[w] = plan /\ \A v \in Writers : v # w => op'[v] = op[v]
      BY <2>1, <2>3, <2>4
    <2>6. /\ pc' \in [Writers -> {"idle", "ensuring", "inserting"}]
          /\ pc'[w] = "ensuring" /\ \A v \in Writers : v # w => pc'[v] = pc[v]
      BY <2>1, <2>4
    <2>7. Planned'
      BY <2>3, <2>5 DEF Typing, Planned
    <2>8. \A v \in Writers :
            /\ pc'[v] = "idle" => op'[v] = NoOp
            /\ pc'[v] = "inserting" => op'[v].todo # <<>>
      BY <2>5, <2>6 DEF Typing, TypeOK
    <2> QED
      BY <1>1, <1>2, <2>5, <2>6, <2>7, <2>8 DEF Typing, TypeOK, Typed, NoOp
  <1> QED
    BY <1>3, <1>4
\* A writer that goes on to the rest of its directories.
LEMMA TailPlanned ==
  ASSUME Typing, NEW w \in Writers, op[w].todo # <<>>,
         op' = [op EXCEPT ![w].todo = Tail(@)]
  PROVE  /\ op' \in [Writers -> [todo : Seq(Names), file : Seq(Names)]]
         /\ op'[w].todo = Tail(op[w].todo) /\ op'[w].file = op[w].file
         /\ \A v \in Writers : v # w => op'[v] = op[v]
         /\ Planned'
  <1> DEFINE rest == Tail(op[w].todo)
             O == [todo : Seq(Names), file : Seq(Names)]
  <1>1. rest \in Seq(Names) /\ \A i \in 1 .. Len(rest) : <<rest[i]>> \in Keys
    BY TodoShape
  <1>2. op \in [Writers -> O] /\ op' = [op EXCEPT ![w].todo = rest]
    BY DEF Typing, TypeOK
  <1> HIDE DEF rest
  <1>3. op[w] \in O
    BY <1>2
  <1>4. [op[w] EXCEPT !.todo = rest] \in O
    BY <1>1, <1>3
  <1>5. /\ op' \in [Writers -> O] /\ op'[w] = [op[w] EXCEPT !.todo = rest]
        /\ \A v \in Writers : v # w => op'[v] = op[v]
    BY <1>2, <1>4
  <1>6. op'[w].todo = rest /\ op'[w].file = op[w].file
    BY <1>3, <1>5
  <1>7. Planned'
    <2> SUFFICES ASSUME NEW v \in Writers
                 PROVE  /\ \A i \in 1 .. Len(op'[v].todo) : <<op'[v].todo[i]>> \in Keys
                        /\ op'[v].file \in Keys \cup {NoFile}
      BY DEF Planned
    <2>1. /\ \A i \in 1 .. Len(op[v].todo) : <<op[v].todo[i]>> \in Keys
          /\ op[v].file \in Keys \cup {NoFile}
      BY DEF Typing, Planned
    <2> QED
      BY <1>1, <1>5, <1>6, <2>1
  <1> QED
    BY <1>5, <1>6, <1>7 DEF rest

\* Ensuring a directory that is there, or finding that it is not.
LEMMA EnsureType ==
  ASSUME Typing, NEW w \in Writers, Ensure(w)
  PROVE  Typing'
  <1>1. UNCHANGED <<root, shard, writes, added, raced, listing, before>>
        /\ pc[w] = "ensuring" /\ op[w].todo # <<>>
    BY DEF Ensure, reader
  <1>2. CASE <<Head(op[w].todo)>> \in DOMAIN root
    <2>1. op' = [op EXCEPT ![w].todo = Tail(@)] /\ UNCHANGED pc
      BY <1>2 DEF Ensure
    <2>2. /\ op' \in [Writers -> [todo : Seq(Names), file : Seq(Names)]]
          /\ \A v \in Writers : v # w => op'[v] = op[v]
          /\ Planned'
      BY <1>1, <2>1, TailPlanned
    <2>3. \A v \in Writers :
            /\ pc'[v] = "idle" => op'[v] = NoOp
            /\ pc'[v] = "inserting" => op'[v].todo # <<>>
      BY <1>1, <2>1, <2>2 DEF Typing, TypeOK
    <2> QED
      BY <1>1, <2>1, <2>2, <2>3 DEF Typing, TypeOK, Typed, NoOp
  <1>3. CASE <<Head(op[w].todo)>> \notin DOMAIN root
    <2>1. pc' = [pc EXCEPT ![w] = "inserting"] /\ UNCHANGED op
      BY <1>3 DEF Ensure
    <2>2. pc \in [Writers -> {"idle", "ensuring", "inserting"}]
      BY DEF Typing, TypeOK
    <2>3. /\ pc' \in [Writers -> {"idle", "ensuring", "inserting"}]
          /\ pc'[w] = "inserting" /\ \A v \in Writers : v # w => pc'[v] = pc[v]
      BY <2>1, <2>2
    <2>4. \A v \in Writers :
            /\ pc'[v] = "idle" => op'[v] = NoOp
            /\ pc'[v] = "inserting" => op'[v].todo # <<>>
      BY <1>1, <2>1, <2>3 DEF Typing, TypeOK
    <2> QED
      BY <1>1, <2>1, <2>3, <2>4 DEF Typing, TypeOK, Typed, Planned, NoOp
  <1> QED
    BY <1>2, <1>3

\* Inserting a directory.
LEMMA InsertDirectoryType ==
  ASSUME Typing, NEW w \in Writers, InsertDirectory(w)
  PROVE  Typing'
  <1> DEFINE name == <<Head(op[w].todo)>>
  <1>1. /\ UNCHANGED <<shard, writes, added, raced, listing, before>>
        /\ pc[w] = "inserting" /\ root' = Insert(root, name, "Directory")
        /\ pc' = [pc EXCEPT ![w] = "ensuring"]
        /\ op' = [op EXCEPT ![w].todo = Tail(@)]
    BY DEF InsertDirectory, reader
  <1>2. op[w].todo # <<>>
    BY <1>1 DEF Typing, TypeOK
  <1>3. name \in Keys /\ Len(name) = 1
    BY <1>2, TodoShape
  <1>4. Typed(root)
    BY DEF Typing, TypeOK, Typed
  <1>5. Typed(root') /\ DOMAIN root' = DOMAIN root \cup {name}
    BY <1>1, <1>3, <1>4, InsertTyped
  <1>6. /\ op' \in [Writers -> [todo : Seq(Names), file : Seq(Names)]]
        /\ \A v \in Writers : v # w => op'[v] = op[v]
        /\ Planned'
    BY <1>1, <1>2, TailPlanned
  <1>7. pc \in [Writers -> {"idle", "ensuring", "inserting"}]
    BY DEF Typing, TypeOK
  <1>8. /\ pc' \in [Writers -> {"idle", "ensuring", "inserting"}]
        /\ pc'[w] = "ensuring" /\ \A v \in Writers : v # w => pc'[v] = pc[v]
    BY <1>1, <1>7
  <1>9. \A v \in Writers :
          /\ pc'[v] = "idle" => op'[v] = NoOp
          /\ pc'[v] = "inserting" => op'[v].todo # <<>>
    BY <1>6, <1>8 DEF Typing, TypeOK
  <1> HIDE DEF name
  <1>10. DOMAIN before' \subseteq DOMAIN root' /\ Typed(before)'
    BY <1>1, <1>5 DEF Typing, TypeOK, Typed
  <1>11. /\ writes' \in 0 .. MaxWrites /\ shard' \in [Keys -> 1 .. Shards]
         /\ added' \subseteq Keys /\ raced' \subseteq Keys
         /\ listing' \in [at : {"idle", "files", "directories", "checking", "done"},
                  path : Listed \cup {<<"">>}, shard : 1 .. Shards,
                  files : SUBSET Names, directories : SUBSET Names, found : BOOLEAN]
    BY <1>1 DEF Typing, TypeOK
  <1> QED
    BY <1>5, <1>6, <1>8, <1>9, <1>10, <1>11 DEF Typing, TypeOK, Typed, NoOp

\* Creating the file, or returning without one.
LEMMA CreateType ==
  ASSUME Typing, NEW w \in Writers, Create(w)
  PROVE  Typing'
  <1> DEFINE file == op[w].file
  <1>1. /\ UNCHANGED <<shard, writes, listing, before>>
        /\ root' = IF file = NoFile THEN root ELSE Insert(root, file, "File")
        /\ pc' = [pc EXCEPT ![w] = "idle"] /\ op' = [op EXCEPT ![w] = NoOp]
        /\ added' = added \cup ({file} \ {NoFile})
        /\ raced' = raced \cup {f \in {file} : \E v \in Writers :
                            pc[v] = "inserting" /\ <<Head(op[v].todo)>> = f}
    BY DEF Create, reader
  <1>2. file \in Keys \cup {NoFile}
    BY DEF Typing, Planned
  <1>3. Typed(root)
    BY DEF Typing, TypeOK, Typed
  <1>4. /\ op \in [Writers -> [todo : Seq(Names), file : Seq(Names)]]
        /\ pc \in [Writers -> {"idle", "ensuring", "inserting"}]
    BY DEF Typing, TypeOK
  <1> HIDE DEF file
  <1>5. Typed(root') /\ DOMAIN root \subseteq DOMAIN root'
    <2>1. CASE file = NoFile
      BY <1>1, <1>3, <2>1
    <2>2. CASE file # NoFile
      <3>1. file \in Keys /\ root' = Insert(root, file, "File")
        BY <1>1, <1>2, <2>2
      <3>2. /\ Typed(Insert(root, file, "File"))
            /\ DOMAIN Insert(root, file, "File") = DOMAIN root \cup {file}
        BY <1>3, <3>1, InsertTyped
      <3> QED
        BY <3>1, <3>2
    <2> QED
      BY <2>1, <2>2
  <1>6. NoOp \in [todo : Seq(Names), file : Seq(Names)] /\ NoOp.todo = <<>> /\ NoOp.file = NoFile
    BY EmptySeq DEF NoOp, NoFile
  <1>7. /\ op' \in [Writers -> [todo : Seq(Names), file : Seq(Names)]]
        /\ op'[w] = NoOp /\ \A v \in Writers : v # w => op'[v] = op[v]
    BY <1>1, <1>4, <1>6
  <1>8. /\ pc' \in [Writers -> {"idle", "ensuring", "inserting"}]
        /\ pc'[w] = "idle" /\ \A v \in Writers : v # w => pc'[v] = pc[v]
    BY <1>1, <1>4
  <1>9. Planned'
    <2> SUFFICES ASSUME NEW v \in Writers
                 PROVE  /\ \A i \in 1 .. Len(op'[v].todo) : <<op'[v].todo[i]>> \in Keys
                        /\ op'[v].file \in Keys \cup {NoFile}
      BY DEF Planned
    <2>1. /\ \A i \in 1 .. Len(op[v].todo) : <<op[v].todo[i]>> \in Keys
          /\ op[v].file \in Keys \cup {NoFile}
      BY DEF Typing, Planned
    <2>2. CASE v # w
      BY <1>7, <2>1, <2>2
    <2>3. CASE v = w
      <3>1. op'[v].todo = <<>> /\ op'[v].file = NoFile /\ Len(op'[v].todo) = 0
        BY <1>6, <1>7, <2>3, EmptySeq
      <3> QED
        BY <3>1
    <2> QED
      BY <2>2, <2>3
  <1>10. \A v \in Writers :
           /\ pc'[v] = "idle" => op'[v] = NoOp
           /\ pc'[v] = "inserting" => op'[v].todo # <<>>
    BY <1>7, <1>8 DEF Typing, TypeOK
  <1>11. added' \subseteq Keys
    BY <1>1, <1>2 DEF Typing, TypeOK
  <1>12. raced' \subseteq Keys
    <2> SUFFICES ASSUME NEW v \in Writers, pc[v] = "inserting", <<Head(op[v].todo)>> = file
                 PROVE  file \in Keys
      BY <1>1 DEF Typing, TypeOK
    <2>1. op[v].todo # <<>>
      BY DEF Typing, TypeOK
    <2> QED
      BY <2>1, TodoShape
  <1>13. DOMAIN before' \subseteq DOMAIN root' /\ Typed(before)'
    BY <1>1, <1>5 DEF Typing, TypeOK, Typed
  <1>14. /\ writes' \in 0 .. MaxWrites /\ shard' \in [Keys -> 1 .. Shards]
         /\ listing' \in [at : {"idle", "files", "directories", "checking", "done"},
                  path : Listed \cup {<<"">>}, shard : 1 .. Shards,
                  files : SUBSET Names, directories : SUBSET Names, found : BOOLEAN]
    BY <1>1 DEF Typing, TypeOK
  <1> QED
    BY <1>5, <1>7, <1>8, <1>9, <1>10, <1>11, <1>12, <1>13, <1>14 DEF Typing, TypeOK, Typed, NoOp

\* What a lookup or a listing takes from a map of keys are names.
LEMMA EntriesNamed ==
  ASSUME NEW m, DOMAIN m \subseteq Keys, NEW dir \in Seq(Names)
  PROVE  /\ \A k \in Below(m, dir) : Child(dir, k) \in Names
         /\ Files(m, dir) \subseteq Names /\ Directories(m, dir) \subseteq Names
  <1>1. \A k \in Below(m, dir) : Child(dir, k) \in Names
    <2>1. Below(m, dir) \subseteq DOMAIN m
      BY DEF Below
    <2> QED
      BY <2>1, BelowIs
  <1> QED
    BY <1>1 DEF Files, Directories

\* The listing is about a sequence of names.
LEMMA ListedDir ==
  ASSUME Typing
  PROVE  Normalize(listing.path) \in Seq(Names)
  <1>1. listing.path \in RawPaths \cup {<<"">>}
    BY VfsAssumption DEF Typing, TypeOK
  <1> QED
    BY <1>1, PathsAreNamed

\* The keys of the shard that is visited.
Here == [k \in {j \in DOMAIN root : shard[j] = listing.shard} |-> root[k]]

\* Visiting a shard changes only these fields of the listing.
LEMMA VisitRecord ==
  ASSUME Typing, Visit
  PROVE  \E at, next, files, directories :
           listing' = [listing EXCEPT !.at = at, !.shard = next, !.files = files,
                                      !.directories = directories]
  BY DEF Visit

\* What the listing becomes when a shard is visited.
LEMMA VisitShape ==
  ASSUME Typing, Visit
  PROVE  LET dir == Normalize(listing.path) IN
         /\ listing.at \in {"files", "directories"}
         /\ listing'.at = NextShard.at /\ listing'.shard = NextShard.shard
         /\ listing'.path = listing.path /\ listing'.found = listing.found
         /\ listing.at = "files" =>
              /\ listing'.files = listing.files \cup Files(Here, dir)
              /\ listing'.directories = listing.directories \cup Directories(Here, dir)
         /\ listing.at = "directories" =>
              /\ listing'.files = listing.files
              /\ listing'.directories = listing.directories \cup
                   {Child(dir, k) : k \in {j \in Below(Here, dir) :
                      Len(j) = Len(dir) + 1 /\ Here[j] = "Directory"}}
         /\ UNCHANGED <<root, shard, before, pc, op, writes, added, raced>>
  <1>1. listing \in [at : {"idle", "files", "directories", "checking", "done"},
                  path : Listed \cup {<<"">>}, shard : 1 .. Shards,
                  files : SUBSET Names, directories : SUBSET Names, found : BOOLEAN]
    BY DEF Typing, TypeOK
  <1> DEFINE dir == Normalize(listing.path)
             explicit == {Child(dir, k) : k \in {j \in Below(Here, dir) :
                            Len(j) = Len(dir) + 1 /\ Here[j] = "Directory"}}
             at == NextShard.at
             next == NextShard.shard
  <1>2. /\ listing.at \in {"files", "directories"}
        /\ listing' = [listing EXCEPT
             !.at = at, !.shard = next,
             !.files = IF listing.at = "files" THEN @ \cup Files(Here, dir) ELSE @,
             !.directories = @ \cup IF listing.at = "files" THEN Directories(Here, dir)
                                    ELSE explicit]
        /\ UNCHANGED <<root, shard, before, pc, op, writes, added, raced>>
    BY DEF Visit, Here, writer
  <1> HIDE DEF dir, explicit, at, next
  <1>3. /\ listing'.at = at /\ listing'.shard = next
        /\ listing'.path = listing.path /\ listing'.found = listing.found
        /\ listing.at = "files" =>
              /\ listing'.files = listing.files \cup Files(Here, dir)
              /\ listing'.directories = listing.directories \cup Directories(Here, dir)
        /\ listing.at = "directories" =>
              /\ listing'.files = listing.files
              /\ listing'.directories = listing.directories \cup explicit
        /\ listing' \in [at : {at}, path : {listing.path}, shard : {next},
             files : {listing'.files}, directories : {listing'.directories},
             found : {listing.found}]
    BY <1>1, <1>2
  <1> QED
    BY <1>2, <1>3 DEF dir, explicit, at, next

\* A shard is visited.
LEMMA VisitType ==
  ASSUME Typing, Visit
  PROVE  Typing'
  <1> DEFINE dir == Normalize(listing.path)
  <1>1. /\ listing.at \in {"files", "directories"}
        /\ listing'.at = NextShard.at /\ listing'.shard = NextShard.shard
        /\ listing'.path = listing.path /\ listing'.found = listing.found
        /\ listing.at = "files" =>
             /\ listing'.files = listing.files \cup Files(Here, dir)
             /\ listing'.directories = listing.directories \cup Directories(Here, dir)
        /\ listing.at = "directories" =>
             /\ listing'.files = listing.files
             /\ listing'.directories = listing.directories \cup
                  {Child(dir, k) : k \in {j \in Below(Here, dir) :
                     Len(j) = Len(dir) + 1 /\ Here[j] = "Directory"}}
        /\ UNCHANGED <<root, shard, before, pc, op, writes, added, raced>>
    BY VisitShape
  <1>2. dir \in Seq(Names) /\ DOMAIN Here \subseteq Keys
    BY ListedDir DEF Here, Typing, TypeOK
  <1> HIDE DEF dir
  <1>3. /\ listing.files \subseteq Names /\ listing.directories \subseteq Names
        /\ listing.path \in Listed \cup {<<"">>} /\ listing.found \in BOOLEAN
        /\ listing.shard \in 1 .. Shards
    BY DEF Typing, TypeOK
  <1>4. listing'.files \subseteq Names /\ listing'.directories \subseteq Names
    <2>1. Files(Here, dir) \subseteq Names /\ Directories(Here, dir) \subseteq Names
      BY <1>2, EntriesNamed
    <2>2. {Child(dir, k) : k \in {j \in Below(Here, dir) :
             Len(j) = Len(dir) + 1 /\ Here[j] = "Directory"}} \subseteq Names
      BY <1>2, EntriesNamed
    <2>3. CASE listing.at = "files"
      BY <1>1, <1>3, <2>1, <2>3
    <2>4. CASE listing.at = "directories"
      BY <1>1, <1>3, <2>2, <2>4
    <2> QED
      BY <1>1, <2>3, <2>4
  <1>5. /\ NextShard.at \in {"files", "directories", "checking"}
        /\ NextShard.shard \in 1 .. Shards
    <2>1. Shards \in Nat \ {0}
      BY VfsAssumption
    <2>2. listing.at \in {"files", "directories"} /\ listing.shard \in 1 .. Shards
      BY <1>1, <1>3
    <2>3. NextShard \in [at : {"files", "directories", "checking"}, shard : 1 .. Shards]
      <3>1. CASE listing.shard < Shards
        <4>1. listing.shard + 1 \in 1 .. Shards
          BY <2>1, <2>2, <3>1
        <4>2. NextShard = [at |-> listing.at, shard |-> listing.shard + 1]
          BY <3>1 DEF NextShard
        <4> QED
          BY <2>2, <4>1, <4>2
      <3>2. CASE ~(listing.shard < Shards)
        <4>1. 1 \in 1 .. Shards
          BY <2>1
        <4> QED
          BY <3>2, <4>1 DEF NextShard
      <3> QED
        BY <3>1, <3>2
    <2> QED
      BY <2>3
  <1>6. listing' \in [at : {"idle", "files", "directories", "checking", "done"},
                  path : Listed \cup {<<"">>}, shard : 1 .. Shards,
                  files : SUBSET Names, directories : SUBSET Names, found : BOOLEAN]
    <2>1. listing \in [at : {"idle", "files", "directories", "checking", "done"},
                  path : Listed \cup {<<"">>}, shard : 1 .. Shards,
                  files : SUBSET Names, directories : SUBSET Names, found : BOOLEAN]
      BY DEF Typing, TypeOK
    <2>2. PICK at, next, files, directories :
             listing' = [listing EXCEPT !.at = at, !.shard = next, !.files = files,
                                        !.directories = directories]
      BY VisitRecord
    <2>3. /\ listing'.at = at /\ listing'.shard = next /\ listing'.files = files
          /\ listing'.directories = directories
      BY <2>1, <2>2
    <2>4. /\ at \in {"files", "directories", "checking"} /\ next \in 1 .. Shards
          /\ files \subseteq Names /\ directories \subseteq Names
      BY <1>1, <1>4, <1>5, <2>3
    <2> QED
      BY <2>1, <2>2, <2>4
  <1> QED
    BY <1>1, <1>6 DEF Typing, TypeOK, Typed, Planned, NoOp

\* The start of get_accessible_entries.
LEMMA ListType ==
  ASSUME Typing, NEW p \in Listed, List(p)
  PROVE  Typing'
  <1>1. /\ listing' = [NoListing EXCEPT !.at = "files", !.path = p] /\ before' = root
        /\ UNCHANGED <<root, shard, pc, op, writes, added, raced>>
    BY DEF List, writer
  <1>2. 1 \in 1 .. Shards
    <2>1. Shards \in Nat \ {0}
      BY VfsAssumption
    <2> QED
      BY <2>1
  <1>3. listing' \in [at : {"idle", "files", "directories", "checking", "done"},
                  path : Listed \cup {<<"">>}, shard : 1 .. Shards,
                  files : SUBSET Names, directories : SUBSET Names, found : BOOLEAN]
    BY <1>1, <1>2 DEF NoListing
  <1> QED
    BY <1>1, <1>3 DEF Typing, TypeOK, Typed, Planned, NoOp

\* The end of get_accessible_entries.
LEMMA AnswerType ==
  ASSUME Typing, Answer
  PROVE  Typing'
  <1> DEFINE found == \/ Normalize(listing.path) = <<>>
                      \/ listing.files \cup listing.directories # {}
                      \/ DirectoryExists(root, listing.path)
  <1>1. /\ listing' = [listing EXCEPT !.at = "done", !.found = found]
        /\ UNCHANGED <<root, shard, before, pc, op, writes, added, raced>>
    BY DEF Answer, writer
  <1>2. found \in BOOLEAN
    OBVIOUS
  <1> HIDE DEF found
  <1>3. listing' \in [at : {"idle", "files", "directories", "checking", "done"},
                  path : Listed \cup {<<"">>}, shard : 1 .. Shards,
                  files : SUBSET Names, directories : SUBSET Names, found : BOOLEAN]
    BY <1>1, <1>2 DEF Typing, TypeOK
  <1> QED
    BY <1>1, <1>3 DEF Typing, TypeOK, Typed, Planned, NoOp

-----------------------------------------------------------------------------
(* The invariant.                                                          *)

\* The first name of every path is an entry of the root.
TopNamed(m) == \A k \in DOMAIN m : <<k[1]>> \in DOMAIN m

\* A writer ensures the top directory of its file first.
TopFirst ==
  \A w \in Writers :
    LET o == op[w] IN
    Len(o.file) > 1 =>
      \/ <<o.file[1]>> \in DOMAIN root
      \/ o.todo # <<>> /\ Head(o.todo) = o.file[1]

\* Who is about to insert a directory under the name of a file that has been
\* added began to before it was.
RacesSeen ==
  \A w \in Writers :
    pc[w] = "inserting" /\ <<Head(op[w].todo)>> \in added
      => <<Head(op[w].todo)>> \in raced

\* Only files that have been added are files.
FilesAdded == \A k \in DOMAIN root : root[k] = "File" => k \in added

\* The shard of a key has been visited by the first loop of the listing.
Passed(k) ==
  \/ listing.at \in {"directories", "checking", "done"}
  \/ listing.at = "files" /\ shard[k] < listing.shard

\* What was there when the listing began has been reported where its shard has
\* been visited, and what has been reported below the root is still there.
ListingSoFar ==
  LET dir == Normalize(listing.path) IN
  /\ \A k \in Below(before, dir) : Passed(k) =>
       /\ dir = <<>> /\ Len(k) = 1 => k[1] \in listing.files \cup listing.directories
       /\ dir # <<>> /\ Len(k) = Len(dir) + 1 => Child(dir, k) \in listing.files
       /\ dir # <<>> /\ Len(k) > Len(dir) + 1 => Child(dir, k) \in listing.directories
  /\ dir # <<>> =>
       /\ listing.files \subseteq Files(root, dir)
       /\ listing.directories \subseteq Directories(root, dir)
  /\ listing.at = "done" /\ DirectoryExists(before, listing.path)
       => listing.found \/ dir \in added

\* The inductive invariant.
VfsInv ==
  /\ Typing
  /\ TopNamed(root) /\ TopNamed(before) /\ TopFirst
  /\ FilesStay /\ RacesSeen /\ FilesAdded
  /\ ListingSoFar

\* from_files: the files, and a directory of every name on the way to one.
LEMMA InitShape ==
  ASSUME Init
  PROVE  /\ added \subseteq Keys /\ DOMAIN root \subseteq Keys
         /\ \A k \in added : k \in DOMAIN root /\ root[k] = "File"
         /\ \A k \in DOMAIN root : k \notin added => root[k] = "Directory" /\ Len(k) = 1
         /\ TopNamed(root)
  <1>1. PICK paths \in Initial : /\ added = {Normalize(p) : p \in paths} \ {NoFile}
                                 /\ root = FromFiles(added)
    BY DEF Init
  <1>2. added \subseteq Keys
    <2> SUFFICES ASSUME NEW p \in paths, Normalize(p) # NoFile
                 PROVE  Normalize(p) \in Keys
      BY <1>1
    <2>1. p \in (UNION Initial) \cup Writable
      OBVIOUS
    <2> QED
      BY <2>1, WrittenKeys DEF NoFile
  <1> DEFINE tops == UNION {{<<f[i]>> : i \in 1 .. Len(f) - 1} : f \in added}
  <1>3. /\ DOMAIN root = added \cup tops
        /\ \A k \in DOMAIN root : root[k] = IF k \in added THEN "File" ELSE "Directory"
    BY <1>1 DEF FromFiles
  <1>4. ASSUME NEW k \in tops
        PROVE  k \in Keys /\ Len(k) = 1 /\ k = <<k[1]>>
    <2>1. PICK f \in added : \E i \in 1 .. Len(f) - 1 : k = <<f[i]>>
      OBVIOUS
    <2>2. PICK i \in 1 .. Len(f) - 1 : k = <<f[i]>>
      BY <2>1
    <2>3. Len(f) \in Nat /\ <<f[i]>> \in Keys
      BY <1>2, <2>1, KeyShape
    <2> QED
      BY <2>2, <2>3
  <1>5. ASSUME NEW k \in added
        PROVE  <<k[1]>> \in added \cup tops
    <2>1. Len(k) \in Nat /\ Len(k) >= 1 /\ (Len(k) = 1 => k = <<k[1]>>)
      BY <1>2, KeyShape
    <2>2. Len(k) > 1 => 1 \in 1 .. Len(k) - 1
      BY <2>1
    <2>3. CASE Len(k) = 1
      BY <2>1, <2>3
    <2>4. CASE Len(k) > 1
      <3>1. <<k[1]>> \in {<<k[i]>> : i \in 1 .. Len(k) - 1}
        BY <2>2, <2>4
      <3> QED
        BY <3>1
    <2>5. Len(k) = 1 \/ Len(k) > 1
      <3>1. \A n \in Nat : n >= 1 => n = 1 \/ n > 1
        OBVIOUS
      <3> QED
        BY <2>1, <3>1
    <2> QED
      BY <2>3, <2>4, <2>5
  <1> HIDE DEF tops
  <1>6. TopNamed(root)
    BY <1>3, <1>4, <1>5 DEF TopNamed
  <1> QED
    BY <1>2, <1>3, <1>4, <1>6

\* At the start nothing is under way.
LEMMA InitInv ==
  ASSUME Init
  PROVE  VfsInv
  <1>1. /\ added \subseteq Keys /\ DOMAIN root \subseteq Keys
        /\ \A k \in added : k \in DOMAIN root /\ root[k] = "File"
        /\ \A k \in DOMAIN root : k \notin added => root[k] = "Directory" /\ Len(k) = 1
        /\ TopNamed(root)
    BY InitShape
  <1>2. /\ shard \in [Keys -> 1 .. Shards]
        /\ pc = [w \in Writers |-> "idle"] /\ op = [w \in Writers |-> NoOp]
        /\ writes = 0 /\ raced = {}
        /\ listing = NoListing /\ before = root
    BY DEF Init
  <1>3. NoOp \in [todo : Seq(Names), file : Seq(Names)] /\ NoOp.todo = <<>> /\ NoOp.file = <<>>
    BY EmptySeq DEF NoOp, NoFile
  <1>4. /\ op \in [Writers -> [todo : Seq(Names), file : Seq(Names)]]
        /\ pc \in [Writers -> {"idle", "ensuring", "inserting"}]
        /\ \A w \in Writers : op[w] = NoOp /\ pc[w] = "idle"
    BY <1>2, <1>3
  <1>5. MaxWrites \in Nat /\ Shards \in Nat \ {0}
    BY VfsAssumption
  <1>6. NoListing \in [at : {"idle", "files", "directories", "checking", "done"},
                  path : Listed \cup {<<"">>}, shard : 1 .. Shards,
                  files : SUBSET Names, directories : SUBSET Names, found : BOOLEAN]
    BY <1>5 DEF NoListing
  <1>7. Typed(root)
    BY <1>1 DEF Typed
  <1>8. Planned
    <2>1. \A w \in Writers : Len(op[w].todo) = 0 /\ op[w].file = NoFile
      BY <1>3, <1>4, EmptySeq DEF NoFile
    <2> QED
      BY <2>1 DEF Planned
  <1>9. Typing
    <2>1. writes \in 0 .. MaxWrites
      BY <1>2, <1>5
    <2> QED
      BY <1>1, <1>2, <1>4, <1>6, <1>7, <1>8, <2>1 DEF Typing, TypeOK, Typed
  <1>10. TopFirst
    <2>1. \A w \in Writers : Len(op[w].file) = 0
      BY <1>3, <1>4, EmptySeq
    <2> QED
      BY <2>1 DEF TopFirst
  <1>11. FilesStay
    <2>1. \A k \in Keys : k # <<>>
      BY KeyShape
    <2> QED
      BY <1>1, <2>1 DEF FilesStay, Get
  <1>12. RacesSeen
    BY <1>4 DEF RacesSeen
  <1>13. FilesAdded
    BY <1>1 DEF FilesAdded
  <1>14. ListingSoFar
    BY <1>2 DEF ListingSoFar, Passed, NoListing
  <1> QED
    BY <1>1, <1>2, <1>9, <1>10, <1>11, <1>12, <1>13, <1>14 DEF VfsInv

\* A file is found by its key.
LEMMA GetFile ==
  ASSUME NEW m, NEW key \in Keys
  PROVE  Get(m, key) = "File" <=> key \in DOMAIN m /\ m[key] = "File"
  BY KeyShape DEF Get, NoNode

\* What holds of the map and its writers.
MapInv ==
  TopNamed(root) /\ TopFirst /\ FilesStay /\ RacesSeen /\ FilesAdded

\* A call that begins leaves the map alone.
LEMMA BeginMap ==
  ASSUME Typing, MapInv, NEW w \in Writers, NEW todo \in Seq(Names), NEW file,
         Len(file) > 1 => todo # <<>> /\ Head(todo) = file[1],
         Begin(w, todo, file)
  PROVE  MapInv'
  <1>1. UNCHANGED <<root, added, raced>> /\ pc[w] = "idle"
    BY DEF Begin, reader
  <1>2. CASE todo = <<>> /\ file = NoFile
    BY <1>1, <1>2 DEF MapInv, TopNamed, TopFirst, FilesStay, RacesSeen, FilesAdded, Begin
  <1>3. CASE ~(todo = <<>> /\ file = NoFile)
    <2>1. /\ pc' = [pc EXCEPT ![w] = "ensuring"]
          /\ op' = [op EXCEPT ![w] = [todo |-> todo, file |-> file]]
      BY <1>3 DEF Begin
    <2>2. /\ op \in [Writers -> [todo : Seq(Names), file : Seq(Names)]]
          /\ pc \in [Writers -> {"idle", "ensuring", "inserting"}]
      BY DEF Typing, TypeOK
    <2>3. /\ op'[w].todo = todo /\ op'[w].file = file /\ pc'[w] = "ensuring"
          /\ \A v \in Writers : v # w => op'[v] = op[v] /\ pc'[v] = pc[v]
      BY <2>1, <2>2
    <2>4. TopFirst'
      BY <1>1, <2>3 DEF MapInv, TopFirst
    <2>5. RacesSeen'
      BY <1>1, <2>3 DEF MapInv, RacesSeen
    <2> QED
      BY <1>1, <2>4, <2>5 DEF MapInv, TopNamed, FilesStay, FilesAdded
  <1> QED
    BY <1>2, <1>3

\* A directory that is missing is not a file that has been added, and so who
\* then inserts it has seen no file of its name.
LEMMA EnsureMap ==
  ASSUME Typing, MapInv, NEW w \in Writers, Ensure(w)
  PROVE  MapInv'
  <1> DEFINE name == <<Head(op[w].todo)>>
  <1>1. UNCHANGED <<root, added, raced>> /\ pc[w] = "ensuring" /\ op[w].todo # <<>>
    BY DEF Ensure, reader
  <1>2. pc \in [Writers -> {"idle", "ensuring", "inserting"}]
    BY DEF Typing, TypeOK
  <1>3. CASE name \in DOMAIN root
    <2>1. op' = [op EXCEPT ![w].todo = Tail(@)] /\ UNCHANGED pc
      BY <1>3 DEF Ensure
    <2>2. /\ op'[w].file = op[w].file
          /\ \A v \in Writers : v # w => op'[v] = op[v]
      BY <1>1, <2>1, TailPlanned
    <2>3. TopFirst'
      BY <1>1, <1>3, <2>2 DEF MapInv, TopFirst
    <2>4. RacesSeen'
      BY <1>1, <2>1, <2>2 DEF MapInv, RacesSeen
    <2> QED
      BY <1>1, <2>3, <2>4 DEF MapInv, TopNamed, FilesStay, FilesAdded
  <1>4. CASE name \notin DOMAIN root
    <2>1. pc' = [pc EXCEPT ![w] = "inserting"] /\ UNCHANGED op
      BY <1>4 DEF Ensure
    <2>2. \A v \in Writers : v # w => pc'[v] = pc[v]
      BY <1>2, <2>1
    <2>3. name \in Keys
      BY <1>1, TodoShape
    <2>4. name \in added => name \in raced
      BY <1>4, <2>3, GetFile DEF MapInv, FilesStay
    <2>5. RacesSeen'
      BY <1>1, <2>1, <2>2, <2>4 DEF MapInv, RacesSeen
    <2> QED
      BY <1>1, <2>1, <2>5 DEF MapInv, TopNamed, TopFirst, FilesStay, FilesAdded
  <1> QED
    BY <1>3, <1>4

\* Inserting a directory replaces no file that has been added, but one that
\* has been raced.
LEMMA InsertDirectoryMap ==
  ASSUME Typing, MapInv, NEW w \in Writers, InsertDirectory(w)
  PROVE  MapInv' /\ DOMAIN root \subseteq DOMAIN root'
  <1> DEFINE name == <<Head(op[w].todo)>>
  <1>1. /\ UNCHANGED <<added, raced>>
        /\ pc[w] = "inserting" /\ root' = Insert(root, name, "Directory")
        /\ pc' = [pc EXCEPT ![w] = "ensuring"]
        /\ op' = [op EXCEPT ![w].todo = Tail(@)]
    BY DEF InsertDirectory, reader
  <1>2. op[w].todo # <<>>
    BY <1>1 DEF Typing, TypeOK
  <1>3. name \in Keys /\ name[1] = Head(op[w].todo) /\ Len(name) = 1
    BY <1>2, TodoShape
  <1>4. /\ op'[w].file = op[w].file
        /\ \A v \in Writers : v # w => op'[v] = op[v]
    BY <1>1, <1>2, TailPlanned
  <1>5. pc'[w] = "ensuring" /\ \A v \in Writers : v # w => pc'[v] = pc[v]
    BY <1>1 DEF Typing, TypeOK
  <1>6. name \in added => name \in raced
    BY <1>1 DEF MapInv, RacesSeen
  <1>7. name = <<name[1]>>
    BY <1>3
  <1>8. <<Head(op[w].todo)>> = name
    OBVIOUS
  <1> HIDE DEF name
  <1>9. /\ DOMAIN root' = DOMAIN root \cup {name} /\ root'[name] = "Directory"
        /\ \A k \in DOMAIN root : k # name => root'[k] = root[k]
    BY <1>1 DEF Insert
  <1>10. TopNamed(root)'
    BY <1>7, <1>9 DEF MapInv, TopNamed
  <1>11. TopFirst'
    <2> SUFFICES ASSUME NEW v \in Writers, Len(op'[v].file) > 1
                 PROVE  \/ <<op'[v].file[1]>> \in DOMAIN root'
                        \/ op'[v].todo # <<>> /\ Head(op'[v].todo) = op'[v].file[1]
      BY DEF TopFirst
    <2>1. \/ <<op[v].file[1]>> \in DOMAIN root
          \/ op[v].todo # <<>> /\ Head(op[v].todo) = op[v].file[1]
      BY <1>4 DEF MapInv, TopFirst
    <2> QED
      BY <1>4, <1>8, <1>9, <2>1
  <1>12. FilesStay'
    <2> SUFFICES ASSUME NEW k \in added \ raced
                 PROVE  Get(root', k) = "File"
      BY <1>1 DEF FilesStay
    <2>1. k \in Keys /\ k # name
      BY <1>6 DEF Typing, TypeOK
    <2>2. k \in DOMAIN root /\ root[k] = "File"
      BY <2>1, GetFile DEF MapInv, FilesStay
    <2>3. k \in DOMAIN root' /\ root'[k] = "File"
      BY <1>9, <2>1, <2>2
    <2> QED
      BY <2>1, <2>3, GetFile
  <1>13. RacesSeen'
    BY <1>1, <1>4, <1>5 DEF MapInv, RacesSeen
  <1>14. FilesAdded'
    BY <1>1, <1>9 DEF MapInv, FilesAdded
  <1> QED
    BY <1>9, <1>10, <1>11, <1>12, <1>13, <1>14 DEF MapInv

\* Creating a file, whose top directory is there.
LEMMA CreateMap ==
  ASSUME Typing, MapInv, NEW w \in Writers, Create(w)
  PROVE  MapInv' /\ DOMAIN root \subseteq DOMAIN root' /\ added \subseteq added'
  <1> DEFINE file == op[w].file
  <1>1. /\ pc[w] = "ensuring" /\ op[w].todo = <<>>
        /\ root' = IF file = NoFile THEN root ELSE Insert(root, file, "File")
        /\ pc' = [pc EXCEPT ![w] = "idle"] /\ op' = [op EXCEPT ![w] = NoOp]
        /\ added' = added \cup ({file} \ {NoFile})
        /\ raced' = raced \cup {f \in {file} : \E v \in Writers :
                            pc[v] = "inserting" /\ <<Head(op[v].todo)>> = f}
    BY DEF Create
  <1>2. file \in Keys \cup {NoFile}
    BY DEF Typing, Planned
  <1>3. /\ op \in [Writers -> [todo : Seq(Names), file : Seq(Names)]]
        /\ pc \in [Writers -> {"idle", "ensuring", "inserting"}]
        /\ added \subseteq Keys
    BY DEF Typing, TypeOK
  <1>4. /\ op'[w] = NoOp /\ pc'[w] = "idle"
        /\ \A v \in Writers : v # w => op'[v] = op[v] /\ pc'[v] = pc[v]
    BY <1>1, <1>3
  <1>5. file # NoFile =>
          Len(file) \in Nat /\ Len(file) >= 1 /\ (Len(file) = 1 => file = <<file[1]>>)
    BY <1>2, KeyShape
  <1>6. file # NoFile => file = <<file[1]>> \/ <<file[1]>> \in DOMAIN root
    <2>1. Len(file) > 1 => <<file[1]>> \in DOMAIN root
      BY <1>1 DEF MapInv, TopFirst
    <2> HIDE DEF file
    <2>2. ASSUME file # NoFile PROVE Len(file) = 1 \/ Len(file) > 1
      <3>1. Len(file) \in Nat /\ Len(file) >= 1
        BY <1>5, <2>2
      <3> QED
        BY <3>1
    <2> QED
      BY <1>5, <2>1, <2>2
  <1> HIDE DEF file
  <1>7. file = NoFile => root' = root /\ added' = added
    BY <1>1
  <1>8. file # NoFile =>
          /\ DOMAIN root' = DOMAIN root \cup {file} /\ root'[file] = "File"
          /\ \A k \in DOMAIN root : k # file => root'[k] = root[k]
          /\ added' = added \cup {file} /\ file \in Keys
    BY <1>1, <1>2 DEF Insert
  <1>9. DOMAIN root \subseteq DOMAIN root' /\ added \subseteq added'
    BY <1>7, <1>8
  <1>10. TopNamed(root)'
    BY <1>6, <1>7, <1>8 DEF MapInv, TopNamed
  <1>11. TopFirst'
    <2>1. Len(NoOp.file) = 0
      BY EmptySeq DEF NoOp, NoFile
    <2> SUFFICES ASSUME NEW v \in Writers, Len(op'[v].file) > 1
                 PROVE  \/ <<op'[v].file[1]>> \in DOMAIN root'
                        \/ op'[v].todo # <<>> /\ Head(op'[v].todo) = op'[v].file[1]
      BY DEF TopFirst
    <2>2. v # w
      BY <1>4, <2>1
    <2>3. \/ <<op[v].file[1]>> \in DOMAIN root
          \/ op[v].todo # <<>> /\ Head(op[v].todo) = op[v].file[1]
      BY <1>4, <2>2 DEF MapInv, TopFirst
    <2> QED
      BY <1>4, <1>9, <2>2, <2>3
  <1>12. FilesStay'
    <2> SUFFICES ASSUME NEW k \in added' \ raced'
                 PROVE  Get(root', k) = "File"
      BY DEF FilesStay
    <2>1. k \in Keys /\ k \notin raced
      BY <1>1, <1>3, <1>7, <1>8
    <2>2. k \in added => k \in DOMAIN root /\ root[k] = "File"
      BY <2>1, GetFile DEF MapInv, FilesStay
    <2>3. k \in DOMAIN root' /\ root'[k] = "File"
      BY <1>7, <1>8, <2>2
    <2> QED
      BY <2>1, <2>3, GetFile
  <1>13. RacesSeen'
    <2> SUFFICES ASSUME NEW v \in Writers, pc'[v] = "inserting",
                        <<Head(op'[v].todo)>> \in added'
                 PROVE  <<Head(op'[v].todo)>> \in raced'
      BY DEF RacesSeen
    <2>1. v # w /\ op'[v] = op[v] /\ pc[v] = "inserting"
      BY <1>4
    <2>2. CASE <<Head(op[v].todo)>> \in added
      BY <1>1, <2>1, <2>2 DEF MapInv, RacesSeen
    <2>3. CASE <<Head(op[v].todo)>> \notin added
      <3>1. <<Head(op[v].todo)>> = file
        BY <1>7, <1>8, <2>1, <2>3
      <3> QED
        BY <1>1, <2>1, <3>1
    <2> QED
      BY <2>2, <2>3
  <1>14. FilesAdded'
    BY <1>7, <1>8 DEF MapInv, FilesAdded
  <1> QED
    BY <1>9, <1>10, <1>11, <1>12, <1>13, <1>14 DEF MapInv

\* The directories of a call of add_file begin with the top one.
LEMMA AddFilePlan ==
  ASSUME NEW w \in Writers, NEW p \in Writable, AddFile(w, p)
  PROVE  \E todo \in Seq(Names) : \E file \in Keys \cup {NoFile} :
           /\ \A i \in 1 .. Len(todo) : <<todo[i]>> \in Keys
           /\ Len(file) > 1 => todo # <<>> /\ Head(todo) = file[1]
           /\ Begin(w, todo, file)
  <1> DEFINE key == Normalize(p)
  <1>1. /\ key \in Seq(Names) /\ key \in Keys \cup {NoFile}
        /\ \A i \in 1 .. Len(key) : <<key[i]>> \in Keys
        /\ key # <<>> =>
              /\ Front(key) \in Seq(Names) /\ Len(Front(key)) = Len(key) - 1
              /\ \A i \in 1 .. Len(key) - 1 : Front(key)[i] = key[i]
              /\ \A i \in 1 .. Len(Front(key)) : <<Front(key)[i]>> \in Keys
    BY PlanShape
  <1>2. Begin(w, IF key = <<>> THEN <<>> ELSE Front(key), key)
    BY DEF AddFile
  <1> HIDE DEF key
  <1>3. CASE key = <<>>
    <2>1. Len(key) = 0 /\ key \in Seq(Names) /\ Begin(w, key, key)
      BY <1>2, <1>3, EmptySeq
    <2>2. /\ \A i \in 1 .. Len(key) : <<key[i]>> \in Keys
          /\ Len(key) > 1 => key # <<>> /\ Head(key) = key[1]
      BY <1>1, <2>1
    <2>3. key \in Keys \cup {NoFile}
      BY <1>1
    <2> QED
      BY <2>1, <2>2, <2>3
  <1>4. CASE key # <<>>
    <2> DEFINE front == Front(key)
    <2>1. /\ front \in Seq(Names) /\ Len(front) = Len(key) - 1
          /\ \A i \in 1 .. Len(key) - 1 : front[i] = key[i]
          /\ \A i \in 1 .. Len(front) : <<front[i]>> \in Keys
          /\ Begin(w, front, key)
      BY <1>1, <1>2, <1>4
    <2> HIDE DEF front
    <2>2. ASSUME Len(key) > 1
          PROVE  front # <<>> /\ Head(front) = key[1]
      <3>1. Len(key) \in Nat /\ Len(front) >= 1 /\ front[1] = key[1]
        BY <1>1, <2>1, <2>2, LenProperties
      <3>2. front # <<>>
        BY <3>1, EmptySeq
      <3> QED
        BY <2>1, <3>1, <3>2, HeadTailProperties
    <2> QED
      BY <1>1, <2>1, <2>2
  <1> QED
    BY <1>3, <1>4

\* Those of a call of add_directory are all the names.
LEMMA AddDirectoryPlan ==
  ASSUME NEW w \in Writers, NEW p \in Writable, AddDirectory(w, p)
  PROVE  \E todo \in Seq(Names) : \E file \in Keys \cup {NoFile} :
           /\ \A i \in 1 .. Len(todo) : <<todo[i]>> \in Keys
           /\ Len(file) > 1 => todo # <<>> /\ Head(todo) = file[1]
           /\ Begin(w, todo, file)
  <1> DEFINE key == Normalize(p)
  <1>1. /\ key \in Seq(Names)
        /\ \A i \in 1 .. Len(key) : <<key[i]>> \in Keys
    BY PlanShape
  <1>2. Begin(w, key, NoFile)
    BY DEF AddDirectory
  <1>3. Len(NoFile) = 0
    BY EmptySeq DEF NoFile
  <1> HIDE DEF key
  <1> QED
    BY <1>1, <1>2, <1>3

\* A step is one of a call that begins, of a writer, or of the listing.
LEMMA Steps ==
  ASSUME Next
  PROVE  \/ \E w \in Writers : \E todo \in Seq(Names) : \E file \in Keys \cup {NoFile} :
              /\ \A i \in 1 .. Len(todo) : <<todo[i]>> \in Keys
              /\ Len(file) > 1 => todo # <<>> /\ Head(todo) = file[1]
              /\ Begin(w, todo, file)
         \/ \E w \in Writers : Ensure(w) \/ InsertDirectory(w) \/ Create(w)
         \/ \E p \in Listed : List(p)
         \/ Visit
         \/ Answer
  BY AddFilePlan, AddDirectoryPlan DEF Next

\* The part of the invariant about the map and its writers, and that no key is
\* ever removed.
LEMMA MapStep ==
  ASSUME Typing, MapInv, Next
  PROVE  Typing' /\ MapInv' /\ DOMAIN root \subseteq DOMAIN root' /\ added \subseteq added'
  <1>1. ASSUME NEW w \in Writers, NEW todo \in Seq(Names), NEW file \in Keys \cup {NoFile},
               \A i \in 1 .. Len(todo) : <<todo[i]>> \in Keys,
               Len(file) > 1 => todo # <<>> /\ Head(todo) = file[1],
               Begin(w, todo, file)
        PROVE  Typing' /\ MapInv' /\ UNCHANGED <<root, added>>
    <2>1. Typing'
      BY <1>1, BeginType
    <2>2. MapInv'
      BY <1>1, BeginMap
    <2> QED
      BY <1>1, <2>1, <2>2 DEF Begin
  <1>2. ASSUME NEW w \in Writers, Ensure(w)
        PROVE  Typing' /\ MapInv' /\ UNCHANGED <<root, added>>
    BY <1>2, EnsureType, EnsureMap DEF Ensure
  <1>3. ASSUME NEW w \in Writers, InsertDirectory(w)
        PROVE  Typing' /\ MapInv' /\ DOMAIN root \subseteq DOMAIN root' /\ added' = added
    BY <1>3, InsertDirectoryType, InsertDirectoryMap DEF InsertDirectory
  <1>4. ASSUME NEW w \in Writers, Create(w)
        PROVE  Typing' /\ MapInv' /\ DOMAIN root \subseteq DOMAIN root' /\ added \subseteq added'
    BY <1>4, CreateType, CreateMap
  <1>5. UNCHANGED <<root, pc, op, added, raced>> => MapInv'
    BY DEF MapInv, TopNamed, TopFirst, FilesStay, RacesSeen, FilesAdded
  <1>6. ASSUME NEW p \in Listed, List(p)
        PROVE  Typing' /\ MapInv' /\ UNCHANGED <<root, added>>
    BY <1>5, <1>6, ListType DEF List, writer
  <1>7. Visit => Typing' /\ MapInv' /\ UNCHANGED <<root, added>>
    BY <1>5, VisitType DEF Visit, writer
  <1>8. Answer => Typing' /\ MapInv' /\ UNCHANGED <<root, added>>
    BY <1>5, AnswerType DEF Answer, writer
  <1> QED
    BY <1>1, <1>2, <1>3, <1>4, <1>6, <1>7, <1>8, Steps

\* Below the root every key is of a file: the files in a directory are the
\* keys one name longer, its directories the first names of longer ones.
LEMMA DeepEntries ==
  ASSUME NEW m, Typed(m), NEW dir \in Seq(Names), dir # <<>>
  PROVE  /\ Files(m, dir) = {Child(dir, k) : k \in {j \in Below(m, dir) : Len(j) = Len(dir) + 1}}
         /\ Directories(m, dir)
              = {Child(dir, k) : k \in {j \in Below(m, dir) : Len(j) > Len(dir) + 1}}
         /\ {j \in Below(m, dir) : Len(j) = Len(dir) + 1 /\ m[j] = "Directory"} = {}
  <1>1. Len(dir) \in Nat \ {0}
    BY EmptySeq
  <1>2. ASSUME NEW j \in Below(m, dir)
        PROVE  Len(j) \in Nat /\ Len(j) > Len(dir) /\ m[j] = "File"
    <2>1. j \in DOMAIN m /\ j \in Keys /\ DOMAIN m \subseteq Keys
      BY DEF Below, Typed
    <2>2. Len(j) \in Nat /\ Len(j) > Len(dir)
      BY <1>1, <2>1, BelowIs, KeyShape
    <2>3. Len(j) # 1
      <3>1. \A d, n \in Nat : d # 0 /\ n > d => n # 1
        OBVIOUS
      <3> QED
        BY <1>1, <2>2, <3>1
    <2> QED
      BY <2>1, <2>2, <2>3 DEF Typed
  <1>3. {j \in Below(m, dir) : Len(j) = Len(dir) + 1 /\ m[j] = "File"}
          = {j \in Below(m, dir) : Len(j) = Len(dir) + 1}
    BY <1>2
  <1>4. {j \in Below(m, dir) : IF Len(j) = Len(dir) + 1 THEN m[j] = "Directory" ELSE dir # <<>>}
          = {j \in Below(m, dir) : Len(j) > Len(dir) + 1}
    BY <1>1, <1>2
  <1>5. {j \in Below(m, dir) : Len(j) = Len(dir) + 1 /\ m[j] = "Directory"} = {}
    BY <1>2
  <1> QED
    BY <1>3, <1>4, <1>5 DEF Files, Directories

\* They never become fewer.
LEMMA DeepEntriesStay ==
  ASSUME NEW m, Typed(m), NEW n, Typed(n), DOMAIN m \subseteq DOMAIN n,
         NEW dir \in Seq(Names), dir # <<>>
  PROVE  /\ Files(m, dir) \subseteq Files(n, dir)
         /\ Directories(m, dir) \subseteq Directories(n, dir)
  <1>1. Below(m, dir) \subseteq Below(n, dir)
    BY DEF Below
  <1> QED
    BY <1>1, DeepEntries

\* What holds of the listing.
ListInv == TopNamed(before) /\ ListingSoFar

\* Steps of writers.
LEMMA WriterListing ==
  ASSUME Typing, Typing', ListInv, UNCHANGED <<shard, listing, before>>,
         DOMAIN root \subseteq DOMAIN root', added \subseteq added'
  PROVE  ListInv'
  <1> DEFINE dir == Normalize(listing.path)
  <1>1. dir \in Seq(Names)
    BY ListedDir
  <1>2. Typed(root) /\ Typed(root')
    BY DEF Typing, TypeOK, Typed
  <1>3. /\ \A k \in Below(before, dir) : Passed(k) =>
             /\ dir = <<>> /\ Len(k) = 1 => k[1] \in listing.files \cup listing.directories
             /\ dir # <<>> /\ Len(k) = Len(dir) + 1 => Child(dir, k) \in listing.files
             /\ dir # <<>> /\ Len(k) > Len(dir) + 1 => Child(dir, k) \in listing.directories
        /\ dir # <<>> =>
             /\ listing.files \subseteq Files(root, dir)
             /\ listing.directories \subseteq Directories(root, dir)
        /\ listing.at = "done" /\ DirectoryExists(before, listing.path)
             => listing.found \/ dir \in added
    BY DEF ListInv, ListingSoFar
  <1>4. dir' = dir /\ before' = before /\ \A k : Passed(k)' = Passed(k)
    BY DEF Passed
  <1> HIDE DEF dir
  <1>5. dir # <<>> =>
          /\ Files(root, dir) \subseteq Files(root', dir)
          /\ Directories(root, dir) \subseteq Directories(root', dir)
    BY <1>1, <1>2, DeepEntriesStay
  <1>6. ListingSoFar'
    BY <1>3, <1>4, <1>5 DEF ListingSoFar, Passed, dir
  <1> QED
    BY <1>6 DEF ListInv, TopNamed

\* A listing begins.
LEMMA ListListing ==
  ASSUME Typing, MapInv, NEW p \in Listed, List(p)
  PROVE  ListInv'
  <1>1. /\ listing' = [NoListing EXCEPT !.at = "files", !.path = p] /\ before' = root
        /\ shard' = shard
    BY DEF List
  <1>2. /\ listing'.at = "files" /\ listing'.shard = 1
        /\ listing'.files = {} /\ listing'.directories = {}
    BY <1>1 DEF NoListing
  <1>3. TopNamed(before')
    BY <1>1 DEF MapInv
  <1>4. \A k \in Keys : shard[k] \in 1 .. Shards
    BY DEF Typing, TypeOK
  <1>5. Shards \in Nat
    BY VfsAssumption
  <1>6. \A k \in Keys : ~(shard[k] < 1)
    BY <1>4, <1>5
  <1>7. \A k \in Keys : ~Passed(k)'
    BY <1>1, <1>2, <1>6 DEF Passed
  <1>8. Below(before', Normalize(listing'.path)) \subseteq Keys
    BY <1>1 DEF Below, Typing, TypeOK
  <1>9. ListingSoFar'
    BY <1>2, <1>7, <1>8 DEF ListingSoFar
  <1> QED
    BY <1>3, <1>9 DEF ListInv, TopNamed

\* A shard is visited: its keys are reported.
LEMMA VisitListing ==
  ASSUME Typing, ListInv, Visit
  PROVE  ListInv'
  <1> DEFINE dir == Normalize(listing.path)
             explicit == {Child(dir, k) : k \in {j \in Below(Here, dir) :
                            Len(j) = Len(dir) + 1 /\ Here[j] = "Directory"}}
  <1>1. /\ listing.at \in {"files", "directories"}
        /\ listing'.at = NextShard.at /\ listing'.shard = NextShard.shard
        /\ listing'.path = listing.path /\ listing'.found = listing.found
        /\ listing.at = "files" =>
             /\ listing'.files = listing.files \cup Files(Here, dir)
             /\ listing'.directories = listing.directories \cup Directories(Here, dir)
        /\ listing.at = "directories" =>
             /\ listing'.files = listing.files
             /\ listing'.directories = listing.directories \cup explicit
        /\ UNCHANGED <<root, shard, before, pc, op, writes, added, raced>>
    BY VisitShape
  <1>2. dir \in Seq(Names) /\ dir' = Normalize(listing'.path)
    BY ListedDir
  <1>3. /\ \A k \in Below(before, dir) : Passed(k) =>
             /\ dir = <<>> /\ Len(k) = 1 => k[1] \in listing.files \cup listing.directories
             /\ dir # <<>> /\ Len(k) = Len(dir) + 1 => Child(dir, k) \in listing.files
             /\ dir # <<>> /\ Len(k) > Len(dir) + 1 => Child(dir, k) \in listing.directories
        /\ dir # <<>> =>
             /\ listing.files \subseteq Files(root, dir)
             /\ listing.directories \subseteq Directories(root, dir)
    BY DEF ListInv, ListingSoFar
  <1>4. Typed(root) /\ Typed(Here) /\ DOMAIN Here \subseteq DOMAIN root
    BY DEF Typing, TypeOK, Typed, Here
  <1>5. dir # <<>> => explicit = {}
    BY <1>2, <1>4, DeepEntries
  <1>6. /\ Normalize(listing'.path) = dir /\ before' = before /\ root' = root
        /\ TopNamed(before)' = TopNamed(before)
    BY <1>1 DEF TopNamed
  <1> HIDE DEF dir, explicit
  <1>7. /\ listing'.at \in {"files", "directories", "checking"}
        /\ listing.files \subseteq listing'.files
        /\ listing.directories \subseteq listing'.directories
    BY <1>1 DEF NextShard
  <1>8. dir # <<>> =>
          /\ listing'.files \subseteq Files(root, dir)
          /\ listing'.directories \subseteq Directories(root, dir)
    <2> SUFFICES ASSUME dir # <<>>
                 PROVE  /\ listing'.files \subseteq Files(root, dir)
                        /\ listing'.directories \subseteq Directories(root, dir)
      OBVIOUS
    <2>1. /\ Files(Here, dir) \subseteq Files(root, dir)
          /\ Directories(Here, dir) \subseteq Directories(root, dir)
      BY <1>2, <1>4, DeepEntriesStay
    <2> QED
      BY <1>1, <1>3, <1>5, <2>1
  <1>9. ASSUME NEW k \in Below(before, dir), Passed(k)'
        PROVE  Passed(k) \/ (listing.at = "files" /\ shard[k] = listing.shard)
    <2>1. k \in Keys
      BY DEF Below, Typing, Typed
    <2>2. shard[k] \in 1 .. Shards /\ listing.shard \in 1 .. Shards /\ Shards \in Nat
      BY <2>1, VfsAssumption DEF Typing, TypeOK
    <2>3. CASE listing.at = "directories"
      BY <2>3 DEF Passed
    <2>4. CASE listing.at = "files" /\ listing.shard < Shards
      <3>1. listing'.at = "files" /\ listing'.shard = listing.shard + 1
        BY <1>1, <2>4 DEF NextShard
      <3>2. shard[k] < listing.shard + 1
        BY <1>1, <1>9, <3>1 DEF Passed
      <3> QED
        BY <2>2, <2>4, <3>2 DEF Passed
    <2>5. CASE listing.at = "files" /\ ~(listing.shard < Shards)
      <3>1. shard[k] <= listing.shard
        BY <2>2, <2>5
      <3> QED
        BY <2>2, <2>5, <3>1 DEF Passed
    <2> QED
      BY <1>1, <2>3, <2>4, <2>5
  <1>10. ASSUME NEW k \in Below(before, dir), listing.at = "files", shard[k] = listing.shard
         PROVE  /\ dir = <<>> /\ Len(k) = 1 => k[1] \in listing'.files \cup listing'.directories
                /\ dir # <<>> /\ Len(k) = Len(dir) + 1 => Child(dir, k) \in listing'.files
                /\ dir # <<>> /\ Len(k) > Len(dir) + 1 => Child(dir, k) \in listing'.directories
    <2>1. k \in DOMAIN Here
      BY <1>10 DEF Below, Here, Typing, TypeOK
    <2>2. k \in Below(Here, dir)
      BY <2>1 DEF Below
    <2>3. ASSUME dir = <<>>, Len(k) = 1
          PROVE  k[1] \in listing'.files \cup listing'.directories
      <3>1. Len(dir) = 0
        BY <2>3, EmptySeq
      <3>2. Child(dir, k) = k[1] /\ Len(k) = Len(dir) + 1
        BY <2>3, <3>1 DEF Child
      <3>3. Here[k] = "File" \/ Here[k] = "Directory"
        BY <1>4, <2>1 DEF Typed
      <3>4. k[1] \in Files(Here, dir) \cup Directories(Here, dir)
        BY <2>2, <3>2, <3>3 DEF Files, Directories
      <3> QED
        BY <1>1, <1>10, <3>4
    <2>4. ASSUME dir # <<>>
          PROVE  /\ Len(k) = Len(dir) + 1 => Child(dir, k) \in Files(Here, dir)
                 /\ Len(k) > Len(dir) + 1 => Child(dir, k) \in Directories(Here, dir)
      BY <1>2, <1>4, <2>2, <2>4, DeepEntries
    <2> QED
      BY <1>1, <1>10, <2>3, <2>4
  <1>11. \A k \in Below(before, dir) : Passed(k)' =>
             /\ dir = <<>> /\ Len(k) = 1 => k[1] \in listing'.files \cup listing'.directories
             /\ dir # <<>> /\ Len(k) = Len(dir) + 1 => Child(dir, k) \in listing'.files
             /\ dir # <<>> /\ Len(k) > Len(dir) + 1 => Child(dir, k) \in listing'.directories
    BY <1>3, <1>7, <1>9, <1>10
  <1>12. ListingSoFar'
    BY <1>6, <1>7, <1>8, <1>11 DEF ListingSoFar
  <1> QED
    BY <1>6, <1>12 DEF ListInv

\* The listing ends: None only if the directory itself is not found any more.
LEMMA AnswerListing ==
  ASSUME Typing, MapInv, ListInv, Answer
  PROVE  ListInv'
  <1> DEFINE dir == Normalize(listing.path)
             found == \/ dir = <<>>
                      \/ listing.files \cup listing.directories # {}
                      \/ DirectoryExists(root, listing.path)
  <1>1. /\ listing.at = "checking"
        /\ listing' = [listing EXCEPT !.at = "done", !.found = found]
        /\ UNCHANGED <<root, shard, before, added>>
    BY DEF Answer, writer
  <1>2. listing \in [at : {"idle", "files", "directories", "checking", "done"},
                  path : Listed \cup {<<"">>}, shard : 1 .. Shards,
                  files : SUBSET Names, directories : SUBSET Names, found : BOOLEAN]
    BY DEF Typing, TypeOK
  <1>3. ASSUME DirectoryExists(before, listing.path), ~found
        PROVE  dir \in added
    <2>1. Get(before, dir) = "Directory" /\ Get(root, dir) # "Directory" /\ dir # <<>>
      BY <1>3 DEF DirectoryExists
    <2>2. dir \in DOMAIN before
      BY <2>1 DEF Get, NoNode
    <2>3. dir \in DOMAIN root
      BY <2>2 DEF Typing, TypeOK
    <2>4. root[dir] # "Directory"
      BY <2>1, <2>3 DEF Get
    <2>5. root[dir] = "File"
      BY <2>3, <2>4 DEF Typing, TypeOK
    <2> QED
      BY <2>3, <2>5 DEF MapInv, FilesAdded
  <1> HIDE DEF found
  <1>4. /\ listing'.at = "done" /\ listing'.found = found /\ listing'.path = listing.path
        /\ listing'.files = listing.files /\ listing'.directories = listing.directories
    BY <1>1, <1>2
  <1>5. \A k : Passed(k)
    BY <1>1 DEF Passed
  <1>6. ListingSoFar'
    BY <1>1, <1>3, <1>4, <1>5 DEF ListInv, ListingSoFar
  <1> QED
    BY <1>1, <1>6 DEF ListInv, TopNamed

-----------------------------------------------------------------------------
(* The theorems.                                                           *)

\* Every step keeps the invariant: steps of writers only let the map grow, and
\* steps of the listing leave the map alone.
LEMMA VfsStep ==
  ASSUME VfsInv, [Next]_vars
  PROVE  VfsInv'
  <1>1. Typing /\ MapInv /\ ListInv
    BY DEF VfsInv, MapInv, ListInv
  <1>2. Typing' /\ MapInv' /\ ListInv' => VfsInv'
    BY DEF VfsInv, MapInv, ListInv
  <1>3. ASSUME Next
        PROVE  VfsInv'
    <2>1. Typing' /\ MapInv' /\ DOMAIN root \subseteq DOMAIN root' /\ added \subseteq added'
      BY <1>1, <1>3, MapStep
    <2>2. UNCHANGED <<shard, listing, before>> => ListInv'
      BY <1>1, <2>1, WriterListing
    <2>3. ASSUME NEW w \in Writers, NEW todo, NEW file, Begin(w, todo, file)
          PROVE  ListInv'
      BY <2>2, <2>3 DEF Begin, reader
    <2>4. ASSUME NEW w \in Writers, Ensure(w) \/ InsertDirectory(w) \/ Create(w)
          PROVE  ListInv'
      BY <2>2, <2>4 DEF Ensure, InsertDirectory, Create, reader
    <2>5. ASSUME NEW p \in Listed, List(p)
          PROVE  ListInv'
      BY <1>1, <2>5, ListListing
    <2>6. Visit => ListInv'
      BY <1>1, VisitListing
    <2>7. Answer => ListInv'
      BY <1>1, AnswerListing
    <2> QED
      BY <1>2, <1>3, <2>1, <2>3, <2>4, <2>5, <2>6, <2>7, Steps
  <1>4. ASSUME UNCHANGED vars
        PROVE  VfsInv'
    <2>1. UNCHANGED <<root, shard, pc, op, writes, added, raced, listing, before>>
      BY <1>4 DEF vars, writer, reader
    <2>2. Typing'
      BY <1>1, <2>1 DEF Typing, TypeOK, Typed, Planned, NoOp
    <2>3. MapInv'
      BY <1>1, <2>1 DEF MapInv, TopNamed, TopFirst, FilesStay, RacesSeen, FilesAdded
    <2>4. ListInv'
      BY <1>1, <2>1, <2>2, WriterListing
    <2> QED
      BY <1>2, <2>2, <2>3, <2>4
  <1> QED
    BY <1>3, <1>4

\* The inductive invariant holds always: what writers are about to insert, what
\* they have inserted, and what a listing has seen of it.
THEOREM VfsInvariant == Spec => []VfsInv
  <1>1. Init => VfsInv
    BY InitInv
  <1>2. VfsInv /\ [Next]_vars => VfsInv'
    BY VfsStep
  <1> QED
    BY <1>1, <1>2, PTL DEF Spec

\* Every variable has its type, and directories are stored only under single
\* names, whatever paths are written, by however many threads.
THEOREM TypeCorrect == Spec => []TypeOK
  <1>1. VfsInv => TypeOK
    BY DEF VfsInv, Typing
  <1> QED
    BY <1>1, VfsInvariant, PTL

\* A file that add_file has returned from stays a file, unless the name was
\* about to be inserted by ensure_directory_at_path of another call.
THEOREM AddedFilesStay == Spec => []FilesStay
  <1>1. VfsInv => FilesStay
    BY DEF VfsInv
  <1> QED
    BY <1>1, VfsInvariant, PTL

\* Every key of the map can be found from the root, in every state between two
\* inserts of add_file: the top directory is inserted first.
THEOREM FoundFromTheRoot == Spec => []Discoverable
  <1>1. ASSUME VfsInv
        PROVE  Discoverable
    <2> SUFFICES ASSUME NEW k \in DOMAIN root
                 PROVE  Child(<<>>, k) \in Files(root, <<>>) \cup Directories(root, <<>>)
      BY DEF Discoverable
    <2> DEFINE top == <<k[1]>>
    <2>1. Len(<<>>) = 0 /\ Len(top) = 1 /\ top[1] = k[1] /\ <<>> \in Seq(Names)
      BY EmptySeq
    <2>2. top \in DOMAIN root /\ DOMAIN root \subseteq Keys
      BY <1>1 DEF VfsInv, TopNamed, Typing, TypeOK
    <2>3. root[top] = "File" \/ root[top] = "Directory"
      BY <1>1, <2>2 DEF VfsInv, Typing, TypeOK
    <2>4. Child(<<>>, k) = k[1] /\ Child(<<>>, top) = k[1]
      BY <2>1 DEF Child
    <2> HIDE DEF top
    <2>5. top \in Below(root, <<>>)
      <3>1. Len(<<>>) < Len(top) /\ \A i \in 1 .. Len(<<>>) : <<>>[i] = top[i]
        BY <2>1
      <3> QED
        BY <2>1, <2>2, <3>1, BelowIs
    <2>6. Len(top) = Len(<<>>) + 1
      BY <2>1
    <2> QED
      BY <2>3, <2>4, <2>5, <2>6 DEF Files, Directories
  <1> QED
    BY <1>1, VfsInvariant, PTL

\* The key of a name in a directory, and the keys one name longer than it.
LEMMA EntryKey ==
  ASSUME NEW m, DOMAIN m \subseteq Keys, NEW dir \in Seq(Names), NEW n \in Names
  PROVE  LET key == Append(dir, n) IN
         /\ key # <<>> /\ Len(key) = Len(dir) + 1
         /\ key \in DOMAIN m => key \in Below(m, dir) /\ Child(dir, key) = n
         /\ \A k \in Below(m, dir) :
              Len(k) = Len(dir) + 1 /\ Child(dir, k) = n => k = key
  <1> DEFINE key == Append(dir, n)
  <1>1. /\ key \in Seq(Names) /\ Len(key) = Len(dir) + 1 /\ Len(dir) \in Nat
        /\ \A i \in 1 .. Len(dir) : key[i] = dir[i]
        /\ key[Len(dir) + 1] = n
    BY AppendProperties, LenProperties
  <1> HIDE DEF key
  <1>2. key # <<>>
    BY <1>1, EmptySeq
  <1>3. key \in DOMAIN m => key \in Below(m, dir) /\ Child(dir, key) = n
    <2> SUFFICES ASSUME key \in DOMAIN m
                 PROVE  key \in Below(m, dir) /\ Child(dir, key) = n
      OBVIOUS
    <2>1. Len(dir) < Len(key)
      BY <1>1
    <2> QED
      BY <1>1, <2>1, BelowIs DEF Child
  <1>4. ASSUME NEW k \in Below(m, dir), Len(k) = Len(dir) + 1, Child(dir, k) = n
        PROVE  k = key
    <2>1. k \in DOMAIN m /\ k \in Seq(Names)
      BY KeyShape DEF Below
    <2>2. \A i \in 1 .. Len(dir) : dir[i] = k[i]
      BY <2>1, BelowIs
    <2>3. k[Len(dir) + 1] = n
      BY <1>4 DEF Child
    <2>4. \A i \in 1 .. Len(key) : key[i] = k[i]
      <3>1. \A i \in 1 .. Len(key) : i \in 1 .. Len(dir) \/ i = Len(dir) + 1
        BY <1>1
      <3> QED
        BY <1>1, <2>2, <2>3, <3>1
    <2> QED
      BY <1>1, <1>4, <2>1, <2>4, SeqEqual
  <1> QED
    BY <1>1, <1>2, <1>3, <1>4 DEF key

\* Whatever the map holds, file_exists answers for a name in a directory what
\* get_accessible_entries lists, and what directory_exists finds is listed.
THEOREM LookupsAgree == Spec => []ListedAsFound
  <1>1. ASSUME TypeOK
        PROVE  ListedAsFound
    <2> SUFFICES ASSUME NEW p \in Listed, NEW n \in Names
                 PROVE  /\ n \in Files(root, Normalize(p)) <=> FileExists(root, Append(p, n))
                        /\ DirectoryExists(root, Append(p, n))
                             => n \in Directories(root, Normalize(p))
      BY DEF ListedAsFound
    <2> DEFINE dir == Normalize(p)
               key == Append(dir, n)
    <2>1. p \in Seq(Segments) /\ dir \in Seq(Names)
      <3>1. p \in RawPaths \cup {<<"">>}
        BY VfsAssumption
      <3> QED
        BY <3>1, PathsAreNamed
    <2>2. Normalize(Append(p, n)) = key
      BY <2>1, NormalizeAppend
    <2>3. DOMAIN root \subseteq Keys
      BY <1>1 DEF TypeOK
    <2>4. /\ key # <<>> /\ Len(key) = Len(dir) + 1
          /\ key \in DOMAIN root => key \in Below(root, dir) /\ Child(dir, key) = n
          /\ \A k \in Below(root, dir) :
               Len(k) = Len(dir) + 1 /\ Child(dir, k) = n => k = key
      BY <2>1, <2>3, EntryKey
    <2>5. Append(p, n) \notin {<<"">>, <<"", "">>}
      <3>1. n # ""
        BY VfsAssumption
      <3>2. Append(p, n)[Len(p) + 1] = n /\ Len(Append(p, n)) = Len(p) + 1 /\ Len(p) \in Nat
        <4>1. n \in Segments
          BY DEF Segments
        <4> QED
          BY <2>1, <4>1, AppendProperties, LenProperties
      <3> DEFINE path == Append(p, n)
      <3> HIDE DEF path
      <3>3. ASSUME path = <<"">>
            PROVE  path[Len(path)] = ""
        <4>1. Len(<<"">>) = 1 /\ <<"">>[1] = ""
          OBVIOUS
        <4> QED
          BY <3>3, <4>1
      <3>4. ASSUME path = <<"", "">>
            PROVE  path[Len(path)] = ""
        <4>1. Len(<<"", "">>) = 2 /\ <<"", "">>[2] = ""
          OBVIOUS
        <4> QED
          BY <3>4, <4>1
      <3> QED
        BY <3>1, <3>2, <3>3, <3>4 DEF path
    <2> HIDE DEF dir, key
    <2>6. n \in Files(root, dir) <=> key \in DOMAIN root /\ root[key] = "File"
      BY <2>4 DEF Files, Below
    <2>7. key \in DOMAIN root /\ root[key] = "Directory" => n \in Directories(root, dir)
      BY <2>4 DEF Directories
    <2>8. FileExists(root, Append(p, n)) <=> key \in DOMAIN root /\ root[key] = "File"
      BY <2>2, <2>4 DEF FileExists, Get, NoNode
    <2>9. DirectoryExists(root, Append(p, n)) => key \in DOMAIN root /\ root[key] = "Directory"
      BY <2>2, <2>4, <2>5 DEF DirectoryExists, Get, NoNode
    <2> QED
      BY <2>6, <2>7, <2>8, <2>9 DEF dir
  <1> QED
    BY <1>1, TypeCorrect, PTL

\* A listing that is written behind, shard by shard, reports every name that
\* was there when it began, below the root none that is gone when it ends, and
\* None only of a directory without entries that a file has replaced or that
\* was not there.
THEOREM ListingsCoverTheirTime == Spec => []ListingBetween
  <1>1. ASSUME VfsInv
        PROVE  ListingBetween
    <2> SUFFICES ASSUME listing.at = "done"
                 PROVE  LET dir == Normalize(listing.path) IN
                        /\ {Child(dir, k) : k \in Below(before, dir)}
                             \subseteq listing.files \cup listing.directories
                        /\ dir # <<>> =>
                             /\ Files(before, dir) \subseteq listing.files
                             /\ listing.files \subseteq Files(root, dir)
                             /\ Directories(before, dir) \subseteq listing.directories
                             /\ listing.directories \subseteq Directories(root, dir)
                        /\ DirectoryExists(before, listing.path)
                             => listing.found \/ dir \in added
      BY DEF ListingBetween
    <2> DEFINE dir == Normalize(listing.path)
    <2>1. Typing /\ TopNamed(before) /\ ListingSoFar
      BY <1>1 DEF VfsInv
    <2>2. dir \in Seq(Names) /\ Typed(before) /\ DOMAIN before \subseteq Keys
      BY <2>1, ListedDir DEF Typing, Typed
    <2>3. /\ \A k \in Below(before, dir) :
               /\ dir = <<>> /\ Len(k) = 1 => k[1] \in listing.files \cup listing.directories
               /\ dir # <<>> /\ Len(k) = Len(dir) + 1 => Child(dir, k) \in listing.files
               /\ dir # <<>> /\ Len(k) > Len(dir) + 1 => Child(dir, k) \in listing.directories
          /\ dir # <<>> =>
               /\ listing.files \subseteq Files(root, dir)
               /\ listing.directories \subseteq Directories(root, dir)
          /\ DirectoryExists(before, listing.path) => listing.found \/ dir \in added
      BY <2>1 DEF ListingSoFar, Passed
    <2> HIDE DEF dir
    <2>4. ASSUME dir # <<>>
          PROVE  /\ Files(before, dir) \subseteq listing.files
                 /\ Directories(before, dir) \subseteq listing.directories
      BY <2>2, <2>3, <2>4, DeepEntries
    <2>5. ASSUME NEW k \in Below(before, dir)
          PROVE  Child(dir, k) \in listing.files \cup listing.directories
      <3>1. k \in DOMAIN before /\ k \in Keys
        BY <2>2 DEF Below
      <3>2. CASE dir = <<>>
        <4> DEFINE top == <<k[1]>>
        <4>1. Len(dir) = 0 /\ Len(top) = 1 /\ top[1] = k[1]
          BY <3>2, EmptySeq
        <4>2. top \in DOMAIN before
          BY <2>1, <3>1 DEF TopNamed
        <4>3. Child(dir, k) = k[1]
          BY <4>1 DEF Child
        <4> HIDE DEF top
        <4>4. top \in Below(before, dir)
          <5>1. Len(dir) < Len(top) /\ \A i \in 1 .. Len(dir) : dir[i] = top[i]
            BY <4>1
          <5> QED
            BY <2>2, <4>2, <5>1, BelowIs
        <4> QED
          BY <2>3, <3>2, <4>1, <4>3, <4>4
      <3>3. CASE dir # <<>>
        <4>1. Len(k) \in Nat /\ Len(dir) \in Nat /\ Len(dir) < Len(k)
          BY <2>2, <3>1, BelowIs, KeyShape, LenProperties
        <4>2. Len(k) = Len(dir) + 1 \/ Len(k) > Len(dir) + 1
          BY <4>1
        <4> QED
          BY <2>3, <3>3, <4>2
      <3> QED
        BY <3>2, <3>3
    <2> QED
      BY <2>3, <2>4, <2>5 DEF dir
  <1> QED
    BY <1>1, VfsInvariant, PTL

\* NormalForm, for paths of any length: normalize_path yields the names on the way,
\* and may be applied in pieces.
THEOREM NormalizesForm == Spec => []NormalForm
  <1>1. NormalForm
    <2>1. \A p \in RawPaths : p \in Seq(Segments)
      BY VfsAssumption
    <2> QED
      BY <2>1, NormalizesToTheWay, NormalizesInPieces DEF NormalForm
  <1> QED
    BY <1>1, PTL
=============================================================================
