---------------------------- MODULE RealVfsProofs ----------------------------
(***************************************************************************)
(* What holds of RealVfs for every file system it starts on, all paths and *)
(* contents, and any number of threads and foreign changes: the file       *)
(* system stays a tree, handles stay handles, files at rest and what is    *)
(* read from them are whole contents, listings agree with the lookups, and *)
(* concurrent calls of write_file do not fail each other.                  *)
(***************************************************************************)
EXTENDS RealVfs, SequenceTheorems, WellFoundedInduction, TLAPS

-----------------------------------------------------------------------------
(* Nodes.                                                                  *)

\* The three kinds of nodes.
LEMMA NodeShape ==
  /\ \A n \in Node :
       /\ n.kind \in {"File", "Dir", "Link"}
       /\ n.kind = "File" => n.data \in Seq(Block)
       /\ n.kind = "Dir" => n.entries \in [Names -> Nat]
  /\ \A data \in Seq(Block) :
       File(data) \in Node /\ File(data).kind = "File" /\ File(data).data = data
  /\ EmptyDir \in Node /\ EmptyDir.kind = "Dir"
  /\ \A x \in Names : EmptyDir.entries[x] = NoEntry
  /\ \A to \in Seq(Names) : Link(to) \in Node /\ Link(to).kind = "Link"
  BY DEF Node, File, Dir, Link, EmptyDir, NoEntry

\* A node keeps its kind, whatever becomes of it.
LEMMA NodeChanged ==
  ASSUME NEW n \in Node
  PROVE  /\ n.kind = "File" => \A data \in Seq(Block) :
              /\ [n EXCEPT !.data = data] \in Node
              /\ [n EXCEPT !.data = data].kind = "File"
              /\ [n EXCEPT !.data = data].data = data
         /\ n.kind = "Dir" => \A entries \in [Names -> Nat] :
              /\ [n EXCEPT !.entries = entries] \in Node
              /\ [n EXCEPT !.entries = entries].kind = "Dir"
              /\ [n EXCEPT !.entries = entries].entries = entries
  BY DEF Node

\* Nodes are never lost and keep their kind.
Grown(m, n) ==
  /\ DOMAIN m \subseteq DOMAIN n
  /\ \A i \in DOMAIN m : n[i].kind = m[i].kind

\* Nothing is lost, and nothing leads elsewhere.
Keeps(m, n) ==
  /\ Grown(m, n)
  /\ \A i \in DOMAIN m :
       /\ m[i].kind = "Link" => n[i].to = m[i].to
       /\ m[i].kind = "Dir" => \A x \in Names :
            m[i].entries[x] # NoEntry => n[i].entries[x] = m[i].entries[x]

\* Nothing has changed.
LEMMA KeepsSame == ASSUME NEW m PROVE Keeps(m, m)
  BY DEF Keeps, Grown

\* The data of a file are replaced.
Rewritten(m, i, data) == [m EXCEPT ![i].data = data]

\* Other data make another file of the same tree.
LEMMA DataReplaced ==
  ASSUME NEW m \in Seq(Node), Tree(m), NEW i \in DOMAIN m, m[i].kind = "File",
         NEW data \in Seq(Block)
  PROVE  /\ Rewritten(m, i, data) \in Seq(Node) /\ Tree(Rewritten(m, i, data))
         /\ Grown(m, Rewritten(m, i, data)) /\ DOMAIN Rewritten(m, i, data) = DOMAIN m
         /\ Keeps(m, Rewritten(m, i, data))
         /\ Rewritten(m, i, data)[i].data = data
         /\ \A j \in DOMAIN m : j # i => Rewritten(m, i, data)[j] = m[j]
  <1> DEFINE n == Rewritten(m, i, data)
             new == [m[i] EXCEPT !.data = data]
  <1>1. /\ Len(m) \in Nat /\ DOMAIN m = 1 .. Len(m) /\ m[i] \in Node
        /\ m \in [1 .. Len(m) -> Node]
    BY LenProperties
  <1>2. new \in Node /\ new.kind = "File" /\ new.data = data
    BY <1>1, NodeChanged
  <1>3. n = [m EXCEPT ![i] = new]
    BY DEF Rewritten
  <1> HIDE DEF n
  <1> HIDE DEF new
  <1>4. /\ n \in Seq(Node) /\ DOMAIN n = DOMAIN m /\ Len(n) = Len(m)
        /\ n[i] = new /\ \A j \in DOMAIN m : j # i => n[j] = m[j]
    BY <1>1, <1>2, <1>3, ExceptSeq
  <1>5. Grown(m, n)
    BY <1>2, <1>4 DEF Grown
  <1>6. Tree(n)
    <2>1. \A d \in DOMAIN n : n[d].kind = "Dir" => m[d].kind = "Dir" /\ n[d] = m[d]
      BY <1>2, <1>4
    <2> QED
      BY <1>4, <2>1 DEF Tree
  <1>7. Keeps(m, n)
    BY <1>4, <1>5 DEF Keeps
  <1> QED
    BY <1>2, <1>4, <1>5, <1>6, <1>7 DEF n

\* The nodes with another entry under the name x of the directory d.
Replaced(m, d, x, i) == [m EXCEPT ![d].entries[x] = i]

\* A directory with another entry is still one.
LEMMA EntryReplaced ==
  ASSUME NEW m \in Seq(Node), NEW d \in DOMAIN m, m[d].kind = "Dir",
         NEW x \in Names, NEW i \in Nat, NEW n, n = Replaced(m, d, x, i)
  PROVE  /\ n \in Seq(Node) /\ Grown(m, n) /\ DOMAIN n = DOMAIN m /\ Len(n) = Len(m)
         /\ n[d].entries = [m[d].entries EXCEPT ![x] = i]
         /\ \A j \in DOMAIN m : j # d => n[j] = m[j]
  <1> DEFINE entries == [m[d].entries EXCEPT ![x] = i]
             new == [m[d] EXCEPT !.entries = entries]
  <1>1. /\ Len(m) \in Nat /\ DOMAIN m = 1 .. Len(m) /\ m[d] \in Node
        /\ m \in [1 .. Len(m) -> Node]
    BY LenProperties
  <1>2. n = [m EXCEPT ![d] = new]
    BY DEF Replaced
  <1>3. entries \in [Names -> Nat]
    <2>1. m[d].entries \in [Names -> Nat]
      BY <1>1, NodeShape
    <2> QED
      BY <2>1
  <1> HIDE DEF entries
  <1>4. new \in Node /\ new.kind = "Dir" /\ new.entries = entries
    BY <1>1, <1>3, NodeChanged
  <1> HIDE DEF new
  <1>5. /\ n \in Seq(Node) /\ DOMAIN n = DOMAIN m /\ Len(n) = Len(m)
        /\ n[d] = new /\ \A j \in DOMAIN m : j # d => n[j] = m[j]
    BY <1>1, <1>2, <1>4, ExceptSeq
  <1>6. Grown(m, n)
    BY <1>4, <1>5 DEF Grown
  <1> QED
    BY <1>4, <1>5, <1>6 DEF entries

-----------------------------------------------------------------------------
(* What Lookup computes, on the nodes m.                                   *)

\* A place of the walk: where it is, the names to come, the links it may follow.
Places(m) == [at : DOMAIN m, rest : Seq(Names), links : 0 .. MaxLinks]

Entry(m, a) == m[a.at].entries[Head(a.rest)]

\* The walk takes a step: the next name is an entry, which may be followed.
Goes(m, a) ==
  /\ a.rest # <<>> /\ m[a.at].kind = "Dir" /\ Entry(m, a) # NoEntry
  /\ m[Entry(m, a)].kind = "Link" => a.links # 0

\* The place it comes to.
Onward(m, a) ==
  IF m[Entry(m, a)].kind = "Link"
  THEN [at |-> Root, rest |-> m[Entry(m, a)].to \o Tail(a.rest), links |-> a.links - 1]
  ELSE [at |-> Entry(m, a), rest |-> Tail(a.rest), links |-> a.links]

\* What it returns where it cannot go on.
Stop(m, a) ==
  IF a.rest = <<>> THEN [error |-> "", node |-> a.at]
  ELSE IF m[a.at].kind # "Dir" THEN [error |-> "NotADirectory", rest |-> a.rest]
  ELSE IF Entry(m, a) = NoEntry THEN [error |-> "NotFound", dir |-> a.at, rest |-> a.rest]
  ELSE [error |-> "FilesystemLoop", rest |-> a.rest]

IsFileSystem(m) == m \in Seq(Node) /\ m # <<>> /\ Tree(m)

\* The least of a set of natural numbers.
LEMMA Least ==
  ASSUME NEW T, T \subseteq Nat, T # {}
  PROVE  \E x \in T : \A y \in T : x <= y
  <1>1. PICK x \in T : \A y \in T : ~ (<<y, x>> \in OpToRel(<, Nat))
    BY WFMin, NatLessThanWellFounded
  <1>2. ASSUME NEW y \in T PROVE x <= y
    <2>1. x \in Nat /\ y \in Nat /\ ~ (y < x)
      BY <1>1, <1>2 DEF OpToRel
    <2> QED
      BY <2>1
  <1> QED
    BY <1>2

\* What an entry leads to.
LEMMA EntryType ==
  ASSUME NEW m, IsFileSystem(m), NEW d \in DOMAIN m, m[d].kind = "Dir",
         NEW x \in Names, m[d].entries[x] # NoEntry
  PROVE  m[d].entries[x] \in DOMAIN m
  BY DEF IsFileSystem, Tree

\* The root is there.
LEMMA RootThere ==
  ASSUME NEW m, IsFileSystem(m)
  PROVE  Root \in DOMAIN m
  <1>1. DOMAIN m = 1 .. Len(m) /\ Len(m) \in Nat /\ Len(m) # 0
    BY LenProperties, EmptySeq DEF IsFileSystem
  <1> QED
    BY <1>1 DEF Root

\* A link leads to a path.
LEMMA LinkShape ==
  ASSUME NEW m, IsFileSystem(m), NEW i \in DOMAIN m, m[i].kind = "Link"
  PROVE  m[i].to \in Seq(Names)
  <1>1. m[i] \in Node
    BY ElementOfSeq, LenProperties DEF IsFileSystem
  <1> QED
    BY <1>1 DEF Node

\* The walk comes to a place.
LEMMA OnwardType ==
  ASSUME NEW m, IsFileSystem(m), NEW a \in Places(m), Goes(m, a)
  PROVE  /\ Onward(m, a) \in Places(m)
         /\ Entry(m, a) \in DOMAIN m
         /\ a.rest \in Seq(Names) /\ Tail(a.rest) \in Seq(Names) /\ Head(a.rest) \in Names
         /\ Len(Tail(a.rest)) = Len(a.rest) - 1
  <1>1. /\ a.at \in DOMAIN m /\ a.rest \in Seq(Names) /\ a.links \in 0 .. MaxLinks
        /\ a.rest # <<>>
    BY DEF Places, Goes
  <1>2. /\ Head(a.rest) \in Names /\ Tail(a.rest) \in Seq(Names)
        /\ Len(Tail(a.rest)) = Len(a.rest) - 1
    BY <1>1, HeadTailProperties
  <1>3. Entry(m, a) \in DOMAIN m
    BY <1>1, <1>2, EntryType DEF Goes, Entry
  <1>4. CASE m[Entry(m, a)].kind = "Link"
    <2>1. m[Entry(m, a)].to \o Tail(a.rest) \in Seq(Names)
      BY <1>2, <1>3, <1>4, LinkShape, ConcatProperties
    <2>2. a.links - 1 \in 0 .. MaxLinks
      BY <1>1, <1>4, RealVfsAssumption DEF Goes
    <2> QED
      BY <1>2, <1>1, <1>3, <1>4, <2>1, <2>2, RootThere DEF Onward, Places
  <1>5. CASE m[Entry(m, a)].kind # "Link"
    BY <1>1, <1>2, <1>3, <1>5 DEF Onward, Places
  <1> QED
    BY <1>1, <1>2, <1>3, <1>4, <1>5

\* Links are of bounded length.
LEMMA LinksBounded ==
  ASSUME NEW m, IsFileSystem(m)
  PROVE  \E M \in Nat : \A i \in DOMAIN m : m[i].kind = "Link" => Len(m[i].to) <= M
  <1> DEFINE Upto(k, M) == \A i \in DOMAIN m : i <= k /\ m[i].kind = "Link" => Len(m[i].to) <= M
             T == {k \in Nat : k <= Len(m) /\ \E M \in Nat : Upto(Len(m) - k, M)}
  <1>1. DOMAIN m = 1 .. Len(m) /\ Len(m) \in Nat
    BY LenProperties DEF IsFileSystem
  <1>2. Len(m) \in T
    <2>1. Upto(Len(m) - Len(m), 0)
      BY <1>1
    <2> QED
      BY <1>1, <2>1
  <1>3. PICK k \in T : \A j \in T : k <= j
    <2>1. T \subseteq Nat
      OBVIOUS
    <2> HIDE DEF T
    <2> QED
      BY <1>2, <2>1, Least
  <1>4. k \in Nat /\ k <= Len(m) /\ \E M \in Nat : Upto(Len(m) - k, M)
    BY <1>3
  <1>4a. PICK M \in Nat : Upto(Len(m) - k, M)
    BY <1>4
  <1>5. ASSUME k # 0 PROVE FALSE
    <2> DEFINE i == Len(m) - k + 1
    <2>1. i \in DOMAIN m /\ k - 1 \in Nat /\ Len(m) - (k - 1) = i /\ k - 1 <= Len(m)
      BY <1>1, <1>4, <1>5
    <2>2. \E N \in Nat : M <= N /\ (m[i].kind = "Link" => Len(m[i].to) <= N)
      <3>1. CASE m[i].kind = "Link"
        <4>1. Len(m[i].to) \in Nat
          BY <2>1, <3>1, LinkShape, LenProperties
        <4>2. M <= M + Len(m[i].to) /\ Len(m[i].to) <= M + Len(m[i].to)
              /\ M + Len(m[i].to) \in Nat
          BY <1>4a, <4>1
        <4> QED
          BY <4>2
      <3>2. CASE m[i].kind # "Link"
        BY <3>2
      <3> QED
        BY <3>1, <3>2
    <2>3. PICK N \in Nat : M <= N /\ (m[i].kind = "Link" => Len(m[i].to) <= N)
      BY <2>2
    <2>4. Upto(i, N)
      <3> SUFFICES ASSUME NEW j \in DOMAIN m, j <= i, m[j].kind = "Link"
                   PROVE  Len(m[j].to) <= N
        OBVIOUS
      <3>1. CASE j = i
        BY <2>3, <3>1
      <3>2. CASE j # i
        <4>1. j <= Len(m) - k
          BY <1>1, <1>4, <3>2
        <4>2. Len(m[j].to) <= M /\ Len(m[j].to) \in Nat
          BY <1>4a, <4>1, LinkShape, LenProperties
        <4> QED
          BY <2>3, <4>2
      <3> QED
        BY <3>1, <3>2
    <2>5. \E N1 \in Nat : Upto(Len(m) - (k - 1), N1)
      BY <2>1, <2>3, <2>4
    <2>6. k - 1 \in T
      BY <2>1, <2>5
    <2>7. k <= k - 1
      <3> HIDE DEF T
      <3> QED
        BY <1>3, <2>6
    <2> QED
      BY <1>4, <2>7
  <1>6. Len(m) - k = Len(m)
    <2>1. k = 0
      BY <1>5
    <2> QED
      BY <1>1, <2>1
  <1>7. \A i \in DOMAIN m : i <= Len(m)
    BY <1>1
  <1> QED
    BY <1>4a, <1>6, <1>7

\* A walk ends: what is true where it stops and is passed on to where it came
\* from is true everywhere.
LEMMA WalkInduction ==
  ASSUME NEW m, IsFileSystem(m), NEW S,
         \A a \in Places(m) : (Goes(m, a) => Onward(m, a) \in S) => a \in S
  PROVE  Places(m) \subseteq S
  <1>1. PICK M \in Nat : \A i \in DOMAIN m : m[i].kind = "Link" => Len(m[i].to) <= M
    BY LinksBounded
  <1> DEFINE Size(a) == a.links * (M + 1) + Len(a.rest)
             Far == Places(m) \ S
             T == {Size(a) : a \in Far}
  <1>2. \A n \in Nat : n * (M + 1) \in Nat
    BY <1>1
  <1>3. ASSUME NEW a \in Places(m) PROVE Size(a) \in Nat /\ a.links \in Nat /\ Len(a.rest) \in Nat
    <2>1. a.rest \in Seq(Names) /\ a.links \in Nat
      BY RealVfsAssumption DEF Places
    <2>2. Len(a.rest) \in Nat /\ a.links * (M + 1) \in Nat
      BY <1>2, <2>1, LenProperties
    <2> QED
      BY <2>1, <2>2
  <1>4. SUFFICES ASSUME Far # {} PROVE FALSE
    OBVIOUS
  <1>5. PICK x \in T : \A y \in T : x <= y
    <2>1. T \subseteq Nat /\ T # {}
      BY <1>3, <1>4
    <2> HIDE DEF T
    <2> QED
      BY <2>1, Least
  <1>6. PICK a \in Far : x = Size(a)
    BY <1>5
  <1>7. Goes(m, a) /\ Onward(m, a) \notin S
    BY <1>6
  <1>8. /\ Onward(m, a) \in Places(m) /\ Entry(m, a) \in DOMAIN m
        /\ a.rest \in Seq(Names) /\ Tail(a.rest) \in Seq(Names)
        /\ Len(Tail(a.rest)) = Len(a.rest) - 1
    BY <1>6, <1>7, OnwardType
  <1>9. Size(Onward(m, a)) < Size(a)
    <2>0. a.links \in Nat /\ Len(a.rest) \in Nat /\ Len(Tail(a.rest)) \in Nat
      BY <1>3, <1>6, <1>8, LenProperties
    <2>1. CASE m[Entry(m, a)].kind = "Link"
      <3> DEFINE to == m[Entry(m, a)].to
      <3>1. to \in Seq(Names) /\ Len(to) \in Nat /\ Len(to) <= M
        BY <1>1, <1>8, <2>1, LinkShape, LenProperties
      <3>2. Len(to \o Tail(a.rest)) = Len(to) + Len(a.rest) - 1
        <4>1. Len(to \o Tail(a.rest)) = Len(to) + Len(Tail(a.rest))
          BY <1>8, <3>1, ConcatProperties
        <4> QED
          BY <1>8, <2>0, <3>1, <4>1
      <3>3. a.links # 0
        BY <1>7, <2>1 DEF Goes
      <3>4. Onward(m, a).rest = to \o Tail(a.rest) /\ Onward(m, a).links = a.links - 1
        BY <2>1 DEF Onward
      <3>5. \A n, k, l \in Nat : n # 0 /\ l <= M =>
               (n - 1) * (M + 1) + (l + k - 1) < n * (M + 1) + k
        <4>1. \A n \in Nat : (n - 1) * (M + 1) = n * (M + 1) - (M + 1)
          BY <1>1
        <4> QED
          BY <1>1, <1>2, <4>1
      <3> HIDE DEF to
      <3> QED
        BY <2>0, <3>1, <3>2, <3>3, <3>4, <3>5
    <2>2. CASE m[Entry(m, a)].kind # "Link"
      <3>1. Onward(m, a).rest = Tail(a.rest) /\ Onward(m, a).links = a.links
        BY <2>2 DEF Onward
      <3>2. a.links * (M + 1) \in Nat
        BY <1>2, <2>0
      <3> QED
        BY <1>8, <2>0, <3>1, <3>2
    <2> QED
      BY <2>1, <2>2
  <1>10. Size(Onward(m, a)) \in T
    BY <1>7, <1>8
  <1>11. Size(Onward(m, a)) \in Nat /\ Size(a) \in Nat
    BY <1>3, <1>6, <1>8
  <1>12. x <= Size(Onward(m, a))
    BY <1>5, <1>10
  <1> HIDE DEF Size, T
  <1> QED
    BY <1>6, <1>9, <1>11, <1>12

\* A walk known for some places, and from them to where it ends.
Partial(m, f) ==
  /\ DOMAIN f \subseteq Places(m)
  /\ \A a \in DOMAIN f : Goes(m, a) => Onward(m, a) \in DOMAIN f
  /\ \A a \in DOMAIN f : f[a] = IF Goes(m, a) THEN f[Onward(m, a)] ELSE Stop(m, a)

\* It is known for every place.
LEMMA PartialExists ==
  ASSUME NEW m, IsFileSystem(m), NEW a \in Places(m)
  PROVE  \E f : Partial(m, f) /\ a \in DOMAIN f
  <1> DEFINE S == {b \in Places(m) : \E f : Partial(m, f) /\ b \in DOMAIN f}
  <1>1. ASSUME NEW b \in Places(m), Goes(m, b) => Onward(m, b) \in S
        PROVE  b \in S
    <2>1. CASE Goes(m, b)
      <3>1. PICK f : Partial(m, f) /\ Onward(m, b) \in DOMAIN f
        BY <1>1, <2>1
      <3> DEFINE g == [c \in (DOMAIN f) \cup {b} |->
                         IF c \in DOMAIN f THEN f[c] ELSE f[Onward(m, b)]]
      <3>2. Partial(m, g)
        BY <3>1, <2>1 DEF Partial
      <3> QED
        BY <3>2
    <2>2. CASE ~Goes(m, b)
      <3> DEFINE g == [c \in {b} |-> Stop(m, b)]
      <3>1. Partial(m, g)
        BY <2>2 DEF Partial
      <3> QED
        BY <3>1
    <2> QED
      BY <2>1, <2>2
  <1> QED
    <2>1. Places(m) \subseteq S
      <3> HIDE DEF S
      <3> QED
        BY <1>1, WalkInduction
    <2> QED
      BY <2>1

\* What is known of two walks is the same.
LEMMA PartialAgree ==
  ASSUME NEW m, IsFileSystem(m), NEW f, Partial(m, f), NEW g, Partial(m, g),
         NEW a \in DOMAIN f, a \in DOMAIN g
  PROVE  f[a] = g[a]
  <1> DEFINE S == {b \in Places(m) : b \in DOMAIN f /\ b \in DOMAIN g => f[b] = g[b]}
  <1>1. ASSUME NEW b \in Places(m), Goes(m, b) => Onward(m, b) \in S
        PROVE  b \in S
    BY <1>1 DEF Partial
  <1> QED
    <2>1. Places(m) \subseteq S
      <3> HIDE DEF S
      <3> QED
        BY <1>1, WalkInduction
    <2>2. a \in Places(m)
      BY DEF Partial
    <2> QED
      BY <2>1, <2>2

\* There is a walk from everywhere.
LEMMA WalkExists ==
  ASSUME NEW m, IsFileSystem(m)
  PROVE  \E f : f = [a \in Places(m) |-> IF Goes(m, a) THEN f[Onward(m, a)] ELSE Stop(m, a)]
  <1> DEFINE F(a) == CHOOSE f : Partial(m, f) /\ a \in DOMAIN f
             g == [a \in Places(m) |-> F(a)[a]]
  <1>1. ASSUME NEW a \in Places(m) PROVE Partial(m, F(a)) /\ a \in DOMAIN F(a)
    BY PartialExists
  <1> HIDE DEF F
  <1>2. ASSUME NEW a \in Places(m)
        PROVE  g[a] = IF Goes(m, a) THEN g[Onward(m, a)] ELSE Stop(m, a)
    <2>1. CASE Goes(m, a)
      <3>1. Onward(m, a) \in DOMAIN F(a) /\ F(a)[a] = F(a)[Onward(m, a)]
        BY <1>1, <2>1 DEF Partial
      <3>2. Onward(m, a) \in Places(m)
        BY <2>1, OnwardType
      <3>3. /\ Partial(m, F(Onward(m, a))) /\ Partial(m, F(a))
            /\ Onward(m, a) \in DOMAIN F(Onward(m, a))
        BY <1>1, <3>2
      <3>4. F(a)[Onward(m, a)] = F(Onward(m, a))[Onward(m, a)]
        BY <3>1, <3>3, PartialAgree
      <3> QED
        BY <2>1, <3>1, <3>2, <3>4
    <2>2. CASE ~Goes(m, a)
      BY <1>1, <2>2 DEF Partial
    <2> QED
      BY <2>1, <2>2
  <1>3. g = [a \in Places(m) |-> IF Goes(m, a) THEN g[Onward(m, a)] ELSE Stop(m, a)]
    BY <1>2
  <1> QED
    BY <1>3

\* The walk on the nodes m.
WalkOn(m) ==
  CHOOSE f : f = [a \in Places(m) |-> IF Goes(m, a) THEN f[Onward(m, a)] ELSE Stop(m, a)]

\* It goes on, or stops.
LEMMA WalkSteps ==
  ASSUME NEW m, IsFileSystem(m), NEW a \in Places(m)
  PROVE  WalkOn(m)[a] = IF Goes(m, a) THEN WalkOn(m)[Onward(m, a)] ELSE Stop(m, a)
  <1>1. WalkOn(m) = [b \in Places(m) |-> IF Goes(m, b) THEN WalkOn(m)[Onward(m, b)]
                                          ELSE Stop(m, b)]
    BY WalkExists DEF WalkOn
  <1> QED
    BY <1>1

\* It is the one of Lookup.
LEMMA WalkIs == Walk = WalkOn(nodes)
  <1> DEFINE Body(f, a) ==
        IF a.rest = <<>> THEN [error |-> "", node |-> a.at]
        ELSE IF nodes[a.at].kind # "Dir" THEN [error |-> "NotADirectory", rest |-> a.rest]
        ELSE IF nodes[a.at].entries[Head(a.rest)] = NoEntry
        THEN [error |-> "NotFound", dir |-> a.at, rest |-> a.rest]
        ELSE IF nodes[nodes[a.at].entries[Head(a.rest)]].kind # "Link"
        THEN f[[at |-> nodes[a.at].entries[Head(a.rest)], rest |-> Tail(a.rest),
                links |-> a.links]]
        ELSE IF a.links = 0 THEN [error |-> "FilesystemLoop", rest |-> a.rest]
        ELSE f[[at |-> Root, links |-> a.links - 1,
                rest |-> nodes[nodes[a.at].entries[Head(a.rest)]].to \o Tail(a.rest)]]
  <1>1. Walk = CHOOSE f : f = [a \in Places(nodes) |-> Body(f, a)]
    BY DEF Walk, Places
  <1>2. ASSUME NEW f, NEW a
        PROVE  Body(f, a) = IF Goes(nodes, a) THEN f[Onward(nodes, a)] ELSE Stop(nodes, a)
    BY DEF Goes, Onward, Stop, Entry
  <1> HIDE DEF Body
  <1>3. ASSUME NEW f
        PROVE  [a \in Places(nodes) |-> Body(f, a)]
                 = [a \in Places(nodes) |->
                      IF Goes(nodes, a) THEN f[Onward(nodes, a)] ELSE Stop(nodes, a)]
    BY <1>2
  <1> DEFINE Other(f) == [a \in Places(nodes) |->
                      IF Goes(nodes, a) THEN f[Onward(nodes, a)] ELSE Stop(nodes, a)]
             This(f) == [a \in Places(nodes) |-> Body(f, a)]
  <1>4. Walk = CHOOSE f : f = This(f)
    BY <1>1
  <1>5. WalkOn(nodes) = CHOOSE f : f = Other(f)
    BY DEF WalkOn
  <1>6. \A f : This(f) = Other(f)
    BY <1>3
  <1> HIDE DEF This, Other
  <1> QED
    BY <1>4, <1>5, <1>6

\* What a walk returns.
Result(m) ==
  [error : {""}, node : DOMAIN m]
    \cup [error : {"NotADirectory", "FilesystemLoop"}, rest : Seq(Names)]
    \cup {r \in [error : {"NotFound"}, dir : DOMAIN m, rest : Seq(Names) \ {<<>>}] :
            m[r.dir].kind = "Dir" /\ m[r.dir].entries[Head(r.rest)] = NoEntry}

\* It returns a node, or an error with the names that were not found.
LEMMA WalkType ==
  ASSUME NEW m, IsFileSystem(m), NEW a \in Places(m)
  PROVE  WalkOn(m)[a] \in Result(m)
  <1> DEFINE S == {b \in Places(m) : WalkOn(m)[b] \in Result(m)}
  <1>1. ASSUME NEW b \in Places(m), Goes(m, b) => Onward(m, b) \in S
        PROVE  b \in S
    <2>1. CASE Goes(m, b)
      BY <1>1, <2>1, WalkSteps
    <2>2. CASE ~Goes(m, b)
      <3>1. b.at \in DOMAIN m /\ b.rest \in Seq(Names)
        BY DEF Places
      <3>2. Stop(m, b) \in Result(m)
        BY <3>1 DEF Stop, Result, Entry
      <3> QED
        BY <2>2, <3>2, WalkSteps
    <2> QED
      BY <2>1, <2>2
  <1>2. Places(m) \subseteq S
    <2> HIDE DEF S
    <2> QED
      BY <1>1, WalkInduction
  <1> QED
    BY <1>2

\* So does Lookup.
LEMMA LookupType ==
  ASSUME IsFileSystem(nodes), NEW path \in Seq(Names)
  PROVE  /\ Lookup(path) \in Result(nodes)
         /\ \A kind : Leads(path, kind) =>
              Lookup(path).node \in DOMAIN nodes /\ nodes[Lookup(path).node].kind = kind
  <1> DEFINE a == [at |-> Root, rest |-> path, links |-> MaxLinks]
  <1>1. a \in Places(nodes)
    BY RootThere, RealVfsAssumption DEF Places
  <1>2. Lookup(path) = WalkOn(nodes)[a]
    BY WalkIs DEF Lookup
  <1>3. Lookup(path) \in Result(nodes)
    BY <1>1, <1>2, WalkType
  <1>4. Lookup(path).error = "" => Lookup(path).node \in DOMAIN nodes
    BY <1>3 DEF Result
  <1> QED
    BY <1>3, <1>4 DEF Leads

\* The same place, with one more name to come.
Further(a, x) == [at |-> a.at, rest |-> Append(a.rest, x), links |-> a.links]

\* A sequence before one with another element.
LEMMA AppendAfter ==
  ASSUME NEW s \in Seq(Names), NEW t \in Seq(Names), NEW x \in Names
  PROVE  s \o Append(t, x) = Append(s \o t, x)
  <1>1. <<x>> \in Seq(Names) /\ s \o t \in Seq(Names)
    BY ConcatProperties
  <1>2. Append(t, x) = t \o <<x>>
    BY AppendIsConcat
  <1>3. Append(s \o t, x) = (s \o t) \o <<x>>
    BY <1>1, AppendIsConcat
  <1>4. s \o (t \o <<x>>) = (s \o t) \o <<x>>
    BY <1>1, ConcatAssociative
  <1> QED
    BY <1>2, <1>3, <1>4

\* It is a place.
LEMMA FurtherType ==
  ASSUME NEW m, NEW a \in Places(m), NEW x \in Names
  PROVE  Further(a, x) \in Places(m)
  <1>1. a.at \in DOMAIN m /\ a.rest \in Seq(Names) /\ a.links \in 0 .. MaxLinks
    BY DEF Places
  <1>2. Append(a.rest, x) \in Seq(Names)
    BY <1>1, AppendProperties
  <1> QED
    BY <1>1, <1>2 DEF Further, Places

\* A longer path goes the same way.
LEMMA FurtherGoes ==
  ASSUME NEW m, IsFileSystem(m), NEW a \in Places(m), Goes(m, a), NEW x \in Names
  PROVE  Goes(m, Further(a, x)) /\ Onward(m, Further(a, x)) = Further(Onward(m, a), x)
  <1> DEFINE b == Further(a, x)
  <1>1. /\ a.rest \in Seq(Names) /\ a.rest # <<>> /\ Tail(a.rest) \in Seq(Names)
        /\ Entry(m, a) \in DOMAIN m
    BY OnwardType DEF Goes
  <1>2. b.at = a.at /\ b.rest = Append(a.rest, x) /\ b.links = a.links
    BY DEF Further
  <1> HIDE DEF b
  <1>3. /\ b.rest # <<>> /\ Head(b.rest) = Head(a.rest)
        /\ Tail(b.rest) = Append(Tail(a.rest), x)
    <2>1. Append(a.rest, x) # <<>>
      BY <1>1, AppendProperties
    <2>2. /\ Head(Append(a.rest, x)) = Head(a.rest)
          /\ Tail(Append(a.rest, x)) = Append(Tail(a.rest), x)
      BY <1>1, HeadTailAppend
    <2> QED
      BY <1>2, <2>1, <2>2
  <1>4. Entry(m, b) = Entry(m, a)
    BY <1>2, <1>3 DEF Entry
  <1>5. Goes(m, b)
    BY <1>2, <1>3, <1>4 DEF Goes
  <1>6. Onward(m, b) = Further(Onward(m, a), x)
    <2>1. CASE m[Entry(m, a)].kind = "Link"
      <3> DEFINE to == m[Entry(m, a)].to
      <3>1. to \in Seq(Names)
        BY <1>1, <2>1, LinkShape
      <3>2. to \o Append(Tail(a.rest), x) = Append(to \o Tail(a.rest), x)
        <4> DEFINE rest == Tail(a.rest)
        <4>1. rest \in Seq(Names) /\ to \in Seq(Names)
          BY <1>1, <3>1
        <4> HIDE DEF to, rest
        <4>2. to \o Append(rest, x) = Append(to \o rest, x)
          BY <4>1, AppendAfter
        <4> QED
          BY <4>2 DEF rest
      <3> QED
        BY <1>2, <1>3, <1>4, <2>1, <3>2 DEF Onward, Further
    <2>2. CASE m[Entry(m, a)].kind # "Link"
      BY <1>2, <1>3, <1>4, <2>2 DEF Onward, Further
    <2> QED
      BY <2>1, <2>2
  <1> QED
    BY <1>5, <1>6 DEF b

\* The last name of a path, in the directory the rest of the path leads to.
LastName(d, x, l) == [at |-> d, rest |-> <<x>>, links |-> l]

\* The walk from a place ends at the node d.
EndsAt(m, a, d) == WalkOn(m)[a] = [error |-> "", node |-> d]

\* A path with one more name leads where that name leads from its end.
LEMMA FurtherWalk ==
  ASSUME NEW m, IsFileSystem(m), NEW a \in Places(m), NEW x \in Names,
         NEW d, EndsAt(m, a, d)
  PROVE  \E l \in 0 .. MaxLinks :
           WalkOn(m)[Further(a, x)] = WalkOn(m)[LastName(d, x, l)]
  <1> DEFINE Same(b) == \E l \in 0 .. MaxLinks :
               WalkOn(m)[Further(b, x)] = WalkOn(m)[LastName(d, x, l)]
             S == {b \in Places(m) : EndsAt(m, b, d) => Same(b)}
  <1>1. ASSUME NEW b \in Places(m), Goes(m, b) => Onward(m, b) \in S
        PROVE  b \in S
    <2> SUFFICES ASSUME EndsAt(m, b, d) PROVE Same(b)
      BY <1>1
    <2>1. CASE Goes(m, b)
      <3>1. WalkOn(m)[b] = WalkOn(m)[Onward(m, b)]
        BY <2>1, WalkSteps
      <3>2. Same(Onward(m, b))
        BY <1>1, <2>1, <3>1 DEF EndsAt
      <3>3. /\ Goes(m, Further(b, x)) /\ Onward(m, Further(b, x)) = Further(Onward(m, b), x)
            /\ Further(b, x) \in Places(m)
        BY <2>1, FurtherGoes, FurtherType
      <3>4. WalkOn(m)[Further(b, x)] = WalkOn(m)[Further(Onward(m, b), x)]
        BY <3>3, WalkSteps
      <3> QED
        BY <3>2, <3>4
    <2>2. CASE ~Goes(m, b)
      <3>1. Stop(m, b) = [error |-> "", node |-> d]
        BY <2>2, WalkSteps DEF EndsAt
      <3>2. b.rest = <<>> /\ b.at = d
        BY <3>1 DEF Stop
      <3>3. Further(b, x) = LastName(d, x, b.links)
        <4>1. Append(<<>>, x) = <<x>>
          OBVIOUS
        <4> QED
          BY <3>2, <4>1 DEF Further, LastName
      <3>4. b.links \in 0 .. MaxLinks
        BY DEF Places
      <3> QED
        BY <3>3, <3>4
    <2> QED
      BY <2>1, <2>2
  <1>2. Places(m) \subseteq S
    <2> HIDE DEF S
    <2> QED
      BY <1>1, WalkInduction
  <1> QED
    BY <1>2

\* What a name in a directory leads to.
LEMMA EntryWalk ==
  ASSUME NEW m, IsFileSystem(m), NEW d \in DOMAIN m, m[d].kind = "Dir", NEW x \in Names,
         NEW l \in 0 .. MaxLinks
  PROVE  /\ m[d].entries[x] = NoEntry =>
              WalkOn(m)[LastName(d, x, l)] = [error |-> "NotFound", dir |-> d, rest |-> <<x>>]
         /\ m[d].entries[x] # NoEntry /\ m[m[d].entries[x]].kind # "Link" =>
              EndsAt(m, LastName(d, x, l), m[d].entries[x])
  <1> DEFINE a == LastName(d, x, l)
             i == m[d].entries[x]
             b == [at |-> i, rest |-> <<>>, links |-> l]
  <1>1. <<x>> \in Seq(Names) /\ <<x>> # <<>> /\ Head(<<x>>) = x /\ Tail(<<x>>) = <<>>
    OBVIOUS
  <1>2. a \in Places(m)
    BY <1>1 DEF Places, LastName
  <1>3. Entry(m, a) = i
    BY <1>1 DEF Entry, LastName
  <1>4. CASE i = NoEntry
    <2>1. /\ ~Goes(m, a)
          /\ Stop(m, a) = [error |-> "NotFound", dir |-> d, rest |-> <<x>>]
      BY <1>1, <1>3, <1>4 DEF Goes, Stop, LastName
    <2>2. WalkOn(m)[a] = Stop(m, a)
      BY <1>2, <2>1, WalkSteps
    <2> QED
      BY <1>4, <2>1, <2>2
  <1>5. CASE i # NoEntry /\ m[i].kind # "Link"
    <2>1. Goes(m, a) /\ Onward(m, a) = b
      BY <1>1, <1>3, <1>5 DEF Goes, Onward, LastName
    <2>2. b \in Places(m)
      BY <1>2, <2>1, OnwardType
    <2>3. ~Goes(m, b) /\ Stop(m, b) = [error |-> "", node |-> i]
      BY DEF Goes, Stop
    <2>4. WalkOn(m)[a] = WalkOn(m)[b] /\ WalkOn(m)[b] = Stop(m, b)
      BY <1>2, <2>1, <2>2, <2>3, WalkSteps
    <2> QED
      BY <1>5, <2>3, <2>4 DEF EndsAt
  <1> QED
    BY <1>4, <1>5

\* Where the walk of a path begins.
Start(path) == [at |-> Root, rest |-> path, links |-> MaxLinks]

\* It is a place.
LEMMA StartType ==
  ASSUME NEW m, IsFileSystem(m), NEW path \in Seq(Names)
  PROVE  Start(path) \in Places(m)
  <1>1. Root \in DOMAIN m
    BY RootThere
  <1>2. MaxLinks \in 0 .. MaxLinks
    BY RealVfsAssumption
  <1> QED
    BY <1>1, <1>2 DEF Places, Start

\* A name in the directory a path leads to is found by the path with that name,
\* unless it is a link.
LEMMA PathEntry ==
  ASSUME NEW m, IsFileSystem(m), NEW path \in Seq(Names), NEW x \in Names,
         NEW d \in DOMAIN m, m[d].kind = "Dir", EndsAt(m, Start(path), d)
  PROVE  /\ m[d].entries[x] = NoEntry =>
              WalkOn(m)[Start(Append(path, x))]
                = [error |-> "NotFound", dir |-> d, rest |-> <<x>>]
         /\ m[d].entries[x] # NoEntry /\ m[m[d].entries[x]].kind # "Link" =>
              EndsAt(m, Start(Append(path, x)), m[d].entries[x])
  <1> DEFINE a == Start(path)
  <1>1. a \in Places(m)
    BY StartType
  <1>2. EndsAt(m, a, d)
    OBVIOUS
  <1>3. Start(Append(path, x)) = Further(a, x)
    BY DEF Start, Further
  <1> HIDE DEF a
  <1>4. PICK l \in 0 .. MaxLinks :
          WalkOn(m)[Further(a, x)] = WalkOn(m)[LastName(d, x, l)]
    BY <1>1, <1>2, FurtherWalk
  <1>5. /\ m[d].entries[x] = NoEntry =>
             WalkOn(m)[LastName(d, x, l)] = [error |-> "NotFound", dir |-> d, rest |-> <<x>>]
        /\ m[d].entries[x] # NoEntry /\ m[m[d].entries[x]].kind # "Link" =>
             EndsAt(m, LastName(d, x, l), m[d].entries[x])
    BY EntryWalk
  <1>6. WalkOn(m)[Start(Append(path, x))] = WalkOn(m)[LastName(d, x, l)]
    BY <1>3, <1>4
  <1>7. \A e : EndsAt(m, LastName(d, x, l), e) => EndsAt(m, Start(Append(path, x)), e)
    BY <1>6 DEF EndsAt
  <1> QED
    BY <1>5, <1>6, <1>7

\* What Leads says, of the nodes m.
LeadsIn(m, path, kind) ==
  \E d \in DOMAIN m : EndsAt(m, Start(path), d) /\ m[d].kind = kind

\* It says the same.
LEMMA LeadsIs ==
  ASSUME IsFileSystem(nodes), NEW path \in Seq(Names)
  PROVE  /\ Lookup(path) = WalkOn(nodes)[Start(path)]
         /\ \A kind : Leads(path, kind) <=> LeadsIn(nodes, path, kind)
         /\ \A d : EndsAt(nodes, Start(path), d) => Lookup(path).error = "" /\ Lookup(path).node = d
  <1>1. Lookup(path) = WalkOn(nodes)[Start(path)]
    BY WalkIs DEF Lookup, Start
  <1>2. Lookup(path) \in Result(nodes)
    BY LookupType
  <1>3. \A d : EndsAt(nodes, Start(path), d) =>
                Lookup(path).error = "" /\ Lookup(path).node = d
    <2>1. \A d : [error |-> "", node |-> d].error = "" /\ [error |-> "", node |-> d].node = d
      OBVIOUS
    <2> QED
      BY <1>1, <2>1, Zenon DEF EndsAt
  <1>4. Lookup(path).error = "" =>
          Lookup(path).node \in DOMAIN nodes /\ EndsAt(nodes, Start(path), Lookup(path).node)
    BY <1>1, <1>2 DEF Result, EndsAt
  <1>5. ASSUME NEW kind PROVE Leads(path, kind) <=> LeadsIn(nodes, path, kind)
    BY <1>3, <1>4 DEF Leads, LeadsIn
  <1> QED
    BY <1>1, <1>3, <1>5

\* A walk that ends somewhere ends there as long as nothing on its way is lost.
LEMMA KeepsWalk ==
  ASSUME NEW m, IsFileSystem(m), NEW n, IsFileSystem(n), Keeps(m, n),
         NEW d, NEW a \in Places(m), EndsAt(m, a, d)
  PROVE  EndsAt(n, a, d)
  <1> DEFINE S == {b \in Places(m) : EndsAt(m, b, d) => EndsAt(n, b, d)}
  <1>1. ASSUME NEW b \in Places(m) PROVE b \in Places(n) /\ b.at \in DOMAIN m /\ b.at \in DOMAIN n
    BY DEF Places, Keeps, Grown
  <1>2. ASSUME NEW b \in Places(m), Goes(m, b) => Onward(m, b) \in S
        PROVE  b \in S
    <2> SUFFICES ASSUME EndsAt(m, b, d) PROVE EndsAt(n, b, d)
      BY <1>2
    <2>1. CASE Goes(m, b)
      <3>1. Onward(m, b) \in Places(m) /\ Entry(m, b) \in DOMAIN m /\ Head(b.rest) \in Names
        BY <2>1, OnwardType
      <3>2. Entry(n, b) = Entry(m, b)
        BY <1>1, <2>1, <3>1 DEF Goes, Keeps, Entry
      <3>3. n[Entry(m, b)].kind = m[Entry(m, b)].kind /\ n[b.at].kind = m[b.at].kind
            /\ (m[Entry(m, b)].kind = "Link" => n[Entry(m, b)].to = m[Entry(m, b)].to)
        BY <1>1, <3>1 DEF Keeps, Grown
      <3>4. Goes(n, b)
        BY <2>1, <3>2, <3>3 DEF Goes
      <3>5. Onward(n, b) = Onward(m, b)
        BY <3>2, <3>3 DEF Onward
      <3>6. WalkOn(m)[b] = WalkOn(m)[Onward(m, b)] /\ WalkOn(n)[b] = WalkOn(n)[Onward(m, b)]
        BY <1>1, <2>1, <3>4, <3>5, WalkSteps
      <3>7. EndsAt(n, Onward(m, b), d)
        BY <1>2, <2>1, <3>6 DEF EndsAt
      <3> QED
        BY <3>6, <3>7 DEF EndsAt
    <2>2. CASE ~Goes(m, b)
      <3>1. Stop(m, b) = [error |-> "", node |-> d]
        BY <2>2, WalkSteps DEF EndsAt
      <3>2. b.rest = <<>> /\ b.at = d
        BY <3>1 DEF Stop
      <3>3. ~Goes(n, b) /\ Stop(n, b) = [error |-> "", node |-> d]
        BY <3>2 DEF Goes, Stop
      <3> QED
        BY <1>1, <3>3, WalkSteps DEF EndsAt
    <2> QED
      BY <2>1, <2>2
  <1>3. Places(m) \subseteq S
    <2> HIDE DEF S
    <2> QED
      BY <1>2, WalkInduction
  <1> QED
    BY <1>3

-----------------------------------------------------------------------------
(* Changes of the file system.                                             *)

\* The number of the next node, and the nodes with it.
NewNode(m) == Len(m) + 1
Appended(m, node) == Append(m, node)

\* A new node disturbs no other.
LEMMA NodeAppended ==
  ASSUME NEW m \in Seq(Node), NEW node \in Node
  PROVE  /\ NewNode(m) \in Nat /\ NewNode(m) # NoEntry /\ NewNode(m) \notin DOMAIN m
         /\ Appended(m, node) \in Seq(Node) \ {<<>>}
         /\ DOMAIN Appended(m, node) = (DOMAIN m) \cup {NewNode(m)}
         /\ Appended(m, node)[NewNode(m)] = node
         /\ \A j \in DOMAIN m : Appended(m, node)[j] = m[j]
  <1> DEFINE n == Append(m, node)
  <1>1. Len(m) \in Nat /\ DOMAIN m = 1 .. Len(m)
    BY LenProperties
  <1>2. /\ n \in Seq(Node) /\ n # <<>> /\ Len(n) = Len(m) + 1 /\ n[Len(m) + 1] = node
        /\ \A j \in 1 .. Len(m) : n[j] = m[j]
    BY AppendProperties
  <1>3. DOMAIN n = 1 .. Len(m) + 1
    BY <1>2, LenProperties
  <1> HIDE DEF n
  <1>4. DOMAIN n = (DOMAIN m) \cup {NewNode(m)}
    BY <1>1, <1>3 DEF NewNode
  <1>5. NewNode(m) \in Nat /\ NewNode(m) # NoEntry /\ NewNode(m) \notin DOMAIN m
    BY <1>1 DEF NewNode, NoEntry
  <1>6. n[NewNode(m)] = node
    BY <1>2 DEF NewNode
  <1>7. n = Appended(m, node)
    BY DEF n, Appended
  <1> QED
    BY <1>1, <1>2, <1>4, <1>5, <1>6, <1>7

\* A new node is entered into a directory.
Entered(m, d, x, node) == Appended(Replaced(m, d, x, NewNode(m)), node)

\* The nodes with the new one are a tree again.
LEMMA EnteredShape ==
  ASSUME NEW m, IsFileSystem(m), NEW d \in DOMAIN m, m[d].kind = "Dir", NEW x \in Names,
         NEW node \in Node, node.kind = "Dir" => \A y \in Names : node.entries[y] = NoEntry
  PROVE  /\ IsFileSystem(Entered(m, d, x, node)) /\ Grown(m, Entered(m, d, x, node))
         /\ DOMAIN Entered(m, d, x, node) = (DOMAIN m) \cup {NewNode(m)}
         /\ NewNode(m) \notin DOMAIN m
         /\ Entered(m, d, x, node)[NewNode(m)] = node
         /\ \A j \in DOMAIN m : j # d => Entered(m, d, x, node)[j] = m[j]
         /\ \A y \in Names : Entered(m, d, x, node)[d].entries[y] =
                              IF y = x THEN NewNode(m) ELSE m[d].entries[y]
  <1> DEFINE i == NewNode(m)
             k == Replaced(m, d, x, i)
             n == Entered(m, d, x, node)
  <1>1. m \in Seq(Node)
    BY DEF IsFileSystem
  <1>2. i \in Nat /\ i # NoEntry /\ i \notin DOMAIN m
    BY <1>1, NodeAppended
  <1>3. /\ k \in Seq(Node) /\ Grown(m, k) /\ DOMAIN k = DOMAIN m /\ Len(k) = Len(m)
        /\ k[d].entries = [m[d].entries EXCEPT ![x] = i]
        /\ \A j \in DOMAIN m : j # d => k[j] = m[j]
    BY <1>1, <1>2, EntryReplaced
  <1>4. NewNode(k) = i
    BY <1>3 DEF NewNode
  <1>5. /\ n \in Seq(Node) \ {<<>>} /\ DOMAIN n = (DOMAIN m) \cup {i} /\ n[i] = node
        /\ \A j \in DOMAIN m : n[j] = k[j]
    <2>1. n = Appended(k, node)
      BY DEF Entered
    <2>2. k \in Seq(Node) /\ DOMAIN k = DOMAIN m
      BY <1>3
    <2> HIDE DEF k, n, i
    <2>3. /\ Appended(k, node) \in Seq(Node) \ {<<>>}
          /\ DOMAIN Appended(k, node) = (DOMAIN k) \cup {NewNode(k)}
          /\ Appended(k, node)[NewNode(k)] = node
          /\ \A j \in DOMAIN k : Appended(k, node)[j] = k[j]
      BY <2>2, NodeAppended
    <2> QED
      BY <1>4, <2>1, <2>2, <2>3
  <1>6. n = Entered(m, d, x, node)
    OBVIOUS
  <1>7. i = NewNode(m)
    OBVIOUS
  <1> HIDE DEF k, n, i
  <1>8. Grown(m, n)
    BY <1>3, <1>5 DEF Grown
  <1>9. \A y \in Names : /\ m[d].entries[y] \in {NoEntry} \cup DOMAIN m
                         /\ k[d].entries[y] = IF y = x THEN i ELSE m[d].entries[y]
    <2>1. m[d].entries \in [Names -> Nat]
      BY <1>1, ElementOfSeq, LenProperties, NodeShape
    <2>2. \A y \in Names : m[d].entries[y] \in {NoEntry} \cup DOMAIN m
      BY DEF IsFileSystem, Tree
    <2> QED
      BY <1>3, <2>1, <2>2
  <1>10. \A j \in DOMAIN n : n[j].kind = "Dir" =>
          \/ j = i /\ \A y \in Names : n[j].entries[y] = NoEntry
          \/ j = d /\ \A y \in Names : n[j].entries[y] = IF y = x THEN i ELSE m[j].entries[y]
          \/ j \in DOMAIN m /\ j # d /\ m[j].kind = "Dir"
               /\ \A y \in Names : n[j].entries[y] = m[j].entries[y]
    <2> SUFFICES ASSUME NEW j \in DOMAIN n, n[j].kind = "Dir"
                 PROVE  \/ j = i /\ \A y \in Names : n[j].entries[y] = NoEntry
                        \/ j = d /\ \A y \in Names : n[j].entries[y] =
                                         IF y = x THEN i ELSE m[j].entries[y]
                        \/ j \in DOMAIN m /\ j # d /\ m[j].kind = "Dir"
                             /\ \A y \in Names : n[j].entries[y] = m[j].entries[y]
      OBVIOUS
    <2>1. CASE j = i
      BY <1>5, <2>1
    <2>2. CASE j = d
      BY <1>5, <1>9, <2>2
    <2>3. CASE j \in DOMAIN m /\ j # d
      <3>1. n[j] = m[j]
        BY <1>3, <1>5, <2>3
      <3> QED
        BY <2>3, <3>1
    <2> QED
      BY <1>5, <2>1, <2>2, <2>3
  <1>11. \A j \in DOMAIN m : m[j].kind = "Dir" =>
           \A y \in Names : m[j].entries[y] \in {NoEntry} \cup DOMAIN m
    BY DEF IsFileSystem, Tree
  <1>12. Tree(n)
    <2> SUFFICES ASSUME NEW e \in DOMAIN n, n[e].kind = "Dir", NEW y \in Names
                 PROVE  /\ n[e].entries[y] \in {NoEntry} \cup DOMAIN n
                        /\ n[e].entries[y] # NoEntry =>
                             \A j \in DOMAIN n : n[j].kind = "Dir" => \A z \in Names :
                               n[j].entries[z] = n[e].entries[y] => j = e /\ z = y
      BY DEF Tree
    <2>1. n[e].entries[y] \in {NoEntry} \cup DOMAIN n
      BY <1>5, <1>10, <1>11
    <2>2. ASSUME n[e].entries[y] # NoEntry, NEW j \in DOMAIN n,
                 n[j].kind = "Dir", NEW z \in Names, n[j].entries[z] = n[e].entries[y]
          PROVE  j = e /\ z = y
      <3>1. e \in DOMAIN m /\ m[e].kind = "Dir" /\ j \in DOMAIN m /\ m[j].kind = "Dir"
        BY <1>10, <2>2
      <3>2. CASE n[e].entries[y] = i
        BY <1>2, <1>10, <1>11, <2>2, <3>1, <3>2
      <3>3. CASE n[e].entries[y] # i
        <4>1. n[e].entries[y] = m[e].entries[y] /\ n[j].entries[z] = m[j].entries[z]
          BY <1>2, <1>10, <1>11, <2>2, <3>1, <3>3
        <4> QED
          BY <2>2, <3>1, <4>1 DEF IsFileSystem, Tree
      <3> QED
        BY <3>2, <3>3
    <2> QED
      BY <2>1, <2>2
  <1>13. IsFileSystem(n)
    BY <1>5, <1>12 DEF IsFileSystem
  <1>14. \A y \in Names : n[d].entries[y] = IF y = x THEN NewNode(m) ELSE m[d].entries[y]
    BY <1>5, <1>7, <1>9
  <1> QED
    BY <1>2, <1>3, <1>5, <1>6, <1>7, <1>8, <1>13, <1>14

\* An entry is removed.
LEMMA RemoveShape ==
  ASSUME NEW m, IsFileSystem(m), NEW d \in DOMAIN m, m[d].kind = "Dir", NEW x \in Names,
         NEW n, n = Replaced(m, d, x, NoEntry)
  PROVE  /\ IsFileSystem(n) /\ Grown(m, n) /\ DOMAIN n = DOMAIN m
         /\ \A j \in DOMAIN m : j # d => n[j] = m[j]
  <1>1. Len(m) \in Nat /\ DOMAIN m = 1 .. Len(m) /\ m \in Seq(Node)
    BY LenProperties DEF IsFileSystem
  <1>2. /\ n \in Seq(Node) /\ Grown(m, n) /\ DOMAIN n = DOMAIN m /\ Len(n) = Len(m)
        /\ n[d].entries = [m[d].entries EXCEPT ![x] = NoEntry]
        /\ \A j \in DOMAIN m : j # d => n[j] = m[j]
    <2>1. NoEntry \in Nat
      BY DEF NoEntry
    <2> QED
      BY <1>1, <2>1, EntryReplaced
  <1>3. n # <<>>
    BY <1>1, <1>2
  <1>4. m[d].entries \in [Names -> Nat]
    BY <1>1, ElementOfSeq, NodeShape
  <1>5. \A j \in DOMAIN n : n[j].kind = "Dir" => \A y \in Names :
          /\ m[j].kind = "Dir"
          /\ n[j].entries[y] = m[j].entries[y] \/ n[j].entries[y] = NoEntry
    BY <1>1, <1>2, <1>4
  <1>6. Tree(n)
    <2> SUFFICES ASSUME NEW i \in DOMAIN n, n[i].kind = "Dir", NEW y \in Names
                 PROVE  /\ n[i].entries[y] \in {NoEntry} \cup DOMAIN n
                        /\ n[i].entries[y] # NoEntry =>
                             \A j \in DOMAIN n : n[j].kind = "Dir" => \A z \in Names :
                               n[j].entries[z] = n[i].entries[y] => j = i /\ z = y
      BY DEF Tree
    <2>1. m[i].entries[y] \in {NoEntry} \cup DOMAIN m /\ i \in DOMAIN m /\ m[i].kind = "Dir"
      BY <1>2, <1>5 DEF IsFileSystem, Tree
    <2>2. n[i].entries[y] \in {NoEntry} \cup DOMAIN n
      BY <1>2, <1>5, <2>1
    <2>3. ASSUME n[i].entries[y] # NoEntry, NEW j \in DOMAIN n, n[j].kind = "Dir",
                 NEW z \in Names, n[j].entries[z] = n[i].entries[y]
          PROVE  j = i /\ z = y
      <3>1. /\ j \in DOMAIN m /\ m[j].kind = "Dir"
            /\ n[i].entries[y] = m[i].entries[y] /\ n[j].entries[z] = m[j].entries[z]
        BY <1>2, <1>5, <2>3
      <3> QED
        BY <2>1, <2>3, <3>1 DEF IsFileSystem, Tree
    <2> QED
      BY <2>2, <2>3
  <1> QED
    BY <1>2, <1>3, <1>6 DEF IsFileSystem

-----------------------------------------------------------------------------
(* Type correctness.                                                       *)

\* The parts of the type invariant: a callback and a write_file on the nodes m.
CallbackOK(c, m) ==
  /\ c \in {Idle}
       \cup [op : {"read"}, node : DOMAIN m, got : Seq(Block)]
       \cup [op : {"list"}, path : Seq(Names), node : DOMAIN m, left : SUBSET Names,
             files : SUBSET Names, directories : SUBSET Names]
  /\ c.op = "read" => m[c.node].kind = "File"
  /\ c.op = "list" => m[c.node].kind = "Dir"

AnswerOK(a) ==
  a \in {None, Err}
       \cup [kind : {"Some"}, data : Seq(Block)]
       \cup [kind : {"Entries"}, files : SUBSET Names, directories : SUBSET Names]

WriteState ==
  {Idle} \cup [op : {"dirs", "write"}, path : Seq(Names), made : Nat,
               node : Nat, data : Contents, pos : Nat, since : 0 .. MaxChanges]

HandlesOK(wr, m) ==
  \A w \in Writers : wr[w].op = "write" =>
    wr[w].node \in DOMAIN m /\ m[wr[w].node].kind = "File"

WritersOK ==
  /\ writing \in [Writers -> WriteState] /\ HandlesOK(writing, nodes)
  /\ mixed \subseteq DOMAIN nodes
  /\ writes \in 0 .. MaxWrites /\ changes \in 0 .. MaxChanges

\* Type correctness, in parts.
LEMMA TypeParts ==
  TypeOK <=> IsFileSystem(nodes) /\ CallbackOK(callback, nodes) /\ AnswerOK(answer) /\ WritersOK
  BY DEF TypeOK, IsFileSystem, CallbackOK, AnswerOK, WritersOK, HandlesOK, WriteState, OpenNodes

\* Contents are sequences of blocks.
LEMMA ContentsType ==
  \A data \in Contents : data \in Seq(Block) /\ Len(data) \in Nat /\ data # <<>>
  <1> SUFFICES ASSUME NEW w \in 0 .. MaxWrites, NEW l \in 1 .. MaxBlocks
               PROVE  /\ Content(w, l) \in Seq(Block) /\ Len(Content(w, l)) \in Nat
                      /\ Content(w, l) # <<>>
    BY DEF Contents
  <1>1. l \in Nat /\ l > 0
    BY RealVfsAssumption
  <1>2. Content(w, l) \in Seq(Block)
    <2>1. \A i \in 1 .. l : [of |-> w, last |-> i = l] \in Block
      BY DEF Block
    <2> QED
      BY <1>1, <2>1, IsASeq DEF Content
  <1>3. DOMAIN Content(w, l) = 1 .. l
    BY DEF Content
  <1> QED
    BY <1>1, <1>2, <1>3, LenProperties, EmptySeq

\* What the operations ask for are paths.
LEMMA PathType ==
  \A p \in Readable \cup Listed \cup Writable : ResolvePath(p) \in Seq(Names)
  <1> TAKE p \in Readable \cup Listed \cup Writable
  <1>1. p.names \in Seq(Names) /\ Base \in Seq(Names)
    BY RealVfsAssumption DEF Paths
  <1>2. Base \o p.names \in Seq(Names)
    BY <1>1, ConcatProperties
  <1> QED
    BY <1>1, <1>2 DEF ResolvePath

\* Every step of a callback.
CallbackStep ==
  ReadOpen \/ ReadBlock \/ ListOpen \/ ListEntry \/ ListDone \/ CallbackFails

\* A callback keeps to its types, and leaves the file system alone.
LEMMA CallbackType ==
  ASSUME TypeOK, CallbackStep
  PROVE  CallbackOK(callback', nodes) /\ AnswerOK(answer') /\ Unchanged
  <1> USE TypeParts
  <1>0. IsFileSystem(nodes) /\ CallbackOK(callback, nodes) /\ AnswerOK(answer)
    OBVIOUS
  <1>1. \A r : Answer(r) /\ AnswerOK(r) => CallbackOK(callback', nodes) /\ AnswerOK(answer')
    BY DEF Answer, CallbackOK, Idle
  <1>2. AnswerOK(None) /\ AnswerOK(Err)
    BY DEF AnswerOK
  <1>3. CASE ReadOpen
    <2>1. PICK p \in Readable :
            \/ Answer(None) \/ Answer(Err)
            \/ /\ FileExists(p)
               /\ callback' = [op |-> "read", node |-> Lookup(ResolvePath(p)).node, got |-> <<>>]
               /\ answer' = None
      BY <1>3 DEF ReadOpen
    <2>2. ASSUME FileExists(p)
          PROVE  /\ Lookup(ResolvePath(p)).node \in DOMAIN nodes
                 /\ nodes[Lookup(ResolvePath(p)).node].kind = "File"
      BY <1>0, <2>2, PathType, LookupType DEF FileExists
    <2>3. <<>> \in Seq(Block)
      OBVIOUS
    <2> DEFINE i == Lookup(ResolvePath(p)).node
               c == [op |-> "read", node |-> i, got |-> <<>>]
    <2>4. ASSUME i \in DOMAIN nodes, nodes[i].kind = "File"
          PROVE  CallbackOK(c, nodes)
      <3> HIDE DEF i
      <3>1. c \in [op : {"read"}, node : DOMAIN nodes, got : Seq(Block)]
        BY <2>3, <2>4
      <3>2. c.op = "read" /\ c.node = i
        OBVIOUS
      <3> QED
        BY <2>4, <3>1, <3>2 DEF CallbackOK
    <2>5. CallbackOK(callback', nodes) /\ AnswerOK(answer')
      BY <1>1, <1>2, <2>1, <2>2, <2>4
    <2> QED
      BY <1>3, <2>5 DEF ReadOpen
  <1>4. CASE ReadBlock
    <2>1. /\ callback.op = "read" /\ callback.node \in DOMAIN nodes
          /\ nodes[callback.node].kind = "File" /\ callback.got \in Seq(Block)
      BY <1>0, <1>4 DEF ReadBlock, CallbackOK, Idle
    <2>2. nodes[callback.node].data \in Seq(Block)
      BY <1>0, <2>1, ElementOfSeq, LenProperties, NodeShape DEF IsFileSystem
    <2> DEFINE data == nodes[callback.node].data
               next == Len(callback.got) + 1
    <2>3. CASE next \in DOMAIN data
      <3>1. callback' = [callback EXCEPT !.got = Append(@, data[next])] /\ answer' = answer
        BY <1>4, <2>3 DEF ReadBlock
      <3>2. Append(callback.got, data[next]) \in Seq(Block)
        <4>1. data[next] \in Block
          BY <2>2, <2>3, ElementOfSeq, LenProperties
        <4> QED
          BY <2>1, <4>1, AppendProperties
      <3> QED
        BY <1>0, <1>4, <2>1, <3>1, <3>2 DEF CallbackOK, Idle, ReadBlock
    <2>4. CASE next \notin DOMAIN data
      <3>1. Answer([kind |-> "Some", data |-> callback.got])
        BY <1>4, <2>4 DEF ReadBlock
      <3>2. AnswerOK([kind |-> "Some", data |-> callback.got])
        BY <2>1 DEF AnswerOK
      <3> QED
        BY <1>1, <1>4, <3>1, <3>2 DEF ReadBlock
    <2> QED
      BY <2>3, <2>4
  <1>5. CASE ListOpen
    <2>1. PICK p \in Listed :
            \/ Answer(None) \/ Answer(Err)
            \/ /\ DirectoryExists(p)
               /\ callback' = [op |-> "list", path |-> ResolvePath(p),
                               node |-> Lookup(ResolvePath(p)).node, left |-> Names,
                               files |-> {}, directories |-> {}]
               /\ answer' = None
      BY <1>5 DEF ListOpen
    <2>2. ResolvePath(p) \in Seq(Names)
      BY PathType
    <2>3. ASSUME DirectoryExists(p)
          PROVE  /\ Lookup(ResolvePath(p)).node \in DOMAIN nodes
                 /\ nodes[Lookup(ResolvePath(p)).node].kind = "Dir"
      BY <1>0, <2>2, <2>3, LookupType DEF DirectoryExists
    <2>4. CallbackOK(callback', nodes) /\ AnswerOK(answer')
      BY <1>1, <1>2, <2>1, <2>2, <2>3 DEF CallbackOK, Idle
    <2> QED
      BY <1>5, <2>4 DEF ListOpen
  <1>6. CASE ListEntry
    <2>0. callback.left \subseteq Names
      BY <1>0, <1>6 DEF ListEntry, CallbackOK, Idle
    <2>1. PICK n \in callback.left :
            callback' = [callback EXCEPT !.left = @ \ {n},
              !.files = @ \cup {x \in {n} : EntryKind(x) = "File"},
              !.directories = @ \cup {x \in {n} : EntryKind(x) = "Dir"}]
      BY <1>6 DEF ListEntry
    <2> DEFINE F == {x \in {n} : EntryKind(x) = "File"}
               D == {x \in {n} : EntryKind(x) = "Dir"}
    <2>2. F \subseteq Names /\ D \subseteq Names
      BY <2>0
    <2> HIDE DEF F, D
    <2>3. callback' = [callback EXCEPT !.left = @ \ {n}, !.files = @ \cup F,
                                       !.directories = @ \cup D]
      BY <2>1 DEF F, D
    <2>4. CallbackOK(callback', nodes)
      BY <1>0, <1>6, <2>2, <2>3 DEF ListEntry, CallbackOK, Idle
    <2> QED
      BY <1>0, <1>6, <2>4 DEF ListEntry
  <1>7. CASE ListDone
    <2>1. AnswerOK([kind |-> "Entries", files |-> callback.files,
                    directories |-> callback.directories])
      BY <1>0, <1>7 DEF ListDone, CallbackOK, Idle, AnswerOK
    <2> QED
      BY <1>1, <1>7, <2>1 DEF ListDone
  <1>8. CASE CallbackFails
    BY <1>1, <1>2, <1>8 DEF CallbackFails
  <1> QED
    BY <1>3, <1>4, <1>5, <1>6, <1>7, <1>8 DEF CallbackStep

\* The nodes without an entry are a tree, too.
LEMMA RemovedShape ==
  ASSUME NEW m, IsFileSystem(m), NEW d \in DOMAIN m, m[d].kind = "Dir", NEW x \in Names
  PROVE  /\ IsFileSystem(Replaced(m, d, x, NoEntry)) /\ Grown(m, Replaced(m, d, x, NoEntry))
         /\ DOMAIN Replaced(m, d, x, NoEntry) = DOMAIN m
         /\ \A j \in DOMAIN m : j # d => Replaced(m, d, x, NoEntry)[j] = m[j]
  <1>1. ASSUME NEW n, n = Replaced(m, d, x, NoEntry)
        PROVE  /\ IsFileSystem(n) /\ Grown(m, n) /\ DOMAIN n = DOMAIN m
               /\ \A j \in DOMAIN m : j # d => n[j] = m[j]
    BY <1>1, RemoveShape
  <1> QED
    BY <1>1

\* A new file system: nothing is lost but entries, and no file has changed but
\* those in the set ex.
Evolved(m, n, ex) ==
  /\ IsFileSystem(n) /\ Grown(m, n)
  /\ \A i \in (DOMAIN n) \ ex : n[i].kind = "File" =>
       i \in DOMAIN m /\ m[i].kind = "File" /\ n[i].data = m[i].data

\* Nothing has changed.
LEMMA EvolvedSame == ASSUME NEW m, IsFileSystem(m) PROVE Evolved(m, m, {})
  BY DEF Evolved, Grown

\* A new node is entered into the file system.
LEMMA EnterEvolves ==
  ASSUME IsFileSystem(nodes), NEW d \in DOMAIN nodes, nodes[d].kind = "Dir", NEW x \in Names,
         NEW node \in Node, node.kind = "Dir" => \A y \in Names : node.entries[y] = NoEntry,
         nodes' = Enter(d, x, node)
  PROVE  /\ Evolved(nodes, nodes', {NewNode(nodes)})
         /\ node.kind # "File" => Evolved(nodes, nodes', {})
         /\ NewNode(nodes) \in DOMAIN nodes' /\ nodes'[NewNode(nodes)] = node
         /\ NewNode(nodes) \notin DOMAIN nodes
         /\ nodes'[d].entries[x] = NewNode(nodes)
         /\ nodes[d].entries[x] = NoEntry => Keeps(nodes, nodes')
  <1>1. nodes' = Entered(nodes, d, x, node)
    BY DEF Enter, Entered, Appended, Replaced, NewNode
  <1>2. /\ IsFileSystem(nodes') /\ Grown(nodes, nodes')
        /\ DOMAIN nodes' = (DOMAIN nodes) \cup {NewNode(nodes)}
        /\ NewNode(nodes) \notin DOMAIN nodes
        /\ nodes'[NewNode(nodes)] = node
        /\ \A j \in DOMAIN nodes : j # d => nodes'[j] = nodes[j]
        /\ \A y \in Names : nodes'[d].entries[y] =
                             IF y = x THEN NewNode(nodes) ELSE nodes[d].entries[y]
    BY <1>1, EnteredShape
  <1>3. nodes'[d].kind = "Dir"
    BY <1>2 DEF Grown
  <1>4. Evolved(nodes, nodes', {NewNode(nodes)})
    BY <1>2, <1>3 DEF Evolved
  <1>5. node.kind # "File" => Evolved(nodes, nodes', {})
    BY <1>2, <1>3 DEF Evolved
  <1>6. ASSUME nodes[d].entries[x] = NoEntry PROVE Keeps(nodes, nodes')
    BY <1>2, <1>6 DEF Keeps
  <1> QED
    BY <1>2, <1>4, <1>5, <1>6

\* Another process removes an entry or makes a link.
LEMMA ForeignEvolves ==
  ASSUME IsFileSystem(nodes), Foreign
  PROVE  Evolved(nodes, nodes', {})
  <1>1. PICK d \in DOMAIN nodes, x \in Names :
          /\ nodes[d].kind = "Dir"
          /\ \/ nodes' = [nodes EXCEPT ![d].entries[x] = NoEntry]
             \/ \E to \in Targets : nodes' = Enter(d, x, Link(to))
    BY DEF Foreign
  <1>2. CASE nodes' = [nodes EXCEPT ![d].entries[x] = NoEntry]
    <2>1. /\ IsFileSystem(nodes') /\ Grown(nodes, nodes') /\ DOMAIN nodes' = DOMAIN nodes
          /\ \A j \in DOMAIN nodes : j # d => nodes'[j] = nodes[j]
      <3>1. nodes' = Replaced(nodes, d, x, NoEntry)
        BY <1>2 DEF Replaced
      <3> QED
        BY <1>1, <3>1, RemovedShape
    <2> QED
      BY <1>1, <2>1 DEF Evolved, Grown
  <1>3. ASSUME NEW to \in Targets, nodes' = Enter(d, x, Link(to))
        PROVE  Evolved(nodes, nodes', {})
    <2>1. Link(to) \in Node /\ Link(to).kind = "Link"
      BY RealVfsAssumption, NodeShape
    <2> HIDE DEF Link
    <2> QED
      BY <1>1, <1>3, <2>1, EnterEvolves
  <1> QED
    BY <1>1, <1>2, <1>3

\* The states of one write_file change.
Becomes(w, s) == s \in WriteState /\ writing' = [writing EXCEPT ![w] = s]

\* What the states of a write_file are.
LEMMA StateShape ==
  \A s \in WriteState :
    /\ s.op \in {"idle", "dirs", "write"}
    /\ s.op = "idle" => s = Idle
    /\ s.op # "idle" =>
         /\ s \in [op : {"dirs", "write"}, path : Seq(Names), made : Nat,
                   node : Nat, data : Contents, pos : Nat, since : 0 .. MaxChanges]
         /\ s.path \in Seq(Names) /\ s.made \in Nat /\ s.node \in Nat
         /\ s.data \in Contents /\ s.pos \in Nat
  BY DEF WriteState, Idle

\* write_file begins, makes a directory, or gives up.
Prepares(w) ==
  /\ \E s : /\ Becomes(w, s) /\ writing[w].op # "write" /\ s.op # "write"
            /\ s.op = "dirs" =>
                 s.pos = 0 \/ (writing[w].op = "dirs" /\ s.pos = writing[w].pos)
  /\ Evolved(nodes, nodes', {}) /\ Keeps(nodes, nodes')
  /\ mixed' = mixed /\ writes' \in 0 .. MaxWrites /\ changes' = changes
  /\ UNCHANGED <<callback, answer>>

\* The call begins.
LEMMA WriteFileEffect ==
  ASSUME TypeOK, NEW w \in Writers, WriteFile(w)
  PROVE  Prepares(w)
  <1>0. IsFileSystem(nodes) /\ WritersOK
    BY TypeParts
  <1>1. PICK p \in Writable, l \in 1 .. MaxBlocks :
          writing' = [writing EXCEPT ![w] =
            [op |-> "dirs", path |-> ResolvePath(p), made |-> 0, node |-> 0,
             data |-> Content(writes + 1, l), pos |-> 0, since |-> changes]]
    BY DEF WriteFile, Update
  <1> DEFINE s == [op |-> "dirs", path |-> ResolvePath(p), made |-> 0, node |-> 0,
                   data |-> Content(writes + 1, l), pos |-> 0, since |-> changes]
  <1>2. writes + 1 \in 0 .. MaxWrites
    BY <1>0, RealVfsAssumption DEF WriteFile, WritersOK
  <1>3. Content(writes + 1, l) \in Contents
    BY <1>2 DEF Contents
  <1>4. ResolvePath(p) \in Seq(Names)
    BY PathType
  <1>5. s \in WriteState
    BY <1>0, <1>3, <1>4 DEF WriteState, WritersOK
  <1>6. writing[w].op = "idle" /\ s.op = "dirs" /\ s.pos = 0
    BY DEF WriteFile, Idle
  <1>7. Evolved(nodes, nodes', {}) /\ Keeps(nodes, nodes')
    BY <1>0, EvolvedSame, KeepsSame DEF WriteFile
  <1> HIDE DEF s
  <1>8. Becomes(w, s)
    BY <1>1, <1>5 DEF Becomes, s
  <1> QED
    BY <1>2, <1>6, <1>7, <1>8 DEF Prepares, WriteFile

\* A directory is made, or the call gives up.
LEMMA CreateDirEffect ==
  ASSUME TypeOK, NEW w \in Writers, CreateDir(w)
  PROVE  Prepares(w)
  <1> DEFINE c == writing[w]
             dir == SubSeq(c.path, 1, c.made + 1)
             parent == Lookup(Front(dir))
             missing == /\ Leads(Front(dir), "Dir")
                        /\ nodes[parent.node].entries[Last(dir)] = NoEntry
             s == IF Made(dir, missing) THEN [c EXCEPT !.made = @ + 1] ELSE Idle
  <1>0. IsFileSystem(nodes) /\ WritersOK
    BY TypeParts
  <1>1. c \in WriteState /\ c.op = "dirs" /\ c.made < Len(c.path) - 1
    BY <1>0 DEF CreateDir, WritersOK
  <1>2. /\ c.path \in Seq(Names) /\ c.made \in Nat
        /\ c \in [op : {"dirs", "write"}, path : Seq(Names), made : Nat,
                  node : Nat, data : Contents, pos : Nat, since : 0 .. MaxChanges]
    BY <1>1, StateShape
  <1>3. writing' = [writing EXCEPT ![w] = s]
    BY DEF CreateDir, Update
  <1>4. IF missing THEN nodes' = Enter(parent.node, Last(dir), EmptyDir) ELSE UNCHANGED nodes
    BY DEF CreateDir
  <1>5. /\ dir \in Seq(Names) /\ Len(dir) = c.made + 1 /\ Len(dir) \in Nat \ {0}
        /\ Front(dir) \in Seq(Names) /\ Last(dir) \in Names
    <2>0. Len(c.path) \in Nat
      BY <1>2, LenProperties
    <2>1. \A i \in 1 .. c.made + 1 : c.path[i] \in Names
      BY <1>1, <1>2, <2>0, ElementOfSeq
    <2>2. dir \in Seq(Names) /\ Len(dir) = c.made + 1
      BY <1>2, <2>1, SubSeqProperties
    <2> HIDE DEF dir
    <2>3. Len(dir) \in Nat \ {0}
      BY <1>2, <2>2
    <2>4. \A i \in 1 .. Len(dir) - 1 : dir[i] \in Names
      BY <2>2, <2>3, ElementOfSeq
    <2>5. Front(dir) \in Seq(Names)
      BY <2>3, <2>4, SubSeqProperties DEF Front
    <2>6. Last(dir) \in Names
      BY <2>2, <2>3, ElementOfSeq DEF Last
    <2> QED
      BY <2>2, <2>3, <2>5, <2>6
  <1> HIDE DEF c, dir
  <1>6. s \in WriteState /\ s.op # "write" /\ (s.op = "dirs" => s.pos = c.pos)
    <2>1. CASE Made(dir, missing)
      BY <1>1, <1>2, <2>1 DEF WriteState
    <2>2. CASE ~Made(dir, missing)
      BY <2>2 DEF WriteState, Idle
    <2> QED
      BY <2>1, <2>2
  <1>7. Evolved(nodes, nodes', {}) /\ Keeps(nodes, nodes')
    <2>1. CASE missing
      <3>1. parent.node \in DOMAIN nodes /\ nodes[parent.node].kind = "Dir"
        BY <1>0, <1>5, <2>1, LookupType
      <3>2. EmptyDir \in Node /\ EmptyDir.kind = "Dir"
            /\ \A y \in Names : EmptyDir.entries[y] = NoEntry
        BY NodeShape
      <3>3. /\ nodes' = Enter(parent.node, Last(dir), EmptyDir)
            /\ nodes[parent.node].entries[Last(dir)] = NoEntry
        BY <1>4, <2>1
      <3> HIDE DEF parent
      <3> QED
        BY <1>0, <1>5, <3>1, <3>2, <3>3, EnterEvolves
    <2>2. CASE ~missing
      BY <1>0, <1>4, <2>2, EvolvedSame, KeepsSame
    <2> QED
      BY <2>1, <2>2
  <1> HIDE DEF s, missing
  <1>8. Becomes(w, s)
    BY <1>3, <1>6 DEF Becomes
  <1>9. c = writing[w]
    BY DEF c
  <1> QED
    BY <1>0, <1>1, <1>6, <1>7, <1>8, <1>9 DEF Prepares, CreateDir, WritersOK

\* write_file opens its file, empty.
Opens(w) ==
  /\ \E i \in DOMAIN nodes' :
       /\ Evolved(nodes, nodes', {i})
       /\ nodes'[i].kind = "File" /\ nodes'[i].data = <<>>
       /\ Becomes(w, [writing[w] EXCEPT !.op = "write", !.node = i])
       /\ mixed' = IF i \in OpenNodes THEN mixed \cup {i} ELSE mixed \ {i}
  /\ writing[w].op = "dirs" /\ Keeps(nodes, nodes')
  /\ UNCHANGED <<callback, answer, writes, changes>>

\* The call holds the handle it has opened.
LEMMA OpenedState ==
  ASSUME WritersOK, NEW w \in Writers, writing[w].op = "dirs", NEW i \in Nat, Opened(w, i)
  PROVE  /\ Becomes(w, [writing[w] EXCEPT !.op = "write", !.node = i])
         /\ mixed' = IF i \in OpenNodes THEN mixed \cup {i} ELSE mixed \ {i}
  <1> DEFINE c == writing[w]
             s == [c EXCEPT !.op = "write", !.node = i]
  <1>1. c \in WriteState /\ c.op # "idle"
    BY DEF WritersOK
  <1> HIDE DEF c
  <1>2. s \in WriteState
    <2>1. c \in [op : {"dirs", "write"}, path : Seq(Names), made : Nat,
                 node : Nat, data : Contents, pos : Nat, since : 0 .. MaxChanges]
      BY <1>1, StateShape
    <2> QED
      BY <2>1 DEF WriteState
  <1> QED
    BY <1>2 DEF Opened, Update, Becomes, c

\* The file is opened, or the call gives up.
LEMMA CreateEffect ==
  ASSUME TypeOK, NEW w \in Writers, Create(w)
  PROVE  Prepares(w) \/ Opens(w)
  <1> DEFINE c == writing[w]
             f == Lookup(c.path)
  <1>0. IsFileSystem(nodes) /\ WritersOK
    BY TypeParts
  <1>1. c \in WriteState /\ c.op = "dirs" /\ c.path \in Seq(Names)
    BY <1>0, StateShape DEF Create, WritersOK
  <1>2. f \in Result(nodes)
    BY <1>0, <1>1, LookupType
  <1>3. UNCHANGED <<callback, answer, writes, changes>>
    BY DEF Create
  <1>4. CASE Leads(c.path, "File")
    <2>1. /\ nodes' = [nodes EXCEPT ![f.node].data = Truncated(@)]
          /\ Opened(w, f.node)
      BY <1>4 DEF Create
    <2>2. f.node \in DOMAIN nodes /\ nodes[f.node].kind = "File"
      BY <1>0, <1>1, <1>4, LookupType
    <2> HIDE DEF c, f
    <2>3. nodes' = Rewritten(nodes, f.node, <<>>)
      BY <2>1 DEF Truncated, Rewritten
    <2>4. /\ nodes' \in Seq(Node) /\ Tree(nodes') /\ Grown(nodes, nodes')
          /\ DOMAIN nodes' = DOMAIN nodes /\ Keeps(nodes, nodes')
          /\ nodes'[f.node].data = <<>>
          /\ \A j \in DOMAIN nodes : j # f.node => nodes'[j] = nodes[j]
      <3>1. <<>> \in Seq(Block) /\ nodes \in Seq(Node) /\ Tree(nodes)
        BY <1>0 DEF IsFileSystem
      <3> QED
        BY <2>2, <2>3, <3>1, DataReplaced
    <2>5. IsFileSystem(nodes')
      <3>1. nodes' # <<>>
        BY <2>2, <2>4
      <3> QED
        BY <2>4, <3>1 DEF IsFileSystem
    <2>6. Evolved(nodes, nodes', {f.node})
      BY <2>4, <2>5 DEF Evolved, Grown
    <2>7. nodes'[f.node].kind = "File"
      BY <2>2, <2>4 DEF Grown
    <2>8. f.node \in Nat
      BY <1>0, <2>2, LenProperties DEF IsFileSystem
    <2>9. /\ Becomes(w, [writing[w] EXCEPT !.op = "write", !.node = f.node])
          /\ mixed' = IF f.node \in OpenNodes THEN mixed \cup {f.node} ELSE mixed \ {f.node}
      BY <1>0, <1>1, <2>1, <2>8, OpenedState DEF c
    <2> QED
      BY <1>1, <1>3, <2>2, <2>4, <2>6, <2>7, <2>9 DEF Opens, c
  <1>5. CASE ~Leads(c.path, "File") /\ f.error = "NotFound" /\ Len(f.rest) = 1
    <2> DEFINE i == Len(nodes) + 1
    <2>1. /\ nodes' = Enter(f.dir, f.rest[1], File(<<>>))
          /\ Opened(w, i)
      BY <1>5 DEF Create
    <2>2. f.dir \in DOMAIN nodes /\ nodes[f.dir].kind = "Dir" /\ f.rest \in Seq(Names)
      BY <1>2, <1>5 DEF Result
    <2>3. f.rest[1] \in Names /\ nodes[f.dir].entries[f.rest[1]] = NoEntry
      <3>1. f.rest[1] \in Names
        BY <1>5, <2>2, ElementOfSeq
      <3>2. nodes[f.dir].entries[Head(f.rest)] = NoEntry
        BY <1>2, <1>5 DEF Result
      <3>3. Head(f.rest) = f.rest[1]
        OBVIOUS
      <3> QED
        BY <3>1, <3>2, <3>3
    <2>4. /\ File(<<>>) \in Node /\ File(<<>>).kind = "File" /\ File(<<>>).data = <<>>
      <3>1. <<>> \in Seq(Block)
        OBVIOUS
      <3> QED
        BY <3>1, NodeShape
    <2>5. i = NewNode(nodes)
      BY DEF NewNode
    <2>6. i \in Nat
      <3>1. nodes \in Seq(Node) /\ File(<<>>) \in Node
        BY <1>0, <2>4 DEF IsFileSystem
      <3> QED
        BY <2>5, <3>1, NodeAppended
    <2> HIDE DEF c, f, i
    <2>7. /\ Evolved(nodes, nodes', {i}) /\ Keeps(nodes, nodes')
          /\ i \in DOMAIN nodes' /\ nodes'[i] = File(<<>>)
      BY <1>0, <2>1, <2>2, <2>3, <2>4, <2>5, EnterEvolves
    <2>9. /\ Becomes(w, [writing[w] EXCEPT !.op = "write", !.node = i])
          /\ mixed' = IF i \in OpenNodes THEN mixed \cup {i} ELSE mixed \ {i}
      BY <1>0, <1>1, <2>1, <2>6, OpenedState DEF c
    <2> QED
      BY <1>1, <1>3, <2>4, <2>7, <2>9 DEF Opens, c
  <1>6. CASE ~Leads(c.path, "File") /\ ~(f.error = "NotFound" /\ Len(f.rest) = 1)
    <2>1. Update(w, Idle) /\ UNCHANGED <<nodes, mixed>>
      BY <1>6 DEF Create
    <2>2. Becomes(w, Idle) /\ Idle.op = "idle"
      BY <2>1 DEF Update, Becomes, WriteState, Idle
    <2>3. Evolved(nodes, nodes', {}) /\ Keeps(nodes, nodes')
      BY <1>0, <2>1, EvolvedSame, KeepsSame
    <2> QED
      BY <1>0, <1>1, <1>3, <2>1, <2>2, <2>3 DEF Prepares, WritersOK
  <1> QED
    BY <1>4, <1>5, <1>6

\* write_file writes its next block.
Writes(w) ==
  /\ writing[w].op = "write" /\ writing[w].pos < Len(writing[w].data)
  /\ LET c == writing[w] IN
       /\ Evolved(nodes, nodes', {c.node})
       /\ nodes[c.node].data = SubSeq(c.data, 1, c.pos) =>
            nodes'[c.node].data = SubSeq(c.data, 1, c.pos + 1)
       /\ Becomes(w, [c EXCEPT !.pos = c.pos + 1])
  /\ Keeps(nodes, nodes')
  /\ UNCHANGED <<callback, answer, writes, changes, mixed>>

\* What Max returns.
LEMMA MaxOfTwo ==
  ASSUME NEW i \in Nat, NEW j \in Nat
  PROVE  /\ Max({i, j}) \in Nat /\ i <= Max({i, j}) /\ j <= Max({i, j})
         /\ i >= j => Max({i, j}) = i
  <1> DEFINE IsMax(x) == x \in {i, j} /\ \A y \in {i, j} : x >= y
  <1>1. \E x : IsMax(x)
    <2>1. CASE i >= j
      <3>1. IsMax(i)
        BY <2>1
      <3> QED
        BY <3>1
    <2>2. CASE ~(i >= j)
      <3>1. IsMax(j)
        BY <2>2
      <3> QED
        BY <3>1
    <2> QED
      BY <2>1, <2>2
  <1>2. IsMax(Max({i, j}))
    <2>1. Max({i, j}) = CHOOSE x : IsMax(x)
      BY DEF Max
    <2> HIDE DEF IsMax
    <2> QED
      BY <1>1, <2>1
  <1> QED
    BY <1>2

\* A block is written.
LEMMA WriteBlockEffect ==
  ASSUME TypeOK, NEW w \in Writers, WriteBlock(w)
  PROVE  Writes(w)
  <1> DEFINE c == writing[w]
             old == nodes[c.node].data
             at == c.pos + 1
             new == [i \in 1 .. Max({at, Len(old)}) |->
                       IF i = at THEN c.data[at] ELSE IF i \in DOMAIN old THEN old[i] ELSE Hole]
  <1>0. IsFileSystem(nodes) /\ WritersOK
    BY TypeParts
  <1>1. c \in WriteState /\ c.op = "write" /\ c.pos < Len(c.data)
    BY <1>0 DEF WriteBlock, WritersOK
  <1>2. /\ c.pos \in Nat /\ c.data \in Contents
        /\ c \in [op : {"dirs", "write"}, path : Seq(Names), made : Nat,
                  node : Nat, data : Contents, pos : Nat, since : 0 .. MaxChanges]
    BY <1>1, StateShape
  <1>3. c.data \in Seq(Block) /\ Len(c.data) \in Nat
    BY <1>2, ContentsType
  <1>4. c.node \in DOMAIN nodes /\ nodes[c.node].kind = "File"
    BY <1>0, <1>1 DEF WritersOK, HandlesOK
  <1>5. old \in Seq(Block) /\ Len(old) \in Nat /\ DOMAIN old = 1 .. Len(old)
    <2>1. nodes[c.node] \in Node
      BY <1>0, <1>4, ElementOfSeq, LenProperties DEF IsFileSystem
    <2>2. old \in Seq(Block)
      BY <1>4, <2>1, NodeShape
    <2> QED
      BY <2>2, LenProperties
  <1>6. /\ nodes' = Rewritten(nodes, c.node, new)
        /\ writing' = [writing EXCEPT ![w] = [c EXCEPT !.pos = at]]
        /\ UNCHANGED <<callback, answer, writes, changes, mixed>>
    BY DEF WriteBlock, Update, Rewritten
  <1>7. at \in 1 .. Len(c.data) /\ at \in Nat /\ c.data[at] \in Block
    <2>1. at \in 1 .. Len(c.data) /\ at \in Nat
      BY <1>1, <1>2, <1>3
    <2> QED
      BY <1>3, <2>1, ElementOfSeq
  <1> HIDE DEF c, old, at
  <1>8. /\ Max({at, Len(old)}) \in Nat
        /\ at >= Len(old) => Max({at, Len(old)}) = at
    BY <1>5, <1>7, MaxOfTwo
  <1>9. new \in Seq(Block)
    <2> DEFINE M == Max({at, Len(old)})
               V(i) == IF i = at THEN c.data[at] ELSE IF i \in DOMAIN old THEN old[i] ELSE Hole
    <2>1. Hole \in Block
      BY RealVfsAssumption DEF Hole, Block
    <2>2. \A i \in DOMAIN old : old[i] \in Block
      BY <1>5, ElementOfSeq
    <2>3. \A i \in 1 .. M : V(i) \in Block
      BY <1>7, <2>1, <2>2
    <2>4. new = [i \in 1 .. M |-> V(i)] /\ M \in Nat
      BY <1>8
    <2> HIDE DEF M, V, new
    <2> QED
      BY <2>3, <2>4, IsASeq
  <1>10. ASSUME old = SubSeq(c.data, 1, c.pos)
         PROVE  new = SubSeq(c.data, 1, at)
    <2>1. /\ Len(old) = c.pos /\ \A i \in 1 .. c.pos : old[i] = c.data[i]
      <3>1. \A i \in 1 .. c.pos : c.data[i] \in Block
        BY <1>1, <1>2, <1>3, ElementOfSeq
      <3> QED
        BY <1>2, <1>3, <1>10, <3>1, SubSeqProperties
    <2>2. at = c.pos + 1
      BY DEF at
    <2>3. DOMAIN new = 1 .. at /\ \A i \in 1 .. at : new[i] = c.data[i]
      <3>1. Max({at, Len(old)}) = at
        BY <1>2, <1>8, <2>1, <2>2
      <3>2. \A i \in 1 .. at : i # at => i \in DOMAIN old /\ i \in 1 .. c.pos
        BY <1>2, <1>5, <2>1, <2>2
      <3> QED
        BY <2>1, <3>1, <3>2
    <2>4. /\ DOMAIN SubSeq(c.data, 1, at) = 1 .. at
          /\ \A i \in 1 .. at : SubSeq(c.data, 1, at)[i] = c.data[i]
      <3>1. \A i \in 1 .. at : c.data[i] \in Block
        BY <1>3, <1>7, ElementOfSeq
      <3>2. /\ SubSeq(c.data, 1, at) \in Seq(Block) /\ Len(SubSeq(c.data, 1, at)) = at
            /\ \A i \in 1 .. at : SubSeq(c.data, 1, at)[i] = c.data[i]
        BY <1>3, <1>7, <3>1, SubSeqProperties
      <3> QED
        BY <3>2, LenProperties
    <2>5. /\ new \in Seq(Block) /\ SubSeq(c.data, 1, at) \in Seq(Block)
      <3>1. \A i \in 1 .. at : c.data[i] \in Block
        BY <1>3, <1>7, ElementOfSeq
      <3> QED
        BY <1>3, <1>7, <1>9, <3>1, SubSeqProperties
    <2> HIDE DEF new
    <2>6. Len(new) = at /\ Len(SubSeq(c.data, 1, at)) = at
      BY <1>7, <2>3, <2>4, <2>5, LenProperties
    <2> QED
      BY <2>3, <2>4, <2>5, <2>6, SeqEqual
  <1> HIDE DEF new
  <1>11. /\ nodes' \in Seq(Node) /\ Tree(nodes') /\ Grown(nodes, nodes')
         /\ DOMAIN nodes' = DOMAIN nodes /\ Keeps(nodes, nodes')
         /\ nodes'[c.node].data = new
         /\ \A j \in DOMAIN nodes : j # c.node => nodes'[j] = nodes[j]
    <2>1. nodes \in Seq(Node) /\ Tree(nodes)
      BY <1>0 DEF IsFileSystem
    <2> QED
      BY <1>4, <1>6, <1>9, <2>1, DataReplaced
  <1>12. Evolved(nodes, nodes', {c.node})
    <2>1. nodes' # <<>>
      BY <1>4, <1>11
    <2> QED
      BY <1>11, <2>1 DEF Evolved, Grown, IsFileSystem
  <1>13. [c EXCEPT !.pos = at] \in WriteState
    BY <1>2, <1>7 DEF WriteState
  <1> QED
    BY <1>1, <1>6, <1>10, <1>11, <1>12, <1>13 DEF Writes, Becomes, c, old, at

\* write_file returns, with all written or with an error.
Ends(w) ==
  /\ writing[w].op = "write" /\ Becomes(w, Idle)
  /\ \/ writing[w].pos = Len(writing[w].data) /\ mixed' = mixed
     \/ mixed' = mixed \cup {writing[w].node}
  /\ UNCHANGED <<nodes, callback, answer, writes, changes>>

\* The call returns.
LEMMA EndsEffect ==
  ASSUME NEW w \in Writers, Written(w) \/ WriteFails(w)
  PROVE  Ends(w)
  BY DEF Written, WriteFails, Ends, Becomes, Update, WriteState

\* Every step of the file system.
LEMMA Steps ==
  ASSUME TypeOK, [Next]_vars
  PROVE  \/ CallbackStep /\ History
         \/ \E w \in Writers : (Prepares(w) \/ Opens(w) \/ Writes(w) \/ Ends(w)) /\ History
         \/ /\ Evolved(nodes, nodes', {}) /\ changes' \in 0 .. MaxChanges /\ History
            /\ UNCHANGED <<callback, answer, writing, writes, mixed>>
         \/ UNCHANGED vars
  <1>0. IsFileSystem(nodes) /\ WritersOK
    BY TypeParts
  <1>1. CASE Foreign /\ History
    BY <1>0, <1>1, ForeignEvolves, RealVfsAssumption DEF Foreign, WritersOK
  <1>2. ASSUME NEW w \in Writers,
               \/ WriteFile(w) \/ CreateDir(w) \/ Create(w)
               \/ WriteBlock(w) \/ Written(w) \/ WriteFails(w)
        PROVE  Prepares(w) \/ Opens(w) \/ Writes(w) \/ Ends(w)
    BY <1>2, WriteFileEffect, CreateDirEffect, CreateEffect, WriteBlockEffect, EndsEffect
  <1> QED
    BY <1>1, <1>2 DEF Next, CallbackStep

\* Callbacks and handles are good on nodes that have grown.
LEMMA CallbackStays ==
  ASSUME NEW c, NEW m, NEW n, CallbackOK(c, m), Grown(m, n)
  PROVE  CallbackOK(c, n)
  BY DEF CallbackOK, Grown, Idle

\* So are handles, and the one of the call that has moved.
LEMMA HandlesStay ==
  ASSUME NEW w \in Writers, NEW s, Becomes(w, s), NEW ex, Evolved(nodes, nodes', ex),
         HandlesOK(writing, nodes), writing \in [Writers -> WriteState],
         s.op = "write" => s.node \in DOMAIN nodes' /\ nodes'[s.node].kind = "File"
  PROVE  writing' \in [Writers -> WriteState] /\ HandlesOK(writing', nodes')
  <1>1. \A v \in Writers : writing'[v] = IF v = w THEN s ELSE writing[v]
    BY DEF Becomes
  <1>2. writing' \in [Writers -> WriteState]
    BY DEF Becomes
  <1>3. HandlesOK(writing', nodes')
    <2> SUFFICES ASSUME NEW v \in Writers, writing'[v].op = "write"
                 PROVE  writing'[v].node \in DOMAIN nodes' /\ nodes'[writing'[v].node].kind = "File"
      BY DEF HandlesOK
    <2>1. CASE v = w
      BY <1>1, <2>1
    <2>2. CASE v # w
      BY <1>1, <2>2 DEF HandlesOK, Evolved, Grown
    <2> QED
      BY <2>1, <2>2
  <1> QED
    BY <1>2, <1>3

\* Every step keeps to the types.
LEMMA TypeStep == TypeOK /\ [Next]_vars => TypeOK'
  <1> SUFFICES ASSUME TypeOK, [Next]_vars PROVE TypeOK'
    OBVIOUS
  <1>0. IsFileSystem(nodes) /\ CallbackOK(callback, nodes) /\ AnswerOK(answer) /\ WritersOK
    BY TypeParts
  <1>p. ASSUME IsFileSystem(nodes'), CallbackOK(callback', nodes'), AnswerOK(answer'),
               writing' \in [Writers -> WriteState], HandlesOK(writing', nodes'),
               mixed' \subseteq DOMAIN nodes', writes' \in 0 .. MaxWrites,
               changes' \in 0 .. MaxChanges
        PROVE  TypeOK'
    BY <1>p DEF TypeOK, IsFileSystem, CallbackOK, AnswerOK, HandlesOK, WriteState, OpenNodes
  <1>q. ASSUME NEW ex, Evolved(nodes, nodes', ex)
        PROVE  /\ IsFileSystem(nodes') /\ Grown(nodes, nodes')
               /\ mixed \subseteq DOMAIN nodes' /\ CallbackOK(callback, nodes')
    BY <1>0, <1>q, CallbackStays DEF Evolved, Grown, WritersOK
  <1>1. CASE CallbackStep
    <2>1. CallbackOK(callback', nodes) /\ AnswerOK(answer') /\ Unchanged
      BY <1>1, CallbackType
    <2> QED
      BY <1>0, <1>p, <2>1 DEF Unchanged, WritersOK
  <1>2. ASSUME NEW w \in Writers, Prepares(w) PROVE TypeOK'
    <2>1. PICK s : Becomes(w, s) /\ s.op # "write"
      BY <1>2 DEF Prepares
    <2>2. Evolved(nodes, nodes', {})
      BY <1>2 DEF Prepares
    <2>3. writing' \in [Writers -> WriteState] /\ HandlesOK(writing', nodes')
      BY <1>0, <2>1, <2>2, HandlesStay DEF WritersOK
    <2> QED
      BY <1>0, <1>2, <1>p, <1>q, <2>2, <2>3 DEF Prepares, WritersOK
  <1>3. ASSUME NEW w \in Writers, Opens(w) PROVE TypeOK'
    <2>1. PICK i \in DOMAIN nodes' :
            /\ Evolved(nodes, nodes', {i})
            /\ nodes'[i].kind = "File"
            /\ Becomes(w, [writing[w] EXCEPT !.op = "write", !.node = i])
            /\ mixed' = IF i \in OpenNodes THEN mixed \cup {i} ELSE mixed \ {i}
      BY <1>3 DEF Opens
    <2> DEFINE s == [writing[w] EXCEPT !.op = "write", !.node = i]
    <2>2. s.op = "write" /\ s.node = i
      <3>1. writing[w] \in WriteState /\ writing[w].op = "dirs"
        BY <1>0, <1>3 DEF WritersOK, Opens
      <3>2. writing[w] \in [op : {"dirs", "write"}, path : Seq(Names), made : Nat,
                            node : Nat, data : Contents, pos : Nat, since : 0 .. MaxChanges]
        BY <3>1, StateShape
      <3> QED
        BY <3>2
    <2> HIDE DEF s
    <2>3. Becomes(w, s)
      BY <2>1 DEF s
    <2>4. writing' \in [Writers -> WriteState] /\ HandlesOK(writing', nodes')
      BY <1>0, <2>1, <2>2, <2>3, HandlesStay DEF WritersOK
    <2>5. mixed' \subseteq DOMAIN nodes'
      BY <1>q, <2>1
    <2> QED
      BY <1>0, <1>3, <1>p, <1>q, <2>1, <2>4, <2>5 DEF Opens, WritersOK
  <1>4. ASSUME NEW w \in Writers, Writes(w) PROVE TypeOK'
    <2> DEFINE c == writing[w]
               s == [c EXCEPT !.pos = c.pos + 1]
    <2>1. Evolved(nodes, nodes', {c.node}) /\ Becomes(w, s)
      BY <1>4 DEF Writes
    <2>2. s.op = "write" /\ s.node = c.node
      <3>1. c \in WriteState /\ c.op = "write"
        BY <1>0, <1>4 DEF WritersOK, Writes
      <3>2. c \in [op : {"dirs", "write"}, path : Seq(Names), made : Nat,
                   node : Nat, data : Contents, pos : Nat, since : 0 .. MaxChanges]
        BY <3>1, StateShape
      <3> HIDE DEF c
      <3> QED
        BY <3>1, <3>2
    <2>3. c.node \in DOMAIN nodes' /\ nodes'[c.node].kind = "File"
      BY <1>0, <1>4, <1>q, <2>1 DEF WritersOK, HandlesOK, Writes, Grown
    <2> HIDE DEF s
    <2>4. writing' \in [Writers -> WriteState] /\ HandlesOK(writing', nodes')
      BY <1>0, <2>1, <2>2, <2>3, HandlesStay DEF WritersOK
    <2> QED
      BY <1>0, <1>4, <1>p, <1>q, <2>1, <2>4 DEF Writes, WritersOK
  <1>5. ASSUME NEW w \in Writers, Ends(w) PROVE TypeOK'
    <2>1. Becomes(w, Idle) /\ Idle.op # "write"
      BY <1>5 DEF Ends, Idle
    <2>2. Evolved(nodes, nodes', {})
      BY <1>0, <1>5, EvolvedSame DEF Ends
    <2>3. writing' \in [Writers -> WriteState] /\ HandlesOK(writing', nodes')
      BY <1>0, <2>1, <2>2, HandlesStay DEF WritersOK
    <2>4. writing[w].node \in DOMAIN nodes
      BY <1>0, <1>5 DEF Ends, WritersOK, HandlesOK
    <2>5. mixed' \subseteq DOMAIN nodes'
      BY <1>0, <1>5, <2>4 DEF Ends, WritersOK
    <2> QED
      BY <1>0, <1>5, <1>p, <1>q, <2>2, <2>3, <2>5 DEF Ends, WritersOK
  <1>6. CASE /\ Evolved(nodes, nodes', {}) /\ changes' \in 0 .. MaxChanges
             /\ UNCHANGED <<callback, answer, writing, writes, mixed>>
    <2>1. HandlesOK(writing', nodes')
      BY <1>0, <1>6 DEF WritersOK, HandlesOK, Evolved, Grown
    <2> QED
      BY <1>0, <1>6, <1>p, <1>q, <2>1 DEF WritersOK
  <1>7. CASE UNCHANGED vars
    BY <1>0, <1>p, <1>7 DEF vars, WritersOK
  <1> QED
    BY <1>1, <1>2, <1>3, <1>4, <1>5, <1>6, <1>7, Steps

-----------------------------------------------------------------------------
(* Contents are whole.                                                     *)

\* A write_file starts with its first block, and what it has written is what the
\* file holds, if no other write_file has the file open and none has failed on it.
Alone ==
  \A w \in Writers :
    /\ writing[w].op = "dirs" => writing[w].pos = 0
    /\ writing[w].op = "write" =>
         /\ writing[w].pos <= Len(writing[w].data)
         /\ writing[w].node \notin mixed =>
              /\ nodes[writing[w].node].data = SubSeq(writing[w].data, 1, writing[w].pos)
              /\ \A v \in Writers :
                   writing[v].op = "write" /\ writing[v].node = writing[w].node => v = w

\* What a read has got is the beginning of the file, if nobody has written to it.
Reading ==
  callback.op = "read" /\ <<"raced">> \notin seen =>
    LET data == nodes[callback.node].data IN
    /\ callback.node \notin OpenNodes \cup mixed
    /\ Len(callback.got) <= Len(data)
    /\ callback.got = SubSeq(data, 1, Len(callback.got))

\* What is true at this moment of a listing is known, and so is why a name that
\* has been asked for is in the answer or is not.
Listing ==
  callback.op = "list" =>
    /\ Moment \subseteq seen
    /\ <<"moved">> \notin seen =>
         /\ \A n \in callback.files : <<n, "File">> \in seen
         /\ \A n \in callback.directories : <<n, "Dir">> \in seen
         /\ \A n \in Names \ callback.left :
              \/ n \in callback.files \cup callback.directories
              \/ <<n, "None">> \in seen \/ <<n, "Link">> \in seen

\* A write_file that no other process has interfered with has come as far as the
\* directories it has made, in the state c, on the nodes m after n changes.
Going(c, m, n) ==
  c.op = "dirs" =>
    /\ c.since <= n
    /\ c.made = 0 \/ c.made < Len(c.path)
    /\ c.since = n => LeadsIn(m, SubSeq(c.path, 1, c.made), "Dir")

Arrived ==
  /\ nodes[Root].kind = "Dir"
  /\ \A w \in Writers : Going(writing[w], nodes, changes)

\* The inductive invariant.
RealInv ==
  TypeOK /\ WholeContents /\ ListedAsFound /\ Alone /\ Reading /\ Listing /\ Arrived

\* A file at rest is whole.
AtRest ==
  \A i \in DOMAIN nodes \ (OpenNodes \cup mixed) :
    nodes[i].kind = "File" => Whole(nodes[i].data)

\* The steps, as far as contents are concerned.
Quiet == /\ Evolved(nodes, nodes', {})
         /\ UNCHANGED <<writing, mixed>>

\* What an open node is.
LEMMA OpenIs ==
  /\ \A i : i \in OpenNodes <=> \E w \in Writers : writing[w].op = "write" /\ writing[w].node = i
  /\ \A i : i \in OpenNodes' <=> \E w \in Writers : writing'[w].op = "write" /\ writing'[w].node = i
  BY DEF OpenNodes

\* A file outside the set has its old contents.
LEMMA FileKept ==
  ASSUME NEW ex, Evolved(nodes, nodes', ex), NEW i \in DOMAIN nodes, i \notin ex,
         nodes[i].kind = "File"
  PROVE  nodes'[i].data = nodes[i].data /\ nodes'[i].kind = "File" /\ i \in DOMAIN nodes'
  BY DEF Evolved, Grown

\* A call moves alone.
LEMMA OthersStay ==
  ASSUME TypeOK, NEW w \in Writers, NEW s, Becomes(w, s)
  PROVE  /\ writing'[w] = s
         /\ \A v \in Writers : v # w => writing'[v] = writing[v]
         /\ \A v \in Writers : writing[v].op = "write" =>
              writing[v].node \in DOMAIN nodes /\ nodes[writing[v].node].kind = "File"
         /\ \A v \in Writers : writing[v] \in WriteState
  BY TypeParts DEF Becomes, WritersOK, HandlesOK

\* Nothing of a content has been written at first.
LEMMA SubSeqEmptyIs == \A data \in Contents : SubSeq(data, 1, 0) = <<>>
  <1> TAKE data \in Contents
  <1>1. data \in Seq(Block)
    BY ContentsType
  <1> QED
    BY <1>1, SubSeqEmpty

\* Every step keeps Alone.
LEMMA AloneStep ==
  ASSUME TypeOK, Alone, [Next]_vars
  PROVE  Alone'
  <1>0. WritersOK /\ IsFileSystem(nodes)
    BY TypeParts
  <1>1. CASE Quiet
    <2>1. writing' = writing /\ mixed' = mixed
      BY <1>1 DEF Quiet
    <2>2. \A w \in Writers : writing[w].op = "write" =>
            nodes'[writing[w].node].data = nodes[writing[w].node].data
      BY <1>0, <1>1, FileKept DEF Quiet, WritersOK, HandlesOK
    <2> QED
      BY <2>1, <2>2 DEF Alone
  <1>2. ASSUME NEW w \in Writers, Prepares(w) PROVE Alone'
    <2>1. PICK s : /\ Becomes(w, s) /\ s.op # "write"
                   /\ s.op = "dirs" =>
                        s.pos = 0 \/ (writing[w].op = "dirs" /\ s.pos = writing[w].pos)
      BY <1>2 DEF Prepares
    <2>2. mixed' = mixed /\ Evolved(nodes, nodes', {})
      BY <1>2 DEF Prepares
    <2>3. /\ writing'[w] = s /\ \A v \in Writers : v # w => writing'[v] = writing[v]
          /\ \A v \in Writers : writing[v].op = "write" =>
               nodes'[writing[v].node].data = nodes[writing[v].node].data
      BY <2>1, <2>2, OthersStay, FileKept
    <2> QED
      BY <2>1, <2>2, <2>3, SMTT(30) DEF Alone
  <1>3. ASSUME NEW w \in Writers, Opens(w) PROVE Alone'
    <2>1. PICK i \in DOMAIN nodes' :
            /\ Evolved(nodes, nodes', {i})
            /\ nodes'[i].data = <<>>
            /\ Becomes(w, [writing[w] EXCEPT !.op = "write", !.node = i])
            /\ mixed' = IF i \in OpenNodes THEN mixed \cup {i} ELSE mixed \ {i}
      BY <1>3 DEF Opens
    <2> DEFINE s == [writing[w] EXCEPT !.op = "write", !.node = i]
    <2>2. /\ s.op = "write" /\ s.node = i /\ s.pos = 0 /\ s.data \in Contents
      <3>1. writing[w] \in WriteState /\ writing[w].op = "dirs" /\ writing[w].pos = 0
        BY <1>0, <1>3 DEF WritersOK, Opens, Alone
      <3>2. writing[w] \in [op : {"dirs", "write"}, path : Seq(Names), made : Nat,
                            node : Nat, data : Contents, pos : Nat, since : 0 .. MaxChanges]
        BY <3>1, StateShape
      <3> QED
        BY <3>1, <3>2
    <2>3. /\ writing'[w] = s /\ \A v \in Writers : v # w => writing'[v] = writing[v]
          /\ \A v \in Writers : writing[v].op = "write" =>
               writing[v].node \in DOMAIN nodes /\ nodes[writing[v].node].kind = "File"
      BY <2>1, OthersStay
    <2> HIDE DEF s
    <2>4. \A v \in Writers : writing[v].op = "write" /\ writing[v].node # i =>
            nodes'[writing[v].node].data = nodes[writing[v].node].data
      BY <2>1, <2>3, FileKept
    <2>5. \A v \in Writers : v # w /\ writing[v].op = "write" /\ i \notin mixed' =>
            writing[v].node # i
      BY <2>1, OpenIs
    <2>6. SubSeq(s.data, 1, 0) = <<>> /\ 0 <= Len(s.data)
      BY <2>2, SubSeqEmptyIs, ContentsType
    <2> SUFFICES ASSUME NEW v \in Writers
                 PROVE  /\ writing'[v].op = "dirs" => writing'[v].pos = 0
                        /\ writing'[v].op = "write" =>
                             /\ writing'[v].pos <= Len(writing'[v].data)
                             /\ writing'[v].node \notin mixed' =>
                                  /\ nodes'[writing'[v].node].data =
                                       SubSeq(writing'[v].data, 1, writing'[v].pos)
                                  /\ \A u \in Writers :
                                       writing'[u].op = "write"
                                         /\ writing'[u].node = writing'[v].node => u = v
      BY DEF Alone
    <2>7. CASE v = w
      BY <2>1, <2>2, <2>3, <2>5, <2>6, <2>7
    <2>8. CASE v # w
      <3>1. ASSUME writing[v].op = "write", writing[v].node \notin mixed'
            PROVE  writing[v].node # i /\ writing[v].node \notin mixed
        BY <2>1, <2>5, <2>8, <3>1
      <3> QED
        BY <2>2, <2>3, <2>4, <2>8, <3>1 DEF Alone
    <2> QED
      BY <2>7, <2>8
  <1>4. ASSUME NEW w \in Writers, Writes(w) PROVE Alone'
    <2> DEFINE c == writing[w]
               s == [c EXCEPT !.pos = c.pos + 1]
    <2>1. /\ Evolved(nodes, nodes', {c.node}) /\ Becomes(w, s) /\ mixed' = mixed
          /\ nodes[c.node].data = SubSeq(c.data, 1, c.pos) =>
               nodes'[c.node].data = SubSeq(c.data, 1, c.pos + 1)
          /\ c.op = "write" /\ c.pos < Len(c.data)
      BY <1>4 DEF Writes
    <2>2. /\ s.op = "write" /\ s.node = c.node /\ s.data = c.data /\ s.pos = c.pos + 1
          /\ c.pos \in Nat /\ Len(c.data) \in Nat
      <3>1. c \in WriteState /\ c.op = "write"
        BY <1>0, <2>1 DEF WritersOK
      <3>2. c \in [op : {"dirs", "write"}, path : Seq(Names), made : Nat,
                   node : Nat, data : Contents, pos : Nat, since : 0 .. MaxChanges]
        BY <3>1, StateShape
      <3> HIDE DEF c
      <3> QED
        BY <3>1, <3>2, ContentsType
    <2>3. /\ writing'[w] = s /\ \A v \in Writers : v # w => writing'[v] = writing[v]
          /\ \A v \in Writers : writing[v].op = "write" =>
               writing[v].node \in DOMAIN nodes /\ nodes[writing[v].node].kind = "File"
      BY <2>1, OthersStay
    <2>4. \A v \in Writers : writing[v].op = "write" /\ writing[v].node # c.node =>
            nodes'[writing[v].node].data = nodes[writing[v].node].data
      BY <2>1, <2>3, FileKept
    <2>5. c.pos + 1 <= Len(c.data)
      BY <2>1, <2>2
    <2>6. c = writing[w]
      OBVIOUS
    <2> HIDE DEF s, c
    <2> SUFFICES ASSUME NEW v \in Writers
                 PROVE  /\ writing'[v].op = "dirs" => writing'[v].pos = 0
                        /\ writing'[v].op = "write" =>
                             /\ writing'[v].pos <= Len(writing'[v].data)
                             /\ writing'[v].node \notin mixed' =>
                                  /\ nodes'[writing'[v].node].data =
                                       SubSeq(writing'[v].data, 1, writing'[v].pos)
                                  /\ \A u \in Writers :
                                       writing'[u].op = "write"
                                         /\ writing'[u].node = writing'[v].node => u = v
      BY DEF Alone
    <2>7. \A u \in Writers : writing'[u].op = writing[u].op /\ writing'[u].node = writing[u].node
      BY <2>1, <2>2, <2>3, <2>6
    <2>8. CASE v = w
      BY <2>1, <2>2, <2>3, <2>5, <2>6, <2>7, <2>8, ZenonT(30) DEF Alone
    <2>9. CASE v # w
      <3>1. ASSUME writing[v].op = "write", writing[v].node \notin mixed
            PROVE  writing[v].node # c.node
        BY <2>1, <2>6, <2>9, <3>1 DEF Alone
      <3> QED
        BY <2>1, <2>3, <2>4, <2>7, <2>9, <3>1 DEF Alone
    <2> QED
      BY <2>8, <2>9
  <1>5. ASSUME NEW w \in Writers, Ends(w) PROVE Alone'
    <2>1. Becomes(w, Idle) /\ Idle.op = "idle" /\ mixed \subseteq mixed' /\ nodes' = nodes
      BY <1>5 DEF Ends, Idle
    <2>2. /\ writing'[w] = Idle /\ \A v \in Writers : v # w => writing'[v] = writing[v]
      BY <2>1, OthersStay
    <2> QED
      BY <2>1, <2>2 DEF Alone
  <1>6. CASE CallbackStep
    <2>1. Unchanged
      BY <1>6, CallbackType
    <2> QED
      BY <1>0, <1>1, <2>1, EvolvedSame DEF Unchanged, Quiet
  <1>7. CASE UNCHANGED vars
    BY <1>0, <1>1, <1>7, EvolvedSame DEF vars, Quiet
  <1> QED
    BY <1>1, <1>2, <1>3, <1>4, <1>5, <1>6, <1>7, Steps DEF Quiet

\* Every step keeps AtRest.
LEMMA AtRestStep ==
  ASSUME TypeOK, Alone, AtRest, [Next]_vars
  PROVE  AtRest'
  <1>0. WritersOK /\ IsFileSystem(nodes)
    BY TypeParts
  <1> SUFFICES ASSUME NEW i \in DOMAIN nodes', i \notin OpenNodes', i \notin mixed',
                      nodes'[i].kind = "File"
               PROVE  Whole(nodes'[i].data)
    BY DEF AtRest, Whole
  <1>a. ASSUME NEW ex, Evolved(nodes, nodes', ex), i \notin ex, i \notin OpenNodes, i \notin mixed
        PROVE  Whole(nodes'[i].data)
    BY <1>a DEF Evolved, AtRest
  <1>1. CASE Quiet
    <2>1. i \notin OpenNodes /\ i \notin mixed
      BY <1>1 DEF Quiet, OpenNodes
    <2> QED
      BY <1>1, <1>a, <2>1 DEF Quiet
  <1>2. ASSUME NEW w \in Writers, Prepares(w) PROVE Whole(nodes'[i].data)
    <2>1. PICK s : Becomes(w, s) /\ writing[w].op # "write" /\ s.op # "write"
      BY <1>2 DEF Prepares
    <2>2. \A v \in Writers : v # w => writing'[v] = writing[v]
      BY <2>1, OthersStay
    <2>3. i \notin OpenNodes
      BY <2>1, <2>2, OpenIs
    <2> QED
      BY <1>2, <1>a, <2>3 DEF Prepares
  <1>3. ASSUME NEW w \in Writers, Opens(w) PROVE Whole(nodes'[i].data)
    <2>1. PICK j \in DOMAIN nodes' :
            /\ Evolved(nodes, nodes', {j})
            /\ Becomes(w, [writing[w] EXCEPT !.op = "write", !.node = j])
            /\ mixed' = IF j \in OpenNodes THEN mixed \cup {j} ELSE mixed \ {j}
      BY <1>3 DEF Opens
    <2> DEFINE s == [writing[w] EXCEPT !.op = "write", !.node = j]
    <2>2. s.op = "write" /\ s.node = j
      <3>1. writing[w] \in WriteState /\ writing[w].op = "dirs"
        BY <1>0, <1>3 DEF WritersOK, Opens
      <3>2. writing[w] \in [op : {"dirs", "write"}, path : Seq(Names), made : Nat,
                            node : Nat, data : Contents, pos : Nat, since : 0 .. MaxChanges]
        BY <3>1, StateShape
      <3> QED
        BY <3>1, <3>2
    <2>3. writing'[w] = s /\ \A v \in Writers : v # w => writing'[v] = writing[v]
      BY <2>1, OthersStay
    <2> HIDE DEF s
    <2>4. i # j
      BY <2>2, <2>3, OpenIs
    <2>5. i \notin OpenNodes
      <3>1. writing[w].op # "write"
        BY <1>3 DEF Opens
      <3> QED
        BY <2>3, <3>1, OpenIs
    <2>6. i \notin mixed
      BY <2>1, <2>4
    <2> QED
      BY <1>a, <2>1, <2>4, <2>5, <2>6
  <1>4. ASSUME NEW w \in Writers, Writes(w) PROVE Whole(nodes'[i].data)
    <2> DEFINE c == writing[w]
               s == [c EXCEPT !.pos = c.pos + 1]
    <2>1. /\ Evolved(nodes, nodes', {c.node}) /\ Becomes(w, s) /\ mixed' = mixed
          /\ c.op = "write"
      BY <1>4 DEF Writes
    <2>2. s.op = "write" /\ s.node = c.node
      <3>1. c \in WriteState
        BY <1>0 DEF WritersOK
      <3>2. c \in [op : {"dirs", "write"}, path : Seq(Names), made : Nat,
                   node : Nat, data : Contents, pos : Nat, since : 0 .. MaxChanges]
        BY <2>1, <3>1, StateShape
      <3>3. c.op = "write"
        BY <2>1
      <3> HIDE DEF c
      <3> QED
        BY <3>2, <3>3
    <2>3. writing'[w] = s /\ \A v \in Writers : v # w => writing'[v] = writing[v]
      BY <2>1, OthersStay
    <2> HIDE DEF s
    <2>4. i # c.node
      BY <2>2, <2>3, OpenIs
    <2>5. i \notin OpenNodes
      BY <2>3, <2>4, OpenIs
    <2> QED
      BY <1>a, <2>1, <2>4, <2>5
  <1>5. ASSUME NEW w \in Writers, Ends(w) PROVE Whole(nodes'[i].data)
    <2> DEFINE c == writing[w]
    <2>1. Becomes(w, Idle) /\ nodes' = nodes /\ c.op = "write" /\ i \notin mixed
      BY <1>5 DEF Ends
    <2>2. \A v \in Writers : v # w => writing'[v] = writing[v]
      BY <2>1, OthersStay
    <2>3. CASE i \in OpenNodes
      <3>1. i = c.node
        BY <2>2, <2>3, OpenIs
      <3>2. c.pos = Len(c.data)
        BY <1>5, <3>1 DEF Ends
      <3>3. nodes[i].data = SubSeq(c.data, 1, c.pos)
        BY <2>1, <3>1 DEF Alone
      <3>4. c.data \in Contents
        BY <1>0, <2>1, StateShape DEF WritersOK
      <3>5. SubSeq(c.data, 1, Len(c.data)) = c.data
        BY <3>4, ContentsType, SubSeqFull
      <3> QED
        BY <2>1, <3>2, <3>3, <3>4, <3>5 DEF Whole
    <2>4. CASE i \notin OpenNodes
      BY <2>1, <2>4 DEF AtRest
    <2> QED
      BY <2>3, <2>4
  <1>6. CASE CallbackStep
    <2>1. Unchanged
      BY <1>6, CallbackType
    <2> QED
      BY <1>0, <1>1, <2>1, EvolvedSame DEF Unchanged, Quiet
  <1>7. CASE UNCHANGED vars
    BY <1>0, <1>1, <1>7, EvolvedSame DEF vars, Quiet
  <1> QED
    BY <1>1, <1>2, <1>3, <1>4, <1>5, <1>6, <1>7, Steps DEF Quiet

\* What the history of a callback says of a read.
LEMMA RacedSeen ==
  ASSUME History, callback'.op = "read"
  PROVE  <<"raced">> \notin seen' =>
           /\ callback'.node \notin OpenNodes' \cup mixed'
           /\ callback # Idle => <<"raced">> \notin seen
  <1>1. callback' # Idle
    BY DEF Idle
  <1>2. seen' = Moment' \cup (IF callback = Idle THEN {} ELSE seen)
    BY <1>1 DEF History
  <1>3. Moment' = IF callback'.node \in OpenNodes' \cup mixed' THEN {<<"raced">>} ELSE {}
    BY DEF Moment
  <1> HIDE DEF Moment
  <1> QED
    BY <1>2, <1>3

\* Every step keeps Reading.
LEMMA ReadingStep ==
  ASSUME TypeOK, Reading, [Next]_vars, TypeOK'
  PROVE  Reading'
  <1>0. WritersOK /\ IsFileSystem(nodes) /\ CallbackOK(callback, nodes)
    BY TypeParts
  <1> SUFFICES ASSUME callback'.op = "read", <<"raced">> \notin seen'
               PROVE  /\ callback'.node \notin OpenNodes' \cup mixed'
                      /\ Len(callback'.got) <= Len(nodes'[callback'.node].data)
                      /\ callback'.got =
                           SubSeq(nodes'[callback'.node].data, 1, Len(callback'.got))
    BY DEF Reading
  <1>1. CASE UNCHANGED vars
    BY <1>1 DEF Reading, vars, OpenNodes
  <1>2. CASE ~UNCHANGED vars
    <2>1. History
      BY <1>2 DEF Next
    <2>2. callback'.node \notin OpenNodes' \cup mixed'
          /\ (callback # Idle => <<"raced">> \notin seen)
      BY <2>1, RacedSeen
    <2>3. ASSUME callback' = callback,
                 NEW ex, Evolved(nodes, nodes', ex), callback.node \notin ex
          PROVE  /\ Len(callback'.got) <= Len(nodes'[callback'.node].data)
                 /\ callback'.got =
                      SubSeq(nodes'[callback'.node].data, 1, Len(callback'.got))
      <3>1. callback.op = "read" /\ callback # Idle
        BY <2>3 DEF Idle
      <3>2. callback.node \in DOMAIN nodes /\ nodes[callback.node].kind = "File"
        BY <1>0, <3>1 DEF CallbackOK, Idle
      <3>3. nodes'[callback.node].data = nodes[callback.node].data
        BY <2>3, <3>2, FileKept
      <3> QED
        BY <2>2, <2>3, <3>1, <3>3 DEF Reading
    <2>4. CASE CallbackStep
      <3>1. nodes' = nodes
        BY <2>4, CallbackType DEF Unchanged
      <3>2. CASE ReadOpen
        <4>1. callback'.got = <<>> /\ callback'.node \in DOMAIN nodes
              /\ nodes[callback'.node].kind = "File"
          <5>1. callback'.got = <<>>
            <6>1. PICK p \in Readable :
                    \/ callback' = Idle
                    \/ callback' = [op |-> "read", node |-> Lookup(ResolvePath(p)).node,
                                    got |-> <<>>]
              BY <3>2 DEF ReadOpen, Answer
            <6> QED
              BY <6>1 DEF Idle
          <5>2. CallbackOK(callback', nodes)
            BY <2>4, CallbackType
          <5> QED
            BY <5>1, <5>2 DEF CallbackOK, Idle
        <4>2. nodes[callback'.node].data \in Seq(Block)
          BY <1>0, <4>1, ElementOfSeq, LenProperties, NodeShape DEF IsFileSystem
        <4>3. SubSeq(nodes[callback'.node].data, 1, 0) = <<>> /\ Len(callback'.got) = 0
              /\ 0 <= Len(nodes[callback'.node].data)
          BY <4>1, <4>2, SubSeqEmpty, LenProperties, EmptySeq
        <4> QED
          BY <2>2, <3>1, <4>1, <4>3
      <3>3. CASE ReadBlock
        <4> DEFINE data == nodes[callback.node].data
                   got == callback.got
                   next == Len(got) + 1
        <4>1. /\ callback.op = "read" /\ callback.node \in DOMAIN nodes
              /\ nodes[callback.node].kind = "File" /\ got \in Seq(Block)
              /\ callback \in [op : {"read"}, node : DOMAIN nodes, got : Seq(Block)]
          BY <1>0, <3>3 DEF ReadBlock, CallbackOK, Idle
        <4>2. data \in Seq(Block)
          BY <1>0, <4>1, ElementOfSeq, LenProperties, NodeShape DEF IsFileSystem
        <4>3. next \in DOMAIN data /\ callback' = [callback EXCEPT !.got = Append(@, data[next])]
          BY <3>3 DEF ReadBlock, Answer, Idle
        <4>4. callback'.got = Append(got, data[next]) /\ callback'.node = callback.node
          BY <4>1, <4>3
        <4>5. Len(got) <= Len(data) /\ got = SubSeq(data, 1, Len(got))
          <5>1. callback # Idle
            BY <4>1 DEF Idle
          <5> QED
            BY <2>2, <4>1, <5>1 DEF Reading
        <4>6. got \in Seq(Block) /\ data \in Seq(Block)
          BY <4>1, <4>2
        <4> HIDE DEF data, got
        <4>7. Len(got) \in Nat /\ Len(data) \in Nat /\ next \in 1 .. Len(data) /\ next \in Nat
          BY <4>3, <4>6, LenProperties
        <4>8. SubSeq(data, 1, next) = Append(SubSeq(data, 1, Len(got)), data[next])
          <5>1. \A k \in 1 .. next : data[k] \in Block
            BY <4>6, <4>7, ElementOfSeq
          <5>2. next - 1 = Len(got)
            BY <4>7
          <5> QED
            BY <4>6, <4>7, <5>1, <5>2, SubSeqRecursiveSecond
        <4>9. Len(Append(got, data[next])) = next
          <5>1. data[next] \in Block
            BY <4>6, <4>7, ElementOfSeq
          <5> QED
            BY <4>6, <5>1, AppendProperties
        <4>10. nodes'[callback'.node].data = data
          BY <3>1, <4>4 DEF data
        <4> QED
          BY <2>2, <4>4, <4>5, <4>7, <4>8, <4>9, <4>10
      <3>4. CASE ListOpen \/ ListEntry \/ ListDone \/ CallbackFails
        <4>1. callback'.op # "read"
          <5>1. callback.op = "list" => callback \in [op : {"list"}, path : Seq(Names),
                   node : DOMAIN nodes, left : SUBSET Names,
                   files : SUBSET Names, directories : SUBSET Names]
            BY <1>0 DEF CallbackOK, Idle
          <5>2. CASE ListOpen
            <6>1. PICK p \in Listed :
                    \/ callback' = Idle
                    \/ callback' = [op |-> "list", path |-> ResolvePath(p),
                                    node |-> Lookup(ResolvePath(p)).node, left |-> Names,
                                    files |-> {}, directories |-> {}]
              BY <5>2 DEF ListOpen, Answer
            <6> QED
              BY <6>1 DEF Idle
          <5>3. CASE ListEntry
            <6>1. PICK n \in callback.left :
                    callback' = [callback EXCEPT !.left = @ \ {n},
                      !.files = @ \cup {x \in {n} : EntryKind(x) = "File"},
                      !.directories = @ \cup {x \in {n} : EntryKind(x) = "Dir"}]
              BY <5>3 DEF ListEntry
            <6>2. callback.op = "list"
              BY <5>3 DEF ListEntry
            <6> QED
              BY <5>1, <6>1, <6>2
          <5>4. CASE ListDone \/ CallbackFails
            BY <5>4 DEF ListDone, CallbackFails, Answer, Idle
          <5> QED
            BY <3>4, <5>2, <5>3, <5>4
        <4> QED
          BY <4>1
      <3> QED
        BY <2>4, <3>2, <3>3, <3>4 DEF CallbackStep
    <2>5. ASSUME NEW w \in Writers, Prepares(w) PROVE callback' = callback /\ Evolved(nodes, nodes', {})
      BY <2>5 DEF Prepares
    <2>6. ASSUME NEW w \in Writers, Opens(w)
          PROVE  callback' = callback
                 /\ \E ex : Evolved(nodes, nodes', ex) /\ callback.node \notin ex
      <3>1. PICK i \in DOMAIN nodes' :
              /\ Evolved(nodes, nodes', {i})
              /\ Becomes(w, [writing[w] EXCEPT !.op = "write", !.node = i])
        BY <2>6 DEF Opens
      <3>2. callback' = callback
        BY <2>6 DEF Opens
      <3>3. i \in OpenNodes'
        <4>1. writing[w] \in WriteState /\ writing[w].op = "dirs"
          BY <1>0, <2>6 DEF WritersOK, Opens
        <4>2. writing[w] \in [op : {"dirs", "write"}, path : Seq(Names), made : Nat,
                              node : Nat, data : Contents, pos : Nat, since : 0 .. MaxChanges]
          BY <4>1, StateShape
        <4>3. writing'[w] = [writing[w] EXCEPT !.op = "write", !.node = i]
          BY <3>1, OthersStay
        <4>4. writing'[w].op = "write" /\ writing'[w].node = i
          BY <4>2, <4>3
        <4> QED
          BY <4>4, OpenIs
      <3>4. callback.node \notin {i}
        BY <2>2, <3>2, <3>3
      <3> QED
        BY <3>1, <3>2, <3>4
    <2>7. ASSUME NEW w \in Writers, Writes(w)
          PROVE  callback' = callback
                 /\ \E ex : Evolved(nodes, nodes', ex) /\ callback.node \notin ex
      <3>1. /\ Evolved(nodes, nodes', {writing[w].node}) /\ callback' = callback
            /\ Becomes(w, [writing[w] EXCEPT !.pos = writing[w].pos + 1])
        BY <2>7 DEF Writes
      <3>2. writing[w].node \in OpenNodes'
        <4>1. writing[w] \in WriteState /\ writing[w].op = "write"
          BY <1>0, <2>7 DEF WritersOK, Writes
        <4>2. writing[w] \in [op : {"dirs", "write"}, path : Seq(Names), made : Nat,
                              node : Nat, data : Contents, pos : Nat, since : 0 .. MaxChanges]
          BY <4>1, StateShape
        <4>3. writing'[w] = [writing[w] EXCEPT !.pos = writing[w].pos + 1]
          BY <3>1, OthersStay
        <4>4. writing'[w].op = "write" /\ writing'[w].node = writing[w].node
          BY <4>1, <4>2, <4>3
        <4> QED
          BY <4>4, OpenIs
      <3>3. callback.node \notin {writing[w].node}
        BY <2>2, <3>1, <3>2
      <3> QED
        BY <3>1, <3>3
    <2>8. ASSUME NEW w \in Writers, Ends(w) PROVE callback' = callback /\ Evolved(nodes, nodes', {})
      BY <1>0, <2>8, EvolvedSame DEF Ends
    <2>9. CASE CallbackStep \/ \E ex : /\ callback' = callback /\ Evolved(nodes, nodes', ex)
                                       /\ callback.node \notin ex
      BY <2>2, <2>3, <2>4, <2>9
    <2> QED
      BY <1>2, <2>5, <2>6, <2>7, <2>8, <2>9, Steps
  <1> QED
    BY <1>1, <1>2

\* A read that nobody disturbed has returned a whole content.
Answered ==
  callback = Idle /\ answer.kind = "Some" /\ <<"raced">> \notin seen => Whole(answer.data)

\* Every step keeps Answered.
LEMMA AnsweredStep ==
  ASSUME TypeOK, AtRest, Reading, Answered, [Next]_vars
  PROVE  Answered'
  <1>0. WritersOK /\ IsFileSystem(nodes) /\ CallbackOK(callback, nodes)
    BY TypeParts
  <1> SUFFICES ASSUME callback' = Idle, answer'.kind = "Some", <<"raced">> \notin seen'
               PROVE  Whole(answer'.data)
    BY DEF Answered, Whole
  <1>1. CASE callback' = callback /\ answer' = answer /\ seen' = seen
    BY <1>1 DEF Answered
  <1>2. CASE CallbackStep /\ History
    <2>1. seen' = seen
      BY <1>2 DEF History
    <2>2. CASE ReadOpen \/ ListOpen
      <3>1. answer'.kind # "Some"
        <4>1. answer' \in {None, Err}
          BY <2>2 DEF ReadOpen, ListOpen, Answer
        <4> QED
          BY <4>1 DEF None, Err
      <3> QED
        BY <3>1
    <2>3. CASE ListEntry
      <3>1. callback' # Idle
        <4>1. callback.op = "list" /\ callback \in [op : {"list"}, path : Seq(Names),
                 node : DOMAIN nodes, left : SUBSET Names,
                 files : SUBSET Names, directories : SUBSET Names]
          BY <1>0, <2>3 DEF CallbackOK, Idle, ListEntry
        <4>2. PICK n \in callback.left :
                callback' = [callback EXCEPT !.left = @ \ {n},
                  !.files = @ \cup {x \in {n} : EntryKind(x) = "File"},
                  !.directories = @ \cup {x \in {n} : EntryKind(x) = "Dir"}]
          BY <2>3 DEF ListEntry
        <4>3. callback'.op = "list"
          BY <4>1, <4>2
        <4> QED
          BY <4>3 DEF Idle
      <3> QED
        BY <3>1
    <2>4. CASE ListDone \/ CallbackFails
      BY <2>4 DEF ListDone, CallbackFails, Answer, Err
    <2>5. CASE ReadBlock
      <3> DEFINE data == nodes[callback.node].data
                 got == callback.got
                 next == Len(got) + 1
      <3>1. /\ callback.op = "read" /\ callback.node \in DOMAIN nodes
            /\ nodes[callback.node].kind = "File" /\ got \in Seq(Block)
            /\ callback \in [op : {"read"}, node : DOMAIN nodes, got : Seq(Block)]
        BY <1>0, <2>5 DEF ReadBlock, CallbackOK, Idle
      <3>2. data \in Seq(Block)
        BY <1>0, <3>1, ElementOfSeq, LenProperties, NodeShape DEF IsFileSystem
      <3>3. next \notin DOMAIN data
        <4>1. ASSUME callback' = [callback EXCEPT !.got = Append(@, data[next])] PROVE FALSE
          <5>1. callback'.op = "read"
            BY <3>1, <4>1
          <5> QED
            BY <5>1 DEF Idle
        <4> QED
          BY <2>5, <4>1 DEF ReadBlock
      <3>4. answer' = [kind |-> "Some", data |-> got]
        BY <2>5, <3>3 DEF ReadBlock, Answer
      <3>5. /\ callback.node \notin OpenNodes \cup mixed
            /\ Len(got) <= Len(data) /\ got = SubSeq(data, 1, Len(got))
        BY <2>1, <3>1 DEF Reading
      <3>6. Len(got) = Len(data)
        <4>1. Len(got) \in Nat /\ Len(data) \in Nat /\ DOMAIN data = 1 .. Len(data)
          BY <3>1, <3>2, LenProperties
        <4>2. \A i, j \in Nat : i <= j /\ i + 1 \notin 1 .. j => i = j
          OBVIOUS
        <4>3. Len(got) + 1 \notin 1 .. Len(data) /\ Len(got) <= Len(data)
          BY <3>3, <3>5, <4>1
        <4> HIDE DEF data, got
        <4> QED
          BY <4>1, <4>2, <4>3
      <3>7. got = data
        BY <3>2, <3>5, <3>6, SubSeqFull
      <3>8. Whole(data)
        BY <3>1, <3>5 DEF AtRest
      <3> QED
        BY <3>4, <3>7, <3>8
    <2> QED
      BY <1>2, <2>2, <2>3, <2>4, <2>5 DEF CallbackStep
  <1>3. CASE UNCHANGED <<callback, answer>> /\ History
    <2>1. seen' = seen
      BY <1>3 DEF History
    <2> QED
      BY <1>1, <1>3, <2>1
  <1>4. CASE UNCHANGED vars
    BY <1>1, <1>4 DEF vars
  <1> QED
    BY <1>2, <1>3, <1>4, Steps DEF Prepares, Opens, Writes, Ends

\* What a name of the directory listed is, the lookups find it to be, as long as
\* the path leads to that directory.
LEMMA MomentOfName ==
  ASSUME TypeOK, callback.op = "list", <<"moved">> \notin Moment, NEW n \in Names
  PROVE  /\ KindAt(n) \in {"None", "File", "Dir", "Link"}
         /\ <<n, KindAt(n)>> \in Moment
  <1>0. IsFileSystem(nodes) /\ CallbackOK(callback, nodes)
    BY TypeParts
  <1> DEFINE d == callback.node
             i == nodes[d].entries[n]
             path == callback.path
             longer == Append(path, n)
  <1>1. /\ callback \in [op : {"list"}, path : Seq(Names), node : DOMAIN nodes,
              left : SUBSET Names, files : SUBSET Names, directories : SUBSET Names]
        /\ nodes[d].kind = "Dir"
    BY <1>0 DEF CallbackOK, Idle
  <1>2. d \in DOMAIN nodes /\ path \in Seq(Names)
    BY <1>1
  <1>3. /\ Lookup(path) # [error |-> "", node |-> d] => <<"moved">> \in Moment
        /\ <<n, Found(n)>> \in Moment
        /\ KindAt(n) = "Link" => <<n, "Link">> \in Moment
    BY DEF Moment
  <1>4. EndsAt(nodes, Start(path), d) /\ longer \in Seq(Names)
    <2>1. Lookup(path) = WalkOn(nodes)[Start(path)]
      BY <1>0, <1>2, LeadsIs
    <2> QED
      BY <1>2, <1>3, <2>1, AppendProperties DEF EndsAt
  <1>5. i # NoEntry => i \in DOMAIN nodes /\ nodes[i].kind \in {"File", "Dir", "Link"}
    <2>1. i # NoEntry => i \in DOMAIN nodes
      BY <1>0, <1>1, <1>2, EntryType
    <2>2. i \in DOMAIN nodes => nodes[i] \in Node
      BY <1>0, ElementOfSeq, LenProperties DEF IsFileSystem
    <2> QED
      BY <2>1, <2>2, NodeShape
  <1>6. KindAt(n) = IF i = NoEntry THEN "None" ELSE nodes[i].kind
    BY DEF KindAt
  <1>7. /\ i = NoEntry => Lookup(longer).error # ""
        /\ i # NoEntry /\ nodes[i].kind # "Link" => EndsAt(nodes, Start(longer), i)
    <2>1. /\ i = NoEntry =>
               WalkOn(nodes)[Start(longer)] = [error |-> "NotFound", dir |-> d, rest |-> <<n>>]
          /\ i # NoEntry /\ nodes[i].kind # "Link" => EndsAt(nodes, Start(longer), i)
      BY <1>0, <1>1, <1>2, <1>4, PathEntry
    <2>2. Lookup(longer) = WalkOn(nodes)[Start(longer)]
      BY <1>0, <1>4, LeadsIs
    <2>3. \A e, rest : [error |-> "NotFound", dir |-> e, rest |-> rest].error # ""
      OBVIOUS
    <2> HIDE DEF i, longer
    <2> QED
      BY <2>1, <2>2, <2>3, Zenon
  <1>8. KindAt(n) # "Link" => Found(n) = KindAt(n)
    <2>1. Found(n) = IF Leads(longer, "File") THEN "File"
                     ELSE IF Leads(longer, "Dir") THEN "Dir" ELSE "None"
      BY DEF Found
    <2>2. CASE i = NoEntry
      BY <1>6, <1>7, <2>1, <2>2 DEF Leads
    <2>3. CASE i # NoEntry /\ nodes[i].kind # "Link"
      <3>1. Lookup(longer).error = "" /\ Lookup(longer).node = i
        BY <1>0, <1>4, <1>7, <2>3, LeadsIs
      <3>2. \A kind : Leads(longer, kind) <=> nodes[i].kind = kind
        BY <3>1 DEF Leads
      <3> QED
        BY <1>5, <1>6, <2>1, <2>3, <3>2
    <2> QED
      BY <1>6, <2>2, <2>3
  <1> QED
    BY <1>3, <1>5, <1>6, <1>8

\* What the listing knows stays known.
LEMMA ListingStep ==
  ASSUME TypeOK, Listing, [Next]_vars, TypeOK'
  PROVE  Listing'
  <1>0. WritersOK /\ IsFileSystem(nodes) /\ CallbackOK(callback, nodes)
    BY TypeParts
  <1> SUFFICES ASSUME callback'.op = "list" PROVE Listing'
    BY DEF Listing
  <1>1. CASE UNCHANGED vars
    <2>1. /\ nodes' = nodes /\ callback' = callback /\ writing' = writing
          /\ mixed' = mixed /\ seen' = seen
      BY <1>1 DEF vars
    <2>2. Walk' = Walk
      BY <2>1 DEF Walk
    <2>3. \A path : Lookup(path)' = Lookup(path)
      BY <2>2 DEF Lookup
    <2>4. \A n : Found(n)' = Found(n) /\ KindAt(n)' = KindAt(n)
      BY <2>1, <2>3 DEF Found, Leads, KindAt
    <2>5. Moment' = Moment
      BY <2>1, <2>3, <2>4 DEF Moment, OpenNodes
    <2> QED
      BY <2>1, <2>5 DEF Listing
  <1>2. CASE History
    <2>1. callback' # Idle
      BY DEF Idle
    <2>2. seen' = Moment' \cup (IF callback = Idle THEN {} ELSE seen)
      BY <1>2, <2>1 DEF History
    <2>3. Moment' \subseteq seen' /\ (callback # Idle => seen \subseteq seen')
      BY <2>2
    <2>4. ASSUME callback' = callback PROVE Listing'
      <3>1. callback # Idle /\ callback.op = "list"
        BY <2>1, <2>4
      <3> QED
        BY <2>3, <2>4, <3>1 DEF Listing
    <2>5. CASE CallbackStep
      <3>1. CASE ListEntry
        <4>1. /\ callback.op = "list" /\ callback # Idle
              /\ callback \in [op : {"list"}, path : Seq(Names), node : DOMAIN nodes,
                   left : SUBSET Names, files : SUBSET Names, directories : SUBSET Names]
          BY <1>0, <3>1 DEF CallbackOK, Idle, ListEntry
        <4>2. PICK n \in callback.left :
                callback' = [callback EXCEPT !.left = @ \ {n},
                  !.files = @ \cup {x \in {n} : EntryKind(x) = "File"},
                  !.directories = @ \cup {x \in {n} : EntryKind(x) = "Dir"}]
          BY <3>1 DEF ListEntry
        <4>3. /\ callback'.left = callback.left \ {n} /\ n \in Names
              /\ callback'.files = callback.files \cup {x \in {n} : KindAt(x) = "File"}
              /\ callback'.directories =
                   callback.directories \cup {x \in {n} : KindAt(x) = "Dir"}
          BY <4>1, <4>2 DEF EntryKind
        <4>4. SUFFICES ASSUME <<"moved">> \notin seen'
                       PROVE  /\ \A m \in callback'.files : <<m, "File">> \in seen'
                              /\ \A m \in callback'.directories : <<m, "Dir">> \in seen'
                              /\ \A m \in Names \ callback'.left :
                                   \/ m \in callback'.files \cup callback'.directories
                                   \/ <<m, "None">> \in seen' \/ <<m, "Link">> \in seen'
          BY <2>3 DEF Listing
        <4>5. Moment \subseteq seen /\ seen \subseteq seen' /\ <<"moved">> \notin seen
          BY <2>3, <4>1, <4>4 DEF Listing
        <4>6. /\ KindAt(n) \in {"None", "File", "Dir", "Link"}
              /\ <<n, KindAt(n)>> \in Moment
          BY <4>1, <4>3, <4>5, MomentOfName
        <4>7. /\ \A m \in callback.files : <<m, "File">> \in seen
              /\ \A m \in callback.directories : <<m, "Dir">> \in seen
              /\ \A m \in Names \ callback.left :
                   \/ m \in callback.files \cup callback.directories
                   \/ <<m, "None">> \in seen \/ <<m, "Link">> \in seen
          BY <4>1, <4>5 DEF Listing
        <4>8. <<n, KindAt(n)>> \in seen'
          BY <4>5, <4>6
        <4>9. \A m \in callback'.files : <<m, "File">> \in seen'
          BY <4>3, <4>5, <4>7, <4>8
        <4>10. \A m \in callback'.directories : <<m, "Dir">> \in seen'
          BY <4>3, <4>5, <4>7, <4>8
        <4>11. \A m \in Names \ callback'.left :
                 \/ m \in callback'.files \cup callback'.directories
                 \/ <<m, "None">> \in seen' \/ <<m, "Link">> \in seen'
          BY <4>3, <4>5, <4>6, <4>7, <4>8
        <4> QED
          BY <4>9, <4>10, <4>11
      <3>2. CASE ListOpen
        <4>1. callback'.left = Names /\ callback'.files = {} /\ callback'.directories = {}
          <5>1. PICK p \in Listed :
                  \/ callback' = Idle
                  \/ callback' = [op |-> "list", path |-> ResolvePath(p),
                                  node |-> Lookup(ResolvePath(p)).node, left |-> Names,
                                  files |-> {}, directories |-> {}]
            BY <3>2 DEF ListOpen, Answer
          <5> QED
            BY <2>1, <5>1
        <4> QED
          BY <2>3, <4>1 DEF Listing
      <3>3. CASE ReadOpen
        <4>1. PICK p \in Readable :
                \/ callback' = Idle
                \/ callback' = [op |-> "read", node |-> Lookup(ResolvePath(p)).node,
                                got |-> <<>>]
          BY <3>3 DEF ReadOpen, Answer
        <4> QED
          BY <2>1, <4>1
      <3>4. CASE ReadBlock
        <4>1. callback \in [op : {"read"}, node : DOMAIN nodes, got : Seq(Block)]
          BY <1>0, <3>4 DEF ReadBlock, CallbackOK, Idle
        <4>2. callback'.op # "list"
          BY <3>4, <4>1 DEF ReadBlock, Answer, Idle
        <4> QED
          BY <4>2
      <3>5. CASE ListDone \/ CallbackFails
        BY <2>1, <3>5 DEF ListDone, CallbackFails, Answer
      <3> QED
        BY <2>5, <3>1, <3>2, <3>3, <3>4, <3>5 DEF CallbackStep
    <2>6. CASE callback' = callback
      BY <2>4, <2>6
    <2> QED
      BY <1>2, <2>5, <2>6, Steps DEF Prepares, Opens, Writes, Ends, vars
  <1> QED
    BY <1>1, <1>2, Steps

\* An answer of get_accessible_entries agrees with the lookups.
LEMMA ListedStep ==
  ASSUME TypeOK, Listing, ListedAsFound, [Next]_vars
  PROVE  ListedAsFound'
  <1>0. WritersOK /\ IsFileSystem(nodes) /\ CallbackOK(callback, nodes)
    BY TypeParts
  <1> SUFFICES ASSUME callback' = Idle, answer'.kind = "Entries", <<"moved">> \notin seen'
               PROVE  ListedAsFound'
    BY DEF ListedAsFound
  <1>1. CASE callback' = callback /\ answer' = answer /\ seen' = seen
    BY <1>1 DEF ListedAsFound
  <1>2. CASE CallbackStep /\ History
    <2>1. seen' = seen
      BY <1>2 DEF History
    <2>2. CASE ReadOpen \/ ListOpen
      <3>1. answer' \in {None, Err}
        BY <2>2 DEF ReadOpen, ListOpen, Answer
      <3> QED
        BY <3>1 DEF None, Err
    <2>3. CASE ListEntry
      <3>1. callback.op = "list" /\ callback \in [op : {"list"}, path : Seq(Names),
               node : DOMAIN nodes, left : SUBSET Names,
               files : SUBSET Names, directories : SUBSET Names]
        BY <1>0, <2>3 DEF CallbackOK, Idle, ListEntry
      <3>2. PICK n \in callback.left :
              callback' = [callback EXCEPT !.left = @ \ {n},
                !.files = @ \cup {x \in {n} : EntryKind(x) = "File"},
                !.directories = @ \cup {x \in {n} : EntryKind(x) = "Dir"}]
        BY <2>3 DEF ListEntry
      <3>3. callback'.op = "list"
        BY <3>1, <3>2
      <3> QED
        BY <3>3 DEF Idle
    <2>4. CASE CallbackFails
      BY <2>4 DEF CallbackFails, Answer, Err
    <2>5. CASE ReadBlock
      <3>1. callback \in [op : {"read"}, node : DOMAIN nodes, got : Seq(Block)]
        BY <1>0, <2>5 DEF ReadBlock, CallbackOK, Idle
      <3>2. callback' # [callback EXCEPT !.got =
                Append(@, nodes[callback.node].data[Len(callback.got) + 1])]
        BY <3>1 DEF Idle
      <3>3. answer' = [kind |-> "Some", data |-> callback.got]
        BY <2>5, <3>2 DEF ReadBlock, Answer
      <3> QED
        BY <3>3
    <2>6. CASE ListDone
      <3>1. /\ callback.op = "list" /\ callback.left = {}
            /\ answer'.files = callback.files /\ answer'.directories = callback.directories
        BY <2>6 DEF ListDone, Answer
      <3>2. /\ \A n \in callback.files : <<n, "File">> \in seen
            /\ \A n \in callback.directories : <<n, "Dir">> \in seen
            /\ \A n \in Names \ callback.left :
                 \/ n \in callback.files \cup callback.directories
                 \/ <<n, "None">> \in seen \/ <<n, "Link">> \in seen
        BY <2>1, <3>1 DEF Listing
      <3> QED
        BY <2>1, <3>1, <3>2 DEF ListedAsFound
    <2> QED
      BY <1>2, <2>2, <2>3, <2>4, <2>5, <2>6 DEF CallbackStep
  <1>3. CASE UNCHANGED <<callback, answer>> /\ History
    <2>1. seen' = seen
      BY <1>3 DEF History
    <2> QED
      BY <1>1, <1>3, <2>1
  <1>4. CASE UNCHANGED vars
    BY <1>1, <1>4 DEF vars
  <1> QED
    BY <1>2, <1>3, <1>4, Steps DEF Prepares, Opens, Writes, Ends

\* The directories on the way of a path.
LEMMA PathParts ==
  ASSUME NEW path \in Seq(Names), NEW k \in 1 .. Len(path)
  PROVE  LET part == SubSeq(path, 1, k) IN
         /\ part \in Seq(Names) /\ Last(part) \in Names
         /\ Front(part) = SubSeq(path, 1, k - 1) /\ Front(part) \in Seq(Names)
         /\ part = Append(Front(part), Last(part))
  <1> DEFINE part == SubSeq(path, 1, k)
             front == SubSeq(path, 1, k - 1)
  <1>1. Len(path) \in Nat /\ k \in Nat /\ k - 1 \in Nat /\ 1 <= k /\ k <= Len(path)
    BY LenProperties
  <1>2. \A i \in 1 .. k : path[i] \in Names
    BY <1>1, ElementOfSeq
  <1>3. part \in Seq(Names) /\ Len(part) = k /\ \A i \in 1 .. k : part[i] = path[i]
    BY <1>1, <1>2, SubSeqProperties
  <1>4. front \in Seq(Names) /\ Len(front) = k - 1 /\ \A i \in 1 .. k - 1 : front[i] = path[i]
    <2>1. \A i \in 1 .. k - 1 : path[i] \in Names
      BY <1>1, <1>2
    <2> QED
      BY <1>1, <2>1, SubSeqProperties
  <1>5. Last(part) = path[k] /\ path[k] \in Names
    BY <1>1, <1>2, <1>3 DEF Last
  <1>6. part = Append(front, path[k])
    BY <1>1, <1>2, SubSeqRecursiveSecond
  <1> HIDE DEF part, front
  <1>7. /\ SubSeq(part, 1, k - 1) \in Seq(Names) /\ Len(SubSeq(part, 1, k - 1)) = k - 1
        /\ \A i \in 1 .. k - 1 : SubSeq(part, 1, k - 1)[i] = part[i]
    <2>1. \A i \in 1 .. k - 1 : part[i] \in Names
      BY <1>1, <1>2, <1>3
    <2> QED
      BY <1>1, <1>3, <2>1, SubSeqProperties
  <1>8. SubSeq(part, 1, k - 1) = front
    <2>1. \A i \in 1 .. k - 1 : SubSeq(part, 1, k - 1)[i] = front[i]
      BY <1>1, <1>3, <1>4, <1>7
    <2> QED
      BY <1>4, <1>7, <2>1, SeqEqual
  <1>9. Front(part) = front
    BY <1>3, <1>8 DEF Front
  <1> QED
    BY <1>3, <1>4, <1>5, <1>6, <1>9 DEF part, front

\* The path without a name leads to the root.
LEMMA RootLeads ==
  ASSUME NEW m, IsFileSystem(m), m[Root].kind = "Dir"
  PROVE  LeadsIn(m, <<>>, "Dir")
  <1>1. Root \in DOMAIN m /\ Start(<<>>) \in Places(m)
    <2>1. <<>> \in Seq(Names)
      OBVIOUS
    <2> QED
      BY <2>1, RootThere, StartType
  <1>2. ~Goes(m, Start(<<>>)) /\ Stop(m, Start(<<>>)) = [error |-> "", node |-> Root]
    BY DEF Goes, Stop, Start
  <1>3. EndsAt(m, Start(<<>>), Root)
    BY <1>1, <1>2, WalkSteps DEF EndsAt
  <1> QED
    BY <1>1, <1>3 DEF LeadsIn

\* What leads to a directory goes on leading to it as long as nothing is lost.
LEMMA LeadsStay ==
  ASSUME NEW m, IsFileSystem(m), NEW n, IsFileSystem(n), Keeps(m, n),
         NEW path \in Seq(Names), NEW kind, LeadsIn(m, path, kind)
  PROVE  LeadsIn(n, path, kind)
  <1>1. PICK d \in DOMAIN m : EndsAt(m, Start(path), d) /\ m[d].kind = kind
    BY DEF LeadsIn
  <1>2. Start(path) \in Places(m)
    BY StartType
  <1>3. EndsAt(n, Start(path), d)
    BY <1>1, <1>2, KeepsWalk
  <1> QED
    BY <1>1, <1>3 DEF LeadsIn, Keeps, Grown

\* A call has come as far when nothing is lost.
LEMMA GoingStays ==
  ASSUME NEW m, IsFileSystem(m), NEW n, IsFileSystem(n), Keeps(m, n),
         NEW c \in WriteState, NEW k, Going(c, m, k)
  PROVE  Going(c, n, k)
  <1> SUFFICES ASSUME c.op = "dirs", c.since = k
               PROVE  LeadsIn(n, SubSeq(c.path, 1, c.made), "Dir")
    BY DEF Going
  <1>1. c.path \in Seq(Names) /\ c.made \in Nat
    BY StateShape
  <1>2. c.made = 0 \/ c.made < Len(c.path)
    BY DEF Going
  <1>3. SubSeq(c.path, 1, c.made) \in Seq(Names)
    <2>1. Len(c.path) \in Nat
      BY <1>1, LenProperties
    <2>2. \A i \in 1 .. c.made : c.path[i] \in Names
      BY <1>1, <1>2, <2>1, ElementOfSeq
    <2> QED
      BY <1>1, <2>2, SubSeqProperties
  <1>4. LeadsIn(m, SubSeq(c.path, 1, c.made), "Dir")
    BY DEF Going
  <1> QED
    BY <1>3, <1>4, LeadsStay

\* The directory that write_file makes next.
LEMMA NextDir ==
  ASSUME TypeOK, NEW w \in Writers, writing[w].op = "dirs",
         writing[w].made < Len(writing[w].path)
  PROVE  LET c == writing[w]
             dir == SubSeq(c.path, 1, c.made + 1)
         IN /\ c \in [op : {"dirs", "write"}, path : Seq(Names), made : Nat,
                     node : Nat, data : Contents, pos : Nat, since : 0 .. MaxChanges]
            /\ c.made + 1 \in 1 .. Len(c.path) /\ Len(c.path) \in Nat
            /\ dir \in Seq(Names) /\ Last(dir) \in Names
            /\ Front(dir) = SubSeq(c.path, 1, c.made) /\ Front(dir) \in Seq(Names)
            /\ dir = Append(Front(dir), Last(dir))
  <1> DEFINE c == writing[w]
             k == c.made + 1
  <1>1. c \in WriteState /\ c.op = "dirs"
    BY TypeParts DEF WritersOK
  <1>2. /\ c \in [op : {"dirs", "write"}, path : Seq(Names), made : Nat,
                  node : Nat, data : Contents, pos : Nat, since : 0 .. MaxChanges]
        /\ c.path \in Seq(Names) /\ c.made \in Nat
    BY <1>1, StateShape
  <1>3. Len(c.path) \in Nat /\ c.made < Len(c.path)
    BY <1>2, LenProperties
  <1> HIDE DEF c
  <1>4. k \in 1 .. Len(c.path) /\ k - 1 = c.made
    BY <1>2, <1>3
  <1>5. LET part == SubSeq(c.path, 1, k) IN
         /\ part \in Seq(Names) /\ Last(part) \in Names
         /\ Front(part) = SubSeq(c.path, 1, k - 1) /\ Front(part) \in Seq(Names)
         /\ part = Append(Front(part), Last(part))
    BY <1>2, <1>4, PathParts
  <1> QED
    BY <1>2, <1>3, <1>4, <1>5 DEF c

\* It comes one directory further.
LEMMA CreateDirArrives ==
  ASSUME TypeOK, TypeOK', Arrived, NEW w \in Writers, CreateDir(w)
  PROVE  Going(writing'[w], nodes', changes)
  <1> DEFINE c == writing[w]
             dir == SubSeq(c.path, 1, c.made + 1)
             parent == Lookup(Front(dir))
             missing == /\ Leads(Front(dir), "Dir")
                        /\ nodes[parent.node].entries[Last(dir)] = NoEntry
             s == IF Made(dir, missing) THEN [c EXCEPT !.made = @ + 1] ELSE Idle
  <1>0. IsFileSystem(nodes) /\ IsFileSystem(nodes') /\ WritersOK
    BY TypeParts DEF TypeOK, IsFileSystem
  <1>1. /\ c.op = "dirs" /\ c.made < Len(c.path) - 1
        /\ writing' = [writing EXCEPT ![w] = s]
        /\ IF missing THEN nodes' = Enter(parent.node, Last(dir), EmptyDir)
           ELSE UNCHANGED nodes
    BY DEF CreateDir, Update
  <1>2. c.made < Len(c.path)
    <2>1. c \in WriteState
      BY <1>0 DEF WritersOK
    <2>2. c.made \in Nat /\ Len(c.path) \in Nat
      BY <1>1, <2>1, StateShape, LenProperties
    <2> QED
      BY <1>1, <2>2
  <1>3. /\ c \in [op : {"dirs", "write"}, path : Seq(Names), made : Nat,
                  node : Nat, data : Contents, pos : Nat, since : 0 .. MaxChanges]
        /\ c.made + 1 \in 1 .. Len(c.path) /\ Len(c.path) \in Nat
        /\ dir \in Seq(Names) /\ Last(dir) \in Names
        /\ Front(dir) = SubSeq(c.path, 1, c.made) /\ Front(dir) \in Seq(Names)
        /\ dir = Append(Front(dir), Last(dir))
    BY <1>1, <1>2, NextDir
  <1>4. writing'[w] = s
    BY <1>0, <1>1 DEF WritersOK
  <1>5. CASE ~Made(dir, missing)
    BY <1>4, <1>5 DEF Going, Idle
  <1>6. CASE Made(dir, missing)
    <2>1. s = [c EXCEPT !.made = @ + 1]
      BY <1>6
    <2>2. /\ s.since = c.since /\ s.made = c.made + 1 /\ s.path = c.path
      BY <1>3, <2>1
    <2>3. c.since <= changes
      BY <1>1 DEF Arrived, Going
    <2>4. s.made < Len(s.path)
      <3>1. c.made \in Nat
        BY <1>3
      <3>2. \A i, j \in Nat : i < j - 1 => i + 1 < j
        OBVIOUS
      <3>3. c.made < Len(c.path) - 1 /\ Len(c.path) \in Nat
        BY <1>1, <1>3
      <3> HIDE DEF c, s
      <3> QED
        BY <2>2, <3>1, <3>2, <3>3
    <2>5. LeadsIn(nodes', dir, "Dir")
      <3>1. CASE missing
        <4>1. Leads(Front(dir), "Dir")
          BY <3>1
        <4>2. /\ LeadsIn(nodes, Front(dir), "Dir")
              /\ \A d : EndsAt(nodes, Start(Front(dir)), d) => parent.node = d
          BY <1>0, <1>3, <4>1, LeadsIs
        <4>3. PICK d \in DOMAIN nodes :
                EndsAt(nodes, Start(Front(dir)), d) /\ nodes[d].kind = "Dir"
          BY <4>2 DEF LeadsIn
        <4>4. /\ nodes' = Enter(d, Last(dir), EmptyDir)
              /\ nodes[d].entries[Last(dir)] = NoEntry
          BY <1>1, <3>1, <4>2, <4>3
        <4>5. EmptyDir \in Node /\ EmptyDir.kind = "Dir"
              /\ \A y \in Names : EmptyDir.entries[y] = NoEntry
          BY NodeShape
        <4> HIDE DEF dir, parent, missing, s, c
        <4>6. /\ NewNode(nodes) \in DOMAIN nodes' /\ nodes'[NewNode(nodes)] = EmptyDir
              /\ nodes'[d].entries[Last(dir)] = NewNode(nodes) /\ Keeps(nodes, nodes')
          BY <1>0, <1>3, <4>3, <4>4, <4>5, EnterEvolves
        <4>7. NewNode(nodes) # NoEntry
          BY <1>0, <4>5, NodeAppended DEF IsFileSystem
        <4>8. EndsAt(nodes', Start(Front(dir)), d)
          BY <1>0, <1>3, <4>3, <4>6, StartType, KeepsWalk
        <4>9. d \in DOMAIN nodes' /\ nodes'[d].kind = "Dir"
          BY <4>3, <4>6 DEF Keeps, Grown
        <4>10. EndsAt(nodes', Start(Append(Front(dir), Last(dir))), NewNode(nodes))
          <5>1. /\ nodes'[d].entries[Last(dir)] # NoEntry
                /\ nodes'[nodes'[d].entries[Last(dir)]].kind # "Link"
            BY <4>5, <4>6, <4>7
          <5>2. EndsAt(nodes', Start(Append(Front(dir), Last(dir))), nodes'[d].entries[Last(dir)])
            BY <1>0, <1>3, <4>8, <4>9, <5>1, PathEntry
          <5> QED
            BY <4>6, <5>2
        <4>11. EndsAt(nodes', Start(dir), NewNode(nodes))
          BY <1>3, <4>10
        <4> QED
          BY <4>5, <4>6, <4>11 DEF LeadsIn
      <3>2. CASE ~missing
        <4>1. Leads(dir, "Dir") /\ nodes' = nodes
          BY <1>1, <1>6, <3>2 DEF Made
        <4> QED
          BY <1>0, <1>3, <4>1, LeadsIs
      <3> QED
        BY <3>1, <3>2
    <2> HIDE DEF s
    <2> QED
      BY <1>4, <2>2, <2>3, <2>4, <2>5 DEF Going
  <1> QED
    BY <1>5, <1>6

\* Every step keeps Arrived.
LEMMA ArrivedStep ==
  ASSUME TypeOK, Arrived, [Next]_vars, TypeOK'
  PROVE  Arrived'
  <1>0. /\ IsFileSystem(nodes) /\ IsFileSystem(nodes') /\ WritersOK
        /\ \A v \in Writers : writing[v] \in WriteState
    BY TypeParts DEF TypeOK, IsFileSystem, WritersOK
  <1>1. ASSUME NEW v \in Writers, Keeps(nodes, nodes') PROVE Going(writing[v], nodes', changes)
    BY <1>0, <1>1, GoingStays DEF Arrived
  <1>2. ASSUME Grown(nodes, nodes') PROVE nodes'[Root].kind = "Dir"
    BY <1>0, <1>2, RootThere DEF Grown, Arrived
  <1>3. ASSUME Keeps(nodes, nodes'), writing' = writing, changes' = changes PROVE Arrived'
    BY <1>1, <1>2, <1>3 DEF Arrived, Keeps
  <1>4. CASE Foreign
    <2>1. Grown(nodes, nodes') /\ writing' = writing /\ changes' = changes + 1
      BY <1>0, <1>4, ForeignEvolves DEF Evolved, Foreign
    <2>2. changes \in Nat
      BY <1>0 DEF WritersOK
    <2>3. ASSUME NEW v \in Writers PROVE Going(writing[v], nodes', changes + 1)
      <3>1. CASE writing[v].op = "dirs"
        <4>1. writing[v].since \in Nat /\ writing[v].since <= changes
              /\ (writing[v].made = 0 \/ writing[v].made < Len(writing[v].path))
          <5>1. writing[v] \in [op : {"dirs", "write"}, path : Seq(Names), made : Nat,
                   node : Nat, data : Contents, pos : Nat, since : 0 .. MaxChanges]
            BY <1>0, <3>1, StateShape
          <5>2. writing[v].since \in Nat
            BY <5>1
          <5> QED
            BY <3>1, <5>2 DEF Arrived, Going
        <4>2. writing[v].since <= changes + 1 /\ writing[v].since # changes + 1
          BY <2>2, <4>1
        <4> QED
          BY <4>1, <4>2 DEF Going
      <3>2. CASE writing[v].op # "dirs"
        BY <3>2 DEF Going
      <3> QED
        BY <3>1, <3>2
    <2> QED
      BY <1>2, <2>1, <2>3 DEF Arrived
  <1>5. CASE CallbackStep
    <2>1. nodes' = nodes /\ writing' = writing /\ changes' = changes
      BY <1>5, CallbackType DEF Unchanged
    <2> QED
      BY <1>3, <2>1, KeepsSame
  <1>6. ASSUME NEW w \in Writers,
               \/ WriteFile(w) \/ CreateDir(w) \/ Create(w)
               \/ WriteBlock(w) \/ Written(w) \/ WriteFails(w)
        PROVE  Arrived'
    <2>1. /\ Keeps(nodes, nodes') /\ changes' = changes
          /\ \E s : writing' = [writing EXCEPT ![w] = s]
      <3>1. CASE WriteFile(w) \/ CreateDir(w) \/ Create(w)
        BY <1>0, <3>1, WriteFileEffect, CreateDirEffect, CreateEffect DEF Prepares, Opens, Becomes
      <3>2. CASE WriteBlock(w)
        BY <1>0, <3>2, WriteBlockEffect DEF Writes, Becomes
      <3>3. CASE Written(w) \/ WriteFails(w)
        BY <1>0, <3>3, EndsEffect, KeepsSame DEF Ends, Becomes
      <3> QED
        BY <1>6, <3>1, <3>2, <3>3
    <2>2. ASSUME NEW v \in Writers, v # w PROVE writing'[v] = writing[v]
      BY <2>1, <2>2
    <2>3. Going(writing'[w], nodes', changes)
      <3>1. CASE WriteFile(w)
        <4>1. PICK p \in Writable, l \in 1 .. MaxBlocks :
                writing' = [writing EXCEPT ![w] =
                  [op |-> "dirs", path |-> ResolvePath(p), made |-> 0, node |-> 0,
                   data |-> Content(writes + 1, l), pos |-> 0, since |-> changes]]
          BY <3>1 DEF WriteFile, Update
        <4>2. /\ writing'[w].made = 0 /\ writing'[w].since = changes
              /\ writing'[w].path = ResolvePath(p)
          BY <1>0, <4>1 DEF WritersOK
        <4>3. ResolvePath(p) \in Seq(Names)
          BY PathType
        <4>4. SubSeq(ResolvePath(p), 1, 0) = <<>>
          BY <4>3, SubSeqEmpty
        <4>5. LeadsIn(nodes', <<>>, "Dir")
          BY <1>0, <1>2, <2>1, RootLeads DEF Keeps
        <4>6. changes \in Nat
          BY <1>0 DEF WritersOK
        <4>7. SubSeq(writing'[w].path, 1, writing'[w].made) = <<>>
          BY <4>2, <4>4
        <4>8. writing'[w].since <= changes
          BY <4>2, <4>6
        <4>9. LeadsIn(nodes', SubSeq(writing'[w].path, 1, writing'[w].made), "Dir")
          BY <4>5, <4>7
        <4> QED
          BY <4>2, <4>8, <4>9 DEF Going
      <3>2. CASE CreateDir(w)
        BY <3>2, CreateDirArrives
      <3>3. CASE Create(w)
        <4>1. (\E i : Opened(w, i)) \/ Update(w, Idle)
          BY <3>3 DEF Create
        <4>2. writing'[w].op # "dirs"
          <5>1. CASE Update(w, Idle)
            BY <1>0, <5>1 DEF Update, WritersOK, Idle
          <5>2. CASE \E i : Opened(w, i)
            <6>1. writing[w] \in [op : {"dirs", "write"}, path : Seq(Names), made : Nat,
                     node : Nat, data : Contents, pos : Nat, since : 0 .. MaxChanges]
              BY <1>0, <3>3, StateShape DEF Create
            <6>2. PICK i : writing' =
                    [writing EXCEPT ![w] = [writing[w] EXCEPT !.op = "write", !.node = i]]
              BY <5>2 DEF Opened, Update
            <6>3. writing'[w] = [writing[w] EXCEPT !.op = "write", !.node = i]
              BY <1>0, <6>2 DEF WritersOK
            <6> QED
              BY <6>1, <6>3
          <5> QED
            BY <4>1, <5>1, <5>2
        <4> QED
          BY <4>2 DEF Going
      <3>4. CASE WriteBlock(w)
        <4>1. writing[w].op = "write" /\ writing'[w] = [writing[w] EXCEPT !.pos = @ + 1]
          BY <1>0, <3>4 DEF WriteBlock, Update, WritersOK
        <4>2. writing[w] \in [op : {"dirs", "write"}, path : Seq(Names), made : Nat,
                     node : Nat, data : Contents, pos : Nat, since : 0 .. MaxChanges]
          BY <1>0, <4>1, StateShape
        <4>3. writing'[w].op = "write"
          BY <4>1, <4>2
        <4> QED
          BY <4>3 DEF Going
      <3>5. CASE Written(w) \/ WriteFails(w)
        <4>1. writing'[w] = Idle
          BY <1>0, <3>5 DEF Written, WriteFails, Update, WritersOK
        <4> QED
          BY <4>1 DEF Going, Idle
      <3> QED
        BY <1>6, <3>1, <3>2, <3>3, <3>4, <3>5
    <2> QED
      BY <1>1, <1>2, <2>1, <2>2, <2>3 DEF Arrived, Keeps
  <1>7. CASE UNCHANGED vars
    BY <1>3, <1>7, KeepsSame DEF vars
  <1> QED
    BY <1>4, <1>5, <1>6, <1>7 DEF Next, CallbackStep

\* It holds of the file system at the start.
LEMMA RealInit == Init => RealInv
  <1> SUFFICES ASSUME Init PROVE RealInv
    OBVIOUS
  <1>1. /\ nodes = Initial /\ callback = Idle /\ answer = None
        /\ writing = [w \in Writers |-> Idle]
        /\ writes = 0 /\ changes = 0 /\ mixed = {} /\ seen = {}
    BY DEF Init
  <1>2. IsFileSystem(nodes)
    BY <1>1, RealVfsAssumption DEF IsFileSystem
  <1>3. CallbackOK(callback, nodes) /\ AnswerOK(answer)
    BY <1>1 DEF CallbackOK, AnswerOK, Idle
  <1>4. WritersOK
    <2>1. \A w \in Writers : writing[w].op = "idle"
      BY <1>1 DEF Idle
    <2>2. writing \in [Writers -> WriteState]
      BY <1>1 DEF WriteState
    <2> QED
      BY <1>1, <2>1, <2>2, RealVfsAssumption DEF WritersOK, HandlesOK
  <1>5. TypeOK
    BY <1>2, <1>3, <1>4, TypeParts
  <1>6. WholeContents
    BY <1>1, RealVfsAssumption DEF WholeContents, None
  <1>7. Alone /\ Reading /\ Listing
    BY <1>1 DEF Alone, Reading, Listing, Idle
  <1>8. ListedAsFound
    BY <1>1 DEF ListedAsFound, None
  <1>9. Arrived
    BY <1>1, RealVfsAssumption DEF Arrived, Going, Idle, Root
  <1> QED
    BY <1>5, <1>6, <1>7, <1>8, <1>9 DEF RealInv

\* It is kept by every step.
LEMMA RealStep == RealInv /\ [Next]_vars => RealInv'
  <1> SUFFICES ASSUME RealInv, [Next]_vars PROVE RealInv'
    OBVIOUS
  <1>1. TypeOK /\ AtRest /\ Answered /\ Alone /\ Reading /\ Listing /\ ListedAsFound
        /\ Arrived
    BY DEF RealInv, WholeContents, AtRest, Answered
  <1>2. TypeOK'
    BY <1>1, TypeStep
  <1>3. AtRest' /\ Answered' /\ Alone' /\ Reading'
    BY <1>1, <1>2, AtRestStep, AnsweredStep, AloneStep, ReadingStep
  <1>4. Listing' /\ ListedAsFound' /\ Arrived'
    BY <1>1, <1>2, ListingStep, ListedStep, ArrivedStep
  <1> QED
    BY <1>2, <1>3, <1>4 DEF RealInv, WholeContents, AtRest, Answered

\* The file system, the callbacks and the writers keep the inductive invariant.
THEOREM RealInvariant == Spec => []RealInv
  <1>1. Init => RealInv
    BY RealInit
  <1>2. RealInv /\ [Next]_vars => RealInv'
    BY RealStep
  <1> QED
    BY <1>1, <1>2, PTL DEF Spec

\* Type correctness: the file system stays a tree, which the directories made and
\* the files created by write_file and by other processes are entered into, and
\* every handle is of a file or directory that is there.
THEOREM TypeCorrect == Spec => []TypeOK
  <1>1. RealInv => TypeOK
    BY DEF RealInv
  <1> QED
    BY <1>1, RealInvariant, PTL

\* A file at rest, and what read_file returns, is the whole content of one
\* write_file, unless calls overlapped on the file or one failed.
THEOREM ContentsAreWhole == Spec => []WholeContents
  <1>1. RealInv => WholeContents
    BY DEF RealInv
  <1> QED
    BY <1>1, RealInvariant, PTL

\* What get_accessible_entries lists, file_exists and directory_exists find at some
\* moment of the listing, and it lists what they find throughout and is no link,
\* unless the path led elsewhere meanwhile.
THEOREM ListingsAgree == Spec => []ListedAsFound
  <1>1. RealInv => ListedAsFound
    BY DEF RealInv
  <1> QED
    BY <1>1, RealInvariant, PTL
\* Where a path is blocked.
LEMMA BlockedAt ==
  ASSUME NEW path, NEW k \in 1 .. Len(path),
         LET part == SubSeq(path, 1, k)
             way == Lookup(Front(part))
         IN /\ way.error = "" /\ nodes[way.node].kind = "Dir"
            /\ nodes[way.node].entries[Last(part)] # NoEntry
            /\ ~Leads(part, IF k = Len(path) THEN "File" ELSE "Dir")
  PROVE  Blocked(path)
  BY DEF Blocked

\* write_file gives up before the write only if something is in the way.
LEMMA BlockedStep ==
  ASSUME TypeOK, Arrived, [Next]_vars, NEW w \in Writers,
         writing[w].op = "dirs", writing'[w] = Idle, writing[w].since = changes
  PROVE  Blocked(writing[w].path)
  <1> DEFINE c == writing[w]
             path == c.path
             k == c.made + 1
             dir == SubSeq(path, 1, k)
             parent == Lookup(Front(dir))
             missing == /\ Leads(Front(dir), "Dir")
                        /\ nodes[parent.node].entries[Last(dir)] = NoEntry
             Blocks(i) ==
               LET part == SubSeq(path, 1, i)
                   way == Lookup(Front(part))
               IN /\ way.error = "" /\ nodes[way.node].kind = "Dir"
                  /\ nodes[way.node].entries[Last(part)] # NoEntry
                  /\ ~Leads(part, IF i = Len(path) THEN "File" ELSE "Dir")
  <1>0. IsFileSystem(nodes) /\ WritersOK /\ c \in WriteState
    BY TypeParts DEF WritersOK
  <1>1. /\ path \in Seq(Names) /\ c.made \in Nat /\ Len(path) \in Nat
        /\ c \in [op : {"dirs", "write"}, path : Seq(Names), made : Nat,
                  node : Nat, data : Contents, pos : Nat, since : 0 .. MaxChanges]
    BY <1>0, StateShape, LenProperties
  <1>2. (c.made = 0 \/ c.made < Len(path)) /\ LeadsIn(nodes, SubSeq(path, 1, c.made), "Dir")
    BY DEF Arrived, Going
  <1>3. CreateDir(w) \/ Create(w)
    <2>1. c # Idle
      BY DEF Idle
    <2>2. ASSUME NEW v \in Writers, v # w,
                 \/ WriteFile(v) \/ CreateDir(v) \/ Create(v)
                 \/ WriteBlock(v) \/ Written(v) \/ WriteFails(v)
          PROVE  writing'[w] = writing[w]
      <3>1. \E s : writing' = [writing EXCEPT ![v] = s]
        <4>1. CASE WriteFile(v) \/ CreateDir(v) \/ Create(v)
          BY <1>0, <4>1, WriteFileEffect, CreateDirEffect, CreateEffect DEF Prepares, Opens, Becomes
        <4>2. CASE WriteBlock(v)
          BY <1>0, <4>2, WriteBlockEffect DEF Writes, Becomes
        <4>3. CASE Written(v) \/ WriteFails(v)
          BY <1>0, <4>3, EndsEffect DEF Ends, Becomes
        <4> QED
          BY <2>2, <4>1, <4>2, <4>3
      <3> QED
        BY <2>2, <3>1
    <2>3. WriteFile(w) \/ WriteBlock(w) \/ Written(w) \/ WriteFails(w) => FALSE
      BY DEF WriteFile, WriteBlock, Written, WriteFails, Idle
    <2>4. CallbackStep \/ Foreign \/ UNCHANGED vars => writing' = writing
      BY CallbackType DEF Unchanged, Foreign, vars
    <2> QED
      BY <2>1, <2>2, <2>3, <2>4 DEF Next, CallbackStep
  <1>4. CASE path = <<>>
    BY <1>4 DEF Blocked
  <1>5. CASE path # <<>>
    <2>1. c.made < Len(path)
      <3>1. Len(path) # 0
        BY <1>1, <1>5, EmptySeq
      <3> HIDE DEF path, c
      <3> QED
        BY <1>1, <1>2, <3>1
    <2>2. /\ k \in 1 .. Len(path)
          /\ dir \in Seq(Names) /\ Last(dir) \in Names
          /\ Front(dir) = SubSeq(path, 1, c.made) /\ Front(dir) \in Seq(Names)
          /\ dir = Append(Front(dir), Last(dir))
      BY <2>1, NextDir
    <2>3. /\ LeadsIn(nodes, Front(dir), "Dir")
          /\ Leads(Front(dir), "Dir") /\ parent.error = "" /\ nodes[parent.node].kind = "Dir"
          /\ parent.node \in DOMAIN nodes /\ EndsAt(nodes, Start(Front(dir)), parent.node)
      <3>1. LeadsIn(nodes, Front(dir), "Dir")
        BY <1>2, <2>2
      <3>2. PICK d \in DOMAIN nodes :
              EndsAt(nodes, Start(Front(dir)), d) /\ nodes[d].kind = "Dir"
        BY <3>1 DEF LeadsIn
      <3>3. parent.error = "" /\ parent.node = d
        BY <1>0, <2>2, <3>2, LeadsIs
      <3>4. Leads(Front(dir), "Dir")
        BY <1>0, <2>2, <3>1, LeadsIs
      <3> QED
        BY <3>1, <3>2, <3>3, <3>4
    <2>4. CASE CreateDir(w)
      <3>1. /\ c.made < Len(path) - 1
            /\ writing' = [writing EXCEPT ![w] =
                 IF Made(dir, missing) THEN [c EXCEPT !.made = @ + 1] ELSE Idle]
        BY <2>4 DEF CreateDir, Update
      <3>2. ~Made(dir, missing)
        <4>1. SUFFICES ASSUME Made(dir, missing) PROVE FALSE
          OBVIOUS
        <4>2. writing'[w] = [c EXCEPT !.made = @ + 1]
          BY <1>0, <3>1, <4>1 DEF WritersOK
        <4>3. writing'[w].op = "dirs"
          BY <1>1, <4>2
        <4> QED
          BY <4>3 DEF Idle
      <3>3. ~missing /\ ~Leads(dir, "Dir")
        BY <3>2 DEF Made
      <3>4. nodes[parent.node].entries[Last(dir)] # NoEntry
        BY <2>3, <3>3
      <3>5. k # Len(path)
        BY <1>1, <3>1
      <3>6. Blocks(k)
        <4> HIDE DEF k, path
        <4> QED
          BY <2>3, <3>3, <3>4, <3>5
      <3> QED
        BY <2>2, <3>6, BlockedAt
    <2>5. CASE Create(w)
      <3> DEFINE f == Lookup(path)
      <3>1. /\ c.made >= Len(path) - 1
            /\ IF Leads(path, "File") THEN Opened(w, f.node)
               ELSE IF f.error = "NotFound" /\ Len(f.rest) = 1 THEN Opened(w, Len(nodes) + 1)
               ELSE Update(w, Idle)
        BY <2>5 DEF Create
      <3>2. k = Len(path) /\ dir = path
        <4>1. k = Len(path)
          <5> HIDE DEF path, c
          <5> QED
            BY <1>1, <2>1, <3>1
        <4> QED
          BY <1>1, <4>1, SubSeqFull
      <3>3. ASSUME NEW i, Opened(w, i) PROVE FALSE
        <4>1. writing' = [writing EXCEPT ![w] = [c EXCEPT !.op = "write", !.node = i]]
          BY <3>3 DEF Opened, Update
        <4>2. writing'[w] = [c EXCEPT !.op = "write", !.node = i]
          BY <1>0, <4>1 DEF WritersOK
        <4>3. writing'[w].op = "write"
          BY <1>1, <4>2
        <4> QED
          BY <4>3 DEF Idle
      <3>4. ~Leads(path, "File") /\ ~(f.error = "NotFound" /\ Len(f.rest) = 1)
        BY <3>1, <3>3
      <3>5. nodes[parent.node].entries[Last(dir)] # NoEntry
        <4>1. SUFFICES ASSUME nodes[parent.node].entries[Last(dir)] = NoEntry PROVE FALSE
          OBVIOUS
        <4>2. WalkOn(nodes)[Start(Append(Front(dir), Last(dir)))]
                = [error |-> "NotFound", dir |-> parent.node, rest |-> <<Last(dir)>>]
          <5> HIDE DEF parent, dir, path
          <5> QED
            BY <1>0, <2>2, <2>3, <4>1, PathEntry
        <4>3. f = WalkOn(nodes)[Start(path)]
          BY <1>0, <1>1, LeadsIs
        <4>4. f = [error |-> "NotFound", dir |-> parent.node, rest |-> <<Last(dir)>>]
          BY <2>2, <3>2, <4>2, <4>3
        <4>5. Len(<<Last(dir)>>) = 1
          OBVIOUS
        <4> HIDE DEF parent, dir, f
        <4>6. f.error = "NotFound" /\ f.rest = <<Last(dir)>>
          BY <4>4
        <4> QED
          BY <3>4, <4>5, <4>6
      <3>6. Blocks(k)
        <4>1. ~Leads(dir, "File")
          BY <3>2, <3>4
        <4> HIDE DEF k, path
        <4> QED
          BY <2>3, <3>2, <3>5, <4>1
      <3> QED
        BY <2>2, <3>6, BlockedAt
    <2> QED
      BY <1>3, <2>4, <2>5
  <1> QED
    BY <1>4, <1>5

\* write_file reaches the write, whatever other calls of write_file and the
\* callbacks do meanwhile, unless something on its path is in the way or another
\* process has changed the file system since the call.
THEOREM FailuresAreBlocked == Spec => FailsOnlyBlocked
  <1>1. RealInv /\ [Next]_vars =>
          [\A w \in Writers :
             /\ writing[w].op = "dirs" /\ writing'[w] = Idle
             /\ writing[w].since = changes
             => Blocked(writing[w].path)]_vars
    BY BlockedStep DEF RealInv
  <1> QED
    BY <1>1, RealInvariant, PTL DEF Spec, FailsOnlyBlocked
=============================================================================
